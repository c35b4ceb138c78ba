------------------------- MODULE CronTicker_proofs -------------------------
(***************************************************************************)
(* Proofs about CronTicker, for every set of periods and any number of      *)
(* writes, errors and crashes: the heartbeat never dies, and it never beats *)
(* at twice its rate for long.                                              *)
(***************************************************************************)
EXTENDS CronTicker, SequenceTheorems, TLAPS

(* What makes HeartbeatArmed inductive: the watch ends at the present Cron, *)
(* and the worker only creates an Action for a Cron that was not going,     *)
(* which is the one in the cache unless a newer one queued it again.        *)
WatchEndsAtCron == IF feed = <<>> THEN cached = cron ELSE feed[Len(feed)] = cron

ArmedInv == /\ TypeOK
            /\ WatchEndsAtCron
            /\ pc = "Create" => ~local.deleting /\ (queued \/ local = cached)
            /\ HeartbeatArmed

(* A requeue after a positive time arms the timer, and so does an error.    *)
LEMMA SoonerArms ==
  ASSUME timer \in Nat \cup {NoTimer}, NEW d \in Nat
  PROVE  Sooner(d) \in Nat
  BY DEF Sooner, NoTimer

(* The back-off after an error leaves the timer armed. *)
LEMMA BackoffArms ==
  ASSUME timer \in Nat \cup {NoTimer}, Backoff
  PROVE  timer' \in Nat
<1>1. PICK d \in 1 .. MaxPeriod : timer' = Sooner(d)
  BY DEF Backoff
<1> QED
  BY <1>1, SoonerArms, TickerAssumption

(* Before any Cron the invariant holds. *)
LEMMA InitArmed == Init => ArmedInv
<1> SUFFICES ASSUME Init PROVE ArmedInv
  OBVIOUS
<1> USE DEF Init
<1>1. TypeOK
  <2>1. feed \in Seq(Cron \cup {NoCron})
    BY EmptySeq
  <2>2. cron \in Cron \cup {NoCron} /\ cached \in Cron \cup {NoCron} /\ local \in Cron \cup {NoCron}
    OBVIOUS
  <2>3. last \in Nat /\ before \in Nat /\ calm \in 0 .. 3 /\ timer \in Nat \cup {NoTimer}
    OBVIOUS
  <2>4. writes \in 0 .. MaxWrites /\ faults \in 0 .. MaxFaults
    BY TickerAssumption
  <2> QED
    BY <2>1, <2>2, <2>3, <2>4 DEF TypeOK
<1>2. WatchEndsAtCron /\ HeartbeatArmed
  BY DEF WatchEndsAtCron, HeartbeatArmed, Beating, NoCron
<1> QED
  BY <1>1, <1>2 DEF ArmedInv

(* Every step keeps it: a period of 0 breaks the chain only if the Cron     *)
(* still has it, or an event that mends the chain is on its way.            *)
LEMMA NextArmed == ArmedInv /\ [Next]_vars => ArmedInv'
<1> SUFFICES ASSUME ArmedInv, [Next]_vars PROVE ArmedInv'
  OBVIOUS
<1> USE TickerAssumption DEF ArmedInv, TypeOK, WatchEndsAtCron, HeartbeatArmed, Beating
<1>a. Cron \cup {NoCron} = Cron \cup {NoCron} /\ NoCron.deleting
  BY DEF NoCron
<1>1. ASSUME NEW c \in Cron \cup {NoCron}, WriteCron(c) PROVE ArmedInv'
  BY <1>1 DEF WriteCron
<1>2. CASE Deliver
  <2>1. Head(feed) \in Cron \cup {NoCron} /\ Tail(feed) \in Seq(Cron \cup {NoCron})
    BY <1>2 DEF Deliver
  <2>2. WatchEndsAtCron'
    <3>1. feed # <<>> /\ cached' = feed[1] /\ feed' = Tail(feed) /\ cron' = cron
      BY <1>2 DEF Deliver
    <3>2. Len(Tail(feed)) = Len(feed) - 1 /\ Len(feed) \in Nat \ {0}
      BY <3>1, HeadTailProperties, EmptySeq
    <3>a. \A i \in 1 .. Len(Tail(feed)) : Tail(feed)[i] = feed[i + 1]
      BY <3>1, HeadTailProperties
    <3>3. CASE Tail(feed) = <<>>
      <4>1. Len(feed) = 1
        <5>1. Len(Tail(feed)) = 0
          BY <3>3, EmptySeq
        <5>2. Len(Tail(feed)) = Len(feed) - 1 /\ Len(feed) \in Nat
          BY <3>2
        <5> QED
          BY ONLY <5>1, <5>2
      <4> QED
        BY <3>1, <3>3, <4>1
    <3>4. CASE Tail(feed) # <<>>
      <4>1. Len(Tail(feed)) \in Nat \ {0}
        BY <2>1, <3>4, EmptySeq
      <4>2. Tail(feed)[Len(Tail(feed))] = feed[Len(feed)]
        BY <3>2, <3>a, <4>1
      <4> QED
        BY <3>1, <3>4, <4>2
    <3> QED
      BY <3>3, <3>4
  <2> QED
    BY <1>2, <2>1, <2>2 DEF Deliver
<1>3. CASE Pass
  <2>1. timer' \in Nat \cup {NoTimer} /\ (timer # NoTimer => timer' # NoTimer)
    BY <1>3 DEF Pass, NoTimer
  <2>2. last' \in Nat /\ before' \in Nat
    BY <1>3 DEF Pass, Later
  <2> QED
    BY <1>3, <2>1, <2>2 DEF Pass
<1>4. CASE Fire
  BY <1>4 DEF Fire
<1>5. CASE GetCron
  BY <1>5 DEF GetCron
<1>6. CASE CreateAction
  <2>1. local.period \in Nat
    <3>1. local \in Cron
      BY <1>6, <1>a DEF CreateAction
    <3>2. local.period \in 0 .. MaxPeriod
      BY <3>1 DEF Cron
    <3> QED
      BY <3>2
  <2>2. timer' \in Nat \/ (local.period = 0 /\ timer' = timer)
    BY <1>6, <2>1, SoonerArms DEF CreateAction, RequeueAfter
  <2>3. last' \in Nat /\ before' \in Nat /\ calm' \in 0 .. 3
    BY <1>6 DEF CreateAction, Beat
  <2>4. HeartbeatArmed'
    <3>1. CASE timer' \in Nat
      BY <3>1 DEF NoTimer
    <3>2. CASE local.period = 0
      BY <1>6, <3>2 DEF CreateAction, Beating
    <3> QED
      BY <2>2, <3>1, <3>2
  <2> QED
    BY <1>6, <2>2, <2>3, <2>4 DEF CreateAction
<1>7. CASE GetCronFails
  <2>1. timer' \in Nat
    BY <1>7, BackoffArms DEF GetCronFails, Retry
  <2>2. TypeOK'
    <3>1. queued' \in BOOLEAN
      BY <1>7 DEF GetCronFails
    <3>2. faults' \in 0 .. MaxFaults /\ calm' \in 0 .. 3
      BY <1>7 DEF GetCronFails, Retry
    <3> QED
      BY <1>7, <2>1, <3>1, <3>2 DEF GetCronFails, Retry
  <2> QED
    BY <1>7, <2>1, <2>2 DEF GetCronFails, Retry, NoTimer
<1>8. CASE CreateActionFails
  <2>1. timer' \in Nat
    BY <1>8, BackoffArms DEF CreateActionFails, Retry
  <2> QED
    BY <1>8, <2>1 DEF CreateActionFails, Retry, NoTimer
<1>9. CASE CreateActionTimesOut
  <2>1. timer' \in Nat
    BY <1>9, BackoffArms DEF CreateActionTimesOut, Retry
  <2> QED
    BY <1>9, <2>1 DEF CreateActionTimesOut, Retry, NoTimer
<1>10. CASE Crash
  <2>1. TypeOK'
    <3>1. feed' \in Seq(Cron \cup {NoCron})
      BY <1>10, EmptySeq DEF Crash
    <3> QED
      BY <1>10, <3>1 DEF Crash
  <2>2. ~cron.deleting => queued'
    BY <1>10, <1>a DEF Crash
  <2> QED
    BY <1>10, <2>1, <2>2 DEF Crash
<1>11. CASE UNCHANGED vars
  BY <1>11 DEF vars
<1> QED
  BY <1>1, <1>2, <1>3, <1>4, <1>5, <1>6, <1>7, <1>8, <1>9, <1>10, <1>11 DEF Next

(* The heartbeat of a Cron that is there is always armed. *)
THEOREM HeartbeatArmedCorrect == Spec => []HeartbeatArmed
<1>1. ArmedInv => HeartbeatArmed
  BY DEF ArmedInv
<1> QED
  BY InitArmed, NextArmed, <1>1, PTL DEF Spec

(* The variables of the Cron controller keep their types.                   *)
THEOREM TypeCorrect == Spec => []TypeOK
<1>1. ArmedInv => TypeOK
  BY DEF ArmedInv
<1> QED
  BY InitArmed, NextArmed, <1>1, PTL DEF Spec

-----------------------------------------------------------------------------
(* What keeps the beats apart.  An event or an error may leave three things  *)
(* that lead to a beat: a call, an entry of the queue and a timer.  The      *)
(* first beat that follows brings the timer to no more than one entry, so    *)
(* two are left.  The second beat takes one of them, and sets the other off  *)
(* by a period from that beat; from the third on every beat is a period away *)
(* from the last but one, which is the chain it belongs to.                  *)
Armed == timer # NoTimer

Bounded == last <= MaxPeriod /\ before <= MaxPeriod

(* After one beat. *)
TwoChains == calm >= 1 /\ pc = "Create" => local = cached /\ ~(queued /\ Armed)

(* After two. *)
ChainsApart == calm >= 2 =>
  /\ Armed /\ (queued \/ pc = "Create") => last + timer >= cached.period
  /\ queued /\ pc = "Create" => last >= cached.period

(* After three. *)
InStep == calm = 3 =>
  /\ queued \/ pc = "Create" => before >= cached.period
  /\ Armed => before + timer >= cached.period

ApartInv == ArmedInv /\ Bounded /\ TwoChains /\ ChainsApart /\ InStep

(* The numbers of the state. *)
LEMMA CountersTyped ==
  ASSUME TypeOK
  PROVE  /\ MaxPeriod \in Nat /\ cached.period \in 0 .. MaxPeriod
         /\ local.period \in 0 .. MaxPeriod
         /\ last \in Nat /\ before \in Nat /\ calm \in 0 .. 3
         /\ timer \in Int /\ (Armed => timer \in Nat)
<1>1. \A c \in Cron \cup {NoCron} : c.period \in 0 .. MaxPeriod
  <2>1. \A c \in Cron : c.period \in 0 .. MaxPeriod
    BY TickerAssumption DEF Cron
  <2>2. NoCron.period \in 0 .. MaxPeriod
    BY TickerAssumption DEF NoCron
  <2> QED
    BY <2>1, <2>2
<1> QED
  BY <1>1, TickerAssumption DEF TypeOK, Armed, NoTimer

(* An event, an error or a crash starts the count of undisturbed beats anew. *)
LEMMA DisturbedApart ==
  ASSUME calm' = 0
  PROVE  TwoChains' /\ ChainsApart' /\ InStep'
  BY DEF TwoChains, ChainsApart, InStep

(* Time passes for timer and beats alike; the counts of time stop at the    *)
(* longest period, which is no shorter than the one that is waited for.     *)
LEMMA PassApart == ApartInv /\ Pass => Bounded' /\ TwoChains' /\ ChainsApart' /\ InStep'
<1> SUFFICES ASSUME ApartInv, Pass PROVE Bounded' /\ TwoChains' /\ ChainsApart' /\ InStep'
  OBVIOUS
<1>1. /\ MaxPeriod \in Nat /\ cached.period \in 0 .. MaxPeriod
      /\ last \in 0 .. MaxPeriod /\ before \in 0 .. MaxPeriod /\ calm \in 0 .. 3
      /\ timer \in Int /\ (Armed => timer \in Nat)
  BY CountersTyped DEF ApartInv, ArmedInv, Bounded
<1>2. /\ last' = IF last < MaxPeriod THEN last + 1 ELSE last
      /\ before' = IF before < MaxPeriod THEN before + 1 ELSE before
      /\ timer' = IF timer > 0 THEN timer - 1 ELSE timer
      /\ UNCHANGED <<queued, pc, local, cached, calm>>
  BY DEF Pass, Later
<1>3. Armed' = Armed
  BY <1>1, <1>2 DEF Armed, NoTimer
<1>4. /\ last' >= last /\ before' >= before
      /\ last' \in 0 .. MaxPeriod /\ before' \in 0 .. MaxPeriod
  BY <1>1, <1>2
<1>5. \A n \in 0 .. MaxPeriod :
        /\ Armed /\ last + timer >= n => last' + timer' >= n
        /\ Armed /\ before + timer >= n => before' + timer' >= n
  BY <1>1, <1>2
<1>6. Bounded' /\ TwoChains'
  BY <1>2, <1>3, <1>4 DEF ApartInv, Bounded, TwoChains
<1>7. ChainsApart'
  <2>1. last >= cached.period => last' >= cached.period
    BY <1>1, <1>4
  <2> QED
    BY <1>1, <1>2, <1>3, <1>5, <2>1 DEF ApartInv, ChainsApart
<1>8. InStep'
  <2>1. before >= cached.period => before' >= cached.period
    BY <1>1, <1>4
  <2> QED
    BY <1>1, <1>2, <1>3, <1>5, <2>1 DEF ApartInv, InStep
<1> QED
  BY <1>6, <1>7, <1>8

(* A beat: the timer is a period off from now, or sooner if a chain has it. *)
LEMMA BeatApart == ApartInv /\ CreateAction => Bounded' /\ TwoChains' /\ ChainsApart' /\ InStep'
<1> SUFFICES ASSUME ApartInv, CreateAction
             PROVE  Bounded' /\ TwoChains' /\ ChainsApart' /\ InStep'
  OBVIOUS
<1>1. /\ MaxPeriod \in Nat /\ cached.period \in 0 .. MaxPeriod
      /\ last \in 0 .. MaxPeriod /\ before \in 0 .. MaxPeriod /\ calm \in 0 .. 3
      /\ timer \in Int /\ (Armed => timer \in Nat)
  BY CountersTyped DEF ApartInv, ArmedInv, Bounded
<1>2. /\ pc = "Create" /\ pc' = "Idle" /\ last' = 0 /\ before' = last
      /\ calm' = (IF calm < 3 THEN calm + 1 ELSE calm)
      /\ UNCHANGED <<queued, cached>>
  BY DEF CreateAction, Beat
<1>3. calm >= 1 => local = cached /\ ~(queued /\ Armed)
  BY <1>2 DEF ApartInv, TwoChains
<1>4. Bounded' /\ TwoChains'
  BY <1>1, <1>2 DEF Bounded, TwoChains
<1>5. CASE calm = 0
  <2>1. calm' = 1
    BY <1>2, <1>5
  <2> QED
    BY <1>4, <2>1 DEF ChainsApart, InStep
<1>6. CASE calm >= 1
  <2> DEFINE p == cached.period
  <2>1. timer' = IF p > 0 /\ (~Armed \/ p < timer) THEN p ELSE timer
    BY <1>1, <1>3, <1>6 DEF CreateAction, RequeueAfter, Sooner, Armed
  <2>2. ~Armed => timer' = p \/ ~Armed'
    BY <1>1, <2>1 DEF Armed, NoTimer
  <2>3. Armed => timer' = timer \/ timer' = p
    BY <2>1
  <2>4. queued /\ Armed' => timer' >= p
    BY <1>1, <1>3, <1>6, <2>2
  <2>5. ChainsApart'
    BY <1>1, <1>2, <2>1, <2>4 DEF ChainsApart, Armed, NoTimer
  <2>6. InStep'
    <3>1. SUFFICES ASSUME calm' = 3
                   PROVE  /\ queued => last >= p
                          /\ Armed' => last + timer' >= p
      BY <1>2 DEF InStep
    <3>2. calm >= 2
      BY <1>1, <1>2, <3>1
    <3>3. queued => last >= p
      BY <1>2, <3>2 DEF ApartInv, ChainsApart
    <3>4. Armed => last + timer >= p
      BY <1>2, <3>2 DEF ApartInv, ChainsApart
    <3>5. Armed' => last + timer' >= p
      BY <1>1, <2>2, <2>3, <3>4
    <3> QED
      BY <3>3, <3>5
  <2> QED
    BY <1>4, <2>5, <2>6
<1> QED
  BY <1>1, <1>4, <1>5, <1>6

(* Every step keeps the beats apart. *)
LEMMA NextApart == ApartInv /\ [Next]_vars => ApartInv'
<1> SUFFICES ASSUME ApartInv, [Next]_vars PROVE Bounded' /\ TwoChains' /\ ChainsApart' /\ InStep'
  BY NextArmed DEF ApartInv
<1>0. /\ MaxPeriod \in Nat /\ cached.period \in 0 .. MaxPeriod
      /\ last \in 0 .. MaxPeriod /\ before \in 0 .. MaxPeriod /\ calm \in 0 .. 3
      /\ timer \in Int /\ (Armed => timer \in Nat)
  BY CountersTyped DEF ApartInv, ArmedInv, Bounded
<1>1. ASSUME UNCHANGED <<cached, queued, timer, pc, local, last, before, calm>>
      PROVE  Bounded' /\ TwoChains' /\ ChainsApart' /\ InStep'
  BY <1>1 DEF ApartInv, Bounded, TwoChains, ChainsApart, InStep, Armed
<1>2. CASE Fire
  <2>1. /\ timer = 0 /\ Armed /\ ~Armed' /\ queued' = TRUE
        /\ UNCHANGED <<cached, pc, local, last, before, calm>>
    BY <1>2 DEF Fire, Armed, NoTimer
  <2>2. Bounded' /\ TwoChains'
    BY <2>1 DEF ApartInv, Bounded, TwoChains
  <2>3. ChainsApart' /\ InStep'
    BY <1>0, <2>1 DEF ApartInv, ChainsApart, InStep
  <2> QED
    BY <2>2, <2>3
<1>3. CASE GetCron
  <2>1. /\ pc = "Idle" /\ queued /\ queued' = FALSE /\ local' = cached
        /\ UNCHANGED <<cached, timer, last, before, calm>> /\ Armed' = Armed
    BY <1>3 DEF GetCron, Armed
  <2> QED
    BY <2>1 DEF ApartInv, Bounded, TwoChains, ChainsApart, InStep
<1>4. CASE Deliver \/ GetCronFails \/ CreateActionFails \/ CreateActionTimesOut \/ Crash
  <2>1. calm' = 0
    BY <1>4 DEF Deliver, GetCronFails, CreateActionFails, CreateActionTimesOut, Crash, Retry
  <2>2. last' \in {last, 0} /\ before' \in {before, last}
    BY <1>4 DEF Deliver, GetCronFails, CreateActionFails, CreateActionTimesOut, Crash
  <2>3. Bounded'
    BY <1>0, <2>2 DEF Bounded
  <2> QED
    BY <2>1, <2>3, DisturbedApart
<1>5. CASE \E c \in Cron \cup {NoCron} : WriteCron(c)
  BY <1>1, <1>5 DEF WriteCron
<1>6. CASE UNCHANGED vars
  BY <1>1, <1>6 DEF vars
<1> QED
  BY <1>2, <1>3, <1>4, <1>5, <1>6, PassApart, BeatApart DEF Next

(* BeatsApart: whatever events, errors, timers and late beats came before,  *)
(* once three came undisturbed, no three beats fall within one period.      *)
THEOREM BeatsApartCorrect == Spec => BeatsApart
<1>1. Init => ApartInv
  BY InitArmed, TickerAssumption
  DEF Init, ApartInv, Bounded, TwoChains, ChainsApart, InStep
<1>2. ApartInv /\ CreateAction /\ calm = 3 => before >= local.period
  BY DEF ApartInv, CreateAction, InStep, TwoChains
<1>3. ApartInv /\ [Next]_vars => (CreateAction /\ calm = 3 => before >= local.period)
  BY <1>2
<1> QED
  BY <1>1, <1>3, NextApart, PTL DEF Spec, BeatsApart
=============================================================================
