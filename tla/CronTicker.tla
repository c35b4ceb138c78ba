----------------------------- MODULE CronTicker -----------------------------
(***************************************************************************)
(* The Cron controller: the heartbeat that creates "down" Actions           *)
(* (controllers/cron_controller.go).  One worker takes the Cron out of the  *)
(* work queue, reads it from the informer's cache, creates an Action and    *)
(* asks to be called again after the Cron's period.                         *)
(*                                                                          *)
(* The Board controller creates, updates and deletes the Cron.  The cache   *)
(* follows the API server one event after another; each event also puts     *)
(* the Cron into the queue.  The delayed part of the queue holds one entry  *)
(* per object and keeps the earlier of two times, so it is one timer: the   *)
(* time left until the Cron goes back into the queue.                       *)
(***************************************************************************)
EXTENDS Integers, Sequences

CONSTANTS
  MaxPeriod,   \* bound: the longest period and the longest wait before a retry
  Periods,     \* the values of spec.period
  MaxWrites,   \* bound: writes of the Cron by others
  MaxFaults    \* bound: API errors and crashes

ASSUME TickerAssumption ==
  /\ MaxPeriod \in Nat /\ Periods \subseteq 0 .. MaxPeriod
  /\ MaxWrites \in Nat /\ MaxFaults \in Nat

VARIABLES
  cron,     \* the Cron object "cron", or NoCron
  feed,     \* its versions the watch has yet to deliver, oldest first
  cached,   \* the version in the cache
  queued,   \* the work queue holds the Cron
  timer,    \* time left of the delayed entry, or NoTimer
  pc,       \* the call Reconcile makes next
  local,    \* the Cron that Reconcile read
  last,     \* history: time since the last beat, up to the longest period
  before,   \* history: time since the beat before that one, likewise
  calm,     \* history: beats since the last event or error, up to 3
  writes, faults

vars == <<cron, feed, cached, queued, timer, pc, local, last, before, calm, writes, faults>>

Cron   == [period : Periods, deleting : BOOLEAN]
NoCron == [period |-> 0, deleting |-> TRUE]

NoTimer == -1

(* Types and bounds of the variables. *)
TypeOK ==
  /\ cron \in Cron \cup {NoCron} /\ cached \in Cron \cup {NoCron} /\ local \in Cron \cup {NoCron}
  /\ feed \in Seq(Cron \cup {NoCron})
  /\ queued \in BOOLEAN
  /\ timer \in Nat \cup {NoTimer}
  /\ pc \in {"Idle", "Create"}
  /\ last \in Nat /\ before \in Nat /\ calm \in 0 .. 3
  /\ writes \in 0 .. MaxWrites /\ faults \in 0 .. MaxFaults

Init ==
  /\ cron = NoCron /\ feed = <<>> /\ cached = NoCron
  /\ queued = FALSE /\ timer = NoTimer
  /\ pc = "Idle" /\ local = NoCron
  /\ last = 0 /\ before = 0 /\ calm = 0
  /\ writes = 0 /\ faults = 0

-----------------------------------------------------------------------------
(* The Board controller, the garbage collector, the watch and the clock.    *)

(* It is created, updated, removed, or marked as being deleted. *)
Follows(c) ==
  \/ c = NoCron
  \/ ~c.deleting /\ (cron = NoCron \/ ~cron.deleting)
  \/ ~cron.deleting /\ c = [cron EXCEPT !.deleting = TRUE]

WriteCron(c) ==
  /\ writes < MaxWrites /\ writes' = writes + 1
  /\ c # cron /\ Follows(c)
  /\ cron' = c
  /\ feed' = Append(feed, c)
  /\ UNCHANGED <<cached, queued, timer, pc, local, last, before, calm, faults>>

Deliver ==
  /\ feed # <<>>
  /\ cached' = Head(feed) /\ feed' = Tail(feed)
  /\ queued' = TRUE
  /\ calm' = 0
  /\ UNCHANGED <<cron, timer, pc, local, last, before, writes, faults>>

Later(t) == IF t < MaxPeriod THEN t + 1 ELSE t

Pass ==
  /\ timer > 0 \/ before < MaxPeriod \/ last < MaxPeriod
  /\ timer' = IF timer > 0 THEN timer - 1 ELSE timer
  /\ last' = Later(last) /\ before' = Later(before)
  /\ UNCHANGED <<cron, feed, cached, queued, pc, local, calm, writes, faults>>

Fire ==
  /\ timer = 0
  /\ timer' = NoTimer /\ queued' = TRUE
  /\ UNCHANGED <<cron, feed, cached, pc, local, last, before, calm, writes, faults>>

-----------------------------------------------------------------------------
(* Reconcile. *)

(* AddAfter of the queue keeps the earlier of two times. *)
Sooner(d) == IF timer = NoTimer \/ d < timer THEN d ELSE timer

\* Mutant: the time since the last beat is subtracted, late as it may be.
RequeueSinceLast(d) == timer' = IF d > 0 THEN Sooner(d - last) ELSE timer

(* RequeueAfter: a duration of zero means no requeue. *)
RequeueAfter(d) == timer' = IF d > 0 THEN Sooner(d) ELSE timer

\* Mutant: a Cron that is not found is looked for again.
GetCronInsists ==
  /\ pc = "Idle" /\ queued
  /\ queued' = FALSE
  /\ local' = cached
  /\ IF cached.deleting
     THEN RequeueAfter(1) /\ UNCHANGED pc
     ELSE pc' = "Create" /\ UNCHANGED timer
  /\ UNCHANGED <<cron, feed, cached, last, before, calm, writes, faults>>

(* A Cron that is gone or going is not beaten any more. *)
GetCron ==
  /\ pc = "Idle" /\ queued
  /\ queued' = FALSE
  /\ local' = cached
  /\ pc' = IF cached.deleting THEN "Idle" ELSE "Create"
  /\ UNCHANGED <<cron, feed, cached, timer, last, before, calm, writes, faults>>

Beat ==
  /\ last' = 0 /\ before' = last
  /\ calm' = IF calm < 3 THEN calm + 1 ELSE calm

\* Mutants: the next call is asked for in a fixed time; it is not asked for.
CreateActionFixed ==
  /\ pc = "Create"
  /\ Beat
  /\ RequeueAfter(1)
  /\ pc' = "Idle"
  /\ UNCHANGED <<cron, feed, cached, queued, local, writes, faults>>

CreateActionOnce ==
  /\ pc = "Create"
  /\ Beat
  /\ pc' = "Idle"
  /\ UNCHANGED <<cron, feed, cached, queued, timer, local, writes, faults>>

CreateAction ==
  /\ pc = "Create"
  /\ Beat
  /\ RequeueAfter(local.period)
  /\ pc' = "Idle"
  /\ UNCHANGED <<cron, feed, cached, queued, local, writes, faults>>

(* An error: the queue retries after a time of its own choice.             *)
Backoff == \E d \in 1 .. MaxPeriod : timer' = Sooner(d)

\* Mutant: an error is not retried.
RetryNever ==
  /\ faults < MaxFaults /\ faults' = faults + 1
  /\ pc' = "Idle" /\ calm' = 0
  /\ UNCHANGED <<cron, feed, cached, timer, local, writes>>

Retry ==
  /\ faults < MaxFaults /\ faults' = faults + 1
  /\ Backoff
  /\ pc' = "Idle" /\ calm' = 0
  /\ UNCHANGED <<cron, feed, cached, local, writes>>

GetCronFails ==
  /\ pc = "Idle" /\ queued
  /\ queued' = FALSE
  /\ Retry
  /\ UNCHANGED <<last, before>>

CreateActionFails == pc = "Create" /\ Retry /\ UNCHANGED <<queued, last, before>>

(* The Action was created, the answer is lost. *)
CreateActionTimesOut ==
  /\ pc = "Create"
  /\ last' = 0 /\ before' = last
  /\ Retry
  /\ UNCHANGED queued

(* The manager restarts: the first list fills cache and queue. *)
Crash ==
  /\ faults < MaxFaults /\ faults' = faults + 1
  /\ cached' = cron /\ feed' = <<>>
  /\ queued' = (cron # NoCron)
  /\ timer' = NoTimer
  /\ pc' = "Idle" /\ local' = NoCron
  /\ calm' = 0
  /\ UNCHANGED <<cron, last, before, writes>>

-----------------------------------------------------------------------------
Next == \/ \E c \in Cron \cup {NoCron} : WriteCron(c)
        \/ Deliver \/ Pass \/ Fire
        \/ GetCron \/ CreateAction
        \/ GetCronFails \/ CreateActionFails \/ CreateActionTimesOut \/ Crash

Spec == Init /\ [][Next]_vars

(* The watch, the clock, the delayed queue and the worker wait for nobody.  *)
FairSpec == /\ Spec
            /\ WF_vars(Deliver) /\ WF_vars(Pass) /\ WF_vars(Fire)
            /\ WF_vars(GetCron) /\ WF_vars(CreateAction)

-----------------------------------------------------------------------------
(* A Cron with a period that is to be kept up: 0 means no requeue.          *)
Beating == ~cron.deleting /\ cron.period > 0

(* api/v1/cron_types.go: "Cron Controller is reconciled periodically every  *)
(* `Period` millisec".  As long as there is a Cron, something is under way  *)
(* that leads to the next beat: an event, a queue entry, a call or a timer. *)
(* A period of 0 stops it, and the event of the next period starts it anew. *)
HeartbeatArmed == Beating => feed # <<>> \/ queued \/ pc # "Idle" \/ timer # NoTimer

(* Events, errors and timers that meet never make two heartbeats of one.    *)
(* A slow worker may be late with a beat and bring the next one close to    *)
(* it, but once three beats came undisturbed, a beat and the one after the  *)
(* next are at least a period apart.                                        *)
BeatsApart == [][CreateAction /\ calm = 3 => before >= local.period]_vars

(* A Cron that stays keeps beating, whatever periods it had before. *)
HeartbeatGoesOn == <>[]Beating => []<><<CreateAction>>_vars

(* The heartbeat stops once the Cron is gone for good. *)
HeartbeatStops == <>[](cron.deleting) => <>[](timer = NoTimer /\ ~queued /\ pc = "Idle")
=============================================================================
