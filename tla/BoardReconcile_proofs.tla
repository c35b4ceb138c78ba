------------------------ MODULE BoardReconcile_proofs ------------------------
(***************************************************************************)
(* Proofs about BoardReconcile, for boards of every size, every set of      *)
(* minoes and any number of Actions, Boards and faults: the controller      *)
(* implements the game of BoardGame, handles an Action at most once, and    *)
(* leaves nothing undone at rest.                                           *)
(*                                                                          *)
(* One inductive invariant, IInv, carries all of it.  Its parts say what    *)
(* the worker has in hand between two calls, as a function of the stored    *)
(* Board as long as that is the one it read (Copy), and where the flags     *)
(* say that nobody will look again, that there is nothing to look at        *)
(* (Attended, CronInStep).                                                  *)
(***************************************************************************)
EXTENDS BoardReconcile, Playfield_proofs

(* A Board is either there, with a UID and a spec, or not.                  *)
Stored ==
  /\ board # NoBoard => board.uid # 0 /\ board.specState # "Absent"
  /\ WellFormed(board.status)
  /\ board.status.state = "Playing" => board.specState = "Playing"

(* The worker's copy is a Board too, initialised, and with a mino when it   *)
(* comes to the Actions.                                                    *)
InHand ==
  IF pc = "Idle"
  THEN ~stale
  ELSE /\ local.uid # 0 /\ local.specState # "Absent"
       /\ WellFormed(local.status) /\ local.status.data \in Grid
       /\ local.status.state = "Playing" => local.specState = "Playing"
       /\ pc = "List" => (local.status.state # "GameOver" => HasMino(local.status))

PreparedFor(b) == ReconcileCurrentMino(InitStatus(b.status, b.specState))

(* What a reconcile of b may make of its status. *)
Outcome(b, s) ==
  \/ s \in PreparedFor(b)
  \/ \E p \in PreparedFor(b), op \in Ops \cup {UnknownOp} : s \in HandleOp(p, op)

(* As long as nobody wrote to the Board, the copy is what a reconcile of    *)
(* the stored one makes of it so far.                                       *)
Copy ==
  pc # "Idle" /\ ~stale =>
    /\ BoardLives
    /\ local.uid = board.uid /\ local.specState = board.specState /\ local.wait = board.wait
    /\ pc = "Mino" => local.status = InitStatus(board.status, board.specState)
    /\ pc = "List" => local.status \in PreparedFor(board)
    /\ pc \notin {"Mino", "List"} => Outcome(board, local.status)

(* An id names one Action, and the one that was handled is gone, or is the  *)
(* next to be deleted.                                                      *)
Listed ==
  /\ \A a, b \in actions \cup todo : a.id = b.id => a = b
  /\ \A a \in actions : a.id = first => pc = "Delete" /\ a \in todo
  /\ pc \in {"Idle", "Mino", "List"} => first = 0
  /\ pc # "Delete" => todo = {}

(* While no event is on its way or queued, all there is to see of the Board *)
(* and its Actions is being seen to or has been.                            *)
Attended ==
  BoardLives /\ ~notified /\ ~queued =>
    /\ ~stale
    /\ pc = "Idle" => board.status.data # NoData /\ actions = {}
    /\ pc \notin {"Idle", "Mino", "List"} => actions \subseteq todo

(* The Cron that the state of a Board asks for. *)
CronFor(b) == IF b.status.state = "Playing" THEN [owner |-> b.uid, period |-> b.wait] ELSE NoCron

(* A lost Cron is not there, one that is picked is; otherwise the Cron is   *)
(* as it should be from the time the worker made it so until it looks again.*)
CronInStep ==
  /\ cronLost => cron = NoCron
  /\ gcPicked => cron # NoCron
  /\ ~cronLost /\ pc = "Update" /\ ~stale => cron = CronFor(local)
  /\ ~cronLost /\ pc = "Idle" /\ BoardLives /\ ~notified /\ ~queued => cron = CronFor(board)

IInv == TypeOK /\ Stored /\ InHand /\ Copy /\ Listed /\ AtMostOnce /\ Attended /\ CronInStep

-----------------------------------------------------------------------------
(* Data. *)

(* No Board and no Cron are values of their types. *)
LEMMA NoneTypes == /\ NoBoard \in BoardObject /\ NoCron \in CronObject
                   /\ NoBoard.uid = 0 /\ NoBoard.status = FreshStatus
<1>1. FreshStatus \in Status
  BY DEF FreshStatus, Status
<1>2. 0 \in 0 .. MaxBoards
  BY ReconcileAssumption
<1> QED
  BY <1>1, <1>2 DEF NoBoard, NoCron, BoardObject, CronObject

(* A Board that was never reconciled is well formed. *)
LEMMA FreshWellFormed == WellFormed(FreshStatus)
<1>1. FreshStatus \in Status
  BY DEF FreshStatus, Status
<1>2. FreshStatus.currentMino = <<>> /\ FreshStatus.data = NoData
  BY DEF FreshStatus
<1> QED
  BY <1>1, <1>2 DEF WellFormed, Coherent, MinoFits, MinoRests, HasMino

(* Writing a status changes nothing else of a Board. *)
LEMMA WithStatus ==
  ASSUME NEW b \in BoardObject, NEW s \in Status
  PROVE  LET c == [b EXCEPT !.status = s]
         IN  /\ c \in BoardObject /\ c.status = s
             /\ c.uid = b.uid /\ c.specState = b.specState /\ c.wait = b.wait
             /\ c.deleting = b.deleting
  BY DEF BoardObject

(* The initialisation of a Board. *)
LEMMA InitStatusOf ==
  ASSUME NEW b \in BoardObject, WellFormed(b.status), b.specState # "Absent",
         b.status.state = "Playing" => b.specState = "Playing"
  PROVE  LET s == InitStatus(b.status, b.specState)
         IN  /\ WellFormed(s) /\ s \in Status /\ s.data \in Grid
             /\ s.state = "Playing" => b.specState = "Playing"
<1> DEFINE s == InitStatus(b.status, b.specState)
<1>1. b.specState \in {"Playing", "GameOver"}
  BY DEF BoardObject
<1>2. WellFormed(s) /\ s.data \in Grid
  BY <1>1, InitStatusWellFormed
<1>3. s.state \in {b.status.state, b.specState}
  BY DEF InitStatus, BoardObject, Status
<1> QED
  BY <1>2, <1>3 DEF WellFormed

(* A new mino does not start a game. *)
LEMMA ReconcileCurrentMinoKeepsState ==
  ASSUME NEW b \in Status, NEW r \in ReconcileCurrentMino(b)
  PROVE  r.state = "Playing" => b.state = "Playing"
<1>1. CASE ~NeedsMino(b)
  BY <1>1 DEF ReconcileCurrentMino
<1>2. CASE NeedsMino(b)
  <2>1. PICK t \in Minoes : r = NewMino(b, t)
    BY <1>2 DEF ReconcileCurrentMino
  <2> QED
    BY <2>1 DEF NewMino, Status
<1> QED
  BY <1>1, <1>2

-----------------------------------------------------------------------------
(* The parts of the invariant hold at first. *)
LEMMA InitIInv == Init => IInv
<1> SUFFICES ASSUME Init PROVE IInv
  OBVIOUS
<1> USE DEF Init
<1>1. TypeOK
  <2>1. 0 \in 0 .. MaxActions /\ 0 \in 0 .. MaxBoards /\ 0 \in 0 .. MaxIncidents
    BY ReconcileAssumption
  <2>2. /\ board \in BoardObject /\ local \in BoardObject
        /\ cron \in CronObject /\ seenCron \in CronObject
    BY NoneTypes
  <2>3. actions \subseteq ActionObject /\ todo \subseteq ActionObject /\ applied \subseteq ActionIds
    OBVIOUS
  <2>4. notified \in BOOLEAN /\ queued \in BOOLEAN /\ stale \in BOOLEAN /\ gcPicked \in BOOLEAN
        /\ cronLost \in BOOLEAN
    OBVIOUS
  <2>5. /\ pc \in Steps /\ first \in 0 .. MaxActions
        /\ uids \in 0 .. MaxBoards /\ incidents \in 0 .. MaxIncidents
    BY <2>1 DEF Steps
  <2> QED
    BY <2>2, <2>3, <2>4, <2>5 DEF TypeOK
<1>2. Stored
  <2>1. WellFormed(board.status)
    BY NoneTypes, FreshWellFormed
  <2>2. FreshStatus.state # "Playing"
    BY DEF FreshStatus
  <2> QED
    BY <2>1, <2>2, NoneTypes DEF Stored
<1>3. InHand /\ Copy
  BY DEF InHand, Copy
<1>4. Listed /\ AtMostOnce
  BY DEF Listed, AtMostOnce
<1>5. Attended /\ CronInStep
  BY DEF Attended, CronInStep, BoardLives
<1> QED
  BY <1>1, <1>2, <1>3, <1>4, <1>5 DEF IInv

-----------------------------------------------------------------------------
(* Who writes what. *)

WritesStatus ==
  /\ pc = "Update" /\ ~stale /\ WriteStatus
  /\ Abandon /\ UNCHANGED <<actions, cron, notified, gcPicked, uids>>
  /\ queued => queued'

WritesBoard ==
  \/ (\E s \in {"Playing", "GameOver"} : CreateBoard(s)) \/ DeleteBoard
  \/ MarkBoardDeleted \/ UpdateWait
  \/ WritesStatus

(* Nothing else touches the stored Board. *)
LEMMA BoardWriters == [Next]_vars => UNCHANGED board \/ WritesBoard
<1> SUFFICES ASSUME Next PROVE UNCHANGED board \/ WritesBoard
  BY DEF vars, store
<1>1. CASE Environment
  BY <1>1 DEF Environment, WritesBoard, CreateAction
<1>2. CASE Collector \/ Deliver
  BY <1>2 DEF Collector, CollectAction, PickCron, CollectCron, Deliver, store
<1>3. CASE Reconcile
  <2>1. CASE UpdateStatus
    BY <2>1 DEF UpdateStatus, WritesBoard, WritesStatus, Return, bounds
  <2> QED
    BY <1>3, <2>1 DEF Reconcile, GetBoard, PrepareMino, ListActions, DeleteAction, GetCron,
                      WriteCron, store
<1>4. CASE Failure
  <2>1. CASE UpdateStatusTimesOut
    BY <2>1 DEF UpdateStatusTimesOut, WritesBoard, WritesStatus, Return
  <2> QED
    BY <1>4, <2>1 DEF Failure, GetBoardFails, CallFails, DeleteActionTimesOut, WriteCronTimesOut,
                      Crash, store
<1> QED
  BY <1>1, <1>2, <1>3, <1>4 DEF Next

(* The worker's steps; any other leaves alone what the worker has in memory,*)
(* and takes note of a change of the Board.                                 *)
Prepares ==
  /\ pc = "Idle" /\ BoardLives /\ Prepare
  /\ UNCHANGED <<store, notified, first, todo, seenCron, gcPicked, bounds, hist>>

DeletesAction ==
  /\ pc = "Delete"
  /\ \E a \in todo : /\ NextToDelete(a) /\ a \in actions
                     /\ actions' = actions \ {a} /\ todo' = todo \ {a}
                     /\ pc' = IF todo = {a} THEN "CronGet" ELSE "Delete"
  /\ UNCHANGED <<board, cron, queue, local, stale, first, seenCron, gcPicked, bounds, hist>>

WritesCron ==
  /\ pc = "CronWrite" /\ cron = seenCron
  /\ ReplaceCron
  /\ pc' = "Update" /\ seenCron' = NoCron
  /\ UNCHANGED <<board, actions, queue, local, stale, first, todo, bounds, applied>>

Works == Prepares \/ PrepareMino \/ ListActions \/ DeletesAction \/ GetCron \/ WritesCron

Idles ==
  /\ UNCHANGED <<pc, local, first, todo, seenCron>>
  /\ IF UNCHANGED board
     THEN UNCHANGED stale \/ stale' = (pc # "Idle")
     ELSE stale' = (pc # "Idle")

(* Every step is one of these three of the worker. *)
LEMMA WorkerSteps == [Next]_vars => Works \/ Abandon \/ Idles
<1> SUFFICES ASSUME Next PROVE Works \/ Abandon \/ Idles
  BY DEF vars, store, worker, Idles
<1>1. CASE Environment
  BY <1>1 DEF Environment, CreateAction, CreateBoard, DeleteBoard, MarkBoardDeleted, UpdateWait,
              WriteBoard, worker, Idles
<1>2. CASE Collector \/ Deliver
  BY <1>2 DEF Collector, CollectAction, PickCron, CollectCron, Deliver, store, worker, Idles
<1>3. CASE Reconcile
  <2>1. CASE GetBoard
    BY <2>1 DEF GetBoard, Works, Prepares, Idles, BoardLives, store
  <2>2. CASE DeleteAction
    BY <2>2 DEF DeleteAction, Works, DeletesAction, Return, queue
  <2>3. CASE WriteCron
    BY <2>3 DEF WriteCron, Works, WritesCron, Return, queue
  <2>4. CASE UpdateStatus
    BY <2>4 DEF UpdateStatus, Return
  <2> QED
    BY <1>3, <2>1, <2>2, <2>3, <2>4 DEF Reconcile, Works
<1>4. CASE Failure
  BY <1>4 DEF Failure, GetBoardFails, CallFails, DeleteActionTimesOut, WriteCronTimesOut,
              UpdateStatusTimesOut, Crash, Return, store, worker, Idles
<1> QED
  BY <1>1, <1>2, <1>3, <1>4 DEF Next

(* Actions come one at a time, with an id that nothing refers to.           *)
Adds == \E i \in UnusedIds, op \in ActionOps, owner \in 1 .. uids :
          /\ actions' = actions \cup {[id |-> i, op |-> op, owner |-> owner]}
          /\ notified' = TRUE
          /\ UNCHANGED <<board, cron, queued, worker, gcPicked, bounds, hist>>

(* Actions otherwise only go. *)
LEMMA ActionWriters == [Next]_vars => actions' \subseteq actions \/ Adds
<1> SUFFICES ASSUME Next PROVE actions' \subseteq actions \/ Adds
  BY DEF vars, store
<1>1. CASE Environment
  BY <1>1 DEF Environment, CreateAction, CreateBoard, DeleteBoard, MarkBoardDeleted, UpdateWait,
              Adds
<1>2. CASE Collector \/ Deliver
  BY <1>2 DEF Collector, CollectAction, PickCron, CollectCron, Deliver, store
<1>3. CASE Reconcile
  BY <1>3 DEF Reconcile, GetBoard, PrepareMino, ListActions, DeleteAction, GetCron, WriteCron,
              UpdateStatus, store
<1>4. CASE Failure
  BY <1>4 DEF Failure, GetBoardFails, CallFails, DeleteActionTimesOut, WriteCronTimesOut,
              UpdateStatusTimesOut, Crash, store
<1> QED
  BY <1>1, <1>2, <1>3, <1>4 DEF Next

(* The Cron is the worker's and the collector's. *)
LEMMA CronWriters ==
  [Next]_vars => \/ UNCHANGED <<cron, gcPicked, cronLost>>
                 \/ PickCron \/ CollectCron
                 \/ pc = "CronWrite" /\ ReplaceCron /\ (WritesCron \/ (Abandon /\ queued'))
<1> SUFFICES ASSUME Next
             PROVE  \/ UNCHANGED <<cron, gcPicked, cronLost>>
                    \/ PickCron \/ CollectCron
                    \/ pc = "CronWrite" /\ ReplaceCron /\ (WritesCron \/ (Abandon /\ queued'))
  BY DEF vars, store, hist
<1>1. CASE Environment
  BY <1>1 DEF Environment, CreateAction, CreateBoard, DeleteBoard, MarkBoardDeleted, UpdateWait,
              hist
<1>2. CASE Collector \/ Deliver
  BY <1>2 DEF Collector, CollectAction, Deliver, store, hist
<1>3. CASE Reconcile
  BY <1>3 DEF Reconcile, GetBoard, PrepareMino, ListActions, DeleteAction, GetCron, WriteCron,
              UpdateStatus, WriteStatus, WritesCron, Return, queue, store, hist
<1>4. CASE Failure
  BY <1>4 DEF Failure, GetBoardFails, CallFails, DeleteActionTimesOut, WriteCronTimesOut,
              UpdateStatusTimesOut, WriteStatus, Return, Crash, store, hist
<1> QED
  BY <1>1, <1>2, <1>3, <1>4 DEF Next

-----------------------------------------------------------------------------
(* Every step keeps the parts of the invariant.                             *)

(* The stored Board stays well formed: a status that is written to it is    *)
(* what a reconcile made of it.                                             *)
LEMMA NextStored ==
  ASSUME TypeOK, Stored, InHand, Copy, [Next]_vars
  PROVE  board' \in BoardObject /\ Stored'
<1> USE DEF TypeOK
<1>1. CASE UNCHANGED board
  BY <1>1 DEF Stored
<1>2. ASSUME NEW s \in {"Playing", "GameOver"}, CreateBoard(s)
      PROVE  board' \in BoardObject /\ Stored'
  <2> DEFINE b == [NoBoard EXCEPT !.uid = uids + 1, !.specState = s, !.wait = 1]
  <2>1. board' = b /\ uids + 1 \in 1 .. MaxBoards
    BY <1>2, ReconcileAssumption DEF CreateBoard, WriteBoard
  <2>2. /\ b \in BoardObject /\ b.uid = uids + 1 /\ b.specState = s
        /\ b.status = FreshStatus
    <3>1. uids + 1 \in 0 .. MaxBoards /\ NoBoard \in BoardObject /\ NoBoard.status = FreshStatus
      BY <2>1, NoneTypes
    <3>2. [NoBoard EXCEPT !.uid = uids + 1] \in BoardObject
      BY <3>1 DEF BoardObject
    <3> QED
      BY <3>1, <3>2 DEF BoardObject
  <2>3. WellFormed(FreshStatus) /\ FreshStatus.state # "Playing"
    BY FreshWellFormed DEF FreshStatus
  <2> HIDE DEF b
  <2> QED
    BY <2>1, <2>2, <2>3 DEF Stored
<1>3. CASE DeleteBoard
  <2>1. board' = NoBoard
    BY <1>3 DEF DeleteBoard, WriteBoard
  <2>2. WellFormed(FreshStatus) /\ FreshStatus.state # "Playing"
    BY FreshWellFormed DEF FreshStatus
  <2> QED
    BY <2>1, <2>2, NoneTypes DEF Stored
<1>4. CASE MarkBoardDeleted \/ UpdateWait
  <2>1. /\ board' \in BoardObject /\ board'.uid = board.uid
        /\ board'.specState = board.specState /\ board'.status = board.status
    <3>1. CASE MarkBoardDeleted
      BY <3>1 DEF MarkBoardDeleted, WriteBoard, BoardObject
    <3>2. CASE UpdateWait
      <4>1. board' = [board EXCEPT !.wait = board.wait + 1] /\ board.wait + 1 \in Nat
        BY <3>2 DEF UpdateWait, WriteBoard, BoardObject
      <4> QED
        BY <4>1 DEF BoardObject
    <3> QED
      BY <1>4, <3>1, <3>2
  <2> QED
    BY <1>4, <2>1 DEF MarkBoardDeleted, UpdateWait, Stored
<1>5. CASE WritesStatus
  <2>1. /\ board' = [board EXCEPT !.status = local.status] /\ local.status \in Status
        /\ board # NoBoard /\ local.specState = board.specState
    BY <1>5 DEF WritesStatus, WriteStatus, InHand, Copy, WellFormed, BoardLives
  <2>2. /\ board' \in BoardObject /\ board'.uid = board.uid
        /\ board'.specState = board.specState /\ board'.status = local.status
    BY <2>1, WithStatus
  <2> QED
    BY <1>5, <2>1, <2>2 DEF Stored, InHand, WritesStatus
<1> QED
  BY <1>1, <1>2, <1>3, <1>4, <1>5, BoardWriters DEF WritesBoard

(* The Board that Reconcile read, initialised. *)
LEMMA PreparesInHand ==
  ASSUME TypeOK, Stored, Prepares
  PROVE  /\ local' \in BoardObject /\ InHand' /\ Copy'
         /\ pc' \in {"Mino", "List"} /\ stale' = FALSE
<1> DEFINE s == InitStatus(board.status, board.specState)
<1>1. /\ board \in BoardObject /\ BoardLives /\ board' = board
      /\ local' = [board EXCEPT !.status = s] /\ stale' = FALSE
      /\ pc' = IF NeedsMino(local'.status) THEN "Mino" ELSE "List"
  BY DEF TypeOK, Prepares, Prepare, store
<1>2. /\ WellFormed(s) /\ s \in Status /\ s.data \in Grid
      /\ s.state = "Playing" => board.specState = "Playing"
  BY <1>1, InitStatusOf DEF Stored, BoardLives
<1>3. /\ local' \in BoardObject /\ local'.status = s /\ local'.uid = board.uid
      /\ local'.specState = board.specState /\ local'.wait = board.wait
  BY <1>1, <1>2, WithStatus
<1>4. ~NeedsMino(s) => /\ s.state # "GameOver" => HasMino(s)
                       /\ s \in PreparedFor(board)
  BY DEF NeedsMino, HasMino, PreparedFor, ReconcileCurrentMino
<1> HIDE DEF s
<1>5. InHand'
  BY <1>1, <1>2, <1>3, <1>4 DEF InHand, Stored, BoardLives
<1>6. Copy'
  <2>1. BoardLives'
    BY <1>1 DEF BoardLives
  <2>2. pc' = "Mino" => local'.status = InitStatus(board'.status, board'.specState)
    BY <1>1, <1>3 DEF s
  <2>3. pc' = "List" => local'.status \in PreparedFor(board')
    BY <1>1, <1>3, <1>4
  <2> QED
    BY <1>1, <1>3, <2>1, <2>2, <2>3 DEF Copy
<1> QED
  BY <1>1, <1>3, <1>5, <1>6

(* The mino it gives it.  *)
LEMMA PrepareMinoInHand ==
  ASSUME TypeOK, InHand, Copy, PrepareMino
  PROVE  local' \in BoardObject /\ InHand' /\ Copy'
<1>1. PICK s \in ReconcileCurrentMino(local.status) : local' = [local EXCEPT !.status = s]
  BY DEF PrepareMino
<1>2. pc = "Mino" /\ pc' = "List" /\ board' = board /\ stale' = stale
  BY DEF PrepareMino, store
<1>3. /\ WellFormed(local.status) /\ local.status \in Status /\ local.status.data \in Grid
      /\ local.uid # 0 /\ local.specState # "Absent"
      /\ local.status.state = "Playing" => local.specState = "Playing"
  BY <1>2 DEF InHand, WellFormed
<1>4. /\ WellFormed(s) /\ s \in Status /\ s.data \in Grid
      /\ s.state # "GameOver" => HasMino(s)
      /\ s.state = "Playing" => local.status.state = "Playing"
  BY <1>1, <1>3, ReconcileCurrentMinoWellFormed, ReconcileCurrentMinoKeepsState DEF WellFormed
<1>5. /\ local' \in BoardObject /\ local'.status = s /\ local'.uid = local.uid
      /\ local'.specState = local.specState /\ local'.wait = local.wait
  BY <1>1, <1>4, WithStatus DEF TypeOK
<1>6. InHand'
  BY <1>2, <1>3, <1>4, <1>5 DEF InHand
<1>7. Copy'
  <2>1. SUFFICES ASSUME stale = FALSE PROVE Copy'
    BY <1>2 DEF Copy, TypeOK
  <2>2. /\ BoardLives /\ local.uid = board.uid /\ local.specState = board.specState
        /\ local.wait = board.wait
        /\ local.status = InitStatus(board.status, board.specState)
    BY <1>2, <2>1 DEF Copy
  <2>3. BoardLives' /\ local'.status \in PreparedFor(board')
    BY <1>1, <1>2, <1>5, <2>2 DEF BoardLives, PreparedFor
  <2> QED
    BY <1>2, <1>5, <2>2, <2>3 DEF Copy
<1> QED
  BY <1>5, <1>6, <1>7

(* The first Action it lists. *)
LEMMA ListActionsInHand ==
  ASSUME TypeOK, InHand, Copy, ListActions
  PROVE  local' \in BoardObject /\ InHand' /\ Copy'
<1>1. /\ pc = "List" /\ pc' \in {"CronGet", "Delete"} /\ board' = board /\ stale' = stale
  BY DEF ListActions, store
<1>2. /\ WellFormed(local.status) /\ local.status \in Status /\ local.status.data \in Grid
      /\ local.uid # 0 /\ local.specState # "Absent"
      /\ local.status.state # "GameOver" => HasMino(local.status)
      /\ local.status.state = "Playing" => local.specState = "Playing"
  BY <1>1 DEF InHand, WellFormed
<1>3. CASE actions = {}
  <2>1. local' = local
    BY <1>3 DEF ListActions
  <2>2. InHand'
    BY <1>1, <1>2, <2>1 DEF InHand
  <2>3. Copy'
    BY <1>1, <2>1 DEF Copy, BoardLives, Outcome
  <2> QED
    BY <2>1, <2>2, <2>3 DEF TypeOK
<1>4. CASE actions # {}
  <2>a. PICK a \in actions :
          \E s \in HandleOp(local.status, a.op) : local' = [local EXCEPT !.status = s]
    BY <1>4 DEF ListActions
  <2>1. PICK s \in HandleOp(local.status, a.op) : local' = [local EXCEPT !.status = s]
    BY <2>a
  <2>2. WellFormed(s) /\ s \in Status /\ s.state = local.status.state
    BY <1>2, HandleOpWellFormed, HandleOpKeepsState DEF WellFormed
  <2>3. s.data \in Grid
    <3>1. local.status.state \in {"Playing", "GameOver"}
      BY <1>2, GridIsData DEF WellFormed, Coherent
    <3>2. FreshStatus.state = ""
      BY DEF FreshStatus
    <3>3. s # FreshStatus
      BY <2>2, <3>1, <3>2
    <3> QED
      BY <2>2, <3>3 DEF WellFormed, Coherent, Status
  <2>4. /\ local' \in BoardObject /\ local'.status = s /\ local'.uid = local.uid
        /\ local'.specState = local.specState /\ local'.wait = local.wait
    BY <2>1, <2>2, WithStatus DEF TypeOK
  <2>5. InHand'
    BY <1>1, <1>2, <2>2, <2>3, <2>4 DEF InHand
  <2>6. Copy'
    <3>1. SUFFICES ASSUME stale = FALSE PROVE Copy'
      BY <1>1 DEF Copy, TypeOK
    <3>2. /\ BoardLives /\ local.uid = board.uid /\ local.specState = board.specState
          /\ local.wait = board.wait /\ local.status \in PreparedFor(board)
      BY <1>1, <3>1 DEF Copy
    <3>3. a.op \in Ops \cup {UnknownOp}
      BY DEF TypeOK, ActionObject
    <3>4. BoardLives' /\ Outcome(board', local'.status)
      BY <1>1, <2>1, <2>4, <3>2, <3>3 DEF BoardLives, Outcome
    <3> QED
      BY <1>1, <2>4, <3>2, <3>4 DEF Copy
  <2> QED
    BY <2>4, <2>5, <2>6
<1> QED
  BY <1>3, <1>4

(* The copy in hand stays what the Board became since it was read. *)
LEMMA NextInHand ==
  ASSUME TypeOK, Stored, InHand, Copy, [Next]_vars
  PROVE  local' \in BoardObject /\ InHand' /\ Copy'
<1>1. CASE Prepares \/ PrepareMino \/ ListActions
  BY <1>1, PreparesInHand, PrepareMinoInHand, ListActionsInHand
<1>2. CASE DeletesAction \/ GetCron \/ WritesCron
  <2>1. /\ local' = local /\ board' = board /\ stale' = stale
        /\ pc \notin {"Idle", "Mino", "List"} /\ pc' \notin {"Idle", "Mino", "List"}
    BY <1>2 DEF DeletesAction, GetCron, WritesCron, store
  <2>2. InHand'
    BY <2>1 DEF InHand
  <2>3. Copy'
    BY <2>1 DEF Copy, BoardLives
  <2> QED
    BY <2>1, <2>2, <2>3 DEF TypeOK
<1>3. CASE Abandon
  BY <1>3, NoneTypes DEF Abandon, InHand, Copy
<1>4. CASE Idles
  <2>1. local' = local /\ pc' = pc /\ (pc = "Idle" => stale' = stale \/ stale' = FALSE)
    BY <1>4 DEF Idles
  <2>2. InHand'
    BY <2>1 DEF InHand, TypeOK
  <2>3. Copy'
    <3>1. SUFFICES ASSUME pc # "Idle", ~stale' PROVE Copy'
      BY <2>1 DEF Copy
    <3>2. board' = board /\ ~stale
      BY <1>4, <3>1 DEF Idles
    <3> QED
      BY <2>1, <3>1, <3>2 DEF Copy, BoardLives
  <2> QED
    BY <2>1, <2>2, <2>3 DEF TypeOK
<1> QED
  BY <1>1, <1>2, <1>3, <1>4, WorkerSteps DEF Works

(* The Actions: *)

(* A new Action has an id that no Action had, in hand or already listed. *)
LEMMA AddedAction ==
  ASSUME TypeOK, Adds
  PROVE  \E a \in ActionObject :
           /\ actions' = actions \cup {a}
           /\ a.id # first /\ \A b \in actions \cup todo : b.id # a.id
<1>1. PICK i \in UnusedIds, op \in ActionOps, owner \in 1 .. uids :
        actions' = actions \cup {[id |-> i, op |-> op, owner |-> owner]}
  BY DEF Adds
<1>2. /\ i \in ActionIds /\ i # first
      /\ \A b \in actions \cup todo : b.id # i
  BY DEF UnusedIds
<1>3. owner \in 1 .. MaxBoards /\ op \in Ops \cup {UnknownOp}
  BY ReconcileAssumption DEF TypeOK
<1> DEFINE a == [id |-> i, op |-> op, owner |-> owner]
<1>4. a \in ActionObject /\ a.id = i
  BY <1>2, <1>3 DEF ActionObject
<1> HIDE DEF a
<1> QED
  BY <1>1, <1>2, <1>4 DEF a

(* What a step does to the stored Actions: a new one notifies the controller. *)
LEMMA ActionsChange ==
  ASSUME TypeOK, [Next]_vars
  PROVE  \/ actions' \subseteq actions
         \/ /\ UNCHANGED worker /\ notified' = TRUE /\ queued' = queued
            /\ \E a \in ActionObject :
                 /\ actions' = actions \cup {a}
                 /\ a.id # first /\ \A b \in actions \cup todo : b.id # a.id
<1>1. CASE Adds
  <2>1. UNCHANGED worker /\ notified' = TRUE /\ queued' = queued
    BY <1>1 DEF Adds
  <2> QED
    BY <1>1, <2>1, AddedAction
<1> QED
  BY <1>1, ActionWriters

(* The Actions, listed and stored, are Actions. *)
LEMMA NextActionTypes ==
  ASSUME TypeOK, [Next]_vars
  PROVE  /\ actions' \subseteq ActionObject /\ todo' \subseteq ActionObject
         /\ first' \in 0 .. MaxActions
<1>1. actions' \subseteq ActionObject
  BY ActionsChange DEF TypeOK
<1>2. todo' \subseteq todo \cup actions /\ first' \in {0, first} \cup {a.id : a \in actions}
  <2>1. CASE Works
    BY <2>1 DEF Works, Prepares, PrepareMino, ListActions, DeletesAction, GetCron, WritesCron
  <2>2. CASE Abandon \/ Idles
    BY <2>2 DEF Abandon, Idles
  <2> QED
    BY <2>1, <2>2, WorkerSteps
<1>3. 0 \in 0 .. MaxActions /\ \A a \in actions : a.id \in 0 .. MaxActions
  BY ReconcileAssumption DEF TypeOK, ActionObject, ActionIds
<1> QED
  BY <1>1, <1>2, <1>3 DEF TypeOK

(* The list in hand and the stored Actions share no id but what they share. *)
LEMMA NextListed ==
  ASSUME TypeOK, Listed, [Next]_vars
  PROVE  Listed'
<1>1. \A a \in actions : a \in ActionObject /\ a.id # 0
  BY DEF TypeOK, ActionObject, ActionIds
<1>2. CASE Prepares \/ PrepareMino
  <2>1. /\ actions' = actions /\ first' = first /\ todo' = todo
        /\ pc \in {"Idle", "Mino"} /\ pc' \in {"Mino", "List"}
    BY <1>2 DEF Prepares, Prepare, PrepareMino, store
  <2> QED
    BY <1>1, <2>1 DEF Listed
<1>3. CASE ListActions
  <2>1. actions' = actions /\ todo' = actions /\ pc = "List"
    BY <1>3 DEF ListActions, store
  <2>2. CASE actions = {}
    BY <1>3, <2>1, <2>2 DEF ListActions, Listed
  <2>3. CASE actions # {}
    <3>1. PICK a \in actions : first' = a.id /\ pc' = "Delete"
      BY <1>3, <2>3 DEF ListActions
    <3> QED
      BY <2>1, <3>1 DEF Listed
  <2> QED
    BY <2>2, <2>3
<1>4. CASE DeletesAction
  <2>1. PICK a \in todo : /\ NextToDelete(a) /\ a \in actions
                          /\ actions' = actions \ {a} /\ todo' = todo \ {a}
                          /\ pc' = IF todo = {a} THEN "CronGet" ELSE "Delete"
    BY <1>4 DEF DeletesAction
  <2>2. pc = "Delete" /\ first' = first
    BY <1>4 DEF DeletesAction
  <2>3. \A b \in actions' : b.id # first
    <3>1. SUFFICES ASSUME NEW b \in actions', b.id = first PROVE FALSE
      OBVIOUS
    <3>2. b \in actions /\ b # a /\ b \in todo
      BY <2>1, <3>1 DEF Listed
    <3>3. a.id = first
      BY <2>1, <3>1, <3>2 DEF NextToDelete
    <3> QED
      BY <2>1, <3>1, <3>2, <3>3 DEF Listed
  <2>4. pc' # "Delete" => todo' = {}
    BY <2>1
  <2> QED
    BY <2>1, <2>2, <2>3, <2>4 DEF Listed
<1>5. CASE GetCron \/ WritesCron
  <2>1. /\ actions' = actions /\ first' = first /\ todo' = todo
        /\ pc \in {"CronGet", "CronWrite"} /\ pc' \in {"CronWrite", "Update"}
    BY <1>5 DEF GetCron, WritesCron, store
  <2> QED
    BY <2>1 DEF Listed
<1>6. CASE Abandon
  <2>1. pc' = "Idle" /\ first' = 0 /\ todo' = {}
    BY <1>6 DEF Abandon
  <2>2. \A a \in actions' : a.id # 0
    BY NextActionTypes DEF ActionObject, ActionIds
  <2>3. \A a, b \in actions' : a.id = b.id => a = b
    BY ActionsChange DEF Listed
  <2> QED
    BY <2>1, <2>2, <2>3 DEF Listed
<1>7. CASE Idles
  <2>1. pc' = pc /\ first' = first /\ todo' = todo
    BY <1>7 DEF Idles
  <2>2. CASE actions' \subseteq actions
    BY <2>1, <2>2 DEF Listed
  <2>3. ASSUME NEW a, actions' = actions \cup {a},
               a.id # first, \A b \in actions \cup todo : b.id # a.id
        PROVE  Listed'
    BY <2>1, <2>3 DEF Listed
  <2> QED
    BY <2>2, <2>3, ActionsChange
<1> QED
  BY <1>2, <1>3, <1>4, <1>5, <1>6, <1>7, WorkerSteps DEF Works

(* Only the write of the status applies an Action. *)
LEMMA AppliedChange == [Next]_vars => UNCHANGED applied \/ WritesStatus
<1> SUFFICES ASSUME Next PROVE UNCHANGED applied \/ WritesStatus
  BY DEF vars, hist
<1>1. CASE Environment
  BY <1>1 DEF Environment, CreateAction, CreateBoard, DeleteBoard, MarkBoardDeleted, UpdateWait,
              hist
<1>2. CASE Collector \/ Deliver
  BY <1>2 DEF Collector, CollectAction, PickCron, CollectCron, Deliver, hist
<1>3. CASE Reconcile
  <2>1. CASE UpdateStatus
    BY <2>1 DEF UpdateStatus, WritesStatus, Return, bounds, hist
  <2> QED
    BY <1>3, <2>1 DEF Reconcile, GetBoard, PrepareMino, ListActions, DeleteAction, GetCron,
                      WriteCron, hist
<1>4. CASE Failure
  <2>1. CASE UpdateStatusTimesOut
    BY <2>1 DEF UpdateStatusTimesOut, WritesStatus, Return
  <2> QED
    BY <1>4, <2>1 DEF Failure, GetBoardFails, CallFails, DeleteActionTimesOut, WriteCronTimesOut,
                      Crash, hist
<1> QED
  BY <1>1, <1>2, <1>3, <1>4 DEF Next

(* The write adds the first of the list, and takes it away for good. *)
LEMMA NextAtMostOnce ==
  ASSUME Listed, AtMostOnce, [Next]_vars
  PROVE  AtMostOnce'
<1>1. CASE WritesStatus
  <2>1. pc = "Update" /\ applied' = applied \cup ({a.id : a \in actions} \cap {first})
    BY <1>1 DEF WritesStatus, WriteStatus
  <2>2. \A a \in actions : a.id # first
    BY <2>1 DEF Listed
  <2> QED
    BY <2>1, <2>2 DEF AtMostOnce
<1> QED
  BY <1>1, AppliedChange DEF AtMostOnce

(* The flags: where the Board is there and nobody is going to look at it    *)
(* again, the controller itself has just moved, or something was collected. *)
FinishesWrite == WritesStatus /\ UNCHANGED <<queued, cronLost>>

(* Where both flags are down after a step, the step is one of these. *)
LEMMA FlagsDown ==
  ASSUME TypeOK, [Next]_vars, BoardLives', ~notified', ~queued'
  PROVE  \/ UNCHANGED <<board, queue, pc, local, stale, todo>> /\ actions' \subseteq actions
         \/ Works /\ (pc = "Idle" \/ UNCHANGED queue)
         \/ FinishesWrite
<1> DEFINE Goal == \/ /\ UNCHANGED <<board, queue, pc, local, stale, todo>>
                      /\ actions' \subseteq actions
                   \/ Works /\ (pc = "Idle" \/ UNCHANGED queue)
                   \/ FinishesWrite
<1> SUFFICES ASSUME Next PROVE Goal
  BY DEF vars, store, worker
<1>1. CASE Environment
  BY <1>1 DEF Environment, CreateAction, CreateBoard, DeleteBoard, MarkBoardDeleted, UpdateWait,
              WriteBoard
<1>2. CASE Collector \/ Deliver
  BY <1>2 DEF Collector, CollectAction, PickCron, CollectCron, Deliver, store, worker
<1>3. CASE Reconcile
  <2>1. CASE GetBoard
    BY <2>1 DEF GetBoard, Works, Prepares, BoardLives, store
  <2>2. CASE DeleteAction
    BY <2>2 DEF DeleteAction, Works, DeletesAction, Return, queue
  <2>3. CASE WriteCron
    BY <2>3 DEF WriteCron, Works, WritesCron, Return, queue
  <2>4. CASE UpdateStatus
    <3>1. ~stale /\ WriteStatus /\ Return(FALSE)
      BY <2>4 DEF UpdateStatus, Return
    <3>2. queued' = queued
      BY <3>1 DEF Return, TypeOK
    <3> QED
      BY <2>4, <3>1, <3>2 DEF UpdateStatus, WritesStatus, FinishesWrite, WriteStatus, Return,
                              bounds
  <2>5. CASE PrepareMino \/ ListActions \/ GetCron
    BY <2>5 DEF PrepareMino, ListActions, GetCron, Works
  <2> QED
    BY <1>3, <2>1, <2>2, <2>3, <2>4, <2>5 DEF Reconcile
<1>4. CASE Failure
  <2>1. CASE Crash
    BY <2>1 DEF Crash, BoardLives, store
  <2> QED
    BY <1>4, <2>1 DEF Failure, GetBoardFails, CallFails, DeleteActionTimesOut, WriteCronTimesOut,
                      UpdateStatusTimesOut, Return, store, worker
<1> QED
  BY <1>1, <1>2, <1>3, <1>4 DEF Next

(* The Board after a status was written to it. *)
LEMMA FinishedWrite ==
  ASSUME TypeOK, InHand, Copy, WritesStatus
  PROVE  /\ BoardLives /\ local.status.data # NoData
         /\ board'.status = local.status /\ CronFor(board') = CronFor(local)
<1>1. /\ pc = "Update" /\ ~stale /\ board' = [board EXCEPT !.status = local.status]
      /\ local.status \in Status /\ local.status.data \in Grid
      /\ BoardLives /\ local.uid = board.uid /\ local.wait = board.wait
  BY DEF WritesStatus, WriteStatus, InHand, Copy, WellFormed
<1>2. board'.status = local.status /\ board'.uid = board.uid /\ board'.wait = board.wait
  BY <1>1, WithStatus DEF TypeOK
<1> QED
  BY <1>1, <1>2, GridIsData DEF CronFor

(* A Board that nobody will look at again is as the last look left it. *)
LEMMA NextAttended ==
  ASSUME TypeOK, InHand, Copy, Listed, Attended, [Next]_vars
  PROVE  Attended'
<1> SUFFICES ASSUME BoardLives', ~notified', ~queued'
             PROVE  /\ ~stale'
                    /\ pc' = "Idle" => board'.status.data # NoData /\ actions' = {}
                    /\ pc' \notin {"Idle", "Mino", "List"} => actions' \subseteq todo'
  BY DEF Attended
<1>1. CASE UNCHANGED <<board, queue, pc, local, stale, todo>> /\ actions' \subseteq actions
  <2>1. BoardLives /\ ~notified /\ ~queued
    BY <1>1 DEF BoardLives, queue
  <2> QED
    BY <1>1, <2>1 DEF Attended
<1>2. CASE Prepares
  BY <1>2 DEF Prepares, Prepare
<1>3. CASE (PrepareMino \/ ListActions \/ DeletesAction \/ GetCron \/ WritesCron) /\ UNCHANGED queue
  <2>1. board' = board /\ stale' = stale
    BY <1>3 DEF PrepareMino, ListActions, DeletesAction, GetCron, WritesCron, store
  <2>2. ~stale /\ (pc \notin {"Idle", "Mino", "List"} => actions \subseteq todo)
    BY <1>3, <2>1 DEF Attended, BoardLives, queue
  <2>3. pc' # "Idle" /\ (pc' \notin {"Idle", "Mino", "List"} => actions' \subseteq todo')
    BY <1>3, <2>2 DEF PrepareMino, ListActions, DeletesAction, GetCron, WritesCron, store
  <2> QED
    BY <2>1, <2>2, <2>3
<1>4. CASE FinishesWrite
  <2>1. BoardLives /\ local.status.data # NoData /\ board'.status = local.status
    BY <1>4, FinishedWrite DEF FinishesWrite
  <2>2. /\ pc = "Update" /\ ~notified /\ ~queued /\ actions' = actions
        /\ pc' = "Idle" /\ ~stale'
    BY <1>4 DEF FinishesWrite, WritesStatus, Abandon
  <2>3. actions = {}
    BY <2>1, <2>2 DEF Attended, Listed
  <2> QED
    BY <2>1, <2>2, <2>3
<1> QED
  BY <1>1, <1>2, <1>3, <1>4, FlagsDown
     DEF Works, PrepareMino, ListActions, DeletesAction, GetCron, WritesCron

(* The Cron: *)

(* If the collector removes a Cron that is what the Board, or what became   *)
(* of it, wants, then it is lost.                                           *)
LEMMA CollectedCron ==
  ASSUME CronInStep, CollectCron, BoardLives, NEW b, b.uid = board.uid
  PROVE  ~cronLost /\ (~cronLost' => cron # CronFor(b))
<1>1. gcPicked /\ cronLost' = ~Dangling(cron.owner)
  BY DEF CollectCron
<1>2. cron # NoCron /\ ~cronLost
  BY <1>1 DEF CronInStep
<1>3. ASSUME cron = CronFor(b) PROVE ~Dangling(cron.owner)
  <2>1. cron = [owner |-> b.uid, period |-> b.wait]
    BY <1>2, <1>3 DEF CronFor
  <2> QED
    BY <2>1 DEF Dangling, BoardLives
<1> QED
  BY <1>1, <1>2, <1>3

(* A Cron that the state of the Board asks for is a Cron. *)
LEMMA WantedCronType ==
  ASSUME NEW b \in BoardObject
  PROVE  /\ CronFor(b) \in CronObject
         /\ b.uid # 0 /\ b.status.state = "Playing" => CronFor(b) # NoCron
<1>1. CASE b.status.state = "Playing"
  BY <1>1 DEF CronFor, CronObject, BoardObject, NoCron
<1>2. CASE b.status.state # "Playing"
  BY <1>2, NoneTypes DEF CronFor
<1> QED
  BY <1>1, <1>2

(* The Cron, stored and seen, is a Cron. *)
LEMMA NextCronTypes ==
  ASSUME TypeOK, [Next]_vars
  PROVE  cron' \in CronObject /\ seenCron' \in CronObject
<1>1. WantedCron \in CronObject
  BY WantedCronType DEF WantedCron, CronFor, TypeOK
<1>2. cron' \in CronObject
  BY <1>1, NoneTypes, CronWriters DEF TypeOK, PickCron, CollectCron, ReplaceCron, store
<1>3. seenCron' \in {seenCron, cron, NoCron}
  <2>1. CASE Works
    BY <2>1 DEF Works, Prepares, PrepareMino, ListActions, DeletesAction, GetCron, WritesCron
  <2>2. CASE Abandon \/ Idles
    BY <2>2 DEF Abandon, Idles
  <2> QED
    BY <2>1, <2>2, WorkerSteps
<1> QED
  BY <1>2, <1>3, NoneTypes DEF TypeOK

(* What the worker does with the Cron leaves it as its copy asks for. *)
LEMMA UpdateCronInStep ==
  ASSUME TypeOK, Stored, InHand, Copy, CronInStep, [Next]_vars,
         ~cronLost', pc' = "Update", ~stale'
  PROVE  cron' = CronFor(local')
<1>1. WantedCron = CronFor(local)
  BY DEF WantedCron, CronFor
<1>2. CASE GetCron
  BY <1>1, <1>2 DEF GetCron, store
<1>3. CASE WritesCron
  BY <1>1, <1>3 DEF WritesCron, ReplaceCron
<1>4. CASE Idles
  <2>1. pc = "Update" /\ local' = local /\ ~stale
    BY <1>4 DEF Idles
  <2>2. BoardLives /\ local.uid = board.uid
    BY <2>1 DEF Copy
  <2>3. ~cronLost => cron = CronFor(local)
    BY <2>1 DEF CronInStep
  <2>4. CASE UNCHANGED <<cron, gcPicked, cronLost>> \/ PickCron
    BY <2>1, <2>3, <2>4 DEF PickCron, store, hist
  <2>5. CASE CollectCron
    BY <2>2, <2>3, <2>5, CollectedCron
  <2> QED
    BY <2>1, <2>4, <2>5, CronWriters
<1> QED
  BY <1>2, <1>3, <1>4, WorkerSteps
     DEF Works, Prepares, Prepare, PrepareMino, ListActions, DeletesAction, Abandon

(* And it stays so while nobody is going to look again. *)
LEMMA RestCronInStep ==
  ASSUME TypeOK, Stored, InHand, Copy, CronInStep, [Next]_vars,
         ~cronLost', pc' = "Idle", BoardLives', ~notified', ~queued'
  PROVE  cron' = CronFor(board')
<1>1. CASE UNCHANGED <<board, queue, pc, local, stale, todo>>
  <2>1. BoardLives /\ ~notified /\ ~queued /\ pc = "Idle" /\ board' = board
    BY <1>1 DEF BoardLives, queue
  <2>2. ~cronLost => cron = CronFor(board)
    BY <2>1 DEF CronInStep
  <2>3. CASE UNCHANGED <<cron, gcPicked, cronLost>> \/ PickCron
    BY <2>1, <2>2, <2>3 DEF PickCron, store, hist
  <2>4. CASE CollectCron
    BY <2>1, <2>2, <2>4, CollectedCron
  <2> QED
    BY <2>1, <2>3, <2>4, CronWriters
<1>2. CASE Works
  BY <1>2 DEF Works, Prepares, Prepare, PrepareMino, ListActions, DeletesAction, GetCron,
              WritesCron
<1>3. CASE FinishesWrite
  <2>1. CronFor(board') = CronFor(local)
    BY <1>3, FinishedWrite DEF FinishesWrite
  <2>2. pc = "Update" /\ ~stale /\ cron' = cron /\ cronLost' = cronLost
    BY <1>3 DEF FinishesWrite, WritesStatus
  <2> QED
    BY <2>1, <2>2 DEF CronInStep
<1> QED
  BY <1>1, <1>2, <1>3, FlagsDown

(* The Cron follows the Board, unless the garbage collector took it. *)
LEMMA NextCronInStep ==
  ASSUME TypeOK, Stored, InHand, Copy, CronInStep, [Next]_vars
  PROVE  CronInStep'
<1>1. (cronLost' => cron' = NoCron) /\ (gcPicked' => cron' # NoCron)
  <2>1. CASE UNCHANGED <<cron, gcPicked, cronLost>>
    BY <2>1 DEF CronInStep
  <2>2. CASE PickCron
    BY <2>2 DEF PickCron, CronInStep, store, hist
  <2>3. CASE CollectCron
    BY <2>3 DEF CollectCron
  <2>4. CASE ReplaceCron
    BY <2>4 DEF ReplaceCron
  <2> QED
    BY <2>1, <2>2, <2>3, <2>4, CronWriters
<1> QED
  BY <1>1, UpdateCronInStep, RestCronInStep DEF CronInStep

-----------------------------------------------------------------------------
(* The rest of the types. *)

(* The step of the worker and the bounds. *)
LEMMA NextCounters ==
  ASSUME TypeOK, [Next]_vars
  PROVE  /\ pc' \in Steps
         /\ uids' \in 0 .. MaxBoards /\ incidents' \in 0 .. MaxIncidents
<1>1. pc' \in Steps
  <2>1. CASE Works
    BY <2>1 DEF Works, Prepares, Prepare, PrepareMino, ListActions, DeletesAction, GetCron,
                WritesCron, Steps
  <2>2. CASE Abandon \/ Idles
    BY <2>2 DEF Abandon, Idles, Steps, TypeOK
  <2> QED
    BY <2>1, <2>2, WorkerSteps
<1>2. uids' \in 0 .. MaxBoards /\ incidents' \in 0 .. MaxIncidents
  <2>1. CASE UNCHANGED vars
    BY <2>1 DEF vars, bounds, TypeOK
  <2>2. CASE Environment
    BY <2>2, ReconcileAssumption
       DEF Environment, CreateAction, CreateBoard, DeleteBoard, MarkBoardDeleted, UpdateWait,
           Incident, bounds, TypeOK
  <2>3. CASE Collector \/ Deliver
    BY <2>3 DEF Collector, CollectAction, PickCron, CollectCron, Deliver, bounds, TypeOK
  <2>4. CASE Reconcile
    <3>1. UNCHANGED bounds
      BY <2>4 DEF Reconcile, GetBoard, PrepareMino, ListActions, DeleteAction, GetCron, WriteCron,
                  UpdateStatus
    <3> QED
      BY <3>1 DEF bounds, TypeOK
  <2>5. CASE Failure
    <3>1. uids' = uids /\ Incident
      BY <2>5 DEF Failure, GetBoardFails, CallFails, DeleteActionTimesOut, WriteCronTimesOut,
                  UpdateStatusTimesOut, Crash
    <3> QED
      BY <3>1, ReconcileAssumption DEF Incident, TypeOK
  <2> QED
    BY <2>1, <2>2, <2>3, <2>4, <2>5 DEF Next
<1> QED
  BY <1>1, <1>2

(* The flags are flags. *)
LEMMA NextFlags ==
  ASSUME TypeOK, [Next]_vars
  PROVE  /\ notified' \in BOOLEAN /\ queued' \in BOOLEAN /\ stale' \in BOOLEAN
         /\ gcPicked' \in BOOLEAN /\ cronLost' \in BOOLEAN
<1> USE DEF TypeOK
<1>1. CASE UNCHANGED vars
  BY <1>1 DEF vars, queue, worker, hist
<1>2. CASE Environment
  BY <1>2
     DEF Environment, CreateAction, CreateBoard, DeleteBoard, MarkBoardDeleted, UpdateWait,
         WriteBoard, queue, worker, hist
<1>3. CASE Collector \/ Deliver
  BY <1>3 DEF Collector, CollectAction, PickCron, CollectCron, Deliver, queue, worker, hist
<1>4. CASE Reconcile
  BY <1>4 DEF Reconcile, GetBoard, Prepare, PrepareMino, ListActions, DeleteAction, GetCron,
              WriteCron, ReplaceCron, UpdateStatus, WriteStatus, Return, Abandon, queue, hist
<1>5. CASE Failure
  BY <1>5
     DEF Failure, GetBoardFails, CallFails, DeleteActionTimesOut, WriteCronTimesOut, ReplaceCron,
         UpdateStatusTimesOut, WriteStatus, Crash, Return, Abandon, queue, worker, hist
<1> QED
  BY <1>1, <1>2, <1>3, <1>4, <1>5 DEF Next

(* Every step keeps the whole invariant. *)
LEMMA NextIInv == IInv /\ [Next]_vars => IInv'
<1> SUFFICES ASSUME IInv, [Next]_vars PROVE IInv'
  OBVIOUS
<1>1. /\ TypeOK /\ Stored /\ InHand /\ Copy /\ Listed /\ AtMostOnce /\ Attended
      /\ CronInStep
  BY DEF IInv
<1>2. AtMostOnce' /\ applied' \subseteq ActionIds
  <2>1. AtMostOnce'
    BY <1>1, NextAtMostOnce
  <2> QED
    BY <2>1 DEF AtMostOnce
<1>3. TypeOK'
  BY <1>1, <1>2, NextStored, NextInHand, NextActionTypes, NextCronTypes, NextCounters, NextFlags
     DEF TypeOK
<1>4. Stored' /\ InHand' /\ Copy'
  BY <1>1, NextStored, NextInHand
<1>5. Listed' /\ Attended' /\ CronInStep'
  BY <1>1, NextListed, NextAttended, NextCronInStep
<1> QED
  BY <1>2, <1>3, <1>4, <1>5 DEF IInv

-----------------------------------------------------------------------------
(* The results. *)

(* The invariant holds in every reachable state. *)
LEMMA IInvCorrect == Spec => []IInv
<1>1. Init => IInv
  BY InitIInv
<1>2. IInv /\ [Next]_vars => IInv'
  BY NextIInv
<1> QED
  BY <1>1, <1>2, PTL DEF Spec

(* The types and bounds of the state. *)
THEOREM TypeCorrect == Spec => []TypeOK
<1>1. IInv => TypeOK
  BY DEF IInv
<1> QED
  BY <1>1, IInvCorrect, PTL

(* Every stored status, with whatever came between the calls that led to    *)
(* it, is a playfield of the right size with at most one mino, which fits.  *)
THEOREM StatusCorrect == Spec => []WellFormed(board.status)
<1>1. IInv => WellFormed(board.status)
  BY DEF IInv, Stored
<1> QED
  BY <1>1, IInvCorrect, PTL

(* Whatever fails, is retried or crashes: no Action is still stored when a  *)
(* status that carries its effect is.                                       *)
THEOREM AtMostOnceCorrect == Spec => []AtMostOnce
<1>1. IInv => AtMostOnce
  BY DEF IInv
<1> QED
  BY <1>1, IInvCorrect, PTL

(* Nothing is left undone at rest: no Action is overlooked, however its     *)
(* creation raced with the reconcile that deletes the listed ones.          *)
THEOREM QuietBoardIsReconciledCorrect == Spec => []QuietBoardIsReconciled
<1>1. IInv => QuietBoardIsReconciled
  BY DEF IInv, Attended, Stored, QuietBoardIsReconciled, Quiescent, BoardLives
<1> QED
  BY <1>1, IInvCorrect, PTL

(* Only a deletion by the collector can leave a Board at rest without the   *)
(* Cron it needs, or with another.                                          *)
THEOREM OnlyCollectorLosesCronCorrect == Spec => []OnlyCollectorLosesCron
<1>1. IInv => OnlyCollectorLosesCron
  BY DEF IInv, CronInStep, CronFor, OnlyCollectorLosesCron, QuietCronMatchesBoard, Quiescent
<1> QED
  BY <1>1, IInvCorrect, PTL

-----------------------------------------------------------------------------
(* The refinement.  Game brings its own copy of the operators of Playfield, *)
(* over the same constants: they are the same operators.                    *)

(* The status of a new Board. *)
LEMMA GameFresh == Game!FreshStatus = FreshStatus
  BY DEF Game!FreshStatus, Game!NoData, FreshStatus, NoData

(* The operations. *)
LEMMA GameOps == Game!Ops = Ops /\ Game!UnknownOp = UnknownOp
  BY DEF Game!Ops, Ops, Game!UnknownOp, UnknownOp

(* Collisions. *)
LEMMA GameCollision ==
  ASSUME NEW d, NEW coords
  PROVE  Game!IsCollision(d, coords) = IsCollision(d, coords)
  BY DEF Game!IsCollision, Game!Rows, Game!Cols, IsCollision, Rows, Cols

(* The movements of a mino. *)
LEMMA GameMinos ==
  ASSUME NEW m, NEW dx, NEW dy
  PROVE  /\ Game!AbsoluteCoords(m) = AbsoluteCoords(m)
         /\ Game!Shifted(m, dx, dy) = Shifted(m, dx, dy)
         /\ Game!Rotated(m) = Rotated(m)
         /\ Game!Spawned(m) = Spawned(m)
  BY DEF Game!AbsoluteCoords, AbsoluteCoords, Game!Shifted, Shifted, Game!Rotated, Rotated,
         Game!Spawned, Spawned

(* The rows a mino completes. *)
LEMMA GameRows ==
  ASSUME NEW d, NEW m
  PROVE  /\ Game!Stamp(d, m) = Stamp(d, m)
         /\ Game!CheckRemoveRows(d, m) = CheckRemoveRows(d, m)
<1>1. Game!Stamp(d, m) = Stamp(d, m)
  BY DEF Game!Stamp, Stamp, Game!Rows, Rows, Game!Cols, Cols, Game!AbsoluteCoords, AbsoluteCoords
<1>2. Game!RemoveYs(d, m) = RemoveYs(d, m)
  BY DEF Game!RemoveYs, RemoveYs, Game!RowComplete, RowComplete, Game!Rows, Rows, Game!Cols, Cols,
         Game!AbsoluteCoords, AbsoluteCoords
<1>3. ASSUME NEW ys
      PROVE  Game!DropRows(d, ys) = DropRows(d, ys)
  BY DEF Game!DropRows, DropRows, Game!CopiedRows, CopiedRows, Game!NewY, NewY, Game!Rows, Rows,
         Game!Cardinality, Cardinality
<1> QED
  BY <1>1, <1>2, <1>3 DEF Game!CheckRemoveRows, CheckRemoveRows

(* How far a mino falls. *)
LEMMA GameFalls ==
  ASSUME NEW d, NEW m
  PROVE  Game!FallDistances(d, m) = FallDistances(d, m)
  BY DEF Game!FallDistances, FallDistances, Game!IsCollision, IsCollision, Game!Rows, Rows,
         Game!Cols, Cols, Game!AbsoluteCoords, AbsoluteCoords, Game!Shifted, Shifted

(* What a reconciliation does before it handles Actions. *)
LEMMA GamePrepares ==
  ASSUME NEW b, NEW s
  PROVE  /\ Game!InitStatus(b, s) = InitStatus(b, s)
         /\ Game!ReconcileCurrentMino(b) = ReconcileCurrentMino(b)
<1>1. Game!InitStatus(b, s) = InitStatus(b, s)
  BY DEF Game!InitStatus, InitStatus, Game!NoData, NoData, Game!BlankGrid, BlankGrid, Game!Rows,
         Rows, Game!Cols, Cols
<1>2. ASSUME NEW t
      PROVE  Game!NewMino(b, t) = NewMino(b, t)
  BY GameCollision, GameMinos DEF Game!NewMino, NewMino
<1>3. Game!NeedsMino(b) = NeedsMino(b)
  BY DEF Game!NeedsMino, NeedsMino
<1> QED
  BY <1>1, <1>2, <1>3 DEF Game!ReconcileCurrentMino, ReconcileCurrentMino

(* What it does with an Action. *)
LEMMA GameHandles ==
  ASSUME NEW b, NEW op
  PROVE  Game!HandleOp(b, op) = HandleOp(b, op)
<1>1. ASSUME NEW m
      PROVE  Game!MoveTo(b, m) = MoveTo(b, m)
  BY GameCollision, GameMinos DEF Game!MoveTo, MoveTo
<1>2. ASSUME NEW m
      PROVE  Game!MoveDown(b, m) = MoveDown(b, m)
  BY GameCollision, GameMinos, GameRows DEF Game!MoveDown, MoveDown, Game!Land, Land
<1>3. ASSUME NEW m, NEW k
      PROVE  Game!Dropped(b, m, k) = Dropped(b, m, k)
  BY GameMinos, GameRows DEF Game!Dropped, Dropped
<1>4. Game!MoveCurrentMino(b, op) = MoveCurrentMino(b, op)
  BY <1>1, <1>2, <1>3, GameMinos, GameFalls DEF Game!MoveCurrentMino, MoveCurrentMino
<1> QED
  BY <1>4 DEF Game!HandleOp, HandleOp

(* A write of a status is one whole reconcile of the game. *)
LEMMA WriteIsReconcile ==
  ASSUME TypeOK, Stored, InHand, Copy, WritesStatus
  PROVE  Game!Next
<1>1. /\ BoardLives /\ Outcome(board, local.status)
      /\ board' = [board EXCEPT !.status = local.status] /\ local.status \in Status
  BY DEF WritesStatus, WriteStatus, InHand, Copy, WellFormed
<1>2. /\ board.specState # "Absent" /\ board'.specState = board.specState
      /\ board'.status = local.status
  BY <1>1, WithStatus DEF TypeOK, Stored, BoardLives
<1>3. Game!Prepared = PreparedFor(board)
  BY GamePrepares DEF Game!Prepared, PreparedFor
<1>4. CASE local.status \in PreparedFor(board)
  <2>1. Game!ReconcileIdle
    BY <1>2, <1>3, <1>4 DEF Game!ReconcileIdle
  <2> QED
    BY <2>1 DEF Game!Next
<1>5. ASSUME NEW p \in PreparedFor(board), NEW op \in Ops \cup {UnknownOp},
             local.status \in HandleOp(p, op)
      PROVE  Game!Next
  <2>1. Game!ReconcileOp(op)
    BY <1>2, <1>3, <1>5, GameHandles DEF Game!ReconcileOp
  <2> QED
    BY <2>1, GameOps DEF Game!Next
<1> QED
  BY <1>1, <1>4, <1>5 DEF Outcome

(* Every step is one of the game or leaves the game alone. *)
LEMMA StepOfGame ==
  ASSUME TypeOK, Stored, InHand, Copy, [Next]_vars
  PROVE  [Game!Next]_(Game!vars)
<1>1. ASSUME board'.specState = board.specState, board'.status = board.status
      PROVE  UNCHANGED Game!vars
  BY <1>1 DEF Game!vars
<1>2. CASE UNCHANGED board
  BY <1>1, <1>2
<1>3. ASSUME NEW s \in {"Playing", "GameOver"}, CreateBoard(s)
      PROVE  Game!Next
  <2>1. board.specState = "Absent" /\ board'.specState = s /\ board'.status = FreshStatus
    BY <1>3 DEF CreateBoard, WriteBoard, NoBoard
  <2>2. Game!CreateBoard
    BY <2>1, GameFresh DEF Game!CreateBoard, Game!SpecStates
  <2> QED
    BY <2>2 DEF Game!Next
<1>4. CASE DeleteBoard
  <2>1. board.specState # "Absent" /\ board'.specState = "Absent" /\ board'.status = FreshStatus
    BY <1>4 DEF DeleteBoard, WriteBoard, NoBoard, Stored
  <2>2. Game!DeleteBoard
    BY <2>1, GameFresh DEF Game!DeleteBoard
  <2> QED
    BY <2>2 DEF Game!Next
<1>5. CASE MarkBoardDeleted \/ UpdateWait
  <2>1. board'.specState = board.specState /\ board'.status = board.status
    BY <1>5 DEF MarkBoardDeleted, UpdateWait, WriteBoard, TypeOK, BoardObject
  <2> QED
    BY <1>1, <2>1
<1>6. CASE WritesStatus
  BY <1>6, WriteIsReconcile
<1> QED
  BY <1>2, <1>3, <1>4, <1>5, <1>6, BoardWriters DEF WritesBoard

(* The API server starts without a Board, and so does the game. *)
LEMMA InitOfGame == Init => Game!Init
  BY GameFresh DEF Init, NoBoard, Game!Init

(* The controller plays the game: with every call a step of its own, and    *)
(* errors, crashes and other writers in between, the stored Board changes   *)
(* by whole reconciles only.                                                *)
THEOREM ImplementsGameCorrect == Spec => ImplementsGame
<1>1. IInv /\ [Next]_vars => [board' # board => [Game!Next]_(Game!vars)]_board
  BY StepOfGame DEF IInv
<1> QED
  BY <1>1, InitOfGame, IInvCorrect, PTL DEF Spec, ImplementsGame

(* The same without regard to the cost of checking it: all of BoardGame     *)
(* holds of the stored Board.                                               *)
THEOREM RefinesGame == Spec => Game!Spec
<1>1. IInv /\ [Next]_vars => [Game!Next]_(Game!vars)
  BY StepOfGame DEF IInv
<1> QED
  BY <1>1, InitOfGame, IInvCorrect, PTL DEF Spec, Game!Spec

-----------------------------------------------------------------------------
(* What the rules promise of the stored Board, with API errors, lost        *)
(* answers, crashes and other writers between the calls of a reconcile.     *)

(* The Board stays the same object, which was reconciled before. *)
SameStored == board.uid # 0 /\ board'.uid = board.uid /\ board.status.data # NoData

(* A step of that Board leaves its status alone or is one whole reconcile.  *)
LEMMA SameStoredStep ==
  ASSUME IInv, [Next]_vars, SameStored
  PROVE  /\ WellFormed(board.status) /\ board.status.data \in Grid
         /\ \/ board'.status = board.status
            \/ \E p \in ReconcileCurrentMino(board.status) :
                 Reconciled(board.status, p, board'.status)
<1>1. WellFormed(board.status) /\ board.status.data \in Grid
  BY DEF IInv, Stored, WellFormed, Status, SameStored
<1>2. CASE UNCHANGED board
  BY <1>1, <1>2
<1>3. ASSUME NEW s \in {"Playing", "GameOver"}, CreateBoard(s) PROVE FALSE
  BY <1>3 DEF CreateBoard, NoBoard, SameStored
<1>4. CASE DeleteBoard
  BY <1>4 DEF DeleteBoard, WriteBoard, NoBoard, SameStored
<1>5. CASE MarkBoardDeleted \/ UpdateWait
  <2>1. board'.status = board.status
    BY <1>5 DEF MarkBoardDeleted, UpdateWait, WriteBoard, IInv, TypeOK, BoardObject
  <2> QED
    BY <1>1, <2>1
<1>6. CASE WritesStatus
  <2>1. /\ Outcome(board, local.status) /\ board' = [board EXCEPT !.status = local.status]
        /\ local.status \in Status /\ BoardLives
    BY <1>6 DEF WritesStatus, WriteStatus, InHand, Copy, WellFormed, IInv
  <2>2. board'.status = local.status
    BY <2>1, WithStatus DEF IInv, TypeOK
  <2>3. PreparedFor(board) = ReconcileCurrentMino(board.status)
    BY DEF PreparedFor, InitStatus, SameStored
  <2> QED
    BY <1>1, <2>1, <2>2, <2>3 DEF Outcome, Reconciled
<1> QED
  BY <1>2, <1>3, <1>4, <1>5, <1>6, BoardWriters DEF WritesBoard

(* A filled cell of the stored Board changes only by a landing that         *)
(* completes a row: a lost or repeated write, or one on top of that of      *)
(* somebody else, never takes cells away.                                   *)
StoredCellsStay ==
  [][SameStored =>
       \/ FilledCellsKept(board.status.data, board'.status.data)
       \/ \E p \in ReconcileCurrentMino(board.status) :
            /\ HasMino(p) /\ ~HasMino(board'.status)
            /\ RemoveYs(Stamp(p.data, Mino(p)), Mino(p)) # {}]_vars

(* StoredCellsStay, for every size, set of minoes and number of faults.     *)
THEOREM StoredCellsStayCorrect == Spec => StoredCellsStay
<1> DEFINE P == SameStored =>
                  \/ FilledCellsKept(board.status.data, board'.status.data)
                  \/ \E p \in ReconcileCurrentMino(board.status) :
                       /\ HasMino(p) /\ ~HasMino(board'.status)
                       /\ RemoveYs(Stamp(p.data, Mino(p)), Mino(p)) # {}
<1>1. ASSUME IInv, [Next]_vars PROVE [P]_vars
  BY <1>1, SameStoredStep, ReconcileKeepsFilled DEF FilledCellsKept
<1> QED
  BY <1>1, IInvCorrect, PTL DEF Spec, StoredCellsStay

(* A stored Board whose game is over changes no more, and a game is over    *)
(* only for want of room for a mino: a reconcile that works with an older   *)
(* copy never brings a finished game back to life.                          *)
StoredGameEndsOnce ==
  [][SameStored =>
       /\ board.status.state = "GameOver" => board'.status = board.status
       /\ board.status.state = "Playing" /\ board'.status.state = "GameOver" =>
            board'.status.data = board.status.data /\ NoRoom(board.status.data)]_vars

(* StoredGameEndsOnce, for every size, set of minoes and number of faults.  *)
THEOREM StoredGameEndsOnceCorrect == Spec => StoredGameEndsOnce
<1> DEFINE P == SameStored =>
                  /\ board.status.state = "GameOver" => board'.status = board.status
                  /\ board.status.state = "Playing" /\ board'.status.state = "GameOver" =>
                       board'.status.data = board.status.data /\ NoRoom(board.status.data)
<1>1. ASSUME IInv, [Next]_vars PROVE [P]_vars
  BY <1>1, SameStoredStep, ReconcileEndsGame
<1> QED
  BY <1>1, IInvCorrect, PTL DEF Spec, StoredGameEndsOnce

(* The mino of the stored Board never rises, whatever is retried: this and  *)
(* the height of the Board are why MinoComesDown can hold.                  *)
StoredMinoDescends ==
  [][SameStored /\ HasMino(board.status) /\ HasMino(board'.status) =>
       Mino(board'.status).center.y >= Mino(board.status).center.y]_vars

(* StoredMinoDescends, for every size, set of minoes and number of faults.  *)
THEOREM StoredMinoDescendsCorrect == Spec => StoredMinoDescends
<1> DEFINE P == SameStored /\ HasMino(board.status) /\ HasMino(board'.status) =>
                  Mino(board'.status).center.y >= Mino(board.status).center.y
<1>1. ASSUME IInv, [Next]_vars PROVE [P]_vars
  <2>1. SUFFICES ASSUME SameStored, HasMino(board.status), HasMino(board'.status)
                 PROVE  Mino(board'.status).center.y >= Mino(board.status).center.y
    OBVIOUS
  <2>2. CASE board'.status = board.status
    <3>1. Mino(board.status).center.y \in Int
      BY <1>1, <2>1, SameStoredStep, StatusParts DEF WellFormed, CurrentMino, Coord
    <3> QED
      BY <2>2, <3>1
  <2>3. ASSUME NEW p \in ReconcileCurrentMino(board.status),
               Reconciled(board.status, p, board'.status)
        PROVE  Mino(board'.status).center.y >= Mino(board.status).center.y
    BY <1>1, <2>1, <2>3, SameStoredStep, ReconcileDescends
  <2> QED
    BY <1>1, <2>1, <2>2, <2>3, SameStoredStep
<1> QED
  BY <1>1, IInvCorrect, PTL DEF Spec, StoredMinoDescends
=============================================================================
