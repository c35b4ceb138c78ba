--------------------------- MODULE BoardReconcile ---------------------------
(***************************************************************************)
(* The Board controller as it runs: one worker, a work queue, and one step  *)
(* per API call of Reconcile, against an API server that other actors (the  *)
(* T4s controller, t4s-app, the Cron controller, the garbage collector)     *)
(* write to between any two calls.  Calls can fail, before or after they    *)
(* took effect, and the manager can crash.                                  *)
(*                                                                          *)
(* The client of this controller is not cached (main.go), so every Get and  *)
(* List reads the API server.  A resourceVersion is compared for equality   *)
(* only: stale says whether the stored Board is no longer the one read.     *)
(* Watch events carry nothing but the name of the Board, so those still on  *)
(* the way are one flag, notified, and the work queue is one flag, queued.  *)
(***************************************************************************)
EXTENDS Playfield

CONSTANTS
  ActionOps,    \* the ops players and Cron ask for
  MaxActions,   \* bound: Actions that exist or are being handled at a time
  MaxBoards,    \* bound: Boards ever created
  MaxWait,      \* bound: spec.wait grows from 1 to this
  MaxIncidents  \* bound: API errors, crashes and updates of the wait time

ASSUME ReconcileAssumption ==
  /\ ActionOps \subseteq Ops \cup {UnknownOp}
  /\ MaxActions \in Nat /\ MaxBoards \in Nat /\ MaxWait \in Nat /\ MaxIncidents \in Nat

VARIABLES
  board,      \* the Board object "board", or NoBoard
  actions,    \* the Action objects of the namespace
  cron,       \* the Cron object "cron", or NoCron
  notified,   \* a watch event for the Board is on its way
  queued,     \* the work queue holds the Board
  pc,         \* the call Reconcile makes next
  local,      \* Reconcile's copy of the Board
  stale,      \* the stored Board changed after Reconcile read it
  first,      \* the Action it handles, 0 if none
  todo,       \* the listed Actions it has yet to delete
  seenCron,   \* the Cron it read
  gcPicked,   \* the collector has decided to delete this Cron
  uids,       \* Boards created so far
  incidents,  \* errors, crashes and updates of the wait time so far
  applied,    \* history: Actions still stored though a status write carried their effect
  cronLost    \* history: the collector removed a Cron whose owner was there

store  == <<board, actions, cron>>
queue  == <<notified, queued>>
worker == <<pc, local, stale, first, todo, seenCron>>
bounds == <<uids, incidents>>
hist   == <<applied, cronLost>>
vars   == <<store, queue, worker, gcPicked, bounds, hist>>

Steps == {"Idle", "Mino", "List", "Delete", "CronGet", "CronWrite", "Update"}

BoardObject == [uid : 0 .. MaxBoards, specState : {"Playing", "GameOver", "Absent"},
                wait : Nat, deleting : BOOLEAN, status : Status]
NoBoard == [uid |-> 0, specState |-> "Absent", wait |-> 0, deleting |-> FALSE,
            status |-> FreshStatus]

CronObject == [owner : 0 .. MaxBoards, period : Nat]
NoCron == [owner |-> 0, period |-> 0]

ActionIds    == 1 .. MaxActions
ActionObject == [id : ActionIds, op : Ops \cup {UnknownOp}, owner : 1 .. MaxBoards]

(* Types and bounds of the variables. *)
TypeOK ==
  /\ board \in BoardObject /\ local \in BoardObject
  /\ actions \subseteq ActionObject /\ todo \subseteq ActionObject
  /\ cron \in CronObject /\ seenCron \in CronObject
  /\ notified \in BOOLEAN /\ queued \in BOOLEAN /\ stale \in BOOLEAN /\ gcPicked \in BOOLEAN
  /\ pc \in Steps
  /\ first \in 0 .. MaxActions
  /\ uids \in 0 .. MaxBoards /\ incidents \in 0 .. MaxIncidents
  /\ applied \subseteq ActionIds /\ cronLost \in BOOLEAN

Init ==
  /\ board = NoBoard /\ actions = {} /\ cron = NoCron
  /\ notified = FALSE /\ queued = FALSE
  /\ pc = "Idle" /\ local = NoBoard /\ stale = FALSE
  /\ first = 0 /\ todo = {} /\ seenCron = NoCron
  /\ gcPicked = FALSE
  /\ uids = 0 /\ incidents = 0
  /\ applied = {} /\ cronLost = FALSE

-----------------------------------------------------------------------------
(* The actors around the controller. *)

Incident == incidents < MaxIncidents /\ incidents' = incidents + 1

WriteBoard(b) == board' = b /\ stale' = (pc # "Idle") /\ notified' = TRUE

(* newBoard of t4s-app asks for "Playing"; the T4s controller's Board gets  *)
(* the default "GameOver".                                                  *)
CreateBoard(s) ==
  /\ board = NoBoard /\ uids < MaxBoards
  /\ WriteBoard([NoBoard EXCEPT !.uid = uids + 1, !.specState = s, !.wait = 1])
  /\ uids' = uids + 1
  /\ UNCHANGED <<actions, cron, queued, pc, local, first, todo, seenCron, gcPicked,
                 incidents, hist>>

DeleteBoard ==
  /\ board # NoBoard
  /\ WriteBoard(NoBoard)
  /\ UNCHANGED <<actions, cron, queued, pc, local, first, todo, seenCron, gcPicked, bounds,
                 hist>>

(* A foreground deletion first sets the DeletionTimestamp. *)
MarkBoardDeleted ==
  /\ board # NoBoard /\ ~board.deleting
  /\ WriteBoard([board EXCEPT !.deleting = TRUE])
  /\ UNCHANGED <<actions, cron, queued, pc, local, first, todo, seenCron, gcPicked, bounds,
                 hist>>

(* reconcileBoard of the T4s controller inherits a new wait time. *)
UpdateWait ==
  /\ board # NoBoard /\ board.wait < MaxWait
  /\ Incident
  /\ WriteBoard([board EXCEPT !.wait = @ + 1])
  /\ UNCHANGED <<actions, cron, queued, pc, local, first, todo, seenCron, gcPicked, uids,
                 hist>>

(* Names are never used twice; here an id comes back when nothing refers to *)
(* its Action any more.                                                     *)
UnusedIds == ActionIds \ ({a.id : a \in actions \cup todo} \cup {first})

\* Mutant: the controller does not watch Actions.
CreateActionUnwatched(op, owner) ==
  /\ \E i \in UnusedIds :
       /\ \A j \in UnusedIds : i <= j
       /\ actions' = actions \cup {[id |-> i, op |-> op, owner |-> owner]}
  /\ UNCHANGED <<board, cron, queue, worker, gcPicked, bounds, hist>>

(* t4s-app and Cron create Actions owned by the Board they last knew of,    *)
(* which need not be the present one.                                       *)
CreateAction(op, owner) ==
  /\ \E i \in UnusedIds :
       /\ \A j \in UnusedIds : i <= j
       /\ actions' = actions \cup {[id |-> i, op |-> op, owner |-> owner]}
  /\ notified' = TRUE
  /\ UNCHANGED <<board, cron, queued, worker, gcPicked, bounds, hist>>

Dangling(owner) == board.uid # owner \/ board.deleting

CollectAction ==
  /\ \E a \in actions : Dangling(a.owner) /\ actions' = actions \ {a}
  /\ UNCHANGED <<board, cron, queue, worker, gcPicked, bounds, hist>>

PickCron ==
  /\ cron # NoCron /\ Dangling(cron.owner) /\ ~gcPicked
  /\ gcPicked' = TRUE
  /\ UNCHANGED <<store, queue, worker, bounds, hist>>

(* The delete carries the UID of the Cron it picked, not its version. *)
CollectCron ==
  /\ gcPicked
  /\ cron' = NoCron
  /\ gcPicked' = FALSE
  /\ cronLost' = ~Dangling(cron.owner)
  /\ UNCHANGED <<board, actions, queue, worker, bounds, applied>>

Deliver ==
  /\ notified
  /\ notified' = FALSE /\ queued' = TRUE
  /\ UNCHANGED <<store, worker, gcPicked, bounds, hist>>

-----------------------------------------------------------------------------
(* Reconcile, one API call at a time. *)

(* The worker forgets what it had in memory. *)
Abandon ==
  /\ pc' = "Idle" /\ local' = NoBoard /\ stale' = FALSE
  /\ first' = 0 /\ todo' = {} /\ seenCron' = NoCron

\* Mutant: an error is not retried.
ReturnForgetsError(err) == Abandon /\ UNCHANGED queued

(* Reconcile returns; an error puts the Board back into the queue. *)
Return(err) == Abandon /\ queued' = (queued \/ err)

(* A call fails and has changed nothing. *)
CallFails ==
  /\ pc # "Idle"
  /\ Incident
  /\ Return(TRUE)
  /\ UNCHANGED <<store, notified, gcPicked, uids, hist>>

GetBoardFails ==
  /\ pc = "Idle" /\ queued
  /\ Incident
  /\ UNCHANGED <<store, queue, worker, gcPicked, uids, hist>>

(* What Reconcile does with the Board it read.  The Minoes are only listed  *)
(* when one is needed.                                                      *)
Prepare ==
  /\ local' = [board EXCEPT !.status = InitStatus(@, board.specState)]
  /\ pc' = IF NeedsMino(local'.status) THEN "Mino" ELSE "List"
  /\ stale' = FALSE

\* Mutant: a Board that is not found counts as an error.
GetBoardInsists ==
  /\ pc = "Idle" /\ queued
  /\ IF board = NoBoard \/ board.deleting
     THEN UNCHANGED <<queued, pc, local, stale>>
     ELSE queued' = FALSE /\ Prepare
  /\ UNCHANGED <<store, notified, first, todo, seenCron, gcPicked, bounds, hist>>

GetBoard ==
  /\ pc = "Idle" /\ queued
  /\ queued' = FALSE
  /\ IF board = NoBoard \/ board.deleting
     THEN UNCHANGED <<pc, local, stale>>
     ELSE Prepare
  /\ UNCHANGED <<store, notified, first, todo, seenCron, gcPicked, bounds, hist>>

PrepareMino ==
  /\ pc = "Mino"
  /\ \E s \in ReconcileCurrentMino(local.status) : local' = [local EXCEPT !.status = s]
  /\ pc' = "List"
  /\ UNCHANGED <<store, queue, stale, first, todo, seenCron, gcPicked, bounds, hist>>

\* Mutant: every listed Action is deleted but the one that was handled.
ListActionsKeepsFirst ==
  /\ pc = "List"
  /\ IF actions = {}
     THEN pc' = "CronGet" /\ todo' = {} /\ UNCHANGED <<local, first>>
     ELSE \E a \in actions : \E s \in HandleOp(local.status, a.op) :
            /\ first' = a.id /\ local' = [local EXCEPT !.status = s]
            /\ todo' = actions \ {a}
            /\ pc' = IF actions = {a} THEN "CronGet" ELSE "Delete"
  /\ UNCHANGED <<store, queue, stale, seenCron, gcPicked, bounds, hist>>

(* The names of Actions are random, so any listed one can be the first. *)
ListActions ==
  /\ pc = "List"
  /\ IF actions = {}
     THEN pc' = "CronGet" /\ UNCHANGED <<local, first>>
     ELSE /\ pc' = "Delete"
          /\ \E a \in actions : \E s \in HandleOp(local.status, a.op) :
               first' = a.id /\ local' = [local EXCEPT !.status = s]
  /\ todo' = actions
  /\ UNCHANGED <<store, queue, stale, seenCron, gcPicked, bounds, hist>>

(* The first Action of the list is deleted first. *)
NextToDelete(a) == a \in todo /\ ((\E b \in todo : b.id = first) => a.id = first)

DeleteAction ==
  /\ pc = "Delete"
  /\ \E a \in todo :
       /\ NextToDelete(a)
       /\ IF a \in actions
          THEN /\ actions' = actions \ {a}
               /\ todo' = todo \ {a}
               /\ pc' = IF todo = {a} THEN "CronGet" ELSE "Delete"
               /\ UNCHANGED <<queued, local, stale, first, seenCron>>
          ELSE Return(TRUE) /\ UNCHANGED actions
  /\ UNCHANGED <<board, cron, notified, gcPicked, bounds, hist>>

(* The delete went through, its answer did not. *)
DeleteActionTimesOut ==
  /\ pc = "Delete"
  /\ \E a \in todo : NextToDelete(a) /\ actions' = actions \ {a}
  /\ Incident
  /\ Return(TRUE)
  /\ UNCHANGED <<board, cron, notified, gcPicked, uids, hist>>

\* Mutant: a finished game keeps its Cron.
WantedCronAlways == [owner |-> local.uid, period |-> local.wait]

WantedCron == IF local.status.state = "Playing"
              THEN [owner |-> local.uid, period |-> local.wait]
              ELSE NoCron

(* No write is needed when the Cron is already as it should be. *)
GetCron ==
  /\ pc = "CronGet"
  /\ IF cron = WantedCron
     THEN pc' = "Update" /\ UNCHANGED seenCron
     ELSE pc' = "CronWrite" /\ seenCron' = cron
  /\ UNCHANGED <<store, queue, local, stale, first, todo, gcPicked, bounds, hist>>

(* Create, Update or Delete, which of them follows from what was read.  The *)
(* collector alone can change the Cron in between, by deleting it, and then *)
(* Update and Delete find nothing.  An Update keeps the UID of the Cron,    *)
(* which the collector may have picked.                                     *)
ReplaceCron ==
  /\ cron' = WantedCron
  /\ gcPicked' = (gcPicked /\ cron # NoCron /\ WantedCron # NoCron)
  /\ cronLost' = FALSE

WriteCron ==
  /\ pc = "CronWrite"
  /\ IF cron = seenCron
     THEN /\ ReplaceCron
          /\ pc' = "Update" /\ seenCron' = NoCron
          /\ UNCHANGED <<queued, local, stale, first, todo>>
     ELSE Return(TRUE) /\ UNCHANGED <<cron, gcPicked, cronLost>>
  /\ UNCHANGED <<board, actions, notified, bounds, applied>>

WriteCronTimesOut ==
  /\ pc = "CronWrite" /\ cron = seenCron
  /\ ReplaceCron
  /\ Incident
  /\ Return(TRUE)
  /\ UNCHANGED <<board, actions, notified, uids, applied>>

WriteStatus ==
  /\ board' = [board EXCEPT !.status = local.status]
  /\ applied' = applied \cup ({a.id : a \in actions} \cap {first})
  /\ UNCHANGED cronLost

\* Mutant: the status is written whatever happened to the Board.
UpdateStatusAnyway ==
  /\ pc = "Update"
  /\ Return(FALSE) /\ WriteStatus
  /\ UNCHANGED <<actions, cron, notified, gcPicked, bounds>>

(* A Board that changed or is gone since it was read: a conflict. *)
UpdateStatus ==
  /\ pc = "Update"
  /\ IF stale
     THEN Return(TRUE) /\ UNCHANGED <<board, hist>>
     ELSE Return(FALSE) /\ WriteStatus
  /\ UNCHANGED <<actions, cron, notified, gcPicked, bounds>>

UpdateStatusTimesOut ==
  /\ pc = "Update" /\ ~stale
  /\ WriteStatus
  /\ Incident
  /\ Return(TRUE)
  /\ UNCHANGED <<actions, cron, notified, gcPicked, uids>>

(* The manager restarts: its watches report every Board and Action there is. *)
Crash ==
  /\ Incident
  /\ Abandon
  /\ queued' = FALSE
  /\ notified' = (board # NoBoard \/ actions # {})
  /\ UNCHANGED <<store, gcPicked, uids, hist>>

-----------------------------------------------------------------------------
Environment ==
  \/ \E s \in {"Playing", "GameOver"} : CreateBoard(s)
  \/ DeleteBoard
  \/ MarkBoardDeleted
  \/ UpdateWait
  \/ \E op \in ActionOps, owner \in 1 .. uids : CreateAction(op, owner)

Collector == CollectAction \/ PickCron \/ CollectCron

Reconcile == \/ GetBoard \/ PrepareMino \/ ListActions \/ DeleteAction
             \/ GetCron \/ WriteCron \/ UpdateStatus

Failure == \/ GetBoardFails \/ CallFails \/ DeleteActionTimesOut \/ WriteCronTimesOut
           \/ UpdateStatusTimesOut \/ Crash

Next == Environment \/ Collector \/ Deliver \/ Reconcile \/ Failure

Spec == Init /\ [][Next]_vars

(* The Cron controller beats as long as there is a Cron (CronTicker,        *)
(* HeartbeatGoesOn).  The bound on Actions may block it, and then only      *)
(* until a reconcile has deleted some.                                      *)
Beat == cron # NoCron /\ CreateAction("down", cron.owner)

(* The names of Actions are random: no "down" is passed over for ever.      *)
ListDown == ListActions /\ \E a \in actions : a.op = "down" /\ a.id = first'

(* The watch delivers, the only worker takes every step it can, and the     *)
(* collector gets round to everything: none of them waits for anyone.       *)
FairSpec == /\ Spec
            /\ WF_vars(Deliver) /\ WF_vars(Reconcile)
            /\ WF_vars(CollectAction) /\ WF_vars(PickCron \/ CollectCron)
            /\ SF_vars(Beat) /\ SF_vars(ListDown)

-----------------------------------------------------------------------------
(* Every change of the stored Board is one step of the game: no write of a  *)
(* status loses one made since the Board was read, lands in another Board,  *)
(* or holds half of a reconcile.  This is Game!Spec, written so that steps  *)
(* that leave the Board alone are cheap to check.                           *)
Game == INSTANCE BoardGame WITH specState <- board.specState, status <- board.status

ImplementsGame == Game!Init /\ [][board' # board => [Game!Next]_(Game!vars)]_board

(* An Action takes effect at most once, whatever fails and is retried: none *)
(* is still stored, to be handled again, when a status with its effect is.  *)
AtMostOnce == applied = {}

Quiescent == pc = "Idle" /\ ~queued /\ ~notified /\ ~gcPicked
BoardLives == board # NoBoard /\ ~board.deleting

(* At rest the Board has been reconciled since the last change it must see: *)
(* it is initialised and has no Action left to handle.                      *)
QuietBoardIsReconciled ==
  Quiescent /\ BoardLives =>
    /\ board.status.data # NoData
    /\ board.status.state = "Playing" => board.specState = "Playing"
    /\ actions = {}

(* docs/design.md: "Cron is created by the Board controller when the game   *)
(* is started and deleted when the game is over".  At rest the Cron is what *)
(* the state of the Board asks for: the present Board's own, with its wait  *)
(* time, or none.                                                           *)
QuietCronMatchesBoard ==
  Quiescent /\ BoardLives =>
    cron = IF board.status.state = "Playing"
           THEN [owner |-> board.uid, period |-> board.wait]
           ELSE NoCron

(* The collector is the only one who can part them: unless it removed a     *)
(* Cron that the controller had just given a new owner, the Cron at rest is *)
(* what the state of the Board asks for, whatever raced, failed or crashed. *)
OnlyCollectorLosesCron == cronLost \/ QuietCronMatchesBoard

(* No error is retried for ever: the controller comes to rest, again and    *)
(* again, or has an Action to handle.                                       *)
ComesToRest == []<>(Quiescent \/ actions # {})

(* The heartbeat brings every mino down, whatever players, races and faults *)
(* do, unless the Board or its Cron goes, and as long as no Actions of an   *)
(* earlier Board come: when the collector removes a listed one, the delete  *)
(* of it fails and the reconcile with the "down" is given up.               *)
StrayActions == \E a \in actions : Dangling(a.owner)

MinoComesDown ==
  HasMino(board.status) /\ ~board.deleting
    ~> ~HasMino(board.status) \/ board.deleting \/ cronLost \/ StrayActions

=============================================================================
