----------------------------- MODULE AppServer -----------------------------
(***************************************************************************)
(* t4s-app, the web server between the players and the API server           *)
(* (app/app.go).  Its handlers share three package variables that no lock   *)
(* protects, and echo runs each request in a goroutine of its own: the      *)
(* steps of two requests interleave.  Here a step is one API call or one    *)
(* assignment to a shared variable.                                         *)
(*                                                                          *)
(* TargetBoard points to an object that one newBoard replaces and another   *)
(* may be about to read.  Only getBoard keeps the pointer across a step,    *)
(* while its answer is on the way; an answer for an object that was         *)
(* replaced meanwhile reaches nobody.  Other actors: the T4s controller     *)
(* recreates the Board, somebody deletes it in the foreground, the pod      *)
(* restarts.                                                                *)
(***************************************************************************)
EXTENDS Integers, FiniteSets

CONSTANTS
  Requests,    \* the requests for a new game that can be under way at a time
  Others,      \* what else happens: some of OtherKinds
  MaxBoards,   \* bound: Boards ever created
  MaxFaults    \* bound: API errors and restarts

OtherKinds == {"t4s", "foreground", "restart", "timeout"}

ASSUME AppAssumption ==
  /\ IsFiniteSet(Requests) /\ Others \subseteq OtherKinds
  /\ MaxBoards \in Nat \ {0} /\ MaxFaults \in Nat

VARIABLES
  board,      \* the Board object "board", or NoBoard
  t4sGoing,   \* the T4s has a DeletionTimestamp
  target,     \* the object TargetBoard points to
  poll,       \* the answer on its way to a getBoard, to be read into target, or NoPoll
  boardUID,   \* BoardUID, 0 for the empty string
  pc,         \* per request: the step newBoard makes next
  alone,      \* history: requests that nobody else has disturbed so far
  owners,     \* history: the owners of the Actions posted
  uids, faults

vars == <<board, t4sGoing, target, poll, boardUID, pc, alone, owners, uids, faults>>

Steps == {"Idle", "GetT4s", "Delete", "Replace", "Create", "SetUid"}

Board   == [uid : 1 .. MaxBoards, state : {"Playing", "GameOver"}, deleting : BOOLEAN]
NoBoard == [uid |-> 0, state |-> "GameOver", deleting |-> FALSE]

(* What is used of the object: whether it has a name yet, the UID the API   *)
(* server gave it, whether it was being deleted when it was last read.      *)
Target    == [named : BOOLEAN, uid : 0 .. MaxBoards, deleting : BOOLEAN]
NewObject == [named |-> TRUE, uid |-> 0, deleting |-> FALSE]
Unnamed   == [named |-> FALSE, uid |-> 0, deleting |-> FALSE]
NoPoll    == Unnamed

(* Types and bounds of the variables. *)
TypeOK ==
  /\ board \in Board \cup {NoBoard}
  /\ t4sGoing \in BOOLEAN
  /\ target \in Target /\ poll \in Target
  /\ boardUID \in 0 .. MaxBoards
  /\ pc \in [Requests -> Steps]
  /\ alone \subseteq Requests
  /\ owners \subseteq 1 .. MaxBoards
  /\ uids \in 0 .. MaxBoards /\ faults \in 0 .. MaxFaults

(* The Board as an answer shows it. *)
Read(b) == [named |-> TRUE, uid |-> b.uid, deleting |-> b.deleting]

(* An answer is read into the object that is there: a DeletionTimestamp it  *)
(* does not have leaves the one the object had.                             *)
ReadInto(object, answer) == [answer EXCEPT !.deleting = @ \/ object.deleting]

(* init(): what the Get of a starting pod leaves in the variables. *)
Loaded == IF board = NoBoard THEN Unnamed ELSE Read(board)

(* The T4s controller creates the Board before the Deployment. *)
Init ==
  /\ board = [uid |-> 1, state |-> "GameOver", deleting |-> FALSE]
  /\ uids = 1
  /\ t4sGoing = FALSE
  /\ target = Loaded /\ poll = NoPoll /\ boardUID = board.uid
  /\ pc = [r \in Requests |-> "Idle"]
  /\ alone = {} /\ owners = {}
  /\ faults = 0

Busy == {r \in Requests : pc[r] # "Idle"}

(* Keeps a Board in reserve for each request under way. *)
MayCreate == uids + Cardinality(Busy) < MaxBoards

-----------------------------------------------------------------------------
(* newBoard. *)

Goto(r, step) == pc' = [pc EXCEPT ![r] = step] /\ alone' = alone \cap {r}

Start(r) ==
  /\ pc[r] = "Idle" /\ MayCreate
  /\ pc' = [pc EXCEPT ![r] = "GetT4s"]
  /\ alone' = IF Busy = {} THEN {r} ELSE {}
  /\ UNCHANGED <<board, t4sGoing, target, poll, boardUID, owners, uids, faults>>

GetT4s(r) ==
  /\ pc[r] = "GetT4s"
  /\ Goto(r, IF t4sGoing THEN "Idle" ELSE "Delete")
  /\ UNCHANGED <<board, t4sGoing, target, poll, boardUID, owners, uids, faults>>

\* Mutant: a Board that is gone is an error.
DeleteInsists(r) ==
  /\ pc[r] = "Delete"
  /\ IF target.deleting \/ ~target.named \/ board = NoBoard
     THEN Goto(r, "Idle") /\ UNCHANGED board
     ELSE /\ Goto(r, "Replace")
          /\ board' = IF board.deleting THEN board ELSE NoBoard
  /\ UNCHANGED <<t4sGoing, target, poll, boardUID, owners, uids, faults>>

(* A Board that is gone is no error, an object without a name is.  A Board  *)
(* that is being deleted in the foreground stays until its children went.   *)
Delete(r) ==
  /\ pc[r] = "Delete"
  /\ IF target.deleting \/ ~target.named
     THEN Goto(r, "Idle") /\ UNCHANGED board
     ELSE /\ Goto(r, "Replace")
          /\ board' = IF board.deleting THEN board ELSE NoBoard
  /\ UNCHANGED <<t4sGoing, target, poll, boardUID, owners, uids, faults>>

\* Mutant: the object that was read is created again.
ReplaceNot(r) ==
  /\ pc[r] = "Replace"
  /\ Goto(r, "Create")
  /\ UNCHANGED <<board, t4sGoing, target, poll, boardUID, owners, uids, faults>>

Replace(r) ==
  /\ pc[r] = "Replace"
  /\ target' = NewObject /\ poll' = NoPoll
  /\ Goto(r, "Create")
  /\ UNCHANGED <<board, t4sGoing, boardUID, owners, uids, faults>>

(* An error if there is a Board, or if the object comes from the API server.  *)
(* Otherwise the answer, the Board, is read into the object.                 *)
Create(r) ==
  /\ pc[r] = "Create"
  /\ IF board = NoBoard /\ target.uid = 0
     THEN /\ board' = [uid |-> uids + 1, state |-> "Playing", deleting |-> FALSE]
          /\ uids' = uids + 1
          /\ target' = Read(board')
          /\ Goto(r, "SetUid")
     ELSE Goto(r, "Idle") /\ UNCHANGED <<board, target, uids>>
  /\ UNCHANGED <<t4sGoing, poll, boardUID, owners, faults>>

\* Mutant: the owner of the Actions is left as it was.
SetUidNot(r) ==
  /\ pc[r] = "SetUid"
  /\ Goto(r, "Idle")
  /\ UNCHANGED <<board, t4sGoing, target, poll, boardUID, owners, uids, faults>>

SetUid(r) ==
  /\ pc[r] = "SetUid"
  /\ boardUID' = target.uid
  /\ Goto(r, "Idle")
  /\ UNCHANGED <<board, t4sGoing, target, poll, owners, uids, faults>>

(* An API call of newBoard fails. *)
CallFails(r) ==
  /\ pc[r] \in {"GetT4s", "Delete", "Create"}
  /\ pc[r] = "Delete" => target.named /\ ~target.deleting
  /\ faults < MaxFaults /\ faults' = faults + 1
  /\ Goto(r, "Idle")
  /\ UNCHANGED <<board, t4sGoing, target, poll, boardUID, owners, uids>>

-----------------------------------------------------------------------------
(* The other handlers.  getColors and getWait touch no Board.               *)

(* A Board that is not found leaves the object as it was.  With several     *)
(* getBoards under way the one that is watched here is any of them.         *)
GetBoard ==
  /\ poll = NoPoll /\ board # NoBoard
  /\ poll' = Read(board)
  /\ UNCHANGED <<board, t4sGoing, target, boardUID, pc, alone, owners, uids, faults>>

AnswerGetBoard ==
  /\ poll # NoPoll
  /\ target' = ReadInto(target, poll) /\ poll' = NoPoll
  /\ alone' = {}
  /\ UNCHANGED <<board, t4sGoing, boardUID, pc, owners, uids, faults>>

\* Mutant: an owner without a UID is accepted.
PostActionAnyOwner ==
  /\ owners' = owners \cup {boardUID}
  /\ UNCHANGED <<board, t4sGoing, target, poll, boardUID, pc, alone, uids, faults>>

(* The API server refuses an owner without a UID. *)
PostAction ==
  /\ boardUID # 0
  /\ owners' = owners \cup {boardUID}
  /\ UNCHANGED <<board, t4sGoing, target, poll, boardUID, pc, alone, uids, faults>>

-----------------------------------------------------------------------------
(* What else happens. *)

Other(kind) == kind \in Others /\ alone' = {}

(* A call of newBoard is carried out and its answer is lost. *)
CallTimesOut(r) ==
  /\ Other("timeout")
  /\ faults < MaxFaults /\ faults' = faults + 1
  /\ \/ /\ pc[r] = "Delete" /\ target.named /\ ~target.deleting
        /\ board # NoBoard /\ ~board.deleting
        /\ board' = NoBoard /\ UNCHANGED uids
     \/ /\ pc[r] = "Create" /\ board = NoBoard /\ target.uid = 0
        /\ board' = [uid |-> uids + 1, state |-> "Playing", deleting |-> FALSE]
        /\ uids' = uids + 1
  /\ pc' = [pc EXCEPT ![r] = "Idle"]
  /\ UNCHANGED <<t4sGoing, target, poll, boardUID, owners>>

T4sDeletesBoard ==
  /\ Other("t4s")
  /\ board # NoBoard /\ ~board.deleting /\ MayCreate
  /\ board' = NoBoard
  /\ UNCHANGED <<t4sGoing, target, poll, boardUID, pc, owners, uids, faults>>

T4sCreatesBoard ==
  /\ Other("t4s")
  /\ board = NoBoard /\ MayCreate
  /\ board' = [uid |-> uids + 1, state |-> "GameOver", deleting |-> FALSE]
  /\ uids' = uids + 1
  /\ UNCHANGED <<t4sGoing, target, poll, boardUID, pc, owners, faults>>

DeleteT4s ==
  /\ Other("t4s")
  /\ t4sGoing' = TRUE
  /\ UNCHANGED <<board, target, poll, boardUID, pc, owners, uids, faults>>

MarkBoardDeleted ==
  /\ Other("foreground")
  /\ board # NoBoard /\ MayCreate
  /\ board' = [board EXCEPT !.deleting = TRUE]
  /\ UNCHANGED <<t4sGoing, target, poll, boardUID, pc, owners, uids, faults>>

RemoveMarkedBoard ==
  /\ board.deleting
  /\ board' = NoBoard
  /\ alone' = {}
  /\ UNCHANGED <<t4sGoing, target, poll, boardUID, pc, owners, uids, faults>>

Restart ==
  /\ Other("restart")
  /\ faults < MaxFaults /\ faults' = faults + 1
  /\ pc' = [r \in Requests |-> "Idle"]
  /\ target' = Loaded /\ poll' = NoPoll /\ boardUID' = board.uid
  /\ UNCHANGED <<board, t4sGoing, owners, uids>>

-----------------------------------------------------------------------------
NewBoardStep(r) == GetT4s(r) \/ Delete(r) \/ Replace(r) \/ Create(r) \/ SetUid(r)

Next ==
  \/ \E r \in Requests : Start(r) \/ NewBoardStep(r) \/ CallFails(r) \/ CallTimesOut(r)
  \/ GetBoard \/ AnswerGetBoard \/ PostAction
  \/ T4sDeletesBoard \/ T4sCreatesBoard \/ DeleteT4s
  \/ MarkBoardDeleted \/ RemoveMarkedBoard \/ Restart

Spec == Init /\ [][Next]_vars

(* Handlers run on, a foreground deletion comes to its end, the clients     *)
(* poll the Board and the players keep asking for a new game.               *)
FairSpec == /\ Spec
            /\ \A r \in Requests : WF_vars(NewBoardStep(r)) /\ WF_vars(Start(r))
            /\ WF_vars(RemoveMarkedBoard)
            /\ WF_vars(GetBoard) /\ WF_vars(AnswerGetBoard)

-----------------------------------------------------------------------------
(* A new game that nobody disturbs repairs whatever races, restarts and     *)
(* foreign Boards left in the shared variables: it ends with a playing      *)
(* Board, and the Actions posted from then on are owned by it.              *)
NewGameRepairsOwner ==
  [][\A r \in alone : SetUid(r) =>
       board.state = "Playing" /\ boardUID' = board.uid /\ target' = Read(board)]_vars

(* An undisturbed request for a new game that got past the delete creates   *)
(* its Board, unless the API server fails or the old Board is still going:  *)
(* newBoard does not stumble over its own steps.                            *)
NewGameSucceeds ==
  [][\A r \in alone : pc[r] \in {"Replace", "Create"} /\ pc'[r] = "Idle" =>
       board.deleting \/ faults' # faults]_vars

(* docs/design.md: "When the pod recieves an API request to move the        *)
(* current mino, it creates an Action": when no request for a new game is   *)
(* under way, Actions are owned by the Board that is there.                 *)
Playable == Busy = {} /\ board # NoBoard => boardUID = board.uid

(* docs/design.md: "When the pod recieves an API request to start a new     *)
(* game, it deletes the current Board and recreates a new Board": as long   *)
(* as players ask for one there is a Board again and again.                 *)
NewGameStarts == []<>(board # NoBoard)

(* What it takes to keep players from a game: only a pod that started while *)
(* there was no Board, or that once read a Board with a DeletionTimestamp,  *)
(* or whose T4s goes, refuses new games for ever.  Races of requests, lost  *)
(* answers, errors and Boards deleted by others do not.                     *)
RefusesForGoodReason ==
  []<>(board # NoBoard \/ ~target.named \/ target.deleting \/ t4sGoing)
=============================================================================
