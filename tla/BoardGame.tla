----------------------------- MODULE BoardGame -----------------------------
(***************************************************************************)
(* The game a Board promises to play, at the grain of whole reconciles:     *)
(* reading the Board, handling at most one Action and writing the status    *)
(* are one step.  BoardReconcile splits that step into the API calls the    *)
(* controller makes and is shown to implement this specification.           *)
(*                                                                          *)
(* There is one Board, named "board", per namespace.  t4s-app and the T4s   *)
(* controller delete and create it at any time; its dimensions stay those   *)
(* of the constants here.                                                   *)
(***************************************************************************)
EXTENDS Playfield

VARIABLES
  specState,   \* board.Spec.State, or "Absent" when there is no Board
  status       \* board.Status

vars == <<specState, status>>

SpecStates == {"Playing", "GameOver"}

(* Types and bounds of the variables. *)
TypeOK == /\ specState \in SpecStates \cup {"Absent"}
          /\ status \in Status

Init == specState = "Absent" /\ status = FreshStatus

(* t4s-app creates a Board that plays, the T4s controller one that does not. *)
CreateBoard ==
  /\ specState = "Absent"
  /\ specState' \in SpecStates
  /\ status' = FreshStatus

DeleteBoard ==
  /\ specState # "Absent"
  /\ specState' = "Absent"
  /\ status' = FreshStatus

(* The in-memory board after initialisation and reconcileCurrentMino. *)
Prepared == ReconcileCurrentMino(InitStatus(status, specState))

(* A reconcile that found no Action. *)
ReconcileIdle ==
  /\ specState # "Absent"
  /\ status' \in Prepared
  /\ UNCHANGED specState

(* A reconcile that found Actions, the first of them with this op. *)
ReconcileOp(op) ==
  /\ specState # "Absent"
  /\ \E b \in Prepared : status' \in HandleOp(b, op)
  /\ UNCHANGED specState

Next == \/ CreateBoard
        \/ DeleteBoard
        \/ ReconcileIdle
        \/ \E op \in Ops \cup {UnknownOp} : ReconcileOp(op)

Spec == Init /\ [][Next]_vars

(* Cron keeps creating "down" Actions and the name the API server generates *)
(* for an Action, which decides what is first in the list, is random: no    *)
(* "down" is passed over for ever.                                          *)
FairSpec == Spec /\ WF_vars(ReconcileOp("down"))

-----------------------------------------------------------------------------
(* The step goes on with the same Board, already initialised. *)
SameBoard == /\ specState # "Absent" /\ specState' # "Absent"
             /\ status.data # NoData

(* A dropped mino cannot go further down, so the next "down" lands it where *)
(* "drop" wrote it.                                                         *)
DroppedRests == MinoRests(status)

(* What every op leaves behind for the next: a status whose data and state  *)
(* fit together, with a mino on the board whose cells are all empty, or all *)
(* written with its own id and resting.  The invariant the proofs use.      *)
StatusInv == /\ TypeOK
             /\ specState = "Absent" => status = FreshStatus
             /\ WellFormed(status)

(* Whatever Action comes next, CurrentMino[0] exists when moveCurrentMino   *)
(* indexes it, and the cells a landing writes exist in Data.                *)
NoIndexPanic ==
  specState # "Absent" =>
    \A b \in Prepared : b.state # "GameOver" =>
      /\ b.currentMino # <<>>
      /\ \A c \in AbsoluteCoords(b.currentMino[1]) : c.x \in Cols /\ c.y \in Rows

(* The loop of "drop" ends: whatever came before, a mino that is taken down *)
(* row by row collides, with the floor at the latest.                       *)
DropEnds ==
  specState # "Absent" =>
    \A b \in Prepared : HasMino(b) =>
      \E k \in 1 .. Height : IsCollision(b.data, AbsoluteCoords(Shifted(Mino(b), 0, k)))

(* "drop" then "down" is one landing: the rows are removed and the cells    *)
(* written as if the mino had landed there without being dropped before.    *)
DropThenDownLands ==
  HasMino(status) =>
    \A k \in FallDistances(status.data, Mino(status)) :
      LET m == Shifted(Mino(status), 0, k)
      IN  MoveDown(Dropped(status, Mino(status), k), m) = Land(status, m)

(* A filled cell changes only when a landing completes a row of the mino.   *)
FilledCellsChangeOnlyOnRemoval ==
  [][SameBoard =>
       \/ \A r \in Rows, x \in Cols :
            status.data[r][x] # 0 => status'.data[r][x] = status.data[r][x]
       \/ \E b \in Prepared :
            /\ b.currentMino # <<>> /\ status'.currentMino = <<>>
            /\ LET m == b.currentMino[1] IN RemoveYs(Stamp(b.data, m), m) # {}]_vars

(* The game ends only when there is no room for a new mino, with the cells  *)
(* as they were, and a finished game changes no more.                       *)
GameOverIsFinal ==
  [][SameBoard =>
       /\ status.state = "GameOver" => status' = status
       /\ status.state = "Playing" /\ status'.state = "GameOver" =>
            /\ status'.data = status.data /\ ~HasMino(status) /\ ~HasMino(status')
            /\ \E t \in Minoes : IsCollision(status.data, AbsoluteCoords(Spawned(t)))]_vars

(* A mino does not hang for ever, whatever the player does. *)
MinoLands == HasMino(status) ~> ~HasMino(status)

-----------------------------------------------------------------------------
(* What a comment in the code says and the code does not do. *)

(* The rows of d without those of removeYs: every other row falls by the    *)
(* number of removed rows below it, and blank rows come in at the top.      *)
WithoutRows(d, removeYs) ==
  [r \in Rows |->
     IF \E y \in Rows \ removeYs : y + Cardinality({z \in removeYs : z > y}) = r
     THEN d[CHOOSE y \in Rows \ removeYs : y + Cardinality({z \in removeYs : z > y}) = r]
     ELSE BlankGrid[r]]

(* checkRemoveRows, "Drop rows except the ones to be removed": a landing    *)
(* keeps the rows that are not to be removed and none of the others.        *)
OnlyRemovedRowsGo ==
  [][SameBoard /\ HasMino(status) /\ ~HasMino(status') =>
       LET d == Stamp(status.data, Mino(status))
       IN  status'.data = WithoutRows(d, RemoveYs(d, Mino(status)))]_vars
=============================================================================
