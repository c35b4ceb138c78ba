-------------------------- MODULE BoardGame_proofs --------------------------
(***************************************************************************)
(* The invariants and action properties of BoardGame, for boards of every   *)
(* size and every set of minoes.  All rest on one inductive invariant,      *)
(* StatusInv: neither MinoFits nor MinoRests is inductive alone, because a  *)
(* second "drop" of a mino is harmless only if the mino cannot fall further *)
(* than where the first one wrote it.                                       *)
(*                                                                          *)
(* Then of RowDropLoop: that the loop of checkRemoveRows does what DropRows *)
(* says, for a board of any height and any rows to be removed, so that it   *)
(* leaves the grid of a landing of BoardGame.                               *)
(***************************************************************************)
EXTENDS BoardGame, RowDropLoop, Playfield_proofs, FiniteSetTheorems

(* A Board that was never reconciled. *)
LEMMA FreshWellFormed == FreshStatus \in Status /\ WellFormed(FreshStatus)
<1>1. FreshStatus \in Status
  BY DEF FreshStatus, Status
<1>2. FreshStatus.currentMino = <<>> /\ FreshStatus.data = NoData
  BY DEF FreshStatus
<1>3. QED
  BY <1>1, <1>2 DEF WellFormed, Coherent, MinoFits, MinoRests, HasMino

(* What a reconcile of an existing Board has in hand before the Actions. *)
LEMMA PreparedWellFormed ==
  ASSUME StatusInv, specState # "Absent", NEW b \in Prepared
  PROVE  /\ WellFormed(b)
         /\ b.state # "GameOver" => HasMino(b)
         /\ b.data = InitStatus(status, specState).data
<1>1. specState \in {"Playing", "GameOver"}
  BY DEF StatusInv, TypeOK, SpecStates
<1>2. /\ WellFormed(InitStatus(status, specState))
      /\ InitStatus(status, specState).data \in Grid
  BY <1>1, InitStatusWellFormed DEF StatusInv
<1>3. b \in ReconcileCurrentMino(InitStatus(status, specState))
  BY DEF Prepared
<1>4. QED
  BY <1>2, <1>3, ReconcileCurrentMinoWellFormed

(* Without a Board the invariant holds. *)
LEMMA InitStatusInv == Init => StatusInv
  BY FreshWellFormed DEF Init, StatusInv, TypeOK

(* A creation, a deletion and every reconcile keep it. *)
LEMMA NextStatusInv == StatusInv /\ [Next]_vars => StatusInv'
<1> SUFFICES ASSUME StatusInv, [Next]_vars
             PROVE  StatusInv'
  OBVIOUS
<1>1. CASE CreateBoard
  BY <1>1, FreshWellFormed DEF CreateBoard, StatusInv, TypeOK
<1>2. CASE DeleteBoard
  BY <1>2, FreshWellFormed DEF DeleteBoard, StatusInv, TypeOK
<1>3. CASE ReconcileIdle
  <2>1. WellFormed(status')
    BY <1>3, PreparedWellFormed DEF ReconcileIdle
  <2>2. QED
    BY <1>3, <2>1 DEF ReconcileIdle, StatusInv, TypeOK, WellFormed
<1>4. ASSUME NEW op \in Ops \cup {UnknownOp}, ReconcileOp(op)
      PROVE  StatusInv'
  <2>1. PICK b \in Prepared : status' \in HandleOp(b, op)
    BY <1>4 DEF ReconcileOp
  <2>2. WellFormed(b) /\ (b.state # "GameOver" => HasMino(b))
    BY <1>4, PreparedWellFormed DEF ReconcileOp
  <2>3. WellFormed(status')
    BY <2>1, <2>2, HandleOpWellFormed
  <2>4. QED
    BY <1>4, <2>3 DEF ReconcileOp, StatusInv, TypeOK, WellFormed
<1>5. CASE UNCHANGED vars
  BY <1>5 DEF vars, StatusInv, TypeOK, SpecStates
<1>6. QED
  BY <1>1, <1>2, <1>3, <1>4, <1>5 DEF Next

(* Every status the controller writes is well formed, whatever the Actions  *)
(* and whoever deletes and creates the Board in between.                    *)
THEOREM StatusCorrect == Spec => []StatusInv
<1>1. Init => StatusInv
  BY InitStatusInv
<1>2. StatusInv /\ [Next]_vars => StatusInv'
  BY NextStatusInv
<1>3. QED
  BY <1>1, <1>2, PTL DEF Spec

(* The types of the stored spec and status. *)
THEOREM TypeCorrect == Spec => []TypeOK
<1>1. StatusInv => TypeOK
  BY DEF StatusInv
<1>2. QED
  BY <1>1, StatusCorrect, PTL

(* A dropped mino lands at the next "down", where "drop" wrote it. *)
THEOREM DroppedRestsCorrect == Spec => []DroppedRests
<1>1. StatusInv => DroppedRests
  BY DEF StatusInv, WellFormed, DroppedRests
<1>2. QED
  BY <1>1, StatusCorrect, PTL

(* Reconcile never indexes a slice out of its range. *)
THEOREM NoIndexPanicCorrect == Spec => []NoIndexPanic
<1>1. ASSUME StatusInv
      PROVE  NoIndexPanic
  <2>1. SUFFICES ASSUME specState # "Absent", NEW b \in Prepared, b.state # "GameOver"
                 PROVE  HasMino(b) /\ OnBoard(AbsoluteCoords(b.currentMino[1]))
    BY DEF NoIndexPanic, HasMino, OnBoard
  <2>2. WellFormed(b) /\ HasMino(b)
    BY <1>1, <2>1, PreparedWellFormed
  <2>3. QED
    BY <2>2 DEF WellFormed, MinoFits, Cells, Mino
<1>2. QED
  BY <1>1, StatusCorrect, PTL

(* The loop of "drop" ends at the floor at the latest. *)
THEOREM DropEndsCorrect == Spec => []DropEnds
<1>1. ASSUME StatusInv
      PROVE  DropEnds
  <2>1. SUFFICES ASSUME specState # "Absent", NEW b \in Prepared, HasMino(b)
                 PROVE  IsCollision(b.data, AbsoluteCoords(Shifted(Mino(b), 0, Height)))
    <3>1. Height \in 1 .. Height
      BY PlayfieldAssumption
    <3> QED
      BY <2>1, <3>1 DEF DropEnds
  <2>2. b \in Status /\ Coherent(b) /\ OnBoard(Cells(b))
    <3>1. WellFormed(b)
      BY <1>1, <2>1, PreparedWellFormed
    <3> QED
      BY <2>1, <3>1 DEF WellFormed, MinoFits
  <2>3. Mino(b) \in CurrentMino
    BY <2>1, <2>2, StatusParts
  <2>4. PICK c \in Mino(b).relativeCoords : TRUE
    BY <2>3 DEF CurrentMino
  <2> DEFINE at(m) == [x |-> m.center.x + c.x, y |-> m.center.y - c.y]
             m == Shifted(Mino(b), 0, Height)
  <2>5. c \in Coord /\ Mino(b).center \in Coord
    BY <2>3, <2>4 DEF CurrentMino
  <2>6. at(Mino(b)) \in Cells(b)
    BY <2>4 DEF Cells, AbsoluteCoords
  <2>7. at(Mino(b)).y \in Rows
    BY <2>2, <2>6 DEF OnBoard
  <2>8. /\ m.relativeCoords = Mino(b).relativeCoords
        /\ m.center = [x |-> Mino(b).center.x + 0, y |-> Mino(b).center.y + Height]
    BY <2>3 DEF Shifted, CurrentMino
  <2>9. at(m) \in AbsoluteCoords(m)
    BY <2>4, <2>8 DEF AbsoluteCoords
  <2>10. at(m).y \notin Rows
    BY <2>5, <2>7, <2>8, PlayfieldAssumption DEF Rows, Coord
  <2> QED
    BY <2>9, <2>10 DEF IsCollision
<1>2. QED
  BY <1>1, StatusCorrect, PTL

(* A drop followed by a "down" is one landing. *)
THEOREM DropThenDownLandsCorrect == Spec => []DropThenDownLands
<1>1. ASSUME StatusInv
      PROVE  DropThenDownLands
  <2> DEFINE M(k) == Shifted(Mino(status), 0, k)
             D(k) == Dropped(status, Mino(status), k)
  <2>1. SUFFICES ASSUME HasMino(status), NEW k \in FallDistances(status.data, Mino(status))
                 PROVE  MoveDown(D(k), M(k)) = Land(status, M(k))
    BY DEF DropThenDownLands
  <2>2. WellFormed(status)
    BY <1>1 DEF StatusInv
  <2>3. status \in Status /\ status.data \in Grid
    BY <2>1, <2>2, StatusParts DEF WellFormed
  <2>4. M(k) \in CurrentMino /\ IsCollision(status.data, AbsoluteCoords(Shifted(M(k), 0, 1)))
    BY <2>1, <2>2, FallDistanceFits
  <2>5. D(k) = [status EXCEPT !.data = Stamp(status.data, M(k)), !.currentMino = <<M(k)>>]
    BY DEF Dropped
  <2>6. D(k).data = Stamp(status.data, M(k))
    BY <2>3, <2>5 DEF Status
  <2>7. MoveDown(D(k), M(k)) = Land(D(k), M(k))
    BY <2>3, <2>4, <2>6, StampKeepsCollision DEF MoveDown
  <2>8. Stamp(D(k).data, M(k)) = Stamp(status.data, M(k))
    BY <2>3, <2>4, <2>6, StampTwice
  <2>9. Land(D(k), M(k)) = Land(status, M(k))
    BY <2>3, <2>5, <2>8 DEF Land, Status
  <2>10. QED
    BY <2>7, <2>9
<1>2. QED
  BY <1>1, StatusCorrect, PTL

-----------------------------------------------------------------------------
(* Action properties. *)

(* A step of the same Board is a reconcile, with or without an Action. *)
LEMMA SameBoardStep ==
  ASSUME StatusInv, Next, SameBoard
  PROVE  /\ WellFormed(status) /\ status.data \in Grid
         /\ \E b \in Prepared : Reconciled(status, b, status')
<1>1. InitStatus(status, specState) = status
  BY DEF SameBoard, InitStatus
<1>2. Prepared = ReconcileCurrentMino(status)
  BY <1>1 DEF Prepared
<1>3. ReconcileIdle \/ \E op \in Ops \cup {UnknownOp} : ReconcileOp(op)
  BY DEF Next, SameBoard, CreateBoard, DeleteBoard
<1>4. WellFormed(status) /\ status.data \in Grid
  BY DEF StatusInv, WellFormed, Status, SameBoard
<1> QED
  BY <1>2, <1>3, <1>4 DEF ReconcileIdle, ReconcileOp, Reconciled

(* A filled cell changes only when a landing completes a row. *)
THEOREM FilledCellsChangeOnlyOnRemovalCorrect == Spec => FilledCellsChangeOnlyOnRemoval
<1> DEFINE P == SameBoard =>
                  \/ \A r \in Rows, x \in Cols :
                       status.data[r][x] # 0 => status'.data[r][x] = status.data[r][x]
                  \/ \E b \in Prepared :
                       /\ b.currentMino # <<>> /\ status'.currentMino = <<>>
                       /\ LET m == b.currentMino[1] IN RemoveYs(Stamp(b.data, m), m) # {}
<1>1. ASSUME StatusInv, [Next]_vars
      PROVE  [P]_vars
  <2>1. SUFFICES ASSUME Next, SameBoard
                 PROVE  P
    BY <1>1
  <2>2. PICK b \in Prepared : Reconciled(status, b, status')
    BY <1>1, <2>1, SameBoardStep
  <2>3. \/ FilledCellsKept(status.data, status'.data)
        \/ HasMino(b) /\ ~HasMino(status') /\ RemoveYs(Stamp(b.data, Mino(b)), Mino(b)) # {}
    BY <1>1, <2>1, <2>2, SameBoardStep, ReconcileKeepsFilled
  <2> QED
    BY <2>3 DEF FilledCellsKept, HasMino, Mino
<1>2. QED
  BY <1>1, StatusCorrect, PTL DEF Spec, FilledCellsChangeOnlyOnRemoval

(* The game ends only for want of room, and then stays as it is. *)
THEOREM GameOverIsFinalCorrect == Spec => GameOverIsFinal
<1> DEFINE Ends == /\ status'.data = status.data /\ ~HasMino(status) /\ ~HasMino(status')
                   /\ \E t \in Minoes : IsCollision(status.data, AbsoluteCoords(Spawned(t)))
           P == SameBoard =>
                  /\ status.state = "GameOver" => status' = status
                  /\ status.state = "Playing" /\ status'.state = "GameOver" => Ends
<1>1. ASSUME StatusInv, [Next]_vars
      PROVE  [P]_vars
  BY <1>1, SameBoardStep, ReconcileEndsGame DEF NoRoom
<1>2. QED
  BY <1>1, StatusCorrect, PTL DEF Spec, GameOverIsFinal

(* The safety half of MinoLands: as long as a mino is there it never rises,  *)
(* and a "down" either lands it or takes it down by one row.  It cannot go   *)
(* down for ever, because its cells stay on the board.                       *)
MinoDescends ==
  [][SameBoard /\ HasMino(status) /\ HasMino(status') =>
       /\ Mino(status').center.y >= Mino(status).center.y
       /\ ReconcileOp("down") => Mino(status').center.y = Mino(status).center.y + 1]_vars

(* MinoDescends, on boards of every size and for minoes of every shape: with *)
(* the fairness of "down" this is why MinoLands holds.                       *)
THEOREM MinoDescendsCorrect == Spec => MinoDescends
<1> DEFINE P == SameBoard /\ HasMino(status) /\ HasMino(status') =>
                  /\ Mino(status').center.y >= Mino(status).center.y
                  /\ ReconcileOp("down") =>
                       Mino(status').center.y = Mino(status).center.y + 1
<1>1. ASSUME StatusInv, [Next]_vars
      PROVE  [P]_vars
  <2>1. SUFFICES ASSUME Next, SameBoard, HasMino(status), HasMino(status')
                 PROVE  P
    BY <1>1
  <2>2. WellFormed(status) /\ Mino(status) \in CurrentMino
    BY <1>1, <2>1, StatusParts DEF StatusInv, WellFormed
  <2>3. \A b \in Prepared : b = status
    BY <2>1 DEF Prepared, SameBoard, InitStatus, ReconcileCurrentMino, NeedsMino, HasMino
  <2>4. Mino(status').center.y >= Mino(status).center.y
    BY <1>1, <2>1, <2>2, SameBoardStep, ReconcileDescends
  <2>5. ReconcileOp("down") => Mino(status').center.y = Mino(status).center.y + 1
    BY <2>1, <2>2, <2>3, HandleOpDescends DEF ReconcileOp
  <2> QED
    BY <2>4, <2>5
<1>2. QED
  BY <1>1, StatusCorrect, PTL DEF Spec, MinoDescends

-----------------------------------------------------------------------------
(* The loop of checkRemoveRows. *)

(* The rows below z that are copied: finitely many, and not too many. *)
LEMMA CopiedBelow ==
  ASSUME NEW ys, NEW z \in Int, z >= -1, z <= Height - 2
  PROVE  /\ IsFiniteSet({w \in CopiedRows(ys) : w > z})
         /\ Cardinality({w \in CopiedRows(ys) : w > z}) \in 0 .. Height - 2 - z
<1> DEFINE S == {w \in CopiedRows(ys) : w > z}
<1>1. S \in SUBSET (z + 1 .. Height - 2)
  BY PlayfieldAssumption DEF CopiedRows
<1>2. /\ IsFiniteSet(z + 1 .. Height - 2)
      /\ Cardinality(z + 1 .. Height - 2) = Height - 2 - z
  BY PlayfieldAssumption, FS_Interval
<1>3. IsFiniteSet(S) /\ Cardinality(S) <= Height - 2 - z
  BY <1>1, <1>2, FS_Subset
<1>4. Cardinality(S) \in Nat
  BY <1>3, FS_CardinalityType
<1>5. QED
  BY <1>3, <1>4, PlayfieldAssumption

(* A row is copied to a row below it. *)
LEMMA NewYBelow ==
  ASSUME NEW ys, NEW z \in CopiedRows(ys)
  PROVE  NewY(ys, z) \in z + 1 .. Height - 1
<1>1. z \in 0 .. Height - 2
  BY DEF CopiedRows
<1>2. QED
  BY <1>1, CopiedBelow, PlayfieldAssumption DEF NewY

(* Rows keep their order, so no two go to the same place. *)
LEMMA NewYOrder ==
  ASSUME NEW ys, NEW v \in CopiedRows(ys), NEW w \in CopiedRows(ys), v < w
  PROVE  NewY(ys, v) < NewY(ys, w)
<1> DEFINE A(z) == {u \in CopiedRows(ys) : u > z}
<1>1. v \in 0 .. Height - 2 /\ w \in 0 .. Height - 2
  BY DEF CopiedRows
<1>2. /\ IsFiniteSet(A(v)) /\ Cardinality(A(v)) \in Nat
      /\ IsFiniteSet(A(w)) /\ Cardinality(A(w)) \in Nat
  BY <1>1, CopiedBelow, PlayfieldAssumption
<1>3. A(w) \in SUBSET A(v)
  BY <1>1 DEF CopiedRows
<1>4. w \in A(v) /\ w \notin A(w)
  BY <1>1
<1>5. Cardinality(A(w)) < Cardinality(A(v))
  BY <1>2, <1>3, <1>4, FS_Subset
<1>6. QED
  BY <1>2, <1>5, PlayfieldAssumption DEF NewY

(* Before the first iteration nothing was copied. *)
LEMMA InitLoop == LoopInit => LoopTypeOK /\ LoopInv
<1> SUFFICES ASSUME LoopInit
             PROVE  LoopTypeOK /\ LoopInv
  OBVIOUS
<1>1. LoopTypeOK
  BY GridsAssumption, PlayfieldAssumption DEF LoopInit, LoopTypeOK
<1>2. Copied = {}
  BY PlayfieldAssumption DEF LoopInit, Copied, CopiedRows
<1>3. LoopInv
  BY <1>2, FS_EmptySet, PlayfieldAssumption DEF LoopInit, LoopInv
<1>4. QED
  BY <1>1, <1>3

(* An iteration keeps the invariant, whether the row is skipped or copied. *)
LEMMA NextLoop == LoopTypeOK /\ LoopInv /\ [LoopNext]_loopVars => LoopTypeOK' /\ LoopInv'
<1> SUFFICES ASSUME LoopTypeOK, LoopInv, [LoopNext]_loopVars
             PROVE  LoopTypeOK' /\ LoopInv'
  OBVIOUS
<1>1. CASE SkipRow
  <2>1. LoopTypeOK'
    BY <1>1, PlayfieldAssumption DEF SkipRow, LoopTypeOK
  <2>2. Copied' = Copied
    BY <1>1 DEF SkipRow, LoopTypeOK, Copied, CopiedRows
  <2>3. QED
    BY <1>1, <2>1, <2>2 DEF SkipRow, LoopInv
<1>2. CASE CopyRow
  <2>1. y \in CopiedRows(removeYs) /\ y \in Rows
    BY <1>2, PlayfieldAssumption DEF CopyRow, LoopTypeOK, CopiedRows, Rows
  <2>2. newY = NewY(removeYs, y)
    BY DEF LoopInv, NewY, Copied
  <2>3. newY \in y + 1 .. Height - 1 /\ newY \in Rows
    BY <2>1, <2>2, NewYBelow, PlayfieldAssumption DEF Rows, CopiedRows
  <2>4. Copied' = Copied \cup {y}
    BY <1>2, <2>1 DEF CopyRow, LoopTypeOK, Copied, CopiedRows
  <2>5. ASSUME NEW z \in Copied
        PROVE  /\ z \in CopiedRows(removeYs) /\ NewY(removeYs, z) \in Rows
               /\ NewY(removeYs, z) > newY /\ NewY(removeYs, z) # y
    <3>1. z \in CopiedRows(removeYs) /\ z > y
      BY DEF Copied
    <3>2. NewY(removeYs, z) \in z + 1 .. Height - 1
      BY <3>1, NewYBelow
    <3>3. NewY(removeYs, y) < NewY(removeYs, z)
      BY <2>1, <3>1, NewYOrder
    <3>4. QED
      BY <2>1, <2>2, <3>1, <3>2, <3>3, PlayfieldAssumption DEF Rows, CopiedRows
  <2>6. data[y] = before[y]
    BY <2>1, <2>5 DEF LoopInv
  <2>7. data' = [data EXCEPT ![newY] = before[y]]
    BY <1>2, <2>6 DEF CopyRow
  <2>8. DOMAIN data = Rows
    BY DEF LoopTypeOK, Grid
  <2>9. LoopTypeOK'
    <3>1. before[y] \in [Cols -> Nat]
      BY <2>1 DEF LoopTypeOK, Grid
    <3>2. data' \in Grid
      BY <2>7, <3>1 DEF LoopTypeOK, Grid
    <3>3. QED
      BY <1>2, <2>3, <3>2, PlayfieldAssumption DEF CopyRow, LoopTypeOK
  <2>10. newY' = Height - 1 - Cardinality(Copied')
    <3>1. IsFiniteSet(Copied) /\ Cardinality(Copied) \in Nat /\ y \notin Copied
      BY <2>1, CopiedBelow DEF Copied, CopiedRows
    <3>2. Cardinality(Copied') = Cardinality(Copied) + 1
      BY <2>4, <3>1, FS_AddElement
    <3>3. QED
      BY <1>2, <3>1, <3>2, PlayfieldAssumption DEF CopyRow, LoopInv
  <2>11. \A z \in Copied' : data'[NewY(removeYs, z)] = before[z]
    BY <2>2, <2>3, <2>4, <2>5, <2>7, <2>8 DEF LoopInv
  <2>12. \A r \in Rows :
           (\A z \in Copied' : NewY(removeYs, z) # r) => data'[r] = before[r]
    BY <2>2, <2>4, <2>7, <2>8 DEF LoopInv
  <2>13. removeYs' = removeYs /\ before' = before
    BY <1>2 DEF CopyRow
  <2>14. LoopInv'
    BY <2>10, <2>11, <2>12, <2>13 DEF LoopInv
  <2>15. QED
    BY <2>9, <2>14
<1>3. CASE UNCHANGED loopVars
  BY <1>3 DEF loopVars, LoopTypeOK, LoopInv, Copied
<1>4. QED
  BY <1>1, <1>2, <1>3 DEF LoopNext

(* The loop keeps its invariant. *)
THEOREM LoopCorrect == LoopSpec => [](LoopTypeOK /\ LoopInv)
  BY InitLoop, NextLoop, PTL DEF LoopSpec

(* The loop never reads a row it has overwritten. *)
THEOREM UnreadRowsIntactCorrect == LoopSpec => []UnreadRowsIntact
<1>1. ASSUME LoopTypeOK, LoopInv
      PROVE  UnreadRowsIntact
  <2>1. SUFFICES ASSUME NEW z \in 0 .. y
                 PROVE  data[z] = before[z]
    BY DEF UnreadRowsIntact
  <2>2. z \in Rows
    BY <1>1, PlayfieldAssumption DEF LoopTypeOK, Rows
  <2>3. ASSUME NEW w \in Copied
        PROVE  NewY(removeYs, w) # z
    <3>1. w \in CopiedRows(removeYs) /\ w > y
      BY DEF Copied
    <3>2. NewY(removeYs, w) \in w + 1 .. Height - 1
      BY <3>1, NewYBelow
    <3>3. QED
      BY <1>1, <3>1, <3>2, PlayfieldAssumption DEF LoopTypeOK, CopiedRows
  <2>4. QED
    BY <1>1, <2>2, <2>3 DEF LoopInv
<1>2. QED
  BY <1>1, LoopCorrect, PTL

(* What the loop leaves is what DropRows says. *)
THEOREM LoopIsDropRowsCorrect == LoopSpec => []LoopIsDropRows
<1>1. ASSUME LoopTypeOK, LoopInv
      PROVE  LoopIsDropRows
  <2> DEFINE C == CopiedRows(removeYs)
             D == DropRows(before, removeYs)
  <2>1. SUFFICES ASSUME Done
                 PROVE  data = D
    BY DEF LoopIsDropRows
  <2>2. Copied = C
    BY <1>1, <2>1, PlayfieldAssumption DEF Done, LoopTypeOK, Copied, CopiedRows
  <2>3. ASSUME NEW r \in Rows
        PROVE  data[r] = D[r]
    <3>1. CASE \E z \in C : NewY(removeYs, z) = r
      <4> DEFINE p == CHOOSE z \in C : NewY(removeYs, z) = r
      <4>1. p \in C /\ NewY(removeYs, p) = r
        BY <3>1
      <4>2. D[r] = before[p]
        BY <3>1 DEF DropRows
      <4>3. data[r] = before[p]
        BY <1>1, <2>2, <4>1 DEF LoopInv
      <4>4. QED
        BY <4>2, <4>3
    <3>2. CASE ~\E z \in C : NewY(removeYs, z) = r
      <4>1. D[r] = before[r]
        BY <3>2 DEF DropRows
      <4>2. data[r] = before[r]
        BY <1>1, <2>2, <3>2 DEF LoopInv
      <4>3. QED
        BY <4>1, <4>2
    <3>3. QED
      BY <3>1, <3>2
  <2>4. data = [r \in Rows |-> data[r]] /\ D = [r \in Rows |-> D[r]]
    BY <1>1 DEF LoopTypeOK, Grid, DropRows
  <2>5. QED
    BY <2>3, <2>4
<1>2. QED
  BY <1>1, LoopCorrect, PTL

(* If the bottom row is to be removed, the other rows end as they should:   *)
(* each falls by the number of removed rows below it.                       *)
THEOREM RowsFallPastRemovedCorrect == LoopSpec => []RowsFallPastRemoved
<1>1. ASSUME LoopTypeOK, LoopInv
      PROVE  RowsFallPastRemoved
  <2>1. SUFFICES ASSUME Done, Height - 1 \in removeYs, NEW z \in Rows \ removeYs
                 PROVE  data[z + Cardinality({w \in removeYs : w > z})] = before[z]
    BY DEF RowsFallPastRemoved
  <2> DEFINE A == {w \in CopiedRows(removeYs) : w > z}
             B == {w \in removeYs : w > z}
  <2>0. Height \in Nat /\ Height >= 3 /\ removeYs \subseteq 0 .. Height - 1
    BY <1>1, PlayfieldAssumption DEF LoopTypeOK, Rows
  <2>2. z \in CopiedRows(removeYs) /\ z \in 0 .. Height - 2
    BY <2>0, <2>1 DEF Rows, CopiedRows
  <2>3. data[NewY(removeYs, z)] = before[z]
    BY <1>1, <2>1, <2>2, PlayfieldAssumption DEF Done, LoopTypeOK, Copied, CopiedRows, LoopInv
  <2>4. IsFiniteSet(A) /\ Cardinality(A) \in Nat
    <3>1. Cardinality(A) \in 0 .. Height - 2 - z /\ IsFiniteSet(A)
      BY <2>0, <2>2, CopiedBelow
    <3>2. QED
      BY <3>1
  <2>5. IsFiniteSet(B) /\ Cardinality(B) \in Nat
    <3>1. B \in SUBSET (0 .. Height - 1)
      BY <2>0
    <3>2. IsFiniteSet(0 .. Height - 1)
      BY <2>0, FS_Interval
    <3>3. QED
      BY <3>1, <3>2, FS_Subset, FS_CardinalityType
  <2>6. A \cup B = z + 1 .. Height - 1 /\ A \cap B = {}
    <3>1. ASSUME NEW w \in A \cup B
          PROVE  w \in z + 1 .. Height - 1
      BY <2>0, <2>2 DEF CopiedRows
    <3>2. ASSUME NEW w \in z + 1 .. Height - 1
          PROVE  w \in A \cup B
      BY <2>0, <2>1, <2>2 DEF CopiedRows
    <3>3. A \cap B = {}
      BY DEF CopiedRows
    <3>4. QED
      BY <3>1, <3>2, <3>3
  <2>7. Cardinality(A \cup B) = Cardinality(A) + Cardinality(B)
    <3>1. Cardinality(A \cup B) = Cardinality(A) + Cardinality(B) - Cardinality(A \cap B)
      BY <2>4, <2>5, FS_Union
    <3>2. QED
      BY <2>4, <2>5, <2>6, <3>1, FS_EmptySet
  <2>8. Cardinality(A \cup B) = Height - 1 - z
    <3>1. z + 1 \in Int /\ Height - 1 \in Int /\ z + 1 <= Height - 1
      BY <2>0, <2>2
    <3>2. Cardinality(z + 1 .. Height - 1) = (Height - 1) - (z + 1) + 1
      BY <3>1, FS_Interval
    <3>3. Cardinality(A \cup B) = Cardinality(z + 1 .. Height - 1)
      BY <2>6, Zenon
    <3>4. (Height - 1) - (z + 1) + 1 = Height - 1 - z
      BY <2>0, <2>2
    <3>5. QED
      BY <3>2, <3>3, <3>4
  <2>9. NewY(removeYs, z) = z + Cardinality(B)
    BY <2>0, <2>2, <2>4, <2>5, <2>7, <2>8 DEF NewY
  <2>10. QED
    BY <2>3, <2>9
<1>2. QED
  BY <1>1, LoopCorrect, PTL

(* The game and the loop together: started with the grid that a mino was    *)
(* written into and the rows it completes, the loop leaves the grid that    *)
(* the landing of BoardGame has.                                            *)
THEOREM LoopIsCheckRemoveRows ==
  LoopSpec => [](Done => \A m \in CurrentMino :
                           removeYs = RemoveYs(before, m) => data = CheckRemoveRows(before, m))
<1>1. LoopInit => removeYs # {}
  BY DEF LoopInit
<1>2. removeYs # {} /\ [LoopNext]_loopVars => (removeYs # {})'
  BY DEF LoopNext, SkipRow, CopyRow, loopVars
<1>3. removeYs # {} /\ LoopIsDropRows =>
        (Done => \A m \in CurrentMino :
                   removeYs = RemoveYs(before, m) => data = CheckRemoveRows(before, m))
  BY DEF LoopIsDropRows, CheckRemoveRows
<1> QED
  BY <1>1, <1>2, <1>3, LoopIsDropRowsCorrect, PTL DEF LoopSpec
=============================================================================
