----------------------------- MODULE Playfield -----------------------------
(***************************************************************************)
(* The pure part of the Board controller (controllers/board_controller.go): *)
(* what one pass of Reconcile does to the status of a Board, as operators   *)
(* over values.  The modules that hold state (BoardGame, BoardReconcile)    *)
(* apply these operators; nothing here is a step.                           *)
(*                                                                          *)
(* A status is a record [data, currentMino, state]:                         *)
(*   data         a grid, data[y][x] with y growing downwards, or NoData    *)
(*                for the nil slice of a Board that was never reconciled;   *)
(*   currentMino  the slice CurrentMino: <<>> or <<mino>>;                  *)
(*   state        "Playing", "GameOver", or "" before the first reconcile.  *)
(*                                                                          *)
(* Lists of coordinates are sets: their order and repetitions are never     *)
(* looked at.  AbsoluteCoords is computed when it is needed: every mino the *)
(* code stores went through setAbsoluteCoords after its last change.        *)
(***************************************************************************)
EXTENDS Integers, FiniteSets

CONSTANTS Width,    \* board.Spec.Width
          Height,   \* board.Spec.Height
          Minoes    \* the Mino objects of the namespace: [minoId, coords]

Coord == [x : Int, y : Int]

(* The CRD's minimum for both dimensions is 3.  The last conjunct is what   *)
(* the built-in minoes satisfy: an id that is not the value of an empty     *)
(* cell, and at least one cell.                                             *)
ASSUME PlayfieldAssumption ==
  /\ Width \in Nat /\ Width >= 3
  /\ Height \in Nat /\ Height >= 3
  /\ Minoes \subseteq [minoId : Nat \ {0}, coords : (SUBSET Coord) \ {{}}]

Cols == 0 .. Width - 1
Rows == 0 .. Height - 1
Grid == [Rows -> [Cols -> Nat]]

NoData    == <<>>
BlankGrid == [y \in Rows |-> [x \in Cols |-> 0]]

CurrentMino == [minoId : Nat \ {0}, center : Coord, relativeCoords : (SUBSET Coord) \ {{}}]

Ops == {"down", "left", "right", "rotate", "drop"}

(* An op the switch of moveCurrentMino does not know.  The Action CRD does  *)
(* not restrict op, and its own comment names "rot".                        *)
UnknownOp == "rot"

Status == [data : Grid \cup {NoData},
           currentMino : {<<>>} \cup [1 .. 1 -> CurrentMino],
           state : {"", "Playing", "GameOver"}]

FreshStatus == [data |-> NoData, currentMino |-> <<>>, state |-> ""]

-----------------------------------------------------------------------------
(* Geometry.  A relative y grows upwards, an absolute y downwards.          *)

AbsoluteCoords(m) ==
  {[x |-> m.center.x + c.x, y |-> m.center.y - c.y] : c \in m.relativeCoords}

IsCollision(d, coords) ==
  \E c \in coords : \/ c.x \notin Cols
                    \/ c.y \notin Rows
                    \/ d[c.y][c.x] # 0

Shifted(m, dx, dy) ==
  [m EXCEPT !.center = [x |-> m.center.x + dx, y |-> m.center.y + dy]]

Rotated(m) ==
  [m EXCEPT !.relativeCoords = {[x |-> c.y, y |-> -c.x] : c \in m.relativeCoords}]

\* Mutant: the new mino gets no cells.
SpawnedEmpty(t) ==
  [minoId |-> t.minoId, center |-> [x |-> (Width - 1) \div 2, y |-> 2], relativeCoords |-> {}]

Spawned(t) ==
  [minoId |-> t.minoId,
   center |-> [x |-> (Width - 1) \div 2, y |-> 2],
   relativeCoords |-> t.coords]

(* Writes the mino's id into the cells it covers. *)
Stamp(d, m) ==
  [y \in Rows |-> [x \in Cols |->
     IF [x |-> x, y |-> y] \in AbsoluteCoords(m) THEN m.minoId ELSE d[y][x]]]

(* How far the loop of "drop" lets the mino fall: every step up to the k-th *)
(* is free and the next one collides.  One element, as a set.               *)
FallDistances(d, m) ==
  {k \in 0 .. Height :
     /\ \A j \in 1 .. k : ~IsCollision(d, AbsoluteCoords(Shifted(m, 0, j)))
     /\ IsCollision(d, AbsoluteCoords(Shifted(m, 0, k + 1)))}

-----------------------------------------------------------------------------
(* Row removal. *)

RowComplete(d, y) == \A x \in Cols : d[y][x] # 0

(* Only the rows the landed mino touches are looked at. *)
RemoveYs(d, m) ==
  {y \in Rows : RowComplete(d, y) /\ \E c \in AbsoluteCoords(m) : c.y = y}

(* The rows the loop copies: it starts at Height - 2, so it never looks at  *)
(* the bottom row, whether that one is to be removed or not.                *)
CopiedRows(removeYs) == (0 .. Height - 2) \ removeYs

(* Where the loop copies row y to: newY starts at the bottom and moves up   *)
(* by one for each row copied before y.                                     *)
NewY(removeYs, y) ==
  Height - 1 - Cardinality({z \in CopiedRows(removeYs) : z > y})

(* Rows no copy lands on keep their old contents. *)
DropRows(d, removeYs) ==
  [r \in Rows |->
     IF \E y \in CopiedRows(removeYs) : NewY(removeYs, y) = r
     THEN d[CHOOSE y \in CopiedRows(removeYs) : NewY(removeYs, y) = r]
     ELSE d[r]]

\* Mutant: no early return when there is no row to remove.
CheckRemoveRowsAlways(d, m) == DropRows(d, RemoveYs(d, m))

CheckRemoveRows(d, m) ==
  IF RemoveYs(d, m) = {} THEN d ELSE DropRows(d, RemoveYs(d, m))

-----------------------------------------------------------------------------
(* The passes of Reconcile over the in-memory board b.                      *)

(* A Board that has no data gets a blank grid and the state of its spec. *)
InitStatus(b, specState) ==
  IF b.data = NoData THEN [b EXCEPT !.data = BlankGrid, !.state = specState] ELSE b

\* Mutant: a finished game gets new minoes too.
NeedsMinoAlways(b) == b.currentMino = <<>>

NeedsMino(b) == b.state # "GameOver" /\ b.currentMino = <<>>

\* Mutant: no room for the new mino does not end the game.
NewMinoOrNone(b, t) ==
  IF IsCollision(b.data, AbsoluteCoords(Spawned(t)))
  THEN b
  ELSE [b EXCEPT !.currentMino = <<Spawned(t)>>]

(* newMino for the mino t it picked: placed if it fits, else game over. *)
NewMino(b, t) ==
  IF IsCollision(b.data, AbsoluteCoords(Spawned(t)))
  THEN [b EXCEPT !.state = "GameOver"]
  ELSE [b EXCEPT !.currentMino = <<Spawned(t)>>]

(* The pick is random; no Mino in the namespace is an error: no result.     *)
ReconcileCurrentMino(b) ==
  IF NeedsMino(b) THEN {NewMino(b, t) : t \in Minoes} ELSE {b}

\* Mutant: a sideways move or a rotation is not checked for a collision.
MoveToUnchecked(b, m) == [b EXCEPT !.currentMino = <<m>>]

MoveTo(b, m) ==
  IF IsCollision(b.data, AbsoluteCoords(m)) THEN b ELSE [b EXCEPT !.currentMino = <<m>>]

Land(b, m) ==
  [b EXCEPT !.data = CheckRemoveRows(Stamp(b.data, m), m), !.currentMino = <<>>]

\* Mutant: a mino that cannot go down stays.
MoveDownNeverLands(b, m) == MoveTo(b, Shifted(m, 0, 1))

MoveDown(b, m) ==
  IF IsCollision(b.data, AbsoluteCoords(Shifted(m, 0, 1)))
  THEN Land(b, m)
  ELSE [b EXCEPT !.currentMino = <<Shifted(m, 0, 1)>>]

\* Mutant: the mino falls but is written where it was.
DroppedTwice(b, m, k) ==
  [b EXCEPT !.data = Stamp(b.data, m), !.currentMino = <<Shifted(m, 0, k)>>]

(* The dropped mino is written into data and stays the current mino. *)
Dropped(b, m, k) ==
  [b EXCEPT !.data = Stamp(b.data, Shifted(m, 0, k)), !.currentMino = <<Shifted(m, 0, k)>>]

MoveCurrentMino(b, op) ==
  LET m == b.currentMino[1] IN
  CASE op = "down"   -> {MoveDown(b, m)}
    [] op = "left"   -> {MoveTo(b, Shifted(m, -1, 0))}
    [] op = "right"  -> {MoveTo(b, Shifted(m, 1, 0))}
    [] op = "rotate" -> {MoveTo(b, Rotated(m))}
    [] op = "drop"   -> {Dropped(b, m, k) : k \in FallDistances(b.data, m)}
    [] OTHER         -> {b}

(* What the first Action of the list does; a finished game ignores it. *)
HandleOp(b, op) == IF b.state = "GameOver" THEN {b} ELSE MoveCurrentMino(b, op)

-----------------------------------------------------------------------------
(* What every status between two reconciles looks like. *)

HasMino(b) == b.currentMino # <<>>
Mino(b)    == b.currentMino[1]
Cells(b)   == AbsoluteCoords(Mino(b))

OnBoard(coords)    == \A c \in coords : c.x \in Cols /\ c.y \in Rows
Falling(b)         == \A c \in Cells(b) : b.data[c.y][c.x] = 0
WasDropped(b)      == \A c \in Cells(b) : b.data[c.y][c.x] = Mino(b).minoId

(* The current mino lies on the board and is either falling, all its cells  *)
(* empty, or dropped, all its cells written with its id.                    *)
MinoFits(b) == HasMino(b) => OnBoard(Cells(b)) /\ (Falling(b) \/ WasDropped(b))

(* A dropped mino cannot go further down. *)
MinoRests(b) ==
  HasMino(b) /\ WasDropped(b) => IsCollision(b.data, AbsoluteCoords(Shifted(Mino(b), 0, 1)))

(* Nothing before the first reconcile; a mino only while the game goes on.  *)
Coherent(b) ==
  /\ b.data = NoData => b = FreshStatus
  /\ b.data # NoData => b.state \in {"Playing", "GameOver"}
  /\ HasMino(b) => b.state = "Playing"

WellFormed(b) == b \in Status /\ Coherent(b) /\ MinoFits(b) /\ MinoRests(b)
=============================================================================
