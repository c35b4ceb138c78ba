-------------------------- MODULE Playfield_proofs --------------------------
(***************************************************************************)
(* Lemmas about the operators of Playfield: what each pass of Reconcile     *)
(* returns, and that every pass keeps a status well formed.                 *)
(***************************************************************************)
EXTENDS Playfield, TLAPS

(* Moving, turning and spawning give minoes. *)
LEMMA ShiftedType ==
  ASSUME NEW m \in CurrentMino, NEW dx \in Int, NEW dy \in Int
  PROVE  /\ Shifted(m, dx, dy) \in CurrentMino
         /\ Shifted(m, dx, dy).minoId = m.minoId
  BY DEF Shifted, CurrentMino, Coord

(* A rotated mino is a mino. *)
LEMMA RotatedType ==
  ASSUME NEW m \in CurrentMino
  PROVE  /\ Rotated(m) \in CurrentMino
         /\ Rotated(m).minoId = m.minoId
<1> DEFINE R == {[x |-> c.y, y |-> -c.x] : c \in m.relativeCoords}
<1>1. R \subseteq Coord
  BY DEF CurrentMino, Coord
<1>2. R # {}
  BY DEF CurrentMino
<1>3. QED
  BY <1>1, <1>2 DEF Rotated, CurrentMino

(* A spawned mino is a mino. *)
LEMMA SpawnedType ==
  ASSUME NEW t \in Minoes
  PROVE  Spawned(t) \in CurrentMino
<1>1. (Width - 1) \div 2 \in Int
  BY PlayfieldAssumption
<1>2. t \in [minoId : Nat \ {0}, coords : (SUBSET Coord) \ {{}}]
  BY PlayfieldAssumption
<1>3. QED
  BY <1>1, <1>2 DEF Spawned, CurrentMino, Coord

(* Falling in two goes is falling once. *)
LEMMA ShiftedTwice ==
  ASSUME NEW m \in CurrentMino, NEW i \in Int, NEW j \in Int
  PROVE  Shifted(Shifted(m, 0, i), 0, j) = Shifted(m, 0, i + j)
<1> DEFINE Moved(n, k) == [minoId |-> n.minoId,
                           center |-> [x |-> n.center.x + 0, y |-> n.center.y + k],
                           relativeCoords |-> n.relativeCoords]
<1>1. ASSUME NEW n \in CurrentMino, NEW k \in Int
      PROVE  Shifted(n, 0, k) = Moved(n, k)
  BY DEF Shifted, CurrentMino
<1>2. Moved(m, i) \in CurrentMino
  BY DEF CurrentMino, Coord
<1>3. Moved(Moved(m, i), j) = Moved(m, i + j)
  BY DEF CurrentMino, Coord
<1>4. QED
  BY <1>1, <1>2, <1>3

(* Absolute coordinates are coordinates. *)
LEMMA AbsoluteType ==
  ASSUME NEW m \in CurrentMino
  PROVE  AbsoluteCoords(m) \subseteq Coord /\ AbsoluteCoords(m) # {}
<1>1. m.relativeCoords \subseteq Coord /\ m.center \in Coord
  BY DEF CurrentMino
<1>2. PICK c \in m.relativeCoords : TRUE
  BY DEF CurrentMino
<1>3. [x |-> m.center.x + c.x, y |-> m.center.y - c.y] \in AbsoluteCoords(m)
  BY <1>2 DEF AbsoluteCoords
<1>4. AbsoluteCoords(m) \subseteq Coord
  BY <1>1 DEF AbsoluteCoords, Coord
<1>5. QED
  BY <1>3, <1>4

(* No collision: the mino is on the board and its cells are empty. *)
LEMMA NoCollision ==
  ASSUME NEW d, NEW coords, ~IsCollision(d, coords)
  PROVE  OnBoard(coords) /\ \A c \in coords : d[c.y][c.x] = 0
  BY DEF IsCollision, OnBoard

(* The blank grid is a grid. *)
LEMMA BlankGridType == BlankGrid \in Grid
  BY DEF BlankGrid, Grid

(* A cell after a stamp. *)
LEMMA StampCell ==
  ASSUME NEW d \in Grid, NEW m \in CurrentMino
  PROVE  /\ Stamp(d, m) \in Grid
         /\ \A y \in Rows, x \in Cols :
              Stamp(d, m)[y][x] = IF [x |-> x, y |-> y] \in AbsoluteCoords(m)
                                  THEN m.minoId ELSE d[y][x]
  BY DEF Stamp, Grid, CurrentMino

(* A stamp fills the cells of the mino and empties no other.                *)
LEMMA StampFills ==
  ASSUME NEW d \in Grid, NEW m \in CurrentMino
  PROVE  /\ OnBoard(AbsoluteCoords(m)) =>
              \A c \in AbsoluteCoords(m) : Stamp(d, m)[c.y][c.x] = m.minoId
         /\ \A y \in Rows, x \in Cols : d[y][x] # 0 => Stamp(d, m)[y][x] # 0
<1>1. \A c \in AbsoluteCoords(m) : c = [x |-> c.x, y |-> c.y]
  BY AbsoluteType DEF Coord
<1>2. m.minoId # 0
  BY DEF CurrentMino
<1>3. ASSUME OnBoard(AbsoluteCoords(m)), NEW c \in AbsoluteCoords(m)
      PROVE  Stamp(d, m)[c.y][c.x] = m.minoId
  <2>1. c.x \in Cols /\ c.y \in Rows
    BY <1>3 DEF OnBoard
  <2>2. QED
    BY <1>1, <2>1, StampCell
<1>4. ASSUME NEW y \in Rows, NEW x \in Cols, d[y][x] # 0
      PROVE  Stamp(d, m)[y][x] # 0
  <2>1. Stamp(d, m)[y][x] = IF [x |-> x, y |-> y] \in AbsoluteCoords(m)
                            THEN m.minoId ELSE d[y][x]
    BY StampCell
  <2>2. QED
    BY <1>2, <1>4, <2>1
<1>5. QED
  BY <1>3, <1>4

(* What collides keeps colliding after a stamp. *)
LEMMA StampKeepsCollision ==
  ASSUME NEW d \in Grid, NEW m \in CurrentMino, NEW coords, IsCollision(d, coords)
  PROVE  IsCollision(Stamp(d, m), coords)
  BY StampFills DEF IsCollision

(* A mino that is stamped twice in one place is stamped once. *)
LEMMA StampTwice ==
  ASSUME NEW d \in Grid, NEW m \in CurrentMino
  PROVE  Stamp(Stamp(d, m), m) = Stamp(d, m)
  BY DEF Stamp

(* What the removal of rows leaves is a grid. *)
LEMMA CheckRemoveRowsType ==
  ASSUME NEW d \in Grid, NEW m
  PROVE  CheckRemoveRows(d, m) \in Grid
<1>1. ASSUME NEW ys, NEW r \in Rows
      PROVE  DropRows(d, ys)[r] \in [Cols -> Nat]
  <2>1. CASE \E y \in CopiedRows(ys) : NewY(ys, y) = r
    <3>1. (CHOOSE y \in CopiedRows(ys) : NewY(ys, y) = r) \in Rows
      BY <2>1, PlayfieldAssumption DEF CopiedRows, Rows
    <3>2. QED
      BY <2>1, <3>1 DEF DropRows, Grid
  <2>2. CASE ~\E y \in CopiedRows(ys) : NewY(ys, y) = r
    BY <2>2 DEF DropRows, Grid
  <2>3. QED
    BY <2>1, <2>2
<1>2. \A ys : DropRows(d, ys) \in Grid
  BY <1>1 DEF DropRows, Grid
<1>3. QED
  BY <1>2 DEF CheckRemoveRows

-----------------------------------------------------------------------------
(* Every pass keeps a status well formed. *)

(* Reading a status of the type apart. *)
LEMMA StatusParts ==
  ASSUME NEW b \in Status, Coherent(b), HasMino(b)
  PROVE  /\ b.data \in Grid
         /\ Mino(b) \in CurrentMino
         /\ b.currentMino = <<Mino(b)>>
         /\ b.state = "Playing"
<1>1. b.currentMino \in [1 .. 1 -> CurrentMino]
  BY DEF Status, HasMino
<1>2. ASSUME b.data = NoData
      PROVE  FALSE
  <2>1. b = FreshStatus
    BY <1>2 DEF Coherent
  <2>2. b.currentMino = <<>>
    BY <2>1 DEF FreshStatus
  <2>3. QED
    BY <2>2 DEF HasMino
<1>3. b.data \in Grid
  BY <1>2 DEF Status
<1>4. Mino(b) \in CurrentMino /\ b.currentMino = <<Mino(b)>>
  BY <1>1 DEF Mino
<1>5. QED
  BY <1>3, <1>4 DEF Coherent

(* A grid is never NoData. *)
LEMMA GridIsData ==
  ASSUME NEW d \in Grid
  PROVE  d # NoData
<1>1. DOMAIN d = Rows /\ 0 \in Rows
  BY PlayfieldAssumption DEF Grid, Rows
<1>2. DOMAIN NoData = 1 .. 0
  BY DEF NoData
<1>3. QED
  BY <1>1, <1>2

(* A game that goes on with mino m is well formed if m fits and rests.      *)
LEMMA WithMino ==
  ASSUME NEW d \in Grid, NEW m \in CurrentMino, NEW b \in Status,
         b.data = d, b.currentMino = <<m>>, b.state = "Playing",
         OnBoard(AbsoluteCoords(m)),
         \/ \A c \in AbsoluteCoords(m) : d[c.y][c.x] = 0
         \/ /\ \A c \in AbsoluteCoords(m) : d[c.y][c.x] = m.minoId
            /\ IsCollision(d, AbsoluteCoords(Shifted(m, 0, 1)))
  PROVE  WellFormed(b)
<1>1. Mino(b) = m /\ Cells(b) = AbsoluteCoords(m)
  BY DEF Mino, Cells
<1>2. AbsoluteCoords(m) # {} /\ m.minoId # 0
  BY AbsoluteType DEF CurrentMino
<1>3. Coherent(b)
  BY GridIsData DEF Coherent
<1>4. MinoFits(b)
  BY <1>1 DEF MinoFits, Falling, WasDropped
<1>5. MinoRests(b)
  BY <1>1, <1>2 DEF MinoRests, WasDropped
<1>6. QED
  BY <1>3, <1>4, <1>5 DEF WellFormed

(* A game without a current mino is well formed as it is. *)
LEMMA WithoutMino ==
  ASSUME NEW b \in Status, b.data \in Grid, b.currentMino = <<>>,
         b.state \in {"Playing", "GameOver"}
  PROVE  WellFormed(b)
  BY GridIsData DEF WellFormed, Coherent, MinoFits, MinoRests, HasMino

(* After the initialisation there is data and the status is well formed. *)
LEMMA InitStatusWellFormed ==
  ASSUME NEW b, WellFormed(b), NEW s \in {"Playing", "GameOver"}
  PROVE  /\ WellFormed(InitStatus(b, s))
         /\ InitStatus(b, s).data \in Grid
<1>1. CASE b.data = NoData
  <2>1. b = FreshStatus
    BY <1>1 DEF WellFormed, Coherent
  <2>2. b \in Status /\ b.currentMino = <<>>
    BY <2>1 DEF WellFormed, FreshStatus
  <2>3. InitStatus(b, s) = [b EXCEPT !.data = BlankGrid, !.state = s]
    BY <1>1 DEF InitStatus
  <2>4. /\ InitStatus(b, s) \in Status
        /\ InitStatus(b, s).data = BlankGrid
        /\ InitStatus(b, s).currentMino = <<>>
        /\ InitStatus(b, s).state = s
    BY <2>2, <2>3, BlankGridType DEF Status
  <2>5. QED
    BY <2>4, BlankGridType, WithoutMino
<1>2. CASE b.data # NoData
  BY <1>2 DEF InitStatus, WellFormed, Status
<1>3. QED
  BY <1>1, <1>2

(* A new mino fits or the game ends; either way there is a mino or no game. *)
LEMMA ReconcileCurrentMinoWellFormed ==
  ASSUME NEW b, WellFormed(b), b.data \in Grid, NEW r \in ReconcileCurrentMino(b)
  PROVE  /\ WellFormed(r)
         /\ r.data = b.data
         /\ r.state # "GameOver" => HasMino(r)
<1>0. b \in Status /\ b.state \in {"Playing", "GameOver"}
  BY GridIsData DEF WellFormed, Coherent
<1>1. CASE ~NeedsMino(b)
  BY <1>1 DEF ReconcileCurrentMino, NeedsMino, HasMino
<1>2. CASE NeedsMino(b)
  <2>1. PICK t \in Minoes : r = NewMino(b, t)
    BY <1>2 DEF ReconcileCurrentMino
  <2>2. Spawned(t) \in CurrentMino
    BY SpawnedType
  <2>3. b.state = "Playing" /\ b.currentMino = <<>>
    BY <1>0, <1>2 DEF NeedsMino
  <2>4. CASE IsCollision(b.data, AbsoluteCoords(Spawned(t)))
    <3>1. r = [b EXCEPT !.state = "GameOver"]
      BY <2>1, <2>4 DEF NewMino
    <3>2. r \in Status /\ r.data = b.data /\ r.currentMino = <<>> /\ r.state = "GameOver"
      BY <1>0, <2>3, <3>1 DEF Status
    <3>3. QED
      BY <3>2, WithoutMino
  <2>5. CASE ~IsCollision(b.data, AbsoluteCoords(Spawned(t)))
    <3>1. r = [b EXCEPT !.currentMino = <<Spawned(t)>>]
      BY <2>1, <2>5 DEF NewMino
    <3>2. <<Spawned(t)>> \in [1 .. 1 -> CurrentMino]
      BY <2>2
    <3>3. /\ r \in Status /\ r.data = b.data /\ r.state = "Playing"
          /\ r.currentMino = <<Spawned(t)>>
      BY <1>0, <2>3, <3>1, <3>2 DEF Status
    <3>4. WellFormed(r)
      BY <2>2, <2>5, <3>3, NoCollision, WithMino
    <3>5. QED
      BY <3>3, <3>4 DEF HasMino
  <2>6. QED
    BY <2>4, <2>5
<1>3. QED
  BY <1>1, <1>2

(* A move that goes through leaves the mino falling, whatever it was before. *)
LEMMA MoveToWellFormed ==
  ASSUME NEW b, WellFormed(b), HasMino(b), NEW m \in CurrentMino
  PROVE  WellFormed(MoveTo(b, m))
<1>0. b \in Status /\ b.data \in Grid /\ b.state = "Playing"
  BY StatusParts DEF WellFormed
<1>1. CASE IsCollision(b.data, AbsoluteCoords(m))
  BY <1>1 DEF MoveTo
<1>2. CASE ~IsCollision(b.data, AbsoluteCoords(m))
  <2>1. MoveTo(b, m) = [b EXCEPT !.currentMino = <<m>>]
    BY <1>2 DEF MoveTo
  <2>2. <<m>> \in [1 .. 1 -> CurrentMino]
    OBVIOUS
  <2>3. /\ MoveTo(b, m) \in Status /\ MoveTo(b, m).data = b.data
        /\ MoveTo(b, m).currentMino = <<m>> /\ MoveTo(b, m).state = "Playing"
    BY <1>0, <2>1, <2>2 DEF Status
  <2>4. QED
    BY <1>0, <1>2, <2>3, NoCollision, WithMino
<1>3. QED
  BY <1>1, <1>2

(* A landing leaves no current mino. *)
LEMMA LandWellFormed ==
  ASSUME NEW b, WellFormed(b), HasMino(b)
  PROVE  WellFormed(Land(b, Mino(b)))
<1>0. /\ b \in Status /\ b.data \in Grid /\ b.state = "Playing"
      /\ Mino(b) \in CurrentMino
  BY StatusParts DEF WellFormed
<1>1. CheckRemoveRows(Stamp(b.data, Mino(b)), Mino(b)) \in Grid
  BY <1>0, StampCell, CheckRemoveRowsType
<1>2. /\ Land(b, Mino(b)) \in Status
      /\ Land(b, Mino(b)).data \in Grid
      /\ Land(b, Mino(b)).currentMino = <<>>
      /\ Land(b, Mino(b)).state = "Playing"
  BY <1>0, <1>1 DEF Land, Status
<1>3. QED
  BY <1>2, WithoutMino

(* A mino that moves down keeps falling or lands. *)
LEMMA MoveDownWellFormed ==
  ASSUME NEW b, WellFormed(b), HasMino(b)
  PROVE  WellFormed(MoveDown(b, Mino(b)))
<1>1. Mino(b) \in CurrentMino
  BY StatusParts DEF WellFormed
<1>2. Shifted(Mino(b), 0, 1) \in CurrentMino
  BY <1>1, ShiftedType
<1>3. MoveDown(b, Mino(b)) = IF IsCollision(b.data, AbsoluteCoords(Shifted(Mino(b), 0, 1)))
                             THEN Land(b, Mino(b))
                             ELSE MoveTo(b, Shifted(Mino(b), 0, 1))
  BY DEF MoveDown, MoveTo
<1>4. QED
  BY <1>2, <1>3, LandWellFormed, MoveToWellFormed

(* The place a drop finds is on the board, and its cells are empty or, if   *)
(* the mino was dropped before and does not move, its own.                  *)
LEMMA FallDistanceFits ==
  ASSUME NEW b, WellFormed(b), HasMino(b), NEW k \in FallDistances(b.data, Mino(b))
  PROVE  /\ k \in Nat
         /\ Shifted(Mino(b), 0, k) \in CurrentMino
         /\ OnBoard(AbsoluteCoords(Shifted(Mino(b), 0, k)))
         /\ \/ \A c \in AbsoluteCoords(Shifted(Mino(b), 0, k)) : b.data[c.y][c.x] = 0
            \/ k = 0 /\ WasDropped(b)
         /\ IsCollision(b.data, AbsoluteCoords(Shifted(Shifted(Mino(b), 0, k), 0, 1)))
<1> DEFINE m == Mino(b)
<1>0. b.data \in Grid /\ m \in CurrentMino
  BY StatusParts DEF WellFormed
<1>1. /\ k \in Nat /\ k <= Height
      /\ \A j \in 1 .. k : ~IsCollision(b.data, AbsoluteCoords(Shifted(m, 0, j)))
      /\ IsCollision(b.data, AbsoluteCoords(Shifted(m, 0, k + 1)))
  BY PlayfieldAssumption DEF FallDistances
<1>2. Shifted(m, 0, k) \in CurrentMino
  BY <1>0, <1>1, ShiftedType
<1>3. IsCollision(b.data, AbsoluteCoords(Shifted(Shifted(m, 0, k), 0, 1)))
  <2>1. Shifted(Shifted(m, 0, k), 0, 1) = Shifted(m, 0, k + 1)
    BY <1>0, <1>1, ShiftedTwice
  <2>2. QED
    BY <1>1, <2>1
<1>4. CASE k = 0
  <2>1. Shifted(m, 0, 0) = m
    BY <1>0 DEF Shifted, CurrentMino, Coord
  <2>2. OnBoard(Cells(b)) /\ (Falling(b) \/ WasDropped(b))
    BY DEF WellFormed, MinoFits
  <2>3. QED
    BY <1>1, <1>2, <1>3, <1>4, <2>1, <2>2 DEF Cells, Falling
<1>5. CASE k # 0
  <2>1. ~IsCollision(b.data, AbsoluteCoords(Shifted(m, 0, k)))
    BY <1>1, <1>5
  <2>2. QED
    BY <1>1, <1>2, <1>3, <2>1, NoCollision
<1>6. QED
  BY <1>4, <1>5

(* A dropped mino lies in its own cells and cannot go on. *)
LEMMA DroppedWellFormed ==
  ASSUME NEW b, WellFormed(b), HasMino(b), NEW k \in FallDistances(b.data, Mino(b))
  PROVE  WellFormed(Dropped(b, Mino(b), k))
<1> DEFINE m == Shifted(Mino(b), 0, k)
           d == Stamp(b.data, m)
           r == Dropped(b, Mino(b), k)
<1>0. b \in Status /\ b.data \in Grid /\ b.state = "Playing"
  BY StatusParts DEF WellFormed
<1>1. /\ m \in CurrentMino /\ OnBoard(AbsoluteCoords(m))
      /\ IsCollision(b.data, AbsoluteCoords(Shifted(m, 0, 1)))
  BY FallDistanceFits
<1>2. d \in Grid
  BY <1>0, <1>1, StampCell
<1>3. \A c \in AbsoluteCoords(m) : d[c.y][c.x] = m.minoId
  BY <1>0, <1>1, StampFills
<1>4. IsCollision(d, AbsoluteCoords(Shifted(m, 0, 1)))
  BY <1>0, <1>1, StampKeepsCollision
<1>5. <<m>> \in [1 .. 1 -> CurrentMino]
  BY <1>1
<1>6. r \in Status /\ r.data = d /\ r.currentMino = <<m>> /\ r.state = "Playing"
  BY <1>0, <1>2, <1>5 DEF Dropped, Status
<1>7. QED
  BY <1>1, <1>2, <1>3, <1>4, <1>6, WithMino

(* Handling an Action keeps a status well formed, whatever its op.          *)
LEMMA HandleOpWellFormed ==
  ASSUME NEW b, WellFormed(b), b.state # "GameOver" => HasMino(b),
         NEW op, NEW r \in HandleOp(b, op)
  PROVE  WellFormed(r)
<1>1. CASE b.state = "GameOver"
  BY <1>1 DEF HandleOp
<1>2. CASE b.state # "GameOver"
  <2>0. HasMino(b) /\ Mino(b) \in CurrentMino
    BY <1>2, StatusParts DEF WellFormed
  <2>1. r \in MoveCurrentMino(b, op)
    BY <1>2 DEF HandleOp
  <2>2. CASE op = "down"
    <3>1. r = MoveDown(b, Mino(b))
      BY <2>1, <2>2 DEF MoveCurrentMino, Mino
    <3>2. QED
      BY <2>0, <3>1, MoveDownWellFormed
  <2>3. CASE op = "left"
    <3>1. r = MoveTo(b, Shifted(Mino(b), -1, 0))
      BY <2>1, <2>3 DEF MoveCurrentMino, Mino
    <3>2. QED
      BY <2>0, <3>1, ShiftedType, MoveToWellFormed
  <2>4. CASE op = "right"
    <3>1. r = MoveTo(b, Shifted(Mino(b), 1, 0))
      BY <2>1, <2>4 DEF MoveCurrentMino, Mino
    <3>2. QED
      BY <2>0, <3>1, ShiftedType, MoveToWellFormed
  <2>5. CASE op = "rotate"
    <3>1. r = MoveTo(b, Rotated(Mino(b)))
      BY <2>1, <2>5 DEF MoveCurrentMino, Mino
    <3>2. QED
      BY <2>0, <3>1, RotatedType, MoveToWellFormed
  <2>6. CASE op = "drop"
    <3>1. \E k \in FallDistances(b.data, Mino(b)) : r = Dropped(b, Mino(b), k)
      BY <2>1, <2>6 DEF MoveCurrentMino, Mino
    <3>2. QED
      BY <2>0, <3>1, DroppedWellFormed
  <2>7. CASE op \notin Ops
    <3>1. r = b
      BY <2>1, <2>7 DEF MoveCurrentMino, Ops
    <3>2. QED
      BY <3>1
  <2>8. QED
    BY <2>2, <2>3, <2>4, <2>5, <2>6, <2>7 DEF Ops
<1>3. QED
  BY <1>1, <1>2

-----------------------------------------------------------------------------
(* What handling an Action leaves alone: the state of the game, here. *)
LEMMA HandleOpKeepsState ==
  ASSUME NEW b, WellFormed(b), NEW op, NEW r \in HandleOp(b, op)
  PROVE  r.state = b.state
<1>1. b \in Status
  BY DEF WellFormed
<1>2. CASE b.state = "GameOver"
  BY <1>2 DEF HandleOp
<1>3. CASE b.state # "GameOver"
  <2> DEFINE m == b.currentMino[1]
  <2>1. \A n : MoveTo(b, n).state = b.state
    BY <1>1 DEF MoveTo, Status
  <2>2. MoveDown(b, m).state = b.state
    BY <1>1 DEF MoveDown, Land, Status
  <2>3. \A k : Dropped(b, m, k).state = b.state
    BY <1>1 DEF Dropped, Status
  <2>4. \/ r = MoveDown(b, m)
        \/ \E n : r = MoveTo(b, n)
        \/ \E k : r = Dropped(b, m, k)
        \/ r = b
    BY <1>3 DEF HandleOp, MoveCurrentMino
  <2>5. QED
    BY <2>1, <2>2, <2>3, <2>4
<1>4. QED
  BY <1>2, <1>3

FilledCellsKept(d, e) == \A y \in Rows, x \in Cols : d[y][x] # 0 => e[y][x] = d[y][x]

(* Stamping a mino that fits changes no filled cell. *)
LEMMA StampKeepsFilled ==
  ASSUME NEW d \in Grid, NEW m \in CurrentMino,
         \/ \A c \in AbsoluteCoords(m) : d[c.y][c.x] = 0
         \/ \A c \in AbsoluteCoords(m) : d[c.y][c.x] = m.minoId
  PROVE  FilledCellsKept(d, Stamp(d, m))
<1>1. SUFFICES ASSUME NEW y \in Rows, NEW x \in Cols, d[y][x] # 0
               PROVE  Stamp(d, m)[y][x] = d[y][x]
  BY DEF FilledCellsKept
<1>2. Stamp(d, m)[y][x] = IF [x |-> x, y |-> y] \in AbsoluteCoords(m)
                          THEN m.minoId ELSE d[y][x]
  BY StampCell
<1>3. CASE [x |-> x, y |-> y] \in AbsoluteCoords(m)
  BY <1>1, <1>2, <1>3
<1>4. CASE [x |-> x, y |-> y] \notin AbsoluteCoords(m)
  BY <1>2, <1>4
<1>5. QED
  BY <1>3, <1>4

(* An Action keeps every filled cell, unless it lands the mino and thereby  *)
(* completes a row.                                                         *)
LEMMA HandleOpKeepsFilled ==
  ASSUME NEW b, WellFormed(b), b.state # "GameOver" => HasMino(b),
         NEW op, NEW r \in HandleOp(b, op)
  PROVE  \/ FilledCellsKept(b.data, r.data)
         \/ /\ HasMino(b) /\ ~HasMino(r)
            /\ RemoveYs(Stamp(b.data, Mino(b)), Mino(b)) # {}
<1> DEFINE m == Mino(b)
<1>1. CASE b.state = "GameOver"
  BY <1>1 DEF HandleOp, FilledCellsKept
<1>2. CASE b.state # "GameOver"
  <2>1. HasMino(b) /\ b \in Status /\ b.data \in Grid /\ m \in CurrentMino
    BY <1>2, StatusParts DEF WellFormed
  <2>2. \/ r = MoveDown(b, m)
        \/ \E n : r = MoveTo(b, n)
        \/ \E k \in FallDistances(b.data, m) : r = Dropped(b, m, k)
        \/ r = b
    BY <1>2 DEF HandleOp, MoveCurrentMino, Mino
  <2>3. CASE r = b \/ \E n : r = MoveTo(b, n)
    <3>1. \A n : MoveTo(b, n).data = b.data
      BY <2>1 DEF MoveTo, Status
    <3>2. QED
      BY <2>3, <3>1 DEF FilledCellsKept
  <2>4. CASE \E k \in FallDistances(b.data, m) : r = Dropped(b, m, k)
    <3>1. PICK k \in FallDistances(b.data, m) : r = Dropped(b, m, k)
      BY <2>4
    <3> DEFINE n == Shifted(m, 0, k)
    <3>2. /\ n \in CurrentMino
          /\ \/ \A c \in AbsoluteCoords(n) : b.data[c.y][c.x] = 0
             \/ k = 0 /\ WasDropped(b)
      BY <2>1, FallDistanceFits
    <3>3. k = 0 => n = m
      BY <2>1 DEF Shifted, CurrentMino, Coord
    <3>4. \/ \A c \in AbsoluteCoords(n) : b.data[c.y][c.x] = 0
          \/ \A c \in AbsoluteCoords(n) : b.data[c.y][c.x] = n.minoId
      BY <3>2, <3>3 DEF WasDropped, Cells
    <3>5. r.data = Stamp(b.data, n)
      BY <2>1, <3>1 DEF Dropped, Status
    <3>6. QED
      BY <2>1, <3>2, <3>4, <3>5, StampKeepsFilled
  <2>5. CASE r = MoveDown(b, m)
    <3>1. CASE ~IsCollision(b.data, AbsoluteCoords(Shifted(m, 0, 1)))
      <4>1. r.data = b.data
        BY <2>1, <2>5, <3>1 DEF MoveDown, Status
      <4>2. QED
        BY <4>1 DEF FilledCellsKept
    <3>2. CASE IsCollision(b.data, AbsoluteCoords(Shifted(m, 0, 1)))
      <4>1. r = Land(b, m)
        BY <2>5, <3>2 DEF MoveDown
      <4>2. r.currentMino = <<>> /\ r.data = CheckRemoveRows(Stamp(b.data, m), m)
        BY <2>1, <4>1 DEF Land, Status
      <4>3. CASE RemoveYs(Stamp(b.data, m), m) # {}
        BY <2>1, <4>2, <4>3 DEF HasMino
      <4>4. CASE RemoveYs(Stamp(b.data, m), m) = {}
        <5>1. r.data = Stamp(b.data, m)
          BY <4>2, <4>4 DEF CheckRemoveRows
        <5>2. Falling(b) \/ WasDropped(b)
          BY <2>1 DEF WellFormed, MinoFits
        <5>3. QED
          BY <2>1, <5>1, <5>2, StampKeepsFilled DEF Falling, WasDropped, Cells
      <4>5. QED
        BY <4>3, <4>4
    <3>3. QED
      BY <3>1, <3>2
  <2>6. QED
    BY <2>2, <2>3, <2>4, <2>5
<1>3. QED
  BY <1>1, <1>2

(* No Action takes a mino up, and "down" takes it down by one row, if it     *)
(* does not land it.                                                        *)
LEMMA HandleOpDescends ==
  ASSUME NEW b, WellFormed(b), HasMino(b), NEW op, NEW r \in HandleOp(b, op), HasMino(r)
  PROVE  /\ Mino(r).center.y >= Mino(b).center.y
         /\ op = "down" => Mino(r).center.y = Mino(b).center.y + 1
<1> DEFINE m == Mino(b)
<1>1. b \in Status /\ m \in CurrentMino /\ b.state # "GameOver"
  BY StatusParts DEF WellFormed, Coherent
<1>2. m.center.x \in Int /\ m.center.y \in Int
  BY <1>1 DEF CurrentMino, Coord
<1>3. \A dx, dy : Shifted(m, dx, dy).center.y = m.center.y + dy
  BY <1>1 DEF Shifted, CurrentMino
<1>4. Rotated(m).center = m.center
  BY <1>1 DEF Rotated, CurrentMino
<1>5. \A n : [b EXCEPT !.currentMino = <<n>>].currentMino[1] = n
  BY <1>1 DEF Status
<1>6. \A n : Mino(MoveTo(b, n)) \in {m, n}
  BY <1>5 DEF MoveTo, Mino
<1>7. CASE op = "down"
  <2>1. r = MoveDown(b, m)
    BY <1>1, <1>7 DEF HandleOp, MoveCurrentMino, Mino
  <2>2. Land(b, m).currentMino = <<>>
    BY <1>1 DEF Land, Status
  <2>3. r = [b EXCEPT !.currentMino = <<Shifted(m, 0, 1)>>]
    BY <2>1, <2>2 DEF MoveDown, HasMino
  <2>4. Mino(r) = Shifted(m, 0, 1)
    BY <1>5, <2>3 DEF Mino
  <2> QED
    BY <1>2, <1>3, <2>4
<1>8. CASE op \in {"left", "right", "rotate"}
  <2>1. PICK n \in {Shifted(m, -1, 0), Shifted(m, 1, 0), Rotated(m)} : r = MoveTo(b, n)
    BY <1>1, <1>8 DEF HandleOp, MoveCurrentMino, Mino
  <2>2. n.center.y = m.center.y
    BY <1>2, <1>3, <1>4
  <2>3. Mino(r) = m \/ Mino(r) = n
    BY <1>6, <2>1
  <2> QED
    BY <1>2, <1>8, <2>2, <2>3
<1>9. CASE op = "drop"
  <2>1. PICK k \in 0 .. Height : r = Dropped(b, m, k)
    BY <1>1, <1>9 DEF HandleOp, MoveCurrentMino, Mino, FallDistances
  <2>2. Mino(r) = Shifted(m, 0, k)
    BY <1>1, <2>1 DEF Dropped, Mino, Status
  <2>3. k \in Nat
    BY <2>1, PlayfieldAssumption
  <2> QED
    BY <1>2, <1>3, <1>9, <2>2, <2>3
<1>10. CASE op \notin Ops
  <2>1. r = b
    BY <1>1, <1>10 DEF HandleOp, MoveCurrentMino, Ops
  <2> QED
    BY <1>2, <1>10, <2>1 DEF Ops
<1> QED
  BY <1>7, <1>8, <1>9, <1>10 DEF Ops

-----------------------------------------------------------------------------
(* A whole reconcile of a Board with Data: from status s to t, with p       *)
(* before the Actions are looked at.                                        *)
Reconciled(s, p, t) ==
  /\ p \in ReconcileCurrentMino(s)
  /\ t = p \/ \E op : t \in HandleOp(p, op)

(* A filled cell changes only in a landing that completes a row. *)
LEMMA ReconcileKeepsFilled ==
  ASSUME NEW s, WellFormed(s), s.data \in Grid, NEW p, NEW t, Reconciled(s, p, t)
  PROVE  \/ FilledCellsKept(s.data, t.data)
         \/ /\ HasMino(p) /\ ~HasMino(t)
            /\ RemoveYs(Stamp(p.data, Mino(p)), Mino(p)) # {}
<1>1. WellFormed(p) /\ p.data = s.data /\ (p.state # "GameOver" => HasMino(p))
  BY ReconcileCurrentMinoWellFormed DEF Reconciled
<1>2. CASE t = p
  BY <1>1, <1>2 DEF FilledCellsKept
<1>3. CASE \E op : t \in HandleOp(p, op)
  BY <1>1, <1>3, HandleOpKeepsFilled
<1> QED
  BY <1>2, <1>3 DEF Reconciled

(* Some mino has no room. *)
NoRoom(d) == \E t \in Minoes : IsCollision(d, AbsoluteCoords(Spawned(t)))

(* A finished game stays, and one that goes on ends for want of room.       *)
LEMMA ReconcileEndsGame ==
  ASSUME NEW s, WellFormed(s), s.data \in Grid, NEW p, NEW t, Reconciled(s, p, t)
  PROVE  /\ s.state = "GameOver" => t = s
         /\ s.state = "Playing" /\ t.state = "GameOver" =>
              t.data = s.data /\ ~HasMino(s) /\ ~HasMino(t) /\ NoRoom(s.data)
<1>0. s \in Status /\ WellFormed(p)
  BY ReconcileCurrentMinoWellFormed DEF Reconciled, WellFormed
<1>1. t.state = p.state
  BY <1>0, HandleOpKeepsState DEF Reconciled
<1>2. CASE ~NeedsMino(s)
  <2>1. p = s
    BY <1>2 DEF Reconciled, ReconcileCurrentMino
  <2>2. s.state = "GameOver" => t = s
    BY <2>1 DEF Reconciled, HandleOp
  <2> QED
    BY <1>1, <2>1, <2>2
<1>3. CASE NeedsMino(s)
  <2>1. SUFFICES ASSUME s.state = "Playing", p.state = "GameOver"
                 PROVE  t.data = s.data /\ ~HasMino(s) /\ ~HasMino(t) /\ NoRoom(s.data)
    BY <1>1, <1>3 DEF NeedsMino
  <2>2. t = p
    BY <2>1 DEF Reconciled, HandleOp
  <2>3. PICK m \in Minoes : p = NewMino(s, m)
    BY <1>3 DEF Reconciled, ReconcileCurrentMino
  <2>4. IsCollision(s.data, AbsoluteCoords(Spawned(m)))
    BY <1>0, <2>1, <2>3 DEF NewMino, Status
  <2>5. p = [s EXCEPT !.state = "GameOver"]
    BY <2>3, <2>4 DEF NewMino
  <2>6. p.data = s.data /\ p.currentMino = s.currentMino
    BY <1>0, <2>5 DEF Status
  <2> QED
    BY <1>3, <2>2, <2>4, <2>6 DEF NeedsMino, HasMino, NoRoom
<1> QED
  BY <1>2, <1>3

(* A mino that is there before and after is the same one, and not higher.   *)
LEMMA ReconcileDescends ==
  ASSUME NEW s, WellFormed(s), HasMino(s), NEW p, NEW t, Reconciled(s, p, t), HasMino(t)
  PROVE  p = s /\ Mino(t).center.y >= Mino(s).center.y
<1>1. p = s
  BY DEF Reconciled, ReconcileCurrentMino, NeedsMino, HasMino
<1>2. Mino(s).center.y \in Int
  BY StatusParts DEF WellFormed, CurrentMino, Coord
<1>3. CASE t = p
  BY <1>1, <1>2, <1>3
<1>4. CASE \E op : t \in HandleOp(p, op)
  BY <1>1, <1>4, HandleOpDescends
<1> QED
  BY <1>1, <1>3, <1>4 DEF Reconciled
=============================================================================
