-------------------------- MODULE BoardView_proofs --------------------------
(***************************************************************************)
(* The types of BoardView, and that a handler of t4s-app that none comes in *)
(* between with only panics after there were Boards of two heights, for any *)
(* heights and any number of polls.                                         *)
(***************************************************************************)
EXTENDS BoardView, TLAPS

(* The history of the heights covers all that is under way, and what is     *)
(* left in the objects: their Data is that of some Board, and their mino    *)
(* was in the rows of some Board, maybe of another one.                     *)
SomeRow(m) == \E h \in heights : m \in Rows(h)

KnownObject(o) == o.data.rows \in heights \cup {0} /\ (o.mino # NoMino => SomeRow(o.mino))

Slicing == {"Taken", "HasMino", "At", "Stamped"}

KnownFetch(q) ==
  /\ q.stage \in {"Read", "Half"} => q.got.height \in heights
  /\ q.stage \in Slicing => q.data.rows \in heights \cup {0}
  /\ q.stage = "At" => SomeRow(q.row)

BoardInv ==
  /\ board \in Boards \cup {NoBoard}
  /\ heights \subseteq Heights /\ (board # NoBoard => board.height \in heights)

ObjectInv ==
  /\ incidents \in 0 .. MaxIncidents /\ target \in 0 .. incidents
  /\ objects \in [Objects -> Object]
  /\ \A o \in Objects : KnownObject(objects[o])

FetchInv == req \in [Requests -> Fetches] /\ \A r \in Requests : KnownFetch(req[r])

(* What TargetBoard points to is a Board, as soon as a handler takes Data   *)
(* from it, or will write into another object.                              *)
TakesBoard(q) ==
  \/ q.stage \in {"Half", "Decoded"}
  \/ q.stage \in {"AskBoard", "Read"} /\ q.into # target

TakenInv == \A r \in Requests : TakesBoard(req[r]) => Target.height # 0

(* A mino without Data is one whose Data is still to be decoded.            *)
WillFill(q, o) == q.stage = "Half" /\ q.into = o /\ q.got.data # NoData

FilledInv ==
  \A o \in Objects :
    objects[o].mino # NoMino /\ objects[o].data.rows = 0 =>
      \E r \in Requests : WillFill(req[r], o)

(* A handler that is alone: nobody else is half way through, and the mino   *)
(* that it has seen, or will see, is there and was with its Data.           *)
Sees(q) ==
  /\ q.stage \in {"Half", "Decoded"} \cup Slicing
  /\ q.stage = "Taken" /\ Target.mino # NoMino => q.data.rows # 0
  /\ q.stage \in {"HasMino", "At"} => Target.mino # NoMino /\ q.data.rows # 0

AloneInv ==
  /\ alone \subseteq Requests
  /\ \A r \in alone : Sees(req[r]) /\ \A s \in Requests \ {r} : req[s].stage # "Half"

PageInv == canvas \in Pictures \cup {Blank}

ViewInv ==
  BoardInv /\ ObjectInv /\ FetchInv /\ TakenInv /\ FilledInv /\ AloneInv /\ PageInv

(* The heights of Boards and what follows for their parts. *)
LEMMA BoardParts ==
  ASSUME NEW b \in Boards
  PROVE  /\ b.height \in Heights /\ b.height \in Nat \ {0}
         /\ b.data \in Grids /\ b.data.rows \in {0, b.height}
         /\ b.data.rows = 0 <=> b.data = NoData
         /\ b.mino \in AllRows \cup {NoMino}
         /\ b.mino # NoMino => b.mino \in Rows(b.height) /\ b.data # NoData
<1>1. PICK h \in Heights : b \in BoardsOf(h)
  BY DEF Boards
<1>2. h \in Nat \ {0} /\ Rows(h) \subseteq AllRows
  BY ViewAssumption DEF AllRows
<1>3. /\ b.height = h
      /\ \/ b.data = NoData /\ b.mino = NoMino
         \/ b.data \in DataOf(h) /\ b.mino \in Rows(h) \cup {NoMino}
  BY <1>1 DEF BoardsOf
<1>4. \A d \in DataOf(h) : d \in Grids /\ d.rows = h /\ d # NoData
  BY <1>2 DEF DataOf, Grids, Sizes, NoData
<1>5. NoData \in Grids /\ NoData.rows = 0
  BY DEF NoData, Grids, Sizes
<1> QED
  BY <1>2, <1>3, <1>4, <1>5

(* A new Board is one without Data, and so is what TargetBoard points to then. *)
LEMMA FreshIsBoard ==
  ASSUME NEW h \in Heights
  PROVE  /\ Fresh(h) \in Boards /\ Fresh(h) \in Object
         /\ Fresh(h).height = h /\ h # 0
         /\ Fresh(h).data.rows = 0 /\ Fresh(h).mino = NoMino
<1>1. Fresh(h) \in BoardsOf(h)
  BY DEF Fresh, BoardsOf
<1>2. NoData \in Grids /\ NoData.rows = 0
  BY DEF NoData, Grids, Sizes
<1>3. Fresh(h) \in Object /\ Fresh(h).data = NoData
  BY <1>2 DEF Fresh, Object, Sizes
<1>4. Fresh(h).height = h /\ Fresh(h).mino = NoMino /\ h # 0
  BY ViewAssumption DEF Fresh
<1> QED
  BY <1>1, <1>2, <1>3, <1>4 DEF Boards

(* An object without anything in it, as it is when nothing was decoded. *)
LEMMA NoBoardObject ==
  /\ NoBoard \in Object /\ NoBoard.data = NoData
  /\ NoBoard.data.rows = 0 /\ NoBoard.mino = NoMino
<1>1. NoData \in Grids /\ NoData.rows = 0
  BY DEF NoData, Grids, Sizes
<1> QED
  BY <1>1 DEF NoBoard, Object, Sizes

(* The object after the first half of an answer was decoded into it. *)
LEMMA MinoRead ==
  ASSUME NEW t \in Object, NEW b \in Boards
  PROVE  LET o == ReadMino(t, b)
         IN  /\ o \in Object /\ o.height = b.height /\ o.data = t.data
             /\ o.mino \in {b.mino, t.mino}
             /\ o.mino = NoMino <=> b.mino = NoMino /\ t.mino = NoMino
<1>1. b.height \in Heights /\ b.mino \in AllRows \cup {NoMino}
  BY BoardParts
<1>2. AllRows \subseteq Nat /\ NoMino \notin Nat
  BY ViewAssumption DEF AllRows, Rows, NoMino
<1> DEFINE m == IF b.mino = NoMino \/ (b.mino = 0 /\ t.mino # NoMino) THEN t.mino ELSE b.mino
<1>3. ReadMino(t, b) = [t EXCEPT !.height = b.height, !.mino = m]
  BY DEF ReadMino, Object
<1>4. m \in {b.mino, t.mino} /\ (m = NoMino <=> b.mino = NoMino /\ t.mino = NoMino)
  BY DEF NoMino
<1> HIDE DEF m
<1> QED
  BY <1>1, <1>3, <1>4 DEF Object, Sizes

(* And after the second. *)
LEMMA DataRead ==
  ASSUME NEW t \in Object, NEW b \in Boards
  PROVE  LET o == ReadData(t, b)
         IN  /\ o \in Object /\ o.height = t.height /\ o.mino = t.mino
             /\ o.data.rows = IF b.data = NoData THEN t.data.rows ELSE b.height
<1>1. b.data \in Grids /\ (b.data # NoData => b.data.rows = b.height)
  BY BoardParts
<1>2. CASE b.data = NoData
  BY <1>2 DEF ReadData
<1>3. CASE b.data # NoData
  <2> DEFINE f == b.data.filled \cup (t.data.filled \ Rows(b.data.rows))
             d == [rows |-> b.data.rows, filled |-> f]
  <2>1. d \in Grids
    BY <1>1 DEF Grids, Object
  <2>2. ReadData(t, b) = [t EXCEPT !.data = d]
    BY <1>3 DEF ReadData, Object, Grids
  <2> QED
    BY <1>1, <1>3, <2>1, <2>2 DEF Object
<1> QED
  BY <1>2, <1>3

(* Decoding an answer of a known height leaves known heights behind. *)
LEMMA KnownAfterRead ==
  ASSUME heights \subseteq Heights,
         NEW t \in Object, KnownObject(t), NEW b \in Boards, b.height \in heights
  PROVE  KnownObject(ReadMino(t, b)) /\ KnownObject(ReadData(t, b))
<1>1. b.mino # NoMino => SomeRow(b.mino)
  BY BoardParts DEF SomeRow
<1>2. KnownObject(ReadMino(t, b))
  BY <1>1, MinoRead DEF KnownObject
<1>3. KnownObject(ReadData(t, b))
  BY DataRead DEF KnownObject
<1> QED
  BY <1>2, <1>3

(* What t4s-app reads when it starts: a mino comes with its Data. *)
LEMMA LoadedObjects ==
  ASSUME heights \subseteq Heights,
         NEW b \in Boards \cup {NoBoard}, b # NoBoard => b.height \in heights
  PROVE  /\ Loaded(b) \in [Objects -> Object]
         /\ \A o \in Objects : KnownObject(Loaded(b)[o])
         /\ \A o \in Objects : Loaded(b)[o].mino # NoMino => Loaded(b)[o].data.rows # 0
<1> DEFINE x == ReadMino(NoBoard, b)
           y == ReadData(x, b)
<1>1. NoBoard \in Object /\ KnownObject(NoBoard) /\ NoBoard.mino = NoMino
  BY NoBoardObject DEF KnownObject
<1>2. y \in Object /\ KnownObject(y) /\ (y.mino # NoMino => y.data.rows # 0)
  <2>1. CASE b = NoBoard
    <3>1. x = NoBoard
      BY <2>1 DEF ReadMino, NoBoard
    <3>2. y = NoBoard
      BY <2>1, <3>1, NoBoardObject DEF ReadData
    <3> QED
      BY <1>1, <3>2
  <2>2. CASE b # NoBoard
    <3>1. b \in Boards /\ b.height \in heights
      BY <2>2
    <3>2. x \in Object /\ KnownObject(x) /\ (x.mino = NoMino <=> b.mino = NoMino)
      BY <1>1, <3>1, MinoRead, KnownAfterRead
    <3> HIDE DEF x
    <3>3. /\ y \in Object /\ KnownObject(y) /\ y.mino = x.mino
          /\ b.data # NoData => y.data.rows = b.height
      BY <3>1, <3>2, DataRead, KnownAfterRead
    <3> HIDE DEF y
    <3>4. b.height # 0 /\ (b.mino # NoMino => b.data # NoData)
      BY <3>1, BoardParts
    <3> QED
      BY <3>2, <3>3, <3>4
  <2> QED
    BY <2>1, <2>2
<1>3. Loaded(b) = [o \in Objects |-> IF o = 0 THEN y ELSE NoBoard]
  BY DEF Loaded
<1> HIDE DEF y
<1> QED
  BY <1>1, <1>2, <1>3

(* Forgetting an object leaves one with nothing in it, and never the target. *)
LEMMA Forgotten ==
  ASSUME NEW objs \in [Objects -> Object], target' \in Objects
  PROVE  /\ Kept(objs) \in [Objects -> Object]
         /\ \A o \in Objects : Kept(objs)[o] \in {objs[o], NoBoard}
         /\ Kept(objs)[target'] = objs[target']
  BY NoBoardObject DEF Kept

(* The stages of a request of the page. *)
LEMMA FetchParts ==
  ASSUME NEW q \in Fetches
  PROVE  /\ q.stage \in {"AskBoard", "Read", "Half"} => q.into \in Objects
         /\ q.stage \in {"Read", "Half"} => q.got \in Boards
         /\ q.stage \in Slicing =>
              q.height \in Heights /\ q.data \in Slices /\ q.data.of \in Objects
         /\ q.stage = "At" => q.row \in AllRows
         /\ q.stage = "Board" => q.got \in Answer
<1>1. \A d \in Slices : d.of \in Objects
  BY DEF Slices
<1> QED
  BY <1>1 DEF Fetches, Idle, Errored, Slicing

(* And the other way round: what makes a request of these stages. *)
LEMMA FetchMakes ==
  /\ Idle \in Fetches /\ Errored \in Fetches /\ [stage |-> "Decoded"] \in Fetches
  /\ \A o \in Objects : [stage |-> "AskBoard", into |-> o] \in Fetches
  /\ \A s \in {"Read", "Half"}, b \in Boards, o \in Objects :
       [stage |-> s, got |-> b, into |-> o] \in Fetches
  /\ \A s \in {"Taken", "HasMino", "Stamped"}, h \in Heights, d \in Slices :
       [stage |-> s, height |-> h, data |-> d] \in Fetches
  /\ \A h \in Heights, d \in Slices, m \in AllRows :
       [stage |-> "At", height |-> h, data |-> d, row |-> m] \in Fetches
  /\ \A a \in Answer : [stage |-> "Board", got |-> a] \in Fetches
  BY DEF Fetches, Idle, Errored

(* Moving on from these two stages changes nothing but the stage. *)
LEMMA FetchMoves ==
  ASSUME NEW q \in Fetches
  PROVE  /\ q.stage = "Read" =>
              [q EXCEPT !.stage = "Half"] = [stage |-> "Half", got |-> q.got, into |-> q.into]
         /\ q.stage = "Taken" => \A s \in {"HasMino", "Stamped"} :
              [q EXCEPT !.stage = s] = [stage |-> s, height |-> q.height, data |-> q.data]
  BY DEF Fetches, Idle, Errored

(* The Board is one of a known height. *)
LEMMA NextBoard ==
  ASSUME ViewInv, Next
  PROVE  BoardInv' /\ heights \subseteq heights'
<1>1. CASE UNCHANGED server
  BY <1>1 DEF server, ViewInv, BoardInv
<1>2. CASE FirstStatus \/ UpdateStatus
  <2>1. heights' = heights /\ WriteStatus
    BY <1>2 DEF FirstStatus, UpdateStatus
  <2>2. board # NoBoard /\ board' \in BoardsOf(board.height)
    BY <2>1 DEF WriteStatus
  <2>3. board' \in Boards /\ board'.height = board.height
    <3>1. board.height \in Heights
      BY <2>2, BoardParts DEF ViewInv, BoardInv
    <3> QED
      BY <2>2, <3>1 DEF Boards, BoardsOf
  <2> QED
    BY <2>1, <2>2, <2>3 DEF ViewInv, BoardInv
<1>3. CASE DeleteBoard
  BY <1>3 DEF DeleteBoard, ViewInv, BoardInv
<1>4. CASE ReplaceBoard \/ NewBoard
  <2>1. PICK h \in Heights : Replace(h)
    BY <1>4 DEF ReplaceBoard, NewBoard
  <2>2. board' = Fresh(h) /\ heights' = heights \cup {h}
    BY <2>1 DEF Replace
  <2> QED
    BY <2>2, FreshIsBoard DEF ViewInv, BoardInv
<1>5. CASE Restart
  BY <1>1, <1>5 DEF Restart
<1>6. ASSUME NEW r \in Requests,
             \/ FetchBoard(r) \/ Handle(r) \/ ReceiveBoard(r)
             \/ CallFails(r) \/ Disconnect(r)
      PROVE  UNCHANGED server
  BY <1>6 DEF FetchBoard, Handle, GetBoard, DecodeMino, DecodeData, TakeData, CheckMino,
              ReadCoords, StampMino, Panic, EncodeBoard, ReceiveBoard, CallFails, Disconnect
<1> QED
  BY <1>1, <1>2, <1>3, <1>4, <1>5, <1>6 DEF Next, Change

(* newBoard moves TargetBoard by one, a restart back to the first object, and *)
(* nothing else moves it. *)
LEMMA NextTarget ==
  ASSUME ViewInv, Next
  PROVE  /\ incidents' \in 0 .. MaxIncidents /\ target' \in 0 .. incidents'
         /\ target \in Objects /\ target' \in Objects
<1>0. MaxIncidents \in Nat /\ incidents \in 0 .. MaxIncidents /\ target \in 0 .. incidents
  BY ViewAssumption DEF ViewInv, ObjectInv
<1>1. CASE UNCHANGED incidents \/ Incident
  <2>1. CASE target' = target
    BY <1>0, <1>1, <2>1 DEF Incident, Objects
  <2>2. CASE Restart
    BY <1>0, <2>2 DEF Restart, Incident, Objects
  <2>3. CASE NewBoard
    BY <1>0, <2>3 DEF NewBoard, Replace, Incident, Objects
  <2>4. target' = target \/ Restart \/ NewBoard
    BY DEF Next, Change, Handle, FirstStatus, UpdateStatus, DeleteBoard, ReplaceBoard,
           FetchBoard, GetBoard, DecodeMino, DecodeData, TakeData, CheckMino, ReadCoords,
           StampMino, Panic, EncodeBoard, ReceiveBoard, CallFails, Disconnect, shared
  <2> QED
    BY <2>1, <2>2, <2>3, <2>4
<1>2. UNCHANGED incidents \/ Incident
  BY DEF Next, Change, Handle, FirstStatus, UpdateStatus, DeleteBoard, ReplaceBoard,
         NewBoard, Replace, Restart, FetchBoard, GetBoard, DecodeMino, DecodeData, TakeData,
         CheckMino, ReadCoords, StampMino, Panic, EncodeBoard, ReceiveBoard, CallFails,
         Disconnect
<1> QED
  BY <1>1, <1>2

(* What is known of the objects stays known when there are more heights. *)
LEMMA KnownStays ==
  ASSUME heights \subseteq heights', \A o \in Objects : KnownObject(objects'[o])
  PROVE  (\A o \in Objects : KnownObject(objects[o]))'
  BY DEF KnownObject, SomeRow

(* A mino is only stamped into rows of the Data. *)
LEMMA Stamped ==
  ASSUME NEW t \in Object, KnownObject(t), NEW m \in AllRows
  PROVE  LET o == [t EXCEPT !.data.filled = @ \cup {m}]
         IN  /\ o \in Object /\ KnownObject(o)
             /\ o.mino = t.mino /\ o.height = t.height /\ o.data.rows = t.data.rows
<1> DEFINE d == [t.data EXCEPT !.filled = @ \cup {m}]
<1>1. d \in Grids /\ d.rows = t.data.rows
  BY DEF Object, Grids
<1>2. [t EXCEPT !.data.filled = @ \cup {m}] = [t EXCEPT !.data = d]
  BY DEF Object
<1> HIDE DEF d
<1> QED
  BY <1>1, <1>2 DEF Object, KnownObject

(* What stamping a mino makes of the objects. *)
LEMMA StampedObjects ==
  ASSUME ViewInv, NEW r \in Requests, StampMino(r)
  PROVE  /\ objects' \in [Objects -> Object]
         /\ \A o \in Objects :
              /\ KnownObject(objects'[o])
              /\ objects'[o].mino = objects[o].mino /\ objects'[o].height = objects[o].height
              /\ objects'[o].data.rows = objects[o].data.rows
<1>1. objects \in [Objects -> Object] /\ \A o \in Objects : KnownObject(objects[o])
  BY DEF ViewInv, ObjectInv
<1>2. req[r].data.of \in Objects /\ req[r].row \in AllRows
  BY FetchParts DEF StampMino, ViewInv, FetchInv, Slicing
<1> DEFINE s == req[r].data.of
           m == req[r].row
           x == [objects[s] EXCEPT !.data.filled = @ \cup {m}]
<1>3. objects' = [objects EXCEPT ![s] = x]
  BY <1>1, <1>2 DEF StampMino
<1>4. /\ x \in Object /\ KnownObject(x)
      /\ x.mino = objects[s].mino /\ x.height = objects[s].height
      /\ x.data.rows = objects[s].data.rows
  BY <1>1, <1>2, Stamped
<1> HIDE DEF x, s
<1> QED
  BY <1>1, <1>3, <1>4

(* What decoding one half of an answer makes of them. *)
LEMMA DecodedObjects ==
  ASSUME ViewInv, NEW r \in Requests, req[r].stage \in {"Read", "Half"},
         target' \in Objects, NEW x,
         \/ x = ReadMino(objects[req[r].into], req[r].got)
         \/ x = ReadData(objects[req[r].into], req[r].got),
         objects' = Kept([objects EXCEPT ![req[r].into] = x])
  PROVE  /\ objects' \in [Objects -> Object]
         /\ req[r].into \in Objects /\ x \in Object
         /\ \A o \in Objects :
              /\ KnownObject(objects'[o])
              /\ objects'[o] \in {IF o = req[r].into THEN x ELSE objects[o], NoBoard}
         /\ objects'[target'] = IF target' = req[r].into THEN x ELSE objects[target']
<1>1. /\ objects \in [Objects -> Object] /\ \A o \in Objects : KnownObject(objects[o])
      /\ heights \subseteq Heights
  BY DEF ViewInv, ObjectInv, BoardInv
<1>2. /\ req[r].into \in Objects /\ req[r].got \in Boards
      /\ req[r].got.height \in heights
  BY FetchParts DEF ViewInv, FetchInv, KnownFetch
<1>3. x \in Object /\ KnownObject(x)
  <2> DEFINE t == objects[req[r].into]
             b == req[r].got
  <2>1. t \in Object /\ KnownObject(t) /\ b \in Boards /\ b.height \in heights
    BY <1>1, <1>2
  <2>2. x = ReadMino(t, b) \/ x = ReadData(t, b)
    OBVIOUS
  <2> HIDE DEF t, b
  <2>3. ReadMino(t, b) \in Object /\ ReadData(t, b) \in Object
    BY <2>1, MinoRead, DataRead
  <2>4. KnownObject(ReadMino(t, b)) /\ KnownObject(ReadData(t, b))
    BY <1>1, <2>1, KnownAfterRead
  <2> QED
    BY <2>2, <2>3, <2>4
<1> DEFINE objs == [objects EXCEPT ![req[r].into] = x]
<1>4. objs \in [Objects -> Object]
  BY <1>1, <1>2, <1>3
<1>5. \A o \in Objects : objs[o] = IF o = req[r].into THEN x ELSE objects[o]
  BY <1>1, <1>2
<1> HIDE DEF objs
<1>6. /\ objects' \in [Objects -> Object]
      /\ \A o \in Objects : objects'[o] \in {objs[o], NoBoard}
      /\ objects'[target'] = objs[target']
  BY <1>4, Forgotten DEF objs
<1>7. KnownObject(NoBoard)
  BY NoBoardObject DEF KnownObject
<1> QED
  BY <1>1, <1>2, <1>3, <1>5, <1>6, <1>7

(* What an encoding or a panic leaves of the objects. *)
LEMMA ReleasedObjects ==
  ASSUME ViewInv, target' \in Objects, target' = target, objects' = Kept(objects)
  PROVE  /\ objects' \in [Objects -> Object]
         /\ \A o \in Objects :
              KnownObject(objects'[o]) /\ objects'[o] \in {objects[o], NoBoard}
         /\ objects'[target'] = objects[target]
<1>1. objects \in [Objects -> Object] /\ \A o \in Objects : KnownObject(objects[o])
  BY DEF ViewInv, ObjectInv
<1>2. KnownObject(NoBoard)
  BY NoBoardObject DEF KnownObject
<1>3. /\ objects' \in [Objects -> Object]
      /\ \A o \in Objects : objects'[o] \in {objects[o], NoBoard}
      /\ objects'[target'] = objects[target']
  BY <1>1, Forgotten
<1> QED
  BY <1>1, <1>2, <1>3

(* What newBoard makes of them. *)
LEMMA RenewedObjects ==
  ASSUME ViewInv, NEW h \in Heights, target' \in Objects, target' = target + 1,
         objects' = Kept([objects EXCEPT ![target + 1] = Fresh(h)])
  PROVE  /\ objects' \in [Objects -> Object]
         /\ \A o \in Objects :
              /\ KnownObject(objects'[o])
              /\ objects'[o] \in {objects[o], Fresh(h), NoBoard}
         /\ objects'[target'] = Fresh(h)
<1>1. objects \in [Objects -> Object] /\ \A o \in Objects : KnownObject(objects[o])
  BY DEF ViewInv, ObjectInv
<1>2. /\ KnownObject(NoBoard)
      /\ KnownObject(Fresh(h)) /\ Fresh(h) \in Object
  BY NoBoardObject, FreshIsBoard DEF KnownObject
<1> DEFINE objs == [objects EXCEPT ![target + 1] = Fresh(h)]
<1>3. objs \in [Objects -> Object] /\ \A o \in Objects : objs[o] \in {objects[o], Fresh(h)}
  BY <1>1, <1>2
<1>4. objs[target'] = Fresh(h)
  BY <1>1
<1> HIDE DEF objs
<1>5. /\ objects' \in [Objects -> Object]
      /\ \A o \in Objects : objects'[o] \in {objs[o], NoBoard}
      /\ objects'[target'] = objs[target']
  BY <1>3, Forgotten DEF objs
<1>6. \A o \in Objects : objects'[o] \in {objects[o], Fresh(h), NoBoard}
  BY <1>3, <1>5
<1> QED
  BY <1>1, <1>2, <1>4, <1>5, <1>6

(* All steps but those leave the objects and TargetBoard alone. *)
LEMMA SharedStays ==
  ASSUME Next
  PROVE  \/ UNCHANGED shared
         \/ NewBoard \/ Restart
         \/ \E r \in Requests :
              DecodeMino(r) \/ DecodeData(r) \/ StampMino(r) \/ Panic(r) \/ EncodeBoard(r)
  BY DEF Next, Change, Handle, FirstStatus, UpdateStatus, DeleteBoard, ReplaceBoard,
         FetchBoard, GetBoard, TakeData, CheckMino, ReadCoords, ReceiveBoard, CallFails,
         Disconnect

(* The objects. *)
LEMMA NextObjects ==
  ASSUME ViewInv, Next
  PROVE  ObjectInv'
<1>1. /\ heights \subseteq heights' /\ heights \subseteq Heights
      /\ board \in Boards \cup {NoBoard} /\ (board # NoBoard => board.height \in heights)
  BY NextBoard DEF ViewInv, BoardInv
<1>2. incidents' \in 0 .. MaxIncidents /\ target' \in 0 .. incidents' /\ target' \in Objects
  BY NextTarget
<1>3. objects' \in [Objects -> Object] /\ \A o \in Objects : KnownObject(objects'[o])
  <2>1. CASE UNCHANGED shared
    BY <2>1 DEF shared, ViewInv, ObjectInv
  <2>2. CASE NewBoard
    BY <1>2, <2>2, RenewedObjects DEF NewBoard
  <2>3. CASE Restart
    <3>1. objects' = Loaded(board)
      BY <2>3 DEF Restart
    <3> QED
      BY <1>1, <3>1, LoadedObjects
  <2>4. ASSUME NEW r \in Requests, DecodeMino(r) \/ DecodeData(r)
        PROVE  objects' \in [Objects -> Object] /\ \A o \in Objects : KnownObject(objects'[o])
    <3> DEFINE t == objects[req[r].into]
               b == req[r].got
    <3>1. CASE DecodeMino(r)
      <4>1. /\ req[r].stage \in {"Read", "Half"}
            /\ objects' = Kept([objects EXCEPT ![req[r].into] = ReadMino(t, b)])
        BY <3>1 DEF DecodeMino
      <4> QED
        BY <1>2, <4>1, DecodedObjects
    <3>2. CASE DecodeData(r)
      <4>1. /\ req[r].stage \in {"Read", "Half"}
            /\ objects' = Kept([objects EXCEPT ![req[r].into] = ReadData(t, b)])
        BY <3>2 DEF DecodeData
      <4> QED
        BY <1>2, <4>1, DecodedObjects
    <3> QED
      BY <2>4, <3>1, <3>2
  <2>5. ASSUME NEW r \in Requests, StampMino(r)
        PROVE  objects' \in [Objects -> Object] /\ \A o \in Objects : KnownObject(objects'[o])
    BY <2>5, StampedObjects
  <2>6. ASSUME NEW r \in Requests, Panic(r) \/ EncodeBoard(r)
        PROVE  objects' \in [Objects -> Object] /\ \A o \in Objects : KnownObject(objects'[o])
    BY <1>2, <2>6, ReleasedObjects DEF Panic, EncodeBoard
  <2> QED
    BY <2>1, <2>2, <2>3, <2>4, <2>5, <2>6, SharedStays
<1> QED
  BY <1>1, <1>2, <1>3, KnownStays DEF ObjectInv

(* A request that moves on, and the others stay as they are. *)
LEMMA ProgressKeeps ==
  ASSUME FetchInv, heights \subseteq heights', NEW r \in Requests, NEW q \in Fetches,
         Progress(r, q), KnownFetch(q)
  PROVE  FetchInv' /\ req'[r] = q /\ \A p \in Requests \ {r} : req'[p] = req[p]
<1>1. /\ req' \in [Requests -> Fetches] /\ req'[r] = q
      /\ \A p \in Requests \ {r} : req'[p] = req[p]
  BY DEF FetchInv, Progress
<1>2. \A p \in Requests : KnownFetch(req'[p])
  BY <1>1 DEF FetchInv
<1>3. (\A p \in Requests : KnownFetch(req[p]))'
  BY <1>2 DEF KnownFetch, SomeRow
<1> QED
  BY <1>1, <1>3 DEF FetchInv

(* These stages say nothing of heights. *)
LEMMA PlainFetch ==
  ASSUME NEW q, q.stage \notin {"Read", "Half"} \cup Slicing
  PROVE  KnownFetch(q)
  BY DEF KnownFetch, Slicing

(* Among them are these requests. *)
LEMMA PlainFetches ==
  /\ KnownFetch(Idle) /\ KnownFetch(Errored) /\ KnownFetch([stage |-> "Decoded"])
  /\ \A o : KnownFetch([stage |-> "AskBoard", into |-> o])
  /\ \A a : KnownFetch([stage |-> "Board", got |-> a])
  BY PlainFetch DEF Idle, Errored, Slicing

(* The steps of a handler up to the decoded answer. *)
LEMMA DecodingMoves ==
  ASSUME ViewInv, NEW r \in Requests, GetBoard(r) \/ DecodeMino(r) \/ DecodeData(r)
  PROVE  \E q \in Fetches : Progress(r, q) /\ KnownFetch(q)
<1>1. req[r] \in Fetches /\ KnownFetch(req[r]) /\ BoardInv
  BY DEF ViewInv, FetchInv
<1>2. CASE GetBoard(r)
  <2>1. req[r].stage = "AskBoard" /\ req[r].into \in Objects
    BY <1>1, <1>2, FetchParts DEF GetBoard
  <2>2. CASE board = NoBoard
    BY <1>2, <2>2, FetchMakes, PlainFetches DEF GetBoard
  <2>3. CASE board # NoBoard
    <3> DEFINE q == [stage |-> "Read", got |-> board, into |-> req[r].into]
    <3>1. Progress(r, q)
      BY <1>2, <2>3 DEF GetBoard
    <3>2. board \in Boards /\ board.height \in heights
      BY <1>1, <2>3 DEF BoardInv
    <3>3. q \in Fetches
      BY <2>1, <3>2, FetchMakes
    <3>4. KnownFetch(q)
      BY <3>2 DEF KnownFetch, Slicing
    <3> QED
      BY <3>1, <3>3, <3>4
  <2> QED
    BY <2>2, <2>3
<1>3. CASE DecodeMino(r)
  <2> DEFINE q == [stage |-> "Half", got |-> req[r].got, into |-> req[r].into]
  <2>1. /\ req[r].stage = "Read" /\ req[r].into \in Objects /\ req[r].got \in Boards
        /\ req[r].got.height \in heights
    BY <1>1, <1>3, FetchParts DEF DecodeMino, KnownFetch
  <2>2. Progress(r, q)
    BY <1>1, <1>3, <2>1, FetchMoves DEF DecodeMino
  <2>3. q \in Fetches
    BY <2>1, FetchMakes
  <2>4. KnownFetch(q)
    BY <2>1 DEF KnownFetch, Slicing
  <2> QED
    BY <2>2, <2>3, <2>4
<1>4. CASE DecodeData(r)
  BY <1>4, FetchMakes, PlainFetches DEF DecodeData
<1> QED
  BY <1>2, <1>3, <1>4

(* Those from there on. *)
LEMMA EncodingMoves ==
  ASSUME ViewInv, NEW r \in Requests,
         \/ TakeData(r) \/ CheckMino(r) \/ ReadCoords(r)
         \/ StampMino(r) \/ Panic(r) \/ EncodeBoard(r)
  PROVE  \E q \in Fetches : Progress(r, q) /\ KnownFetch(q)
<1>1. req[r] \in Fetches /\ KnownFetch(req[r])
  BY DEF ViewInv, FetchInv
<1>2. /\ target \in Objects /\ Target \in Object /\ KnownObject(Target)
      /\ objects \in [Objects -> Object]
  BY ViewAssumption DEF ViewInv, ObjectInv, Objects, Target
<1>3. CASE TakeData(r)
  <2> DEFINE d == [of |-> target, rows |-> Target.data.rows]
             q == [stage |-> "Taken", height |-> Target.height, data |-> d]
  <2>1. req[r].stage = "Decoded" /\ Progress(r, q)
    BY <1>3 DEF TakeData
  <2>2. Target.height \in Heights
    BY <1>2, <2>1 DEF ViewInv, TakenInv, TakesBoard, Object, Sizes
  <2>3. d \in Slices
    BY <1>2 DEF Slices, Object, Grids
  <2>4. q \in Fetches
    BY <2>2, <2>3, FetchMakes
  <2>5. KnownFetch(q)
    BY <1>2 DEF KnownFetch, Slicing, KnownObject
  <2> QED
    BY <2>1, <2>4, <2>5
<1>4. ASSUME req[r].stage \in Slicing, NEW s \in {"HasMino", "Stamped"},
             Progress(r, [stage |-> s, height |-> req[r].height, data |-> req[r].data])
      PROVE  \E q \in Fetches : Progress(r, q) /\ KnownFetch(q)
  <2> DEFINE q == [stage |-> s, height |-> req[r].height, data |-> req[r].data]
  <2>1. q \in Fetches
    BY <1>1, <1>4, FetchParts, FetchMakes
  <2>2. KnownFetch(q)
    BY <1>1, <1>4 DEF KnownFetch, Slicing
  <2> QED
    BY <1>4, <2>1, <2>2
<1>5. CASE CheckMino(r)
  <2>1. PICK s \in {"HasMino", "Stamped"} :
          req[r].stage = "Taken" /\ Progress(r, [req[r] EXCEPT !.stage = s])
    BY <1>5 DEF CheckMino
  <2>2. Progress(r, [stage |-> s, height |-> req[r].height, data |-> req[r].data])
    BY <1>1, <2>1, FetchMoves
  <2> QED
    BY <1>4, <2>1, <2>2 DEF Slicing
<1>6. CASE ReadCoords(r)
  <2> DEFINE q == [stage |-> "At", height |-> req[r].height, data |-> req[r].data,
                   row |-> Target.mino]
  <2>1. req[r].stage = "HasMino" /\ Target.mino # NoMino /\ Progress(r, q)
    BY <1>6 DEF ReadCoords, Panics
  <2>2. Target.mino \in AllRows /\ SomeRow(Target.mino)
    BY <1>2, <2>1 DEF Object, KnownObject
  <2>3. q \in Fetches
    BY <1>1, <2>1, <2>2, FetchParts, FetchMakes DEF Slicing
  <2>4. KnownFetch(q)
    BY <1>1, <2>1, <2>2 DEF KnownFetch, Slicing
  <2> QED
    BY <2>1, <2>3, <2>4
<1>7. CASE StampMino(r)
  BY <1>4, <1>7 DEF StampMino, Slicing
<1>8. CASE Panic(r)
  BY <1>8, FetchMakes, PlainFetches DEF Panic
<1>9. CASE EncodeBoard(r)
  <2> DEFINE d == req[r].data
             f == objects[d.of].data.filled \cap Rows(d.rows)
             a == [height |-> req[r].height, filled |-> f]
  <2>1. req[r].stage = "Stamped" /\ Progress(r, [stage |-> "Board", got |-> a])
    BY <1>9 DEF EncodeBoard
  <2>2. req[r].height \in Heights /\ d.of \in Objects
    BY <1>1, <2>1, FetchParts DEF Slicing
  <2>3. objects[d.of] \in Object
    BY <1>2, <2>2
  <2>4. f \subseteq AllRows
    BY <2>3 DEF Object, Grids
  <2>5. a \in Answer
    BY <2>2, <2>4 DEF Answer
  <2> QED
    BY <2>1, <2>5, FetchMakes, PlainFetches
<1> QED
  BY <1>3, <1>5, <1>6, <1>7, <1>8, <1>9

(* The requests. *)
LEMMA NextFetch ==
  ASSUME ViewInv, Next
  PROVE  FetchInv'
<1>0. heights \subseteq heights' /\ FetchInv /\ target \in Objects
  BY NextBoard, NextTarget DEF ViewInv
<1>1. CASE UNCHANGED req
  BY <1>0, <1>1 DEF FetchInv, KnownFetch, SomeRow
<1>2. CASE Restart
  <2>1. req' = [r \in Requests |->
                  IF req[r].stage \in {"Board", "Errored"} THEN req[r] ELSE Idle]
    BY <1>2 DEF Restart
  <2>2. req' \in [Requests -> Fetches]
    BY <1>0, <2>1, FetchMakes DEF FetchInv
  <2>3. \A r \in Requests : req'[r].stage \notin {"Read", "Half"} \cup Slicing
    BY <2>1 DEF Idle, Slicing
  <2> QED
    BY <2>2, <2>3 DEF FetchInv, KnownFetch, Slicing
<1>3. ASSUME NEW r \in Requests, \E q \in Fetches : Progress(r, q) /\ KnownFetch(q)
      PROVE  FetchInv'
  BY <1>0, <1>3, ProgressKeeps
<1>4. CASE Change
  BY <1>1, <1>4 DEF Change, FirstStatus, UpdateStatus, DeleteBoard, ReplaceBoard, NewBoard
<1>5. ASSUME NEW r \in Requests,
             FetchBoard(r) \/ ReceiveBoard(r) \/ CallFails(r) \/ Disconnect(r)
      PROVE  FetchInv'
  <2>1. PICK q \in {Idle, Errored, [stage |-> "AskBoard", into |-> target]} : Progress(r, q)
    BY <1>5 DEF FetchBoard, ReceiveBoard, CallFails, Disconnect
  <2>2. q \in Fetches /\ KnownFetch(q)
    BY <1>0, <2>1, FetchMakes, PlainFetches
  <2> QED
    BY <1>3, <2>1, <2>2
<1>6. ASSUME NEW r \in Requests, Handle(r) PROVE FetchInv'
  BY <1>3, <1>6, DecodingMoves, EncodingMoves DEF Handle
<1> QED
  BY <1>2, <1>4, <1>5, <1>6 DEF Next

(* These steps leave of the target what the others look at. *)
LEMMA TargetStays ==
  ASSUME ViewInv, Next,
         \/ UNCHANGED shared
         \/ \E r \in Requests : StampMino(r) \/ Panic(r) \/ EncodeBoard(r)
  PROVE  target' = target /\ Target'.height = Target.height /\ Target'.mino = Target.mino
<1>1. target \in Objects /\ target' \in Objects
  BY NextTarget
<1>2. CASE UNCHANGED shared
  BY <1>2 DEF shared, Target
<1>3. ASSUME NEW r \in Requests, StampMino(r)
      PROVE  target' = target /\ Target'.height = Target.height /\ Target'.mino = Target.mino
  <2>1. target' = target
    BY <1>3 DEF StampMino
  <2> QED
    BY <1>1, <1>3, <2>1, StampedObjects DEF Target
<1>4. ASSUME NEW r \in Requests, Panic(r) \/ EncodeBoard(r)
      PROVE  target' = target /\ Target'.height = Target.height /\ Target'.mino = Target.mino
  <2>1. target' = target /\ objects' = Kept(objects)
    BY <1>4 DEF Panic, EncodeBoard
  <2> QED
    BY <1>1, <2>1, ReleasedObjects DEF Target
<1> QED
  BY <1>2, <1>3, <1>4

(* How the requests move in these steps. *)
LEMMA PlainMoves ==
  ASSUME FetchInv, NEW r \in Requests,
         \/ FetchBoard(r) \/ ReceiveBoard(r) \/ CallFails(r) \/ Disconnect(r) \/ GetBoard(r)
         \/ TakeData(r) \/ CheckMino(r) \/ ReadCoords(r)
         \/ StampMino(r) \/ Panic(r) \/ EncodeBoard(r)
  PROVE  \E q : /\ Progress(r, q) /\ req[r].stage # "Half"
                /\ q.stage # "Half" /\ (TakesBoard(q) => TakesBoard(req[r]))
<1>1. req[r] \in Fetches
  BY DEF FetchInv
<1>2. CASE FetchBoard(r)
  <2> DEFINE q == [stage |-> "AskBoard", into |-> target]
  <2>1. Progress(r, q) /\ req[r].stage # "Half"
    BY <1>2 DEF FetchBoard, Idle
  <2>2. q.stage # "Half" /\ ~TakesBoard(q)
    BY DEF TakesBoard
  <2> QED
    BY <2>1, <2>2
<1>3. CASE GetBoard(r)
  <2>1. req[r].stage = "AskBoard"
    BY <1>3 DEF GetBoard
  <2>2. CASE Progress(r, Idle)
    BY <2>1, <2>2 DEF Idle, TakesBoard
  <2>3. CASE Progress(r, [stage |-> "Read", got |-> board, into |-> req[r].into])
    <3> DEFINE q == [stage |-> "Read", got |-> board, into |-> req[r].into]
    <3>1. q.stage # "Half" /\ (TakesBoard(q) => TakesBoard(req[r]))
      BY <2>1 DEF TakesBoard
    <3> QED
      BY <2>1, <2>3, <3>1
  <2> QED
    BY <1>3, <2>2, <2>3 DEF GetBoard
<1>4. ASSUME req[r].stage # "Half",
             NEW q, Progress(r, q), q.stage \notin {"AskBoard", "Read", "Half", "Decoded"}
      PROVE  \E p : /\ Progress(r, p) /\ req[r].stage # "Half"
                    /\ p.stage # "Half" /\ (TakesBoard(p) => TakesBoard(req[r]))
  BY <1>4 DEF TakesBoard
<1>5. CASE ReceiveBoard(r) \/ CallFails(r) \/ Disconnect(r)
  <2>1. PICK q \in {Idle, Errored} : Progress(r, q) /\ req[r].stage # "Half"
    BY <1>5 DEF ReceiveBoard, CallFails, Disconnect
  <2> QED
    BY <1>4, <2>1 DEF Idle, Errored
<1>6. CASE TakeData(r)
  BY <1>4, <1>6 DEF TakeData
<1>7. CASE CheckMino(r)
  <2>1. PICK s \in {"HasMino", "Stamped"} :
          req[r].stage = "Taken" /\ Progress(r, [req[r] EXCEPT !.stage = s])
    BY <1>7 DEF CheckMino
  <2>2. Progress(r, [stage |-> s, height |-> req[r].height, data |-> req[r].data])
    BY <1>1, <2>1, FetchMoves
  <2> QED
    BY <1>4, <2>1, <2>2
<1>8. CASE ReadCoords(r) \/ StampMino(r)
  BY <1>4, <1>8 DEF ReadCoords, StampMino
<1>9. CASE Panic(r)
  <2>1. Progress(r, Idle) /\ req[r].stage # "Half"
    BY <1>9 DEF Panic, Panics
  <2> QED
    BY <1>4, <2>1 DEF Idle
<1>10. CASE EncodeBoard(r)
  BY <1>4, <1>10 DEF EncodeBoard
<1> QED
  BY <1>2, <1>3, <1>5, <1>6, <1>7, <1>8, <1>9, <1>10

(* What a handler takes is a Board. *)
LEMMA NextTaken ==
  ASSUME ViewInv, Next
  PROVE  TakenInv'
<1>0. /\ FetchInv /\ TakenInv /\ target \in Objects /\ target' \in Objects
      /\ objects \in [Objects -> Object]
  BY NextTarget DEF ViewInv, ObjectInv
<1>1. CASE Target'.height # 0
  BY <1>1 DEF TakenInv
<1>2. CASE NewBoard
  <2>1. PICK h \in Heights :
          target' = target + 1 /\ objects' = Kept([objects EXCEPT ![target + 1] = Fresh(h)])
    BY <1>2 DEF NewBoard
  <2>2. objects'[target'] = Fresh(h)
    BY <1>0, <2>1, RenewedObjects
  <2>3. Target'.height # 0
    BY <2>2, FreshIsBoard DEF Target
  <2> QED
    BY <1>1, <2>3
<1>3. CASE Restart
  <2>1. req' = [r \in Requests |->
                  IF req[r].stage \in {"Board", "Errored"} THEN req[r] ELSE Idle]
    BY <1>3 DEF Restart
  <2>2. \A r \in Requests : req'[r].stage \notin {"AskBoard", "Read", "Half", "Decoded"}
    BY <2>1 DEF Idle
  <2> QED
    BY <2>2 DEF TakenInv, TakesBoard
<1>4. ASSUME NEW r \in Requests, DecodeMino(r)
      PROVE  Target'.height # 0
  <2> DEFINE x == ReadMino(objects[req[r].into], req[r].got)
  <2>1. /\ req[r].stage = "Read" /\ target' = target
        /\ objects' = Kept([objects EXCEPT ![req[r].into] = x])
    BY <1>4 DEF DecodeMino
  <2>2. req[r].into \in Objects /\ req[r].got \in Boards
    BY <1>0, <2>1, FetchParts DEF FetchInv
  <2>3. x.height = req[r].got.height /\ req[r].got.height # 0
    BY <1>0, <2>2, MinoRead, BoardParts
  <2>4. objects'[target'] = IF target' = req[r].into THEN x ELSE objects[target']
    BY <1>0, <2>1, DecodedObjects
  <2>5. target # req[r].into => Target.height # 0
    BY <1>0, <2>1 DEF TakenInv, TakesBoard
  <2> HIDE DEF x
  <2> QED
    BY <2>1, <2>3, <2>4, <2>5 DEF Target
<1>5. ASSUME NEW r \in Requests, DecodeData(r)
      PROVE  Target'.height # 0
  <2> DEFINE x == ReadData(objects[req[r].into], req[r].got)
  <2>1. /\ req[r].stage = "Half" /\ target' = target
        /\ objects' = Kept([objects EXCEPT ![req[r].into] = x])
    BY <1>5 DEF DecodeData
  <2>2. req[r].into \in Objects /\ req[r].got \in Boards
    BY <1>0, <2>1, FetchParts DEF FetchInv
  <2>3. x.height = objects[req[r].into].height
    BY <1>0, <2>2, DataRead
  <2>4. objects'[target'] = IF target' = req[r].into THEN x ELSE objects[target']
    BY <1>0, <2>1, DecodedObjects
  <2>5. Target.height # 0
    BY <1>0, <2>1 DEF TakenInv, TakesBoard
  <2> HIDE DEF x
  <2> QED
    BY <2>1, <2>3, <2>4, <2>5 DEF Target
<1>6. CASE Change /\ ~NewBoard
  <2>1. UNCHANGED shared /\ UNCHANGED req
    BY <1>6 DEF Change, FirstStatus, UpdateStatus, DeleteBoard, ReplaceBoard
  <2> QED
    BY <1>0, <2>1 DEF shared, TakenInv, TakesBoard, Target
<1>7. ASSUME NEW r \in Requests, ~DecodeMino(r), ~DecodeData(r),
             \/ FetchBoard(r) \/ Handle(r) \/ ReceiveBoard(r)
             \/ CallFails(r) \/ Disconnect(r)
      PROVE  TakenInv'
  <2>1. PICK q : Progress(r, q) /\ (TakesBoard(q) => TakesBoard(req[r]))
    BY <1>0, <1>7, PlainMoves DEF Handle
  <2>2. target' = target /\ Target'.height = Target.height
    <3>1. UNCHANGED shared \/ StampMino(r) \/ Panic(r) \/ EncodeBoard(r)
      BY <1>7 DEF FetchBoard, Handle, GetBoard, TakeData, CheckMino, ReadCoords,
                  ReceiveBoard, CallFails, Disconnect
    <3> QED
      BY <3>1, TargetStays
  <2>3. \A p \in Requests : req'[p] = IF p = r THEN q ELSE req[p]
    BY <1>0, <2>1 DEF FetchInv, Progress
  <2> QED
    BY <1>0, <2>1, <2>2, <2>3 DEF TakenInv, TakesBoard
<1> QED
  BY <1>1, <1>2, <1>3, <1>4, <1>5, <1>6, <1>7 DEF Next

(* Whoever is half way through its decoding stays there until it goes on. *)
LEMMA HalfStays ==
  ASSUME ViewInv, Next, ~Restart,
         NEW p \in Requests, req[p].stage = "Half", ~DecodeData(p)
  PROVE  req'[p] = req[p]
<1>0. FetchInv
  BY DEF ViewInv
<1>1. CASE Change
  BY <1>1 DEF Change, FirstStatus, UpdateStatus, DeleteBoard, ReplaceBoard, NewBoard
<1>2. ASSUME NEW r \in Requests, NEW q, Progress(r, q), r # p
      PROVE  req'[p] = req[p]
  BY <1>0, <1>2 DEF Progress, FetchInv
<1>3. ASSUME NEW r \in Requests, DecodeMino(r) \/ DecodeData(r)
      PROVE  req'[p] = req[p]
  <2>1. r # p
    BY <1>3 DEF DecodeMino
  <2> QED
    BY <1>2, <1>3, <2>1 DEF DecodeMino, DecodeData
<1>4. ASSUME NEW r \in Requests, ~DecodeMino(r), ~DecodeData(r),
             \/ FetchBoard(r) \/ Handle(r) \/ ReceiveBoard(r)
             \/ CallFails(r) \/ Disconnect(r)
      PROVE  req'[p] = req[p]
  <2>1. PICK q : Progress(r, q) /\ req[r].stage # "Half"
    BY <1>0, <1>4, PlainMoves DEF Handle
  <2> QED
    BY <1>2, <2>1
<1> QED
  BY <1>1, <1>3, <1>4 DEF Next

(* A mino without Data waits for Data. *)
LEMMA NextFilled ==
  ASSUME ViewInv, Next
  PROVE  FilledInv'
<1>0. /\ FetchInv /\ FilledInv /\ target' \in Objects /\ objects \in [Objects -> Object]
      /\ NoBoard.mino = NoMino
  BY NextTarget, NoBoardObject DEF ViewInv, ObjectInv
<1> SUFFICES ASSUME NEW o \in Objects, objects'[o].mino # NoMino, objects'[o].data.rows = 0
             PROVE  \E r \in Requests : WillFill(req'[r], o)
  BY DEF FilledInv, WillFill
<1>1. ASSUME objects[o].mino # NoMino, objects[o].data.rows = 0, ~Restart,
             \A r \in Requests : WillFill(req[r], o) => ~DecodeData(r)
      PROVE  \E r \in Requests : WillFill(req'[r], o)
  <2>1. PICK r \in Requests : WillFill(req[r], o)
    BY <1>0, <1>1 DEF FilledInv
  <2>2. req'[r] = req[r]
    BY <1>1, <2>1, HalfStays DEF WillFill
  <2> QED
    BY <2>1, <2>2
<1>2. CASE Restart
  <2>1. objects' = Loaded(board)
    BY <1>2 DEF Restart
  <2>2. /\ heights \subseteq Heights /\ board \in Boards \cup {NoBoard}
        /\ (board # NoBoard => board.height \in heights)
    BY DEF ViewInv, BoardInv
  <2> QED
    BY <2>1, <2>2, LoadedObjects
<1>3. CASE NewBoard
  <2>1. PICK h \in Heights :
          target' = target + 1 /\ objects' = Kept([objects EXCEPT ![target + 1] = Fresh(h)])
    BY <1>3 DEF NewBoard
  <2>2. objects'[o] \in {objects[o], Fresh(h), NoBoard}
    BY <1>0, <2>1, RenewedObjects
  <2>3. objects'[o] = objects[o]
    BY <1>0, <2>2, FreshIsBoard
  <2>4. ~Restart /\ \A r \in Requests : ~DecodeData(r)
    <3>1. target \in 0 .. incidents /\ incidents \in Nat
      BY ViewAssumption DEF ViewInv, ObjectInv
    <3>2. target' # target /\ target' # 0
      BY <2>1, <3>1
    <3> QED
      BY <3>2 DEF Restart, DecodeData
  <2> QED
    BY <1>1, <2>3, <2>4
<1>4. ASSUME NEW r \in Requests, DecodeMino(r), ~Restart
      PROVE  \E p \in Requests : WillFill(req'[p], o)
  <2> DEFINE t == objects[req[r].into]
             b == req[r].got
             x == ReadMino(t, b)
  <2>1. /\ req[r].stage = "Read" /\ target' = target
        /\ Progress(r, [req[r] EXCEPT !.stage = "Half"])
        /\ objects' = Kept([objects EXCEPT ![req[r].into] = x])
    BY <1>4 DEF DecodeMino
  <2>2. req[r] \in Fetches /\ req[r].into \in Objects /\ b \in Boards
    BY <1>0, <2>1, FetchParts DEF FetchInv
  <2>3. /\ x.data = t.data
        /\ x.mino = NoMino <=> b.mino = NoMino /\ t.mino = NoMino
    BY <1>0, <2>2, MinoRead
  <2>4. objects'[o] \in {IF o = req[r].into THEN x ELSE objects[o], NoBoard}
    BY <1>0, <2>1, DecodedObjects
  <2>5. objects'[o] = IF o = req[r].into THEN x ELSE objects[o]
    BY <1>0, <2>4
  <2>6. req'[r] = [stage |-> "Half", got |-> b, into |-> req[r].into]
    BY <1>0, <2>1, <2>2, FetchMoves DEF Progress, FetchInv
  <2>7. \A p \in Requests : WillFill(req[p], o) => ~DecodeData(p)
    <3>1. ASSUME NEW p \in Requests, DecodeData(p) PROVE FALSE
      <4>1. req[p].stage = "Half" /\ req'[p].stage = "Decoded"
        BY <1>0, <3>1 DEF DecodeData, Progress, FetchInv
      <4>2. p # r
        BY <2>1, <4>1
      <4>3. req'[p] = req[p]
        BY <1>0, <2>1, <4>2 DEF Progress, FetchInv
      <4> QED
        BY <4>1, <4>3
    <3> QED
      BY <3>1
  <2> HIDE DEF x
  <2>8. CASE o = req[r].into /\ b.mino # NoMino
    BY <2>2, <2>6, <2>8, BoardParts DEF WillFill
  <2>9. CASE o # req[r].into \/ b.mino = NoMino
    <3>1. objects[o].mino # NoMino /\ objects[o].data.rows = 0
      BY <2>3, <2>5, <2>9
    <3> QED
      BY <1>1, <1>4, <2>7, <3>1
  <2> QED
    BY <2>8, <2>9
<1>5. ASSUME NEW r \in Requests, DecodeData(r), ~Restart
      PROVE  \E p \in Requests : WillFill(req'[p], o)
  <2> DEFINE t == objects[req[r].into]
             b == req[r].got
             x == ReadData(t, b)
  <2>1. /\ req[r].stage = "Half" /\ target' = target
        /\ Progress(r, [stage |-> "Decoded"])
        /\ objects' = Kept([objects EXCEPT ![req[r].into] = x])
    BY <1>5 DEF DecodeData
  <2>2. req[r].into \in Objects /\ b \in Boards /\ b.height # 0
    BY <1>0, <2>1, FetchParts, BoardParts DEF FetchInv
  <2>3. /\ x.mino = t.mino
        /\ x.data.rows = IF b.data = NoData THEN t.data.rows ELSE b.height
    BY <1>0, <2>2, DataRead
  <2>4. objects'[o] \in {IF o = req[r].into THEN x ELSE objects[o], NoBoard}
    BY <1>0, <2>1, DecodedObjects
  <2>5. objects'[o] = IF o = req[r].into THEN x ELSE objects[o]
    BY <1>0, <2>4
  <2> HIDE DEF x
  <2>6. /\ objects[o].mino # NoMino /\ objects[o].data.rows = 0
        /\ o = req[r].into => b.data = NoData
    BY <2>2, <2>3, <2>5
  <2>7. \A p \in Requests : WillFill(req[p], o) => ~DecodeData(p)
    <3>1. ASSUME NEW p \in Requests, DecodeData(p), WillFill(req[p], o) PROVE FALSE
      <4>1. p # r
        BY <2>6, <3>1 DEF WillFill
      <4>2. req'[p] = req[p] /\ req[p].stage = "Half"
        BY <1>0, <2>1, <3>1, <4>1 DEF Progress, FetchInv, WillFill
      <4>3. req'[p].stage = "Decoded"
        BY <1>0, <3>1 DEF DecodeData, Progress, FetchInv
      <4> QED
        BY <4>2, <4>3
    <3> QED
      BY <3>1
  <2> QED
    BY <1>1, <1>5, <2>6, <2>7
<1>6. CASE ~Restart /\ ~NewBoard /\ \A r \in Requests : ~DecodeMino(r) /\ ~DecodeData(r)
  <2>1. objects'[o] = objects[o] \/ \E r \in Requests : StampMino(r)
    <3>1. CASE UNCHANGED shared
      BY <3>1 DEF shared
    <3>2. ASSUME NEW r \in Requests, Panic(r) \/ EncodeBoard(r)
          PROVE  objects'[o] = objects[o]
      <4>1. target' = target /\ objects' = Kept(objects)
        BY <3>2 DEF Panic, EncodeBoard
      <4>2. objects'[o] \in {objects[o], NoBoard}
        BY <1>0, <4>1, ReleasedObjects
      <4> QED
        BY <1>0, <4>2
    <3> QED
      BY <1>6, <3>1, <3>2, SharedStays
  <2>2. objects[o].mino # NoMino /\ objects[o].data.rows = 0
    BY <2>1, StampedObjects
  <2> QED
    BY <1>1, <1>6, <2>2
<1> QED
  BY <1>2, <1>3, <1>4, <1>5, <1>6

(* Those who are alone stay so in the steps in which the target stays and     *)
(* nobody gets half way through.                                              *)
LEMMA AloneStays ==
  ASSUME AloneInv, FetchInv, NEW r \in Requests, NEW q, Progress(r, q), q.stage # "Half",
         Target'.mino = Target.mino, alone' \subseteq alone, r \in alone' => Sees(q)
  PROVE  AloneInv'
<1>1. \A p \in Requests : req'[p] = IF p = r THEN q ELSE req[p]
  BY DEF FetchInv, Progress
<1>2. \A p \in alone' : Sees(req'[p])
  BY <1>1 DEF AloneInv
<1>3. \A p \in alone' : Sees(req[p])'
  BY <1>2 DEF Sees
<1>4. \A p \in alone' : \A s \in Requests \ {p} : req'[s].stage # "Half"
  BY <1>1 DEF AloneInv
<1> QED
  BY <1>3, <1>4 DEF AloneInv

(* A handler that is alone sees a mino with its Data, or none. *)
LEMMA NextAlone ==
  ASSUME ViewInv, Next
  PROVE  AloneInv'
<1>0. /\ FetchInv /\ FilledInv /\ AloneInv /\ target \in Objects
      /\ objects \in [Objects -> Object]
  BY NextTarget DEF ViewInv, ObjectInv
<1>1. CASE NewBoard \/ Restart
  <2>1. alone' = {}
    BY <1>1 DEF NewBoard, Restart
  <2> QED
    BY <2>1 DEF AloneInv
<1>2. CASE Change /\ ~NewBoard
  <2>1. UNCHANGED <<shared, req, alone>>
    BY <1>2 DEF Change, FirstStatus, UpdateStatus, DeleteBoard, ReplaceBoard
  <2> QED
    BY <1>0, <2>1 DEF shared, AloneInv, Sees, Target
<1>3. ASSUME NEW r \in Requests, DecodeMino(r)
      PROVE  AloneInv'
  <2>1. /\ req[r].stage = "Read" /\ Progress(r, [req[r] EXCEPT !.stage = "Half"])
        /\ alone' = IF \E s \in Requests : req[s].stage = "Half" THEN {} ELSE {r}
    BY <1>3 DEF DecodeMino
  <2>2. req[r] \in Fetches
    BY <1>0 DEF FetchInv
  <2>3. req'[r] = [stage |-> "Half", got |-> req[r].got, into |-> req[r].into]
    BY <1>0, <2>1, <2>2, FetchMoves DEF Progress, FetchInv
  <2>4. \A s \in Requests \ {r} : req'[s] = req[s]
    BY <1>0, <2>1 DEF Progress, FetchInv
  <2>5. req'[r].stage = "Half"
    BY <2>3
  <2>6. Sees(req[r])'
    BY <2>5 DEF Sees, Slicing
  <2> QED
    BY <2>1, <2>4, <2>6 DEF AloneInv
<1>4. ASSUME NEW r \in Requests, DecodeData(r)
      PROVE  AloneInv'
  <2>1. Progress(r, [stage |-> "Decoded"]) /\ alone' = alone \cap {r}
    BY <1>4 DEF DecodeData
  <2>2. req'[r].stage = "Decoded" /\ \A s \in Requests \ {r} : req'[s] = req[s]
    BY <1>0, <2>1 DEF Progress, FetchInv
  <2>3. Sees(req[r])'
    BY <2>2 DEF Sees, Slicing
  <2>4. r \in alone' => \A s \in Requests \ {r} : req'[s].stage # "Half"
    BY <1>0, <2>1, <2>2 DEF AloneInv
  <2> QED
    BY <1>0, <2>1, <2>3, <2>4 DEF AloneInv
<1>5. ASSUME NEW r \in Requests, UNCHANGED <<shared, alone>>,
             \/ FetchBoard(r) \/ ReceiveBoard(r) \/ CallFails(r) \/ Disconnect(r) \/ GetBoard(r)
      PROVE  AloneInv'
  <2>1. PICK q : Progress(r, q) /\ q.stage # "Half"
    BY <1>0, <1>5, PlainMoves
  <2>2. Target' = Target
    BY <1>5 DEF shared, Target
  <2>3. req[r].stage \notin {"Half", "Decoded"} \cup Slicing
    BY <1>5 DEF FetchBoard, ReceiveBoard, CallFails, Disconnect, GetBoard, Idle, Errored, Slicing
  <2>4. r \notin alone
    BY <1>0, <2>3 DEF AloneInv, Sees
  <2> QED
    BY <1>0, <1>5, <2>1, <2>2, <2>4, AloneStays
<1>6. ASSUME NEW r \in Requests, TakeData(r)
      PROVE  AloneInv'
  <2> DEFINE d == [of |-> target, rows |-> Target.data.rows]
             q == [stage |-> "Taken", height |-> Target.height, data |-> d]
  <2>1. req[r].stage = "Decoded" /\ Progress(r, q) /\ UNCHANGED <<shared, alone>>
    BY <1>6 DEF TakeData
  <2>2. Target' = Target
    BY <2>1 DEF shared, Target
  <2>3. ASSUME r \in alone PROVE Target.mino # NoMino => d.rows # 0
    <3>1. \A s \in Requests : req[s].stage # "Half"
      BY <1>0, <2>1, <2>3 DEF AloneInv
    <3>2. ~ \E s \in Requests : WillFill(req[s], target)
      BY <3>1 DEF WillFill
    <3> QED
      BY <1>0, <3>2 DEF FilledInv, Target
  <2>4. r \in alone => Sees(q)
    BY <2>3 DEF Sees, Slicing
  <2> QED
    BY <1>0, <2>1, <2>2, <2>4, AloneStays
<1>7. ASSUME NEW r \in Requests, CheckMino(r)
      PROVE  AloneInv'
  <2> DEFINE s == IF Target.mino = NoMino THEN "Stamped" ELSE "HasMino"
             q == [stage |-> s, height |-> req[r].height, data |-> req[r].data]
  <2>1. /\ req[r].stage = "Taken" /\ Progress(r, [req[r] EXCEPT !.stage = s])
        /\ UNCHANGED <<shared, alone>>
    BY <1>7 DEF CheckMino
  <2>2. Progress(r, q)
    BY <1>0, <2>1, FetchMoves DEF FetchInv
  <2>3. Target' = Target
    BY <2>1 DEF shared, Target
  <2>4. ASSUME r \in alone PROVE Sees(q)
    <3>1. Target.mino # NoMino => req[r].data.rows # 0
      BY <1>0, <2>1, <2>4 DEF AloneInv, Sees
    <3> QED
      BY <3>1 DEF Sees, Slicing
  <2> QED
    BY <1>0, <2>1, <2>2, <2>3, <2>4, AloneStays
<1>8. ASSUME NEW r \in Requests, ReadCoords(r)
      PROVE  AloneInv'
  <2> DEFINE q == [stage |-> "At", height |-> req[r].height, data |-> req[r].data,
                   row |-> Target.mino]
  <2>1. req[r].stage = "HasMino" /\ Progress(r, q) /\ UNCHANGED <<shared, alone>>
    BY <1>8 DEF ReadCoords
  <2>2. Target' = Target
    BY <2>1 DEF shared, Target
  <2>3. ASSUME r \in alone PROVE Sees(q)
    <3>1. Target.mino # NoMino /\ req[r].data.rows # 0
      BY <1>0, <2>1, <2>3 DEF AloneInv, Sees
    <3> QED
      BY <3>1 DEF Sees, Slicing
  <2> QED
    BY <1>0, <2>1, <2>2, <2>3, AloneStays
<1>9. ASSUME NEW r \in Requests, StampMino(r)
      PROVE  AloneInv'
  <2> DEFINE q == [stage |-> "Stamped", height |-> req[r].height, data |-> req[r].data]
  <2>1. Progress(r, q) /\ alone' = alone
    BY <1>9 DEF StampMino
  <2>2. Target'.mino = Target.mino
    BY <1>9, TargetStays
  <2>3. q.stage # "Half" /\ Sees(q)
    BY DEF Sees, Slicing
  <2> QED
    BY <1>0, <2>1, <2>2, <2>3, AloneStays
<1>10. ASSUME NEW r \in Requests, Panic(r) \/ EncodeBoard(r)
       PROVE  AloneInv'
  <2>1. alone' = alone \ {r}
    BY <1>10 DEF Panic, EncodeBoard
  <2>2. PICK q : Progress(r, q) /\ q.stage # "Half"
    BY <1>0, <1>10, PlainMoves
  <2>3. Target'.mino = Target.mino
    BY <1>10, TargetStays
  <2> QED
    BY <1>0, <2>1, <2>2, <2>3, AloneStays
<1>11. ASSUME NEW r \in Requests,
              \/ FetchBoard(r) \/ ReceiveBoard(r) \/ CallFails(r) \/ Disconnect(r) \/ GetBoard(r)
       PROVE  UNCHANGED <<shared, alone>>
  BY <1>11 DEF FetchBoard, ReceiveBoard, CallFails, Disconnect, GetBoard
<1> QED
  BY <1>1, <1>2, <1>3, <1>4, <1>5, <1>6, <1>7, <1>8, <1>9, <1>10, <1>11 DEF Next, Handle

(* What the page shows fits the height it shows. *)
LEMMA NextPage ==
  ASSUME ViewInv, Next
  PROVE  PageInv'
<1>0. PageInv /\ FetchInv
  BY DEF ViewInv
<1>1. canvas' = canvas \/ \E r \in Requests : ReceiveBoard(r)
  BY DEF Next, Change, Handle, FirstStatus, UpdateStatus, DeleteBoard, ReplaceBoard,
         NewBoard, Restart, FetchBoard, GetBoard, DecodeMino, DecodeData, TakeData,
         CheckMino, ReadCoords, StampMino, Panic, EncodeBoard, CallFails, Disconnect
<1>2. ASSUME NEW r \in Requests, ReceiveBoard(r)
      PROVE  canvas' \in Pictures \cup {Blank}
  <2>1. CASE req[r].stage = "Board" /\ Draw(req[r].got)
    <3>1. req[r].got \in Answer
      BY <1>0, <2>1, FetchParts DEF FetchInv
    <3> DEFINE h == req[r].got.height
    <3>2. h \in Heights
      BY <3>1 DEF Answer
    <3>3. canvas' \in [height : {h}, filled : SUBSET Rows(h)]
      BY <2>1, <3>1 DEF Answer, Draw
    <3> QED
      BY <3>2, <3>3 DEF Pictures
  <2>2. CASE Draw(Blank)
    BY <2>2 DEF Draw, Blank
  <2> QED
    BY <1>2, <2>1, <2>2 DEF ReceiveBoard
<1> QED
  BY <1>0, <1>1, <1>2 DEF PageInv

(* At first the page is blank, and the server has read some Board. *)
LEMMA InitView == Init => ViewInv
<1> SUFFICES ASSUME Init PROVE ViewInv
  OBVIOUS
<1>1. PICK b \in Boards \cup {NoBoard} :
        /\ objects = Loaded(b)
        /\ heights = {b.height, board.height} \ {0}
  BY DEF Init
<1>2. board \in Boards \cup {NoBoard} /\ NoBoard.height = 0
  BY DEF Init, NoBoard
<1>3. heights \subseteq Heights /\ (b # NoBoard => b.height \in heights) /\ BoardInv
  BY <1>1, <1>2, BoardParts DEF BoardInv
<1>4. /\ objects \in [Objects -> Object]
      /\ \A o \in Objects : KnownObject(objects[o])
      /\ \A o \in Objects : objects[o].mino # NoMino => objects[o].data.rows # 0
  BY <1>1, <1>3, LoadedObjects
<1>5. ObjectInv /\ FilledInv
  BY <1>4, ViewAssumption DEF Init, ObjectInv, FilledInv
<1>6. req = [r \in Requests |-> Idle] /\ \A r \in Requests : req[r].stage = "Idle"
  BY DEF Init, Idle
<1>7. FetchInv /\ TakenInv
  BY <1>6, FetchMakes, PlainFetches DEF FetchInv, TakenInv, TakesBoard
<1>8. AloneInv /\ PageInv
  BY DEF Init, AloneInv, PageInv
<1> QED
  BY <1>3, <1>5, <1>7, <1>8 DEF ViewInv

(* Every step keeps it. *)
LEMMA NextView == ViewInv /\ [Next]_(vars) => ViewInv'
<1>1. ASSUME ViewInv, UNCHANGED vars PROVE ViewInv'
  <2>1. UNCHANGED <<board, heights, target, objects, req, canvas, alone, incidents>>
    BY <1>1 DEF vars, server, shared
  <2>2. BoardInv' /\ ObjectInv'
    BY <1>1, <2>1 DEF ViewInv, BoardInv, ObjectInv, KnownObject, SomeRow
  <2>3. FetchInv' /\ TakenInv'
    BY <1>1, <2>1 DEF ViewInv, FetchInv, KnownFetch, SomeRow, TakenInv, TakesBoard, Target
  <2>4. FilledInv'
    BY <1>1, <2>1 DEF ViewInv, FilledInv, WillFill
  <2>5. AloneInv' /\ PageInv'
    BY <1>1, <2>1 DEF ViewInv, AloneInv, PageInv, Sees, Target
  <2> QED
    BY <2>2, <2>3, <2>4, <2>5 DEF ViewInv
<1> QED
  BY <1>1, NextBoard, NextObjects, NextFetch, NextTaken, NextFilled, NextAlone, NextPage
     DEF ViewInv

(* The variables keep their types, whatever the handlers leave in the       *)
(* objects that TargetBoard points to.                                      *)
THEOREM TypeCorrect == Spec => []TypeOK
<1>1. ASSUME ViewInv PROVE TypeOK
  <2>1. target \in Objects
    BY <1>1, ViewAssumption DEF ViewInv, ObjectInv, Objects
  <2> QED
    BY <1>1, <2>1 DEF ViewInv, BoardInv, ObjectInv, FetchInv, AloneInv, PageInv, TypeOK
<1>2. Init => ViewInv
  BY InitView
<1>3. ViewInv /\ [Next]_(vars) => ViewInv'
  BY NextView
<1> QED
  BY <1>1, <1>2, <1>3, PTL DEF Spec

(* AloneIsSafe for Boards of any height and any number of polls: getBoard    *)
(* does not index out of range as long as no other handler comes in between, *)
(* whatever earlier ones left in the objects, unless there were Boards of    *)
(* two heights.                                                              *)
THEOREM AloneIsSafeCorrect == Spec => []AloneIsSafe
<1>1. ASSUME ViewInv PROVE AloneIsSafe
  <2>1. SUFFICES ASSUME NEW r \in alone, Panics(r)
                 PROVE  \E h, k \in heights : h # k
    BY DEF AloneIsSafe
  <2>2. r \in Requests /\ Sees(req[r]) /\ KnownFetch(req[r])
    BY <1>1 DEF ViewInv, AloneInv, FetchInv
  <2>3. req[r].stage = "At" /\ req[r].row \notin Rows(req[r].data.rows)
    BY <2>1, <2>2 DEF Panics, Sees
  <2>4. PICK h \in heights : req[r].row \in Rows(h)
    BY <2>2, <2>3 DEF KnownFetch, SomeRow
  <2>5. req[r].data.rows \in heights
    BY <2>2, <2>3 DEF KnownFetch, Sees, Slicing
  <2> QED
    BY <2>3, <2>4, <2>5
<1>2. Init => ViewInv
  BY InitView
<1>3. ViewInv /\ [Next]_(vars) => ViewInv'
  BY NextView
<1> QED
  BY <1>1, <1>2, <1>3, PTL DEF Spec
=============================================================================
