------------------------------ MODULE BoardView ------------------------------
(***************************************************************************)
(* What a player sees: the web client (app/static/main.js) asks t4s-app for *)
(* the Board, again and again and after each key, and draws what it gets.   *)
(* Requests overlap and are answered in any order.                          *)
(*                                                                          *)
(* The handlers of t4s-app run side by side, and no lock protects the       *)
(* pointer TargetBoard nor the object it points to.  Each handler decodes   *)
(* its answer of the API server into what the last one left there, field by *)
(* field in the order of the answer, and then reads TargetBoard again and   *)
(* again: for the Data, whose array it shares from then on, for the mino,   *)
(* and for its coordinates.  Decoding keeps every field that the answer     *)
(* leaves out, and "omitempty" leaves out a number that is 0, an empty Data *)
(* and an empty CurrentMino.                                                *)
(*                                                                          *)
(* A step reads or writes one field.  A Board has one column here, and a    *)
(* mino one cell: a coordinate is a row.  Data is decoded into the array it *)
(* has, whose capacity is taken to be enough for every height.              *)
(***************************************************************************)
EXTENDS Integers, FiniteSets

CONSTANTS
  Heights,      \* heights of Boards
  Landed,       \* sets of rows that may be filled in the Data of a Board
  Requests,     \* bound: requests of the page in flight
  MaxIncidents  \* bound: changes of the Board, failing calls

NoMino == -1
Rows(h) == 0 .. h - 1

ASSUME ViewAssumption ==
  /\ Heights \subseteq Nat \ {0} /\ {} \in Landed
  /\ MaxIncidents \in Nat

VARIABLES
  board,    \* the Board: height, rows of Data (none before it has a status), mino
  target,   \* TargetBoard of t4s-app: the number of the object it points to
  objects,  \* the objects that it has pointed to since the pod started
  req,      \* the requests of the page and how far they are
  canvas,   \* what the page shows
  heights,  \* history: the heights of the Boards so far
  alone,    \* history: the handler that none has come in between with since it
            \* began to decode, if there is one
  incidents

server == <<board, heights>>
shared == <<target, objects>>
vars   == <<server, shared, req, canvas, alone, incidents>>

NoData  == [rows |-> 0, filled |-> {}]
NoBoard == [height |-> 0, data |-> NoData, mino |-> NoMino]

(* What the Data of a Board may be.                                         *)
DataOf(h) == [rows : {h}, filled : {f \in Landed : f \subseteq Rows(h)}]

(* A Board before its first status, without a mino, and with one.           *)
BoardsOf(h) == [height : {h}, data : {NoData}, mino : {NoMino}]
                 \cup [height : {h}, data : DataOf(h), mino : Rows(h) \cup {NoMino}]

Boards == UNION {BoardsOf(h) : h \in Heights}
AllRows == UNION {Rows(h) : h \in Heights}
Sizes   == Heights \cup {0}

(* The objects of t4s-app: what is in the array of their Data stays there   *)
(* when the Data gets shorter.  A slice of Data is the array and a length.  *)
Objects == 0 .. MaxIncidents
Grids   == [rows : Sizes, filled : SUBSET AllRows]
Object  == [height : Sizes, data : Grids, mino : AllRows \cup {NoMino}]
Slices  == [of : Objects, rows : Sizes]

(* What t4s-app answers, and what the page can show. *)
Answer   == [height : Heights, filled : SUBSET AllRows]
Pictures == UNION {[height : {h}, filled : SUBSET Rows(h)] : h \in Heights}
Blank    == [height |-> 0, filled |-> {}]

Idle     == [stage |-> "Idle"]
Errored  == [stage |-> "Errored"]  \* a JSON object with a message

(* From the answer of the API server to that of the handler.                *)
Fetches ==
  {Idle, Errored}
    \cup [stage : {"AskBoard"}, into : Objects] \cup [stage : {"Decoded"}]
    \cup [stage : {"Read", "Half"}, got : Boards, into : Objects]
    \cup [stage : {"Taken", "HasMino", "Stamped"}, height : Heights, data : Slices]
    \cup [stage : {"At"}, height : Heights, data : Slices, row : AllRows]
    \cup [stage : {"Board"}, got : Answer]

(* Types and bounds of the variables. *)
TypeOK ==
  /\ board \in Boards \cup {NoBoard}
  /\ target \in Objects /\ objects \in [Objects -> Object]
  /\ req \in [Requests -> Fetches]
  /\ canvas \in Pictures \cup {Blank}
  /\ heights \subseteq Heights /\ alone \subseteq Requests
  /\ incidents \in 0 .. MaxIncidents

(* What decoding the answer b into the object o leaves there: the spec and  *)
(* CurrentMino come first,                                                  *)
ReadMino(o, b) ==
  [o EXCEPT !.height = b.height,
            !.mino = IF b.mino = NoMino \/ (b.mino = 0 /\ @ # NoMino) THEN @ ELSE b.mino]

(* then Data, into the array that is there.                                 *)
ReadData(o, b) ==
  IF b.data = NoData THEN o
  ELSE [o EXCEPT !.data = [rows   |-> b.data.rows,
                           filled |-> b.data.filled \cup (@.filled \ Rows(b.data.rows))]]

(* Every field of the Board is in its answers.                              *)
Complete(b) == b.data # NoData /\ b.mino > 0

(* The objects after the pod has started and read the Board.                *)
Loaded(b) == [o \in Objects |-> IF o = 0 THEN ReadData(ReadMino(NoBoard, b), b) ELSE NoBoard]

(* t4s-app has read the Board when it started, this one or an earlier one   *)
(* with a mino; somebody opens the page.                                    *)
Init ==
  /\ board \in Boards \cup {NoBoard}
  /\ target = 0
  /\ \E b \in {board} \cup {c \in Boards : Complete(c)} :
       objects = Loaded(b) /\ heights = {b.height, board.height} \ {0}
  /\ req = [r \in Requests |-> Idle]
  /\ canvas = Blank
  /\ alone = {} /\ incidents = 0

Incident == incidents < MaxIncidents /\ incidents' = incidents + 1

-----------------------------------------------------------------------------
(* The Board changes. *)

(* A status has Data from the first one on, which comes by itself.          *)
WriteStatus ==
  /\ board # NoBoard
  /\ board' \in {b \in BoardsOf(board.height) : b.data # NoData}

FirstStatus ==
  /\ board.data = NoData /\ WriteStatus
  /\ UNCHANGED <<heights, shared, req, canvas, alone, incidents>>

UpdateStatus ==
  /\ Incident
  /\ board.data # NoData /\ WriteStatus
  /\ UNCHANGED <<heights, shared, req, canvas, alone>>

DeleteBoard ==
  /\ Incident
  /\ board # NoBoard /\ board' = NoBoard
  /\ UNCHANGED <<heights, shared, req, canvas, alone>>

Fresh(h) == [height |-> h, data |-> NoData, mino |-> NoMino]

(* The T4s controller or another pod has made another Board, of any size.   *)
Replace(h) ==
  /\ Incident
  /\ board' = Fresh(h)
  /\ heights' = heights \cup {h}

ReplaceBoard ==
  /\ \E h \in Heights : Replace(h)
  /\ UNCHANGED <<shared, req, canvas, alone>>

-----------------------------------------------------------------------------
(* t4s-app.  Progress is a request's next stage; no answer, or one that is  *)
(* not JSON, changes nothing in the page.                                   *)

Progress(r, q) == req' = [req EXCEPT ![r] = q]

(* An object that TargetBoard no longer points to is kept as long as some   *)
(* handler has its Data.                                                    *)
Holds(q, o) == q.stage \in {"Taken", "HasMino", "At", "Stamped"} /\ q.data.of = o

Kept(objs) ==
  [o \in Objects |->
     IF o = target' \/ \E r \in Requests : Holds(req'[r], o) THEN objs[o] ELSE NoBoard]

(* newBoard points TargetBoard to a new object and creates the Board (in    *)
(* one step: AppServer has the order of its calls).  Handlers that are      *)
(* decoding go on doing so into the old one, those that have its Data keep  *)
(* it.                                                                      *)
NewBoard ==
  /\ target' = target + 1 /\ UNCHANGED req
  /\ \E h \in Heights :
       Replace(h) /\ objects' = Kept([objects EXCEPT ![target + 1] = Fresh(h)])
  /\ alone' = {}
  /\ UNCHANGED canvas

(* getBoard: the call of the API server, which answers with the Board of    *)
(* that moment, or not at all.                                              *)
GetBoard(r) ==
  /\ req[r].stage = "AskBoard"
  /\ IF board = NoBoard THEN Progress(r, Idle)
     ELSE Progress(r, [stage |-> "Read", got |-> board, into |-> req[r].into])
  /\ UNCHANGED <<server, shared, canvas, alone, incidents>>

(* The answer is decoded, in two steps, after either of which others may    *)
(* read the object.                                                         *)
DecodeMino(r) ==
  /\ req[r].stage = "Read"
  /\ Progress(r, [req[r] EXCEPT !.stage = "Half"]) /\ UNCHANGED target
  /\ objects' = Kept([objects EXCEPT ![req[r].into] = ReadMino(@, req[r].got)])
  /\ alone' = IF \E s \in Requests : req[s].stage = "Half" THEN {} ELSE {r}
  /\ UNCHANGED <<server, canvas, incidents>>

DecodeData(r) ==
  /\ req[r].stage = "Half"
  /\ Progress(r, [stage |-> "Decoded"]) /\ UNCHANGED target
  /\ objects' = Kept([objects EXCEPT ![req[r].into] = ReadData(@, req[r].got)])
  /\ alone' = alone \cap {r}
  /\ UNCHANGED <<server, canvas, incidents>>

Target == objects[target]

(* The handler's own Board shares the Data of the present TargetBoard.      *)
TakeData(r) ==
  /\ req[r].stage = "Decoded"
  /\ Progress(r, [stage |-> "Taken", height |-> Target.height,
                  data |-> [of |-> target, rows |-> Target.data.rows]])
  /\ UNCHANGED <<server, shared, canvas, alone, incidents>>

\* Mutant: does not look whether there is a mino.
CheckNothing(r) ==
  /\ req[r].stage = "Taken"
  /\ Progress(r, [req[r] EXCEPT !.stage = "HasMino"])
  /\ UNCHANGED <<server, shared, canvas, alone, incidents>>

CheckMino(r) ==
  /\ req[r].stage = "Taken"
  /\ Progress(r, [req[r] EXCEPT !.stage = IF Target.mino = NoMino THEN "Stamped" ELSE "HasMino"])
  /\ UNCHANGED <<server, shared, canvas, alone, incidents>>

(* Whether CurrentMino[0] is still there when it is read, once for its      *)
(* coordinates and once for its id, and the row is one of the Data.         *)
Panics(r) ==
  \/ req[r].stage \in {"HasMino", "At"} /\ Target.mino = NoMino
  \/ req[r].stage = "At" /\ req[r].row \notin Rows(req[r].data.rows)

ReadCoords(r) ==
  /\ req[r].stage = "HasMino" /\ ~Panics(r)
  /\ Progress(r, [stage |-> "At", height |-> req[r].height, data |-> req[r].data,
                  row |-> Target.mino])
  /\ UNCHANGED <<server, shared, canvas, alone, incidents>>

StampMino(r) ==
  /\ req[r].stage = "At" /\ ~Panics(r)
  /\ objects' = [objects EXCEPT ![req[r].data.of].data.filled = @ \cup {req[r].row}]
  /\ Progress(r, [stage |-> "Stamped", height |-> req[r].height, data |-> req[r].data])
  /\ UNCHANGED <<server, target, canvas, alone, incidents>>

(* An index out of range ends the handler and its connection.               *)
Panic(r) ==
  /\ Panics(r)
  /\ Progress(r, Idle) /\ UNCHANGED target
  /\ objects' = Kept(objects)
  /\ alone' = alone \ {r}
  /\ UNCHANGED <<server, canvas, incidents>>

(* Encodes the Data that was taken, with what is in its array by now.       *)
EncodeBoard(r) ==
  /\ req[r].stage = "Stamped"
  /\ LET d == req[r].data IN
     Progress(r, [stage |-> "Board",
                  got |-> [height |-> req[r].height,
                           filled |-> objects[d.of].data.filled \cap Rows(d.rows)]])
  /\ UNCHANGED target /\ objects' = Kept(objects)
  /\ alone' = alone \ {r}
  /\ UNCHANGED <<server, canvas, incidents>>

(* The call of the API server fails, and the error goes to the page.        *)
CallFails(r) ==
  /\ Incident
  /\ req[r].stage = "AskBoard" /\ Progress(r, Errored)
  /\ UNCHANGED <<server, shared, canvas, alone>>

(* The request or its answer gets lost.                                     *)
Disconnect(r) ==
  /\ Incident
  /\ req[r].stage \in {"AskBoard", "Board"}
  /\ Progress(r, Idle)
  /\ UNCHANGED <<server, shared, canvas, alone>>

(* The pod of t4s-app restarts: the connections are lost, and its init()    *)
(* reads the Board into an empty object.                                    *)
Restart ==
  /\ Incident
  /\ target' = 0 /\ objects' = Loaded(board)
  /\ req' = [r \in Requests |->
               IF req[r].stage \in {"Board", "Errored"} THEN req[r] ELSE Idle]
  /\ alone' = {}
  /\ UNCHANGED <<server, canvas>>

-----------------------------------------------------------------------------
(* The page. *)

(* A timer has gone off, or a key has been pressed and its Action created.  *)
(* The handler that takes the request passes TargetBoard to its call.       *)
FetchBoard(r) ==
  /\ req[r] = Idle
  /\ Progress(r, [stage |-> "AskBoard", into |-> target])
  /\ UNCHANGED <<server, shared, canvas, alone, incidents>>

\* Mutant: what was drawn before is not cleared.
DrawOver(p) == canvas' = [p EXCEPT !.filled = (canvas.filled \cup @) \cap Rows(p.height)]

\* Mutant: goes through the Data, not through the rows of the Board.
DrawAll(p) == canvas' = p

(* Rows beyond the height are not drawn.                                    *)
Draw(p) == canvas' = [p EXCEPT !.filled = @ \cap Rows(p.height)]

ReceiveBoard(r) ==
  /\ \/ req[r].stage = "Board" /\ Draw(req[r].got)
     \/ req[r].stage = "Errored" /\ Draw(Blank)
  /\ Progress(r, Idle)
  /\ UNCHANGED <<server, shared, alone, incidents>>

-----------------------------------------------------------------------------
Change == FirstStatus \/ UpdateStatus \/ DeleteBoard \/ ReplaceBoard \/ NewBoard

Handle(r) ==
  \/ GetBoard(r) \/ DecodeMino(r) \/ DecodeData(r) \/ TakeData(r) \/ CheckMino(r)
  \/ ReadCoords(r) \/ StampMino(r) \/ Panic(r) \/ EncodeBoard(r)

Next ==
  \/ Change \/ Restart
  \/ \E r \in Requests : FetchBoard(r) \/ Handle(r) \/ ReceiveBoard(r)
                         \/ CallFails(r) \/ Disconnect(r)

Spec == Init /\ [][Next]_vars

(* The timer goes off again and again; requests are handled and answers     *)
(* received.                                                                *)
FairSpec ==
  /\ Spec
  /\ \A r \in Requests : WF_vars(FetchBoard(r) \/ Handle(r) \/ ReceiveBoard(r))

-----------------------------------------------------------------------------
(* A handler that none comes in between with, from its decoding on, never   *)
(* indexes out of range, whatever interleavings before it left in the       *)
(* objects, unless there were Boards of two sizes.  None means no other     *)
(* handler half way through its decoding when it begins, none decoding and  *)
(* no newBoard since.  With one of these the panic does occur.              *)
AloneIsSafe ==
  (\E r \in alone : Panics(r)) => \E h, k \in heights : h # k

(* Ghosts of earlier Boards, left in TargetBoard or in answers that come    *)
(* late, do not stay: if the Board comes to rest, the page shows its Data   *)
(* and no more than its mino besides.  Neither would hold of a mino in row  *)
(* 0, or of a Board without one: TargetBoard keeps what was there before.   *)
GhostsFade ==
  <>[]Complete(board) =>
    <>[](/\ canvas.height = board.height
         /\ board.data.filled \subseteq canvas.filled
         /\ canvas.filled \subseteq board.data.filled \cup {board.mino})
=============================================================================
