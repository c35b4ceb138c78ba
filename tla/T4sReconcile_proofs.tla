------------------------ MODULE T4sReconcile_proofs ------------------------
(***************************************************************************)
(* Proofs about T4sReconcile, for all plans, specs and bounds: its type     *)
(* invariant, that an update of a Board changes its wait time only, and     *)
(* that the objects of t4s-app are as wanted at rest.                       *)
(***************************************************************************)
EXTENDS T4sReconcile, SequenceTheorems, TLAPS

(* The specs in use are those of a T4s that was not going, and an Update is *)
(* of a Board that was there.                                               *)
IInv ==
  /\ TypeOK
  /\ pc # 0 => local \in Specs
  /\ game # "Idle" => gameSpec \in Specs
  /\ pc = 0 => call = "Get"
  /\ pc # 0 /\ call = "Update" /\ Plan[pc] = "Board" => seen # NoBoard

USE DEF Going, Absent, Fixed, Drift

(* A NoBoard and every spec have numbers for their fields. *)
LEMMA Fields ==
  /\ \A s \in Specs \cup {Going} : s.size \in Nat /\ s.wait \in Nat
  /\ \A s \in Specs : s # Going
  BY T4sAssumption

(* The bounds are numbers. *)
LEMMA Bounds == MaxGames \in Nat /\ MaxIncidents \in Nat
  BY T4sAssumption

(* A one-element tuple is a sequence. *)
LEMMA SingletonSeq ==
  ASSUME NEW S, NEW x \in S PROVE <<x>> \in Seq(S) /\ Len(<<x>>) = 1
  OBVIOUS

(* The fields of a Board that is, or is not, there. *)
LEMMA BoardFields ==
  /\ NoBoard.version = 0
  /\ \A b \in Board : /\ b.version \in Nat \ {0} /\ b # NoBoard
                       /\ [b EXCEPT !.deleting = TRUE] \in Board
                       /\ \A w \in Nat : [b EXCEPT !.wait = w] \in Board
                       /\ \A v \in Nat \ {0} : [b EXCEPT !.version = v] \in Board
<1>1. NoBoard.version = 0
  BY DEF NoBoard
<1>2. ASSUME NEW b \in Board PROVE b.version \in Nat \ {0} /\ b # NoBoard
  BY <1>1 DEF Board
<1>3. ASSUME NEW b \in Board
      PROVE  /\ [b EXCEPT !.deleting = TRUE] \in Board
             /\ \A w \in Nat : [b EXCEPT !.wait = w] \in Board
             /\ \A v \in Nat \ {0} : [b EXCEPT !.version = v] \in Board
  BY DEF Board
<1> QED
  BY <1>1, <1>2, <1>3

(* The plan lists Minoes, the Board and children; it is never empty. *)
LEMMA PlanItems ==
  Plan \in Seq(Names \cup {"Board"}) /\ Len(Plan) \in Nat \ {0}
<1> DEFINE Items == Names \cup {"Board"}
<1>1. Minoes \in Seq(Items) /\ Children \in Seq(Items)
  BY T4sAssumption DEF Names
<1>2. <<"Board">> \in Seq(Items) /\ Len(<<"Board">>) = 1
  BY SingletonSeq
<1> HIDE DEF Items
<1>3. /\ Minoes \o <<"Board">> \in Seq(Items)
      /\ Len(Minoes \o <<"Board">>) = Len(Minoes) + 1
  BY <1>1, <1>2, ConcatProperties
<1>4. /\ Plan \in Seq(Items)
      /\ Len(Plan) = Len(Minoes) + 1 + Len(Children)
  BY <1>1, <1>3, ConcatProperties DEF Plan
<1>5. Len(Minoes) \in Nat /\ Len(Children) \in Nat
  BY <1>1
<1> QED
  BY <1>4, <1>5 DEF Items

(* What is wanted of an object is one of the contents it can have. *)
LEMMA WantedTyped ==
  ASSUME NEW s \in Specs, NEW n PROVE Wanted(s, n) \in Contents
  BY DEF Wanted, Contents

(* A write of an object keeps the types of the objects and of the news. *)
LEMMA WriteTyped ==
  ASSUME TypeOK, NEW n \in Names, NEW c \in Contents, Write(n, c)
  PROVE  objects' \in [Names -> Contents] /\ news' \subseteq Names
  BY DEF TypeOK, Write

(* A new Board is a Board. *)
LEMMA NewBoardTyped ==
  ASSUME TypeOK, NEW s \in Specs
  PROVE  /\ NewBoard(s) \in Board
         /\ NewBoard(s).version = revision + 1
  BY Fields DEF TypeOK, NewBoard, Board

(* A write of a Board leaves a Board, with the next resourceVersion. *)
LEMMA WriteBoardTyped ==
  ASSUME revision \in Nat, NEW b \in Board, WriteBoard(b)
  PROVE  board' \in Board /\ board'.version = revision + 1 /\ revision' = revision + 1
  BY DEF WriteBoard, Board

(* The control variables stay in range whatever Reconcile does next. *)
ControlOK ==
  /\ pc \in 0 .. Len(Plan) /\ call \in {"Get", "Create", "Update", "Delete", "Patch"}
  /\ queued \in BOOLEAN
  /\ seen \in Board \cup {NoBoard} /\ found \in Contents
  /\ local \in Specs \cup {Going} /\ (pc # 0 => local \in Specs)
  /\ (pc = 0 => call = "Get")
  /\ (pc # 0 /\ call = "Update" /\ Plan[pc] = "Board" => seen # NoBoard)

(* Absence is a content. *)
LEMMA AbsentContent == <<Absent>> \in Contents
  BY DEF Contents

(* A return from Reconcile leaves the worker idle. *)
LEMMA ReturnTyped ==
  ASSUME IInv, NEW e \in BOOLEAN, Return(e) PROVE ControlOK'
  BY PlanItems, AbsentContent DEF IInv, TypeOK, ControlOK, Return, Plan

(* Going on to the next item keeps the worker in the plan. *)
LEMMA AdvanceTyped ==
  ASSUME IInv, Advance, pc # 0 PROVE ControlOK'
<1>1. CASE pc = Len(Plan)
  BY <1>1, ReturnTyped DEF Advance
<1>2. CASE pc # Len(Plan)
  <2>1. pc + 1 \in 0 .. Len(Plan)
    BY <1>2, PlanItems DEF IInv, TypeOK
  <2> QED
    BY <1>2, <2>1, AbsentContent DEF IInv, TypeOK, ControlOK, Advance, Plan
<1> QED
  BY <1>1, <1>2

(* A decision for a call remembers what was read. *)
LEMMA MakeTyped ==
  ASSUME IInv, NEW c \in {"Create", "Update", "Delete", "Patch"}, Make(c), pc # 0,
         c = "Update" /\ Plan[pc] = "Board" => cache.board # NoBoard
  PROVE  ControlOK'
<1>1. Plan[pc] \in Names \cup {"Board"}
  BY PlanItems DEF IInv, TypeOK
<1>2. cache.board \in Board \cup {NoBoard}
  BY DEF IInv, TypeOK
<1>3. Plan[pc] # "Board" => cache.objects[Plan[pc]] \in Contents
  BY <1>1 DEF IInv, TypeOK
<1>4. seen' \in Board \cup {NoBoard} /\ found' \in Contents
  BY <1>2, <1>3 DEF IInv, TypeOK, Make
<1> QED
  BY <1>4 DEF IInv, TypeOK, ControlOK, Make, Plan

(* The same for the state that the API server and the others keep. *)
WorldOK ==
  /\ t4s \in Specs \cup {Going}
  /\ board \in Board \cup {NoBoard} /\ revision \in Nat
  /\ objects \in [Names -> Contents] /\ news \subseteq Names
  /\ cache \in [t4s : Specs \cup {Going}, board : Board \cup {NoBoard},
                objects : [Names -> Contents]]
  /\ gameSpec \in Specs \cup {Going} /\ game \in {"Idle", "Delete", "Create"}
  /\ (game # "Idle" => gameSpec \in Specs)
  /\ games \in 0 .. MaxGames /\ incidents \in 0 .. MaxIncidents

(* The invariant in two parts: what the worker knows, and the rest. *)
LEMMA Parts == IInv <=> ControlOK /\ WorldOK
  BY DEF IInv, TypeOK, ControlOK, WorldOK

(* The invariant holds when a T4s has been created. *)
LEMMA InitIInv == Init => IInv
<1> SUFFICES ASSUME Init PROVE IInv
  OBVIOUS
<1>1. objects \in [Names -> Contents]
  BY AbsentContent DEF Init
<1>2. ControlOK
  BY AbsentContent, PlanItems DEF Init, ControlOK, Plan
<1>3. WorldOK
  BY <1>1, T4sAssumption DEF Init, WorldOK, NoBoard
<1> QED
  BY <1>2, <1>3, Parts

(* What the step of an item of the plan may use. *)
LEMMA AtItem ==
  ASSUME IInv, pc # 0
  PROVE  Plan[pc] \in Names \cup {"Board"} /\ local \in Specs
  BY PlanItems DEF IInv, TypeOK

(* Every step keeps it, one case per action. *)
LEMMA NextIInv == IInv /\ [Next]_vars => IInv'
<1> SUFFICES ASSUME IInv, [Next]_vars PROVE ControlOK' /\ WorldOK'
  BY Parts DEF IInv, TypeOK, ControlOK, WorldOK, Plan
<1> USE Bounds
<1>1. CASE GetT4s
  <2>a. cache.t4s \in Specs \cup {Going}
    BY DEF IInv, TypeOK
  <2>b. \/ UNCHANGED <<pc, local>>
        \/ pc' = 1 /\ local' \in Specs
    BY <1>1, <2>a DEF GetT4s
  <2>c. /\ pc' \in 0 .. Len(Plan)
        /\ local' \in Specs \cup {Going} /\ (pc' # 0 => local' \in Specs)
    BY <2>b, PlanItems DEF IInv, TypeOK
  <2>1. ControlOK'
    BY <1>1, <2>c DEF IInv, TypeOK, ControlOK, GetT4s, Plan
  <2>2. WorldOK'
    BY <1>1 DEF IInv, TypeOK, WorldOK, GetT4s, env
  <2> QED
    BY <2>1, <2>2
<1>2. CASE GetMino
  <2>1. ControlOK'
    BY <1>2, AdvanceTyped, MakeTyped, T4sAssumption DEF GetMino, At, Names
  <2>2. WorldOK'
    BY <1>2 DEF IInv, TypeOK, WorldOK, GetMino, env
  <2> QED
    BY <2>1, <2>2
<1>3. CASE WriteMino
  <2>1. ControlOK'
    BY <1>3, AdvanceTyped, ReturnTyped DEF WriteMino, At
  <2>2. WorldOK'
    BY <1>3, AtItem, WantedTyped, WriteTyped DEF IInv, TypeOK, WorldOK, WriteMino, At, Names
  <2> QED
    BY <2>1, <2>2
<1>4. CASE GetBoard
  <2>1. ControlOK'
    BY <1>4, AdvanceTyped, MakeTyped DEF GetBoard, At, Present
  <2>2. WorldOK'
    BY <1>4 DEF IInv, TypeOK, WorldOK, GetBoard, env
  <2> QED
    BY <2>1, <2>2
<1>5. CASE DeleteBoard
  <2>1. ControlOK'
    BY <1>5, ReturnTyped, MakeTyped DEF DeleteBoard, At
  <2>2. WorldOK'
    BY <1>5, BoardFields DEF IInv, TypeOK, WorldOK, DeleteBoard, Deleted, env
  <2> QED
    BY <2>1, <2>2
<1>6. CASE CreateBoard
  <2>1. ControlOK'
    BY <1>6, AdvanceTyped, ReturnTyped DEF CreateBoard, At
  <2>a. local \in Specs
    BY <1>6, AtItem DEF CreateBoard, At
  <2>b. NewBoard(local) \in Board
    BY <2>a, NewBoardTyped DEF IInv
  <2>c. board' \in Board \cup {NoBoard} /\ revision' \in Nat
    <3>1. CASE board = NoBoard
      BY <1>6, <2>b, <3>1 DEF IInv, TypeOK, CreateBoard
    <3>2. CASE board # NoBoard
      BY <1>6, <3>2 DEF IInv, TypeOK, CreateBoard
    <3> QED
      BY <3>1, <3>2
  <2>2. WorldOK'
    BY <1>6, <2>c DEF IInv, TypeOK, WorldOK, CreateBoard, env
  <2> QED
    BY <2>1, <2>2
<1>7. CASE UpdateBoard
  <2>1. ControlOK'
    BY <1>7, AdvanceTyped, ReturnTyped DEF UpdateBoard, At
  <2>a. local.wait \in Nat /\ seen \in Board /\ revision \in Nat
    BY <1>7, AtItem, Fields DEF IInv, TypeOK, UpdateBoard, At
  <2>b. board' \in Board \cup {NoBoard} /\ revision' \in Nat
    <3>1. CASE board.version = seen.version
      <4>1. [seen EXCEPT !.wait = local.wait] \in Board
        BY <2>a, BoardFields
      <4> QED
        BY <1>7, <2>a, <3>1, <4>1, WriteBoardTyped DEF UpdateBoard
    <3>2. CASE board.version # seen.version
      BY <1>7, <3>2 DEF IInv, TypeOK, UpdateBoard
    <3> QED
      BY <3>1, <3>2
  <2>2. WorldOK'
    BY <1>7, <2>b DEF IInv, TypeOK, WorldOK, UpdateBoard, env
  <2> QED
    BY <2>1, <2>2
<1>8. CASE GetChild
  <2>1. ControlOK'
    BY <1>8, AdvanceTyped, MakeTyped DEF GetChild, At
  <2>2. WorldOK'
    BY <1>8 DEF IInv, TypeOK, WorldOK, GetChild, env
  <2> QED
    BY <2>1, <2>2
<1>9. CASE PatchChild
  <2>1. ControlOK'
    BY <1>9, AdvanceTyped DEF PatchChild, At
  <2>2. WorldOK'
    BY <1>9, AtItem, WantedTyped, WriteTyped DEF IInv, TypeOK, WorldOK, PatchChild, At, Names
  <2> QED
    BY <2>1, <2>2
<1>10. CASE CallFails
  <2>1. ControlOK'
    BY <1>10, ReturnTyped DEF CallFails
  <2>2. WorldOK'
    BY <1>10 DEF IInv, TypeOK, WorldOK, CallFails, Incident, env
  <2> QED
    BY <2>1, <2>2
<1>11. CASE Crash
  <2>1. ControlOK'
    BY <1>11, AbsentContent, PlanItems DEF IInv, TypeOK, ControlOK, Crash, Plan
  <2>2. WorldOK'
    BY <1>11 DEF IInv, TypeOK, WorldOK, Crash, Incident
  <2> QED
    BY <2>1, <2>2
<1>12. CASE EditT4s
  <2>1. ControlOK'
    BY <1>12 DEF IInv, TypeOK, ControlOK, EditT4s, worker, Plan
  <2>2. WorldOK'
    BY <1>12, BoardFields DEF IInv, TypeOK, WorldOK, EditT4s, Incident, env
  <2> QED
    BY <2>1, <2>2
<1>13. CASE \E m \in Names : EditObject(m)
  <2> PICK m \in Names : EditObject(m)
    BY <1>13
  <2>1. ControlOK'
    BY DEF IInv, TypeOK, ControlOK, EditObject, worker, Plan
  <2>2. \A c \in {<<Drift>>, <<Absent>>} : c \in Contents
    BY DEF Contents
  <2>3. objects' \in [Names -> Contents] /\ news' \subseteq Names
    BY <2>2, WriteTyped DEF EditObject, IInv
  <2>4. WorldOK'
    BY <2>3 DEF IInv, TypeOK, WorldOK, EditObject, Incident
  <2> QED
    BY <2>1, <2>4
<1>14. CASE MarkBoardDeleted
  <2>1. ControlOK'
    BY <1>14 DEF IInv, TypeOK, ControlOK, MarkBoardDeleted, worker, Plan
  <2>a. board \in Board /\ revision \in Nat
    BY <1>14 DEF IInv, TypeOK, MarkBoardDeleted, Present
  <2>b. board' \in Board /\ revision' \in Nat
    BY <1>14, <2>a, BoardFields, WriteBoardTyped DEF MarkBoardDeleted
  <2>2. WorldOK'
    BY <1>14, <2>b DEF IInv, TypeOK, WorldOK, MarkBoardDeleted, Incident, env
  <2> QED
    BY <2>1, <2>2
<1>15. CASE RemoveMarkedBoard
  <2>1. ControlOK'
    BY <1>15 DEF IInv, TypeOK, ControlOK, RemoveMarkedBoard, worker, Plan
  <2>2. WorldOK'
    BY <1>15, BoardFields DEF IInv, TypeOK, WorldOK, RemoveMarkedBoard, Incident, env
  <2> QED
    BY <2>1, <2>2
<1>16. CASE GameReadsT4s
  <2>1. ControlOK'
    BY <1>16 DEF IInv, TypeOK, ControlOK, GameReadsT4s, worker, Plan
  <2>2. WorldOK'
    BY <1>16, BoardFields DEF IInv, TypeOK, WorldOK, GameReadsT4s, Incident, env
  <2> QED
    BY <2>1, <2>2
<1>17. CASE GetWait
  <2>1. ControlOK'
    BY <1>17 DEF IInv, TypeOK, ControlOK, GetWait, worker, Plan
  <2>2. WorldOK'
    BY <1>17, BoardFields DEF IInv, TypeOK, WorldOK, GetWait, Incident, env
  <2> QED
    BY <2>1, <2>2
<1>18. CASE GameDeletesBoard
  <2>1. ControlOK'
    BY <1>18 DEF IInv, TypeOK, ControlOK, GameDeletesBoard, worker, Plan
  <2>2. WorldOK'
    BY <1>18, BoardFields DEF IInv, TypeOK, WorldOK, GameDeletesBoard, Deleted
  <2> QED
    BY <2>1, <2>2
<1>19. CASE GameCreatesBoard
  <2>1. ControlOK'
    BY <1>19 DEF IInv, TypeOK, ControlOK, GameCreatesBoard, worker, Plan
  <2>2. WorldOK'
    BY <1>19, NewBoardTyped DEF IInv, TypeOK, WorldOK, GameCreatesBoard
  <2> QED
    BY <2>1, <2>2
<1>20. CASE GameEnds
  <2>1. ControlOK'
    BY <1>20 DEF IInv, TypeOK, ControlOK, GameEnds, worker, Plan
  <2>2. WorldOK'
    BY <1>20, BoardFields DEF IInv, TypeOK, WorldOK, GameEnds, Incident, env
  <2> QED
    BY <2>1, <2>2
<1>21. CASE SyncT4s
  <2>1. ControlOK'
    BY <1>21, Fields DEF IInv, TypeOK, ControlOK, SyncT4s, Plan
  <2>2. WorldOK'
    BY <1>21 DEF IInv, TypeOK, WorldOK, SyncT4s, env
  <2> QED
    BY <2>1, <2>2
<1>22. CASE SyncBoard
  <2>1. ControlOK'
    BY <1>22 DEF IInv, TypeOK, ControlOK, SyncBoard, worker, Plan
  <2>2. WorldOK'
    BY <1>22, BoardFields DEF IInv, TypeOK, WorldOK, SyncBoard, Incident, env
  <2> QED
    BY <2>1, <2>2
<1>23. CASE \E m \in Names : SyncObject(m)
  <2> PICK m \in Names : SyncObject(m)
    BY <1>23
  <2>1. ControlOK'
    BY DEF IInv, TypeOK, ControlOK, SyncObject, Reload, Plan
  <2>2. WorldOK'
    BY DEF IInv, TypeOK, WorldOK, SyncObject, Reload
  <2> QED
    BY <2>1, <2>2
<1>24. CASE Resync
  <2>1. ControlOK'
    BY <1>24, Fields DEF IInv, TypeOK, ControlOK, Resync, Plan
  <2>2. WorldOK'
    BY <1>24 DEF IInv, TypeOK, WorldOK, Resync, env
  <2> QED
    BY <2>1, <2>2
<1>25. CASE UNCHANGED vars
  BY <1>25 DEF IInv, TypeOK, ControlOK, WorldOK, vars, Plan
<1> QED
  BY <1>1, <1>2, <1>3, <1>4, <1>5, <1>6, <1>7, <1>8, <1>9, <1>10, <1>11, <1>12, <1>13,
     <1>14, <1>15, <1>16, <1>17, <1>18, <1>19, <1>20, <1>21, <1>22, <1>23, <1>24, <1>25
     DEF Next, Reconcile, Game

(* The type invariant of T4sReconcile: every Board that the worker or a new *)
(* game writes is a Board, whatever the caches held.                        *)
THEOREM TypeCorrect == Spec => []TypeOK
<1>1. IInv => TypeOK
  BY DEF IInv
<1> QED
  BY <1>1, InitIInv, NextIInv, PTL DEF Spec

(* Why an update changes the wait time only.  A resourceVersion stands for  *)
(* one content of the Board: a copy with the version that is stored is the  *)
(* stored Board, however old the cache it comes from.                       *)
Versions ==
  \A b \in {cache.board, seen} :
    b.version <= revision /\ (b.version = board.version => b = board)

VInv == IInv /\ board.version <= revision /\ Versions

(* It holds when there is no Board yet. *)
LEMMA InitVInv == Init => VInv
  BY InitIInv DEF Init, VInv, Versions, NoBoard

(* Only what is not there has the version 0. *)
LEMMA VersionFields ==
  ASSUME VInv
  PROVE  /\ revision \in Nat
         /\ \A b \in {board, cache.board, seen, NoBoard} :
              b.version \in Nat /\ (b.version = 0 <=> b = NoBoard)
<1>1. {board, cache.board, seen, NoBoard} \subseteq Board \cup {NoBoard} /\ revision \in Nat
  BY DEF VInv, IInv, TypeOK
<1>2. \A b \in Board : b.version \in Nat /\ b.version # 0 /\ b # NoBoard
  BY BoardFields
<1>3. NoBoard.version = 0
  BY BoardFields
<1>4. \A b \in Board \cup {NoBoard} : b.version \in Nat /\ (b.version = 0 <=> b = NoBoard)
  BY <1>2, <1>3
<1> QED
  BY <1>1, <1>4

(* What the worker and its cache may know after a step. *)
Known == /\ cache'.board \in {cache.board, board}
         /\ seen' \in {seen, cache.board, NoBoard}

(* A step that leaves the Board alone hands on copies of known versions. *)
LEMMA KeepVersions ==
  ASSUME VInv, Known, board' = board, revision' = revision
  PROVE  board'.version <= revision' /\ Versions'
  BY VersionFields, BoardFields DEF VInv, Versions, Known

(* A new version is one that nobody has read yet. *)
LEMMA NewVersion ==
  ASSUME VInv, Known, cache' = cache, board'.version = revision + 1, revision' = revision + 1
  PROVE  board'.version <= revision' /\ Versions'
  BY VersionFields, BoardFields DEF VInv, Versions, Known

(* When the Board is gone, copies of it have no version to match. *)
LEMMA LoseBoard ==
  ASSUME VInv, Known, cache' = cache, board' = NoBoard, revision' = revision
  PROVE  board'.version <= revision' /\ Versions'
  BY VersionFields, BoardFields DEF VInv, Versions, Known

(* Reconcile reads the Board from its cache, or forgets it. *)
LEMMA ReconcileKnown ==
  ASSUME IInv, Reconcile PROVE Known /\ cache' = cache
<1> USE DEF Known, env
<1>1. \A e : Return(e) => seen' = NoBoard
  BY DEF Return
<1>2. Advance => seen' = NoBoard
  BY <1>1 DEF Advance
<1>3. \A c : Make(c) => seen' \in {seen, cache.board}
  BY DEF Make
<1>4. CASE GetT4s \/ GetMino \/ WriteMino
  BY <1>1, <1>2, <1>3, <1>4 DEF GetT4s, GetMino, WriteMino
<1>5. CASE GetBoard \/ DeleteBoard \/ CreateBoard \/ UpdateBoard
  BY <1>1, <1>2, <1>3, <1>5 DEF GetBoard, DeleteBoard, CreateBoard, UpdateBoard
<1>6. CASE GetChild \/ PatchChild
  BY <1>1, <1>2, <1>3, <1>6 DEF GetChild, PatchChild
<1> QED
  BY <1>4, <1>5, <1>6 DEF Reconcile

(* Every step keeps it: the Board is left alone, gone, or a new version.    *)
LEMMA NextVInv == VInv /\ [Next]_vars => VInv'
<1> SUFFICES ASSUME VInv, [Next]_vars PROVE board'.version <= revision' /\ Versions'
  BY NextIInv DEF VInv
<1> USE DEF env, worker
<1>a. IInv /\ TypeOK /\ revision \in Nat
  BY DEF VInv, IInv, TypeOK
<1>b. cache' = cache => cache'.board \in {cache.board, board}
  OBVIOUS
<1>1. CASE GetT4s \/ GetMino \/ WriteMino \/ GetBoard \/ GetChild \/ PatchChild
  <2>1. board' = board /\ revision' = revision
    BY <1>1 DEF GetT4s, GetMino, WriteMino, GetBoard, GetChild, PatchChild
  <2> QED
    BY <1>1, <1>a, <2>1, ReconcileKnown, KeepVersions DEF Reconcile
<1>2. CASE DeleteBoard
  <2>1. revision' = revision /\ board' \in {board, NoBoard}
    BY <1>2 DEF DeleteBoard, Deleted
  <2> QED
    BY <1>2, <1>a, <2>1, ReconcileKnown, KeepVersions, LoseBoard DEF Reconcile
<1>3. CASE CreateBoard
  <2>1. local \in Specs
    BY <1>3, <1>a, AtItem DEF CreateBoard, At
  <2>2. \/ board' = board /\ revision' = revision
        \/ board'.version = revision + 1 /\ revision' = revision + 1
    BY <1>3, <1>a, <2>1, NewBoardTyped DEF CreateBoard
  <2> QED
    BY <1>3, <1>a, <2>2, ReconcileKnown, KeepVersions, NewVersion DEF Reconcile
<1>4. CASE UpdateBoard
  <2>1. local.wait \in Nat /\ seen \in Board
    BY <1>4, <1>a, AtItem, Fields DEF IInv, TypeOK, UpdateBoard, At
  <2>2. [seen EXCEPT !.wait = local.wait] \in Board
    BY <2>1, BoardFields
  <2>3. \/ board' = board /\ revision' = revision
        \/ board'.version = revision + 1 /\ revision' = revision + 1
    BY <1>4, <1>a, <2>2, WriteBoardTyped DEF UpdateBoard
  <2> QED
    BY <1>4, <1>a, <2>3, ReconcileKnown, KeepVersions, NewVersion DEF Reconcile
<1>5. CASE MarkBoardDeleted
  <2>1. board \in Board
    BY <1>5, <1>a DEF MarkBoardDeleted, Present, TypeOK
  <2>2. board'.version = revision + 1 /\ revision' = revision + 1
    BY <1>5, <1>a, <2>1, BoardFields, WriteBoardTyped DEF MarkBoardDeleted
  <2> QED
    BY <1>5, <2>2, NewVersion DEF MarkBoardDeleted, Known
<1>6. CASE RemoveMarkedBoard \/ GameDeletesBoard
  <2>1. /\ revision' = revision /\ board' \in {board, NoBoard}
        /\ cache' = cache /\ seen' = seen
    BY <1>6 DEF RemoveMarkedBoard, GameDeletesBoard, Deleted
  <2> QED
    BY <2>1, KeepVersions, LoseBoard DEF Known
<1>7. CASE GameCreatesBoard
  <2>1. \/ board' = board /\ revision' = revision
        \/ board'.version = revision + 1 /\ revision' = revision + 1
    BY <1>7, <1>a, NewBoardTyped DEF GameCreatesBoard, IInv
  <2>2. cache' = cache /\ seen' = seen
    BY <1>7 DEF GameCreatesBoard
  <2> QED
    BY <2>1, <2>2, KeepVersions, NewVersion DEF Known
<1>8. CASE SyncBoard \/ Crash \/ CallFails
  <2>1. board' = board /\ revision' = revision /\ seen' \in {seen, NoBoard}
    BY <1>8 DEF SyncBoard, Crash, CallFails, Return
  <2>a. SyncBoard => cache'.board = board
    BY <1>a DEF SyncBoard, TypeOK
  <2>b. Crash => cache'.board = board
    BY DEF Crash
  <2>c. CallFails => cache'.board = cache.board
    BY DEF CallFails
  <2>2. cache'.board \in {cache.board, board}
    BY <1>8, <2>a, <2>b, <2>c
  <2> QED
    BY <2>1, <2>2, KeepVersions DEF Known
<1>9. CASE UNCHANGED <<board, revision, seen>> /\ cache'.board = cache.board
  BY <1>9, KeepVersions DEF Known
<1>10. SyncT4s => cache'.board = cache.board
  BY <1>a DEF SyncT4s, TypeOK
<1>11. \A n : SyncObject(n) => cache'.board = cache.board
  BY <1>a DEF SyncObject, Reload, TypeOK
<1> QED
  BY <1>1, <1>2, <1>3, <1>4, <1>5, <1>6, <1>7, <1>8, <1>9, <1>10, <1>11
     DEF Next, Reconcile, vars, Game, EditT4s, EditObject, GameReadsT4s,
         GetWait, GameEnds, SyncT4s, SyncObject, Reload, Resync

(* A step from a Board to a Board is a step of one Board: an update that    *)
(* gets through is of the stored Board itself, so all it brings is a wait   *)
(* time.                                                                    *)
LEMMA NextKeepsBoard ==
  ASSUME VInv, [Next]_vars, board # NoBoard, board' # NoBoard
  PROVE  board'.uid = board.uid /\ board'.size = board.size /\ (board.deleting => board'.deleting)
<1>1. board \in Board
  BY DEF VInv, IInv, TypeOK
<1>2. CASE UpdateBoard
  <2>1. CASE board.version = seen.version
    <3>1. seen = board
      BY <2>1 DEF VInv, Versions
    <3> QED
      BY <1>1, <1>2, <2>1, <3>1 DEF UpdateBoard, WriteBoard, Board
  <2>2. CASE board.version # seen.version
    BY <1>2, <2>2 DEF UpdateBoard
  <2> QED
    BY <2>1, <2>2
<1>3. CASE MarkBoardDeleted
  BY <1>1, <1>3 DEF MarkBoardDeleted, WriteBoard, Board
<1>4. CASE UNCHANGED board
  BY <1>4
<1>5. Reconcile => UpdateBoard \/ UNCHANGED board
  BY DEF Reconcile, GetT4s, GetMino, WriteMino, GetBoard, GetChild, PatchChild,
         DeleteBoard, Deleted, CreateBoard
<1> QED
  BY <1>2, <1>3, <1>4, <1>5
     DEF Next, vars, Game, CallFails, Crash, EditT4s, EditObject, GameReadsT4s, GetWait,
         GameEnds, GameDeletesBoard, GameCreatesBoard, RemoveMarkedBoard, Deleted,
         SyncT4s, SyncBoard, SyncObject, Reload, Resync, env

(* OnlyWaitChanges: the whole Board that an update sends back is never one  *)
(* that a new game, a deletion or another update has come in between with.  *)
THEOREM OnlyWaitChangesCorrect == Spec => OnlyWaitChanges
<1> QED
  BY InitVInv, NextVInv, NextKeepsBoard, PTL DEF Spec, OnlyWaitChanges

-----------------------------------------------------------------------------
(* Why the children match at rest.  A child that is not what the cached T4s *)
(* asks for is on the way to being looked at: the T4s is queued, an event   *)
(* that will queue it is underway, or Reconcile has yet to come to it.      *)

Ahead(n) == pc # 0 /\ local = cache.t4s /\ \E i \in pc .. Len(Plan) : Plan[i] = n

Due(n) == \/ queued \/ n \in news \/ cache.t4s = Going
          \/ objects[n] = Wanted(cache.t4s, n) \/ Ahead(n)

(* The caches lag behind only where there is news. *)
CacheOK == \A n \in Names : n \notin news => cache.objects[n] = objects[n]

(* Reconcile works for the T4s in the cache, or is going to run again.      *)
LocalOK == pc # 0 => queued \/ local = cache.t4s

QInv == IInv /\ CacheOK /\ LocalOK /\ \A n \in ChildNames : Due(n)

(* It holds at the start, where the T4s is queued. *)
LEMMA InitQInv == Init => QInv
  BY InitIInv DEF Init, QInv, CacheOK, LocalOK, Due

(* A child is no Mino and not the Board. *)
LEMMA ChildIsChild ==
  ASSUME NEW n \in ChildNames PROVE n \in Names /\ n \notin MinoNames /\ n # "Board"
  BY T4sAssumption DEF Names

(* Every child has its place in the plan. *)
LEMMA PlanCoversChildren ==
  ASSUME NEW n \in ChildNames PROVE \E i \in 1 .. Len(Plan) : Plan[i] = n
<1>1. PICK j \in 1 .. Len(Children) : Children[j] = n
  BY DEF ChildNames
<1>2. Len(Minoes) \in Nat /\ Len(Children) \in Nat
  BY T4sAssumption
<1> DEFINE Items == Names \cup {"Board"}
<1>3. Minoes \in Seq(Items) /\ Children \in Seq(Items) /\ <<"Board">> \in Seq(Items)
  BY T4sAssumption, SingletonSeq DEF Names
<1>4. Minoes \o <<"Board">> \in Seq(Items) /\ Len(Minoes \o <<"Board">>) = Len(Minoes) + 1
  BY <1>3, ConcatProperties
<1>5. Plan[Len(Minoes) + 1 + j] = n /\ Len(Minoes) + 1 + j \in 1 .. Len(Plan)
  BY <1>1, <1>2, <1>3, <1>4, ConcatProperties DEF Plan
<1> QED
  BY <1>5

(* A return leaves nothing ahead, so it needs an error or a child in order. *)
LEMMA ReturnDue ==
  ASSUME Return(TRUE) PROVE LocalOK' /\ \A n : Due(n)'
  BY DEF Return, LocalOK, Due

(* Going on is going on for the same T4s. *)
LEMMA AdvanceLocal ==
  ASSUME queued \in BOOLEAN, LocalOK, Advance, pc # 0, cache' = cache PROVE LocalOK'
  BY DEF Advance, Return, LocalOK

(* Going on leaves a child due unless it is the item at hand and not yet as *)
(* it should be.                                                            *)
LEMMA AdvanceDue ==
  ASSUME IInv, LocalOK, NEW n \in ChildNames, Due(n), Advance, pc # 0,
         cache' = cache, news \subseteq news',
         \/ n \in news' \/ objects'[n] = Wanted(local, n)
         \/ Plan[pc] # n /\ objects'[n] = objects[n]
  PROVE  Due(n)'
<1>1. pc \in 1 .. Len(Plan) /\ Len(Plan) \in Nat /\ queued \in BOOLEAN
  BY PlanItems DEF IInv, TypeOK
<1>2. queued' = queued
  BY <1>1 DEF Advance, Return
<1>4. CASE queued \/ n \in news' \/ cache.t4s = Going
  BY <1>1, <1>2, <1>4 DEF Due
<1>5. CASE objects'[n] = Wanted(local, n)
  BY <1>1, <1>2, <1>5 DEF Due, LocalOK
<1>6. CASE Plan[pc] # n /\ objects'[n] = objects[n]
  <2>1. CASE objects[n] = Wanted(cache.t4s, n)
    BY <1>1, <1>6, <2>1 DEF Due
  <2>2. CASE Ahead(n)
    <3>1. PICK i \in pc .. Len(Plan) : Plan[i] = n
      BY <2>2 DEF Ahead
    <3>2. i \in pc + 1 .. Len(Plan) /\ pc # Len(Plan)
      BY <1>1, <1>6, <3>1
    <3>3. pc' = pc + 1 /\ local' = local
      BY <3>2 DEF Advance
    <3>4. Plan' = Plan
      BY DEF Plan
    <3> QED
      BY <1>1, <2>2, <3>1, <3>2, <3>3, <3>4 DEF Ahead, Due
  <2> QED
    BY <1>4, <1>6, <2>1, <2>2 DEF Due
<1> QED
  BY <1>4, <1>5, <1>6

(* A decision for a call changes nothing of it. *)
LEMMA MakeDue ==
  ASSUME LocalOK, NEW c, Make(c), UNCHANGED <<objects, news, cache>>
  PROVE  LocalOK' /\ \A n : Due(n) => Due(n)'
  BY DEF Make, LocalOK, Due, Ahead, Plan

(* A write is news, or none. *)
LEMMA WriteNews ==
  ASSUME TypeOK, NEW m \in Names, NEW c, Write(m, c)
  PROVE  /\ news \subseteq news'
         /\ objects'[m] = c
         /\ \A n \in Names : n \in news' \/ objects'[n] = objects[n]
         /\ \A n \in Names : n # m => objects'[n] = objects[n]
  BY DEF Write, TypeOK

(* A write leaves the caches right but for the news. *)
LEMMA WriteCache ==
  ASSUME TypeOK, CacheOK, NEW m \in Names, NEW c, Write(m, c), cache' = cache
  PROVE  CacheOK'
  BY WriteNews DEF CacheOK

(* The steps that leave all of it alone. *)
LEMMA OtherDue ==
  ASSUME QInv, UNCHANGED <<objects, news, queued, pc, local>>,
         cache'.t4s = cache.t4s, cache'.objects = cache.objects
  PROVE  CacheOK' /\ LocalOK' /\ \A n \in ChildNames : Due(n)'
  BY DEF QInv, CacheOK, LocalOK, Due, Ahead, Plan

(* Every step keeps it: Reconcile first. *)
LEMMA ReconcileQInv ==
  ASSUME QInv, Reconcile PROVE CacheOK' /\ LocalOK' /\ \A n \in ChildNames : Due(n)'
<1> USE DEF env
<1>a. /\ IInv /\ TypeOK /\ CacheOK /\ LocalOK
      /\ \A n \in ChildNames : Due(n)
      /\ queued \in BOOLEAN
  BY DEF QInv, IInv, TypeOK
<1>b. UNCHANGED <<objects, news, cache>> => CacheOK'
  BY <1>a DEF CacheOK
<1>1. CASE GetT4s
  <2>1. CacheOK'
    BY <1>1, <1>b DEF GetT4s
  <2>2. LocalOK'
    BY <1>1 DEF GetT4s, LocalOK
  <2>3. ASSUME NEW n \in ChildNames PROVE Due(n)'
    <3>1. CASE cache.t4s = Going
      BY <1>1, <3>1 DEF GetT4s, Due
    <3>2. CASE cache.t4s # Going
      <4>1. PICK i \in 1 .. Len(Plan) : Plan[i] = n
        BY <2>3, PlanCoversChildren
      <4>2. pc' = 1 /\ local' = cache'.t4s /\ Plan' = Plan
        BY <1>1, <3>2 DEF GetT4s, Plan
      <4> QED
        BY <4>1, <4>2 DEF Due, Ahead
    <3> QED
      BY <3>1, <3>2
  <2> QED
    BY <2>1, <2>2, <2>3
<1>2. CASE GetMino
  <2>1. UNCHANGED <<objects, news, cache>> /\ pc # 0 /\ Plan[pc] \in MinoNames
    BY <1>2 DEF GetMino, At
  <2>2. Advance \/ \E c : Make(c)
    BY <1>2 DEF GetMino
  <2> QED
    BY <1>a, <1>b, <2>1, <2>2, AdvanceDue, MakeDue, ChildIsChild, AdvanceLocal
<1>3. CASE WriteMino
  <2>1. pc # 0 /\ Plan[pc] \in MinoNames /\ cache' = cache
    BY <1>3 DEF WriteMino, At
  <2>2. CASE Return(TRUE) /\ UNCHANGED <<objects, news>>
    BY <1>b, <2>1, <2>2, ReturnDue
  <2>3. CASE Advance /\ Write(Plan[pc], Wanted(local, Plan[pc]))
    <3>1. Plan[pc] \in Names
      BY <2>1 DEF Names
    <3>2. CacheOK'
      BY <1>a, <2>1, <2>3, <3>1, WriteCache
    <3>3. /\ news \subseteq news'
          /\ \A n \in Names : n # Plan[pc] => objects'[n] = objects[n]
      BY <1>a, <2>3, <3>1, WriteNews
    <3> QED
      BY <1>a, <2>1, <2>3, <3>2, <3>3, AdvanceDue, ChildIsChild, AdvanceLocal
  <2> QED
    BY <1>3, <2>2, <2>3 DEF WriteMino
<1>4. CASE GetBoard \/ DeleteBoard \/ CreateBoard \/ UpdateBoard
  <2>1. UNCHANGED <<objects, news, cache>> /\ pc # 0 /\ Plan[pc] = "Board"
    BY <1>4 DEF GetBoard, DeleteBoard, CreateBoard, UpdateBoard, At
  <2>2. Advance \/ Return(TRUE) \/ \E c : Make(c)
    BY <1>4 DEF GetBoard, DeleteBoard, CreateBoard, UpdateBoard
  <2> QED
    BY <1>a, <1>b, <2>1, <2>2, AdvanceDue, MakeDue, ReturnDue, ChildIsChild, AdvanceLocal
<1>5. CASE GetChild
  <2>1. UNCHANGED <<objects, news, cache>> /\ pc # 0 /\ Plan[pc] \in ChildNames
    BY <1>5 DEF GetChild, At
  <2>2. CASE \E c : Make(c)
    BY <1>a, <1>b, <2>1, <2>2, MakeDue, AdvanceLocal
  <2>3. CASE Advance /\ cache.objects[Plan[pc]] = Wanted(local, Plan[pc])
    <3>1. ASSUME NEW n \in ChildNames, Plan[pc] = n
          PROVE  n \in news' \/ objects'[n] = Wanted(local, n)
      BY <1>a, <2>1, <2>3, <3>1, ChildIsChild DEF CacheOK
    <3> QED
      BY <1>a, <1>b, <2>1, <2>3, <3>1, AdvanceDue, AdvanceLocal
  <2> QED
    BY <1>5, <2>2, <2>3 DEF GetChild
<1>6. CASE PatchChild
  <2>1. /\ pc # 0 /\ Plan[pc] \in ChildNames /\ cache' = cache /\ Advance
        /\ Write(Plan[pc], Wanted(local, Plan[pc]))
    BY <1>6 DEF PatchChild, At
  <2>2. CacheOK'
    BY <1>a, <2>1, WriteCache, ChildIsChild
  <2>3. /\ news \subseteq news' /\ objects'[Plan[pc]] = Wanted(local, Plan[pc])
        /\ \A n \in Names : n # Plan[pc] => objects'[n] = objects[n]
    BY <1>a, <2>1, WriteNews, ChildIsChild
  <2>4. ASSUME NEW n \in ChildNames PROVE Due(n)'
    BY <1>a, <2>1, <2>3, AdvanceDue, ChildIsChild
  <2> QED
    BY <1>a, <2>1, <2>2, <2>4, AdvanceLocal
<1> QED
  BY <1>1, <1>2, <1>3, <1>4, <1>5, <1>6 DEF Reconcile

(* Then the others: what changes an object is news, what the caches learn   *)
(* of a child or of the T4s queues the T4s.                                 *)
LEMMA NextQInv == QInv /\ [Next]_vars => QInv'
<1> SUFFICES ASSUME QInv, [Next]_vars
             PROVE  CacheOK' /\ LocalOK' /\ \A n \in ChildNames : Due(n)'
  BY NextIInv DEF QInv
<1> USE DEF env, worker
<1>a. /\ TypeOK /\ CacheOK /\ LocalOK
      /\ \A n \in ChildNames : Due(n)
  BY DEF QInv, IInv
<1>1. CASE Reconcile
  BY <1>1, ReconcileQInv
<1>2. CASE CallFails
  <2>1. CacheOK'
    BY <1>2 DEF QInv, CacheOK, CallFails
  <2> QED
    BY <1>2, <2>1, ReturnDue DEF CallFails
<1>3. CASE Crash
  BY <1>3 DEF Crash, CacheOK, LocalOK, Due
<1>4. CASE \E m \in Names : EditObject(m)
  <2> PICK m \in Names : EditObject(m)
    BY <1>4
  <2>1. PICK c : Write(m, c)
    BY DEF EditObject
  <2>2. /\ UNCHANGED <<cache, queued, pc, local>> /\ Plan' = Plan
        /\ news \subseteq news'
        /\ \A n \in Names : n \in news' \/ objects'[n] = objects[n]
    BY <1>a, <2>1, WriteNews DEF EditObject, Plan
  <2>3. CacheOK' /\ LocalOK'
    BY <1>a, <2>1, <2>2, WriteCache DEF LocalOK
  <2>4. ASSUME NEW n \in ChildNames PROVE Due(n)'
    BY <1>a, <2>2, ChildIsChild DEF Due, Ahead
  <2> QED
    BY <2>3, <2>4
<1>5. CASE SyncT4s
  BY <1>a, <1>5 DEF SyncT4s, TypeOK, CacheOK, LocalOK, Due
<1>6. CASE \E m \in Names : SyncObject(m)
  <2> PICK m \in Names : SyncObject(m)
    BY <1>6
  <2>1. /\ UNCHANGED <<objects, pc, local>> /\ Plan' = Plan
        /\ news' = news \ {m}
        /\ cache' = [cache EXCEPT !.objects[m] = objects[m]]
        /\ queued' = (queued \/ m \in ChildNames)
    BY DEF SyncObject, Reload, Plan
  <2>2. /\ cache'.t4s = cache.t4s /\ cache'.objects[m] = objects[m]
        /\ \A n \in Names : n # m => cache'.objects[n] = cache.objects[n]
    BY <1>a, <2>1 DEF TypeOK
  <2>3. CacheOK' /\ LocalOK'
    BY <1>a, <2>1, <2>2 DEF CacheOK, LocalOK
  <2>4. ASSUME NEW n \in ChildNames PROVE Due(n)'
    BY <1>a, <2>1, <2>2 DEF Due, Ahead
  <2> QED
    BY <2>3, <2>4
<1>7. CASE Resync
  BY <1>a, <1>7 DEF Resync, CacheOK, LocalOK, Due
<1>8. CASE SyncBoard
  <2>1. cache'.t4s = cache.t4s /\ cache'.objects = cache.objects
    BY <1>a, <1>8 DEF SyncBoard, TypeOK
  <2> QED
    BY <1>8, <2>1, OtherDue DEF SyncBoard
<1>9. CASE UNCHANGED <<objects, news, queued, pc, local, cache>>
  BY <1>9, OtherDue
<1> QED
  BY <1>1, <1>2, <1>3, <1>4, <1>5, <1>6, <1>7, <1>8, <1>9
     DEF Next, vars, Game, EditT4s, MarkBoardDeleted, RemoveMarkedBoard, GameReadsT4s, GetWait,
         GameDeletesBoard, GameCreatesBoard, GameEnds

(* QuietChildrenMatch: with nothing queued and the caches up to date, the   *)
(* objects of t4s-app are what the T4s asks for.                            *)
THEOREM QuietChildrenMatchCorrect == Spec => []QuietChildrenMatch
<1>1. QInv => QuietChildrenMatch
  <2> SUFFICES ASSUME QInv, Idle, InSync, t4s # Going, NEW n \in ChildNames
               PROVE  objects[n] = Wanted(t4s, n)
    BY DEF QuietChildrenMatch
  <2>1. cache.t4s = t4s /\ news = {} /\ ~queued /\ pc = 0
    BY DEF InSync, Idle
  <2> QED
    BY <2>1 DEF QInv, Due, Ahead
<1> QED
  BY <1>1, InitQInv, NextQInv, PTL DEF Spec
=============================================================================
