-------------------------- MODULE AppServer_proofs --------------------------
(***************************************************************************)
(* The handlers of t4s-app, for any number of requests, Boards and errors:  *)
(* the types and bounds, and that a new game that nobody disturbs succeeds  *)
(* and repairs the shared variables.                                        *)
(***************************************************************************)
EXTENDS AppServer, FiniteSetTheorems, TLAPS

(* What a request that nobody disturbed knows.  Once it created the Board,  *)
(* TargetBoard is the Board that is there.                                  *)
Undisturbed(r) ==
  pc[r] = "SetUid" => board.state = "Playing" /\ target = Read(board)

AloneInv ==
  /\ pc \in [Requests -> Steps]
  /\ alone \subseteq Requests
  /\ \A r \in alone : Undisturbed(r)

(* Before any request nobody is alone. *)
LEMMA InitAlone == Init => AloneInv
  BY DEF Init, AloneInv, Steps

(* Whoever moves disturbs all the others. *)
LEMMA GotoAlone ==
  ASSUME AloneInv, NEW r \in Requests, NEW step \in Steps, Goto(r, step)
  PROVE  /\ pc' \in [Requests -> Steps] /\ pc'[r] = step
         /\ alone' \subseteq {r} /\ alone' \subseteq alone
  BY DEF AloneInv, Goto

(* Every step keeps it: a step of one request ends the peace of the others. *)
LEMMA NextAlone == AloneInv /\ [Next]_vars => AloneInv'
<1> SUFFICES ASSUME AloneInv, [Next]_vars PROVE AloneInv'
  OBVIOUS
<1> USE DEF Steps
<1>1. ASSUME NEW r \in Requests, Start(r) PROVE AloneInv'
  BY <1>1 DEF AloneInv, Undisturbed, Start
<1>2. ASSUME NEW r \in Requests, GetT4s(r) \/ Delete(r) PROVE AloneInv'
  BY <1>2, GotoAlone DEF AloneInv, Undisturbed, GetT4s, Delete
<1>3. ASSUME NEW r \in Requests, Replace(r) PROVE AloneInv'
  BY <1>3, GotoAlone DEF AloneInv, Undisturbed, Replace
<1>4. ASSUME NEW r \in Requests, Create(r) PROVE AloneInv'
  <2>1. CASE board = NoBoard /\ target.uid = 0
    <3>1. Goto(r, "SetUid")
      BY <1>4, <2>1 DEF Create
    <3>2. board'.state = "Playing" /\ target' = Read(board')
      BY <1>4, <2>1 DEF Create
    <3>3. /\ pc' \in [Requests -> Steps] /\ pc'[r] = "SetUid"
          /\ alone' \subseteq {r} /\ alone' \subseteq alone
      BY <3>1, GotoAlone
    <3> QED
      BY <3>2, <3>3 DEF AloneInv, Undisturbed
  <2>2. CASE ~(board = NoBoard /\ target.uid = 0)
    BY <1>4, <2>2, GotoAlone DEF AloneInv, Undisturbed, Create
  <2> QED
    BY <2>1, <2>2
<1>5. ASSUME NEW r \in Requests, SetUid(r) \/ CallFails(r) PROVE AloneInv'
  BY <1>5, GotoAlone DEF AloneInv, Undisturbed, SetUid, CallFails
<1>6. ASSUME NEW r \in Requests, CallTimesOut(r) PROVE AloneInv'
  BY <1>6 DEF AloneInv, CallTimesOut, Other
<1>7. CASE GetBoard \/ PostAction
  BY <1>7 DEF AloneInv, Undisturbed, GetBoard, PostAction, Read
<1>8. CASE AnswerGetBoard \/ RemoveMarkedBoard
  BY <1>8 DEF AloneInv, AnswerGetBoard, RemoveMarkedBoard
<1>9. CASE T4sDeletesBoard \/ T4sCreatesBoard \/ DeleteT4s \/ MarkBoardDeleted \/ Restart
  BY <1>9 DEF AloneInv, T4sDeletesBoard, T4sCreatesBoard, DeleteT4s, MarkBoardDeleted, Restart,
              Other
<1>10. CASE UNCHANGED vars
  BY <1>10 DEF AloneInv, Undisturbed, vars, Read
<1> QED
  BY <1>1, <1>2, <1>3, <1>4, <1>5, <1>6, <1>7, <1>8, <1>9, <1>10 DEF Next, NewBoardStep

(* NewGameRepairsOwner: whatever races, restarts, errors and Boards of      *)
(* others came before, a new game that nobody disturbs leaves the UID of    *)
(* its playing Board as the owner of the Actions to come.                   *)
THEOREM NewGameRepairsOwnerCorrect == Spec => NewGameRepairsOwner
<1>1. AloneInv /\ [Next]_vars =>
        \A r \in alone : SetUid(r) =>
          board.state = "Playing" /\ boardUID' = board.uid /\ target' = Read(board)
  BY DEF AloneInv, Undisturbed, SetUid, Read
<1> QED
  BY <1>1, InitAlone, NextAlone, PTL DEF Spec, NewGameRepairsOwner

-----------------------------------------------------------------------------
(* The types and the bound on the Boards.  The bound is kept by what         *)
(* MayCreate sets aside: the requests that may still create a Board and the  *)
(* Boards created so far are together no more than MaxBoards.                *)
InCall == {r \in Requests : pc[r] \in {"GetT4s", "Delete", "Replace", "Create"}}

Reserve == uids + Cardinality(InCall) <= MaxBoards

(* What is set aside is a finite part of what is under way. *)
LEMMA InCallCounts ==
  /\ IsFiniteSet(InCall) /\ Cardinality(InCall) \in Nat
  /\ IsFiniteSet(Busy) /\ Cardinality(Busy) \in Nat
  /\ Cardinality(InCall) <= Cardinality(Busy)
<1>1. IsFiniteSet(Requests)
  BY AppAssumption
<1>2. InCall \in SUBSET Busy /\ Busy \in SUBSET Requests
  BY DEF InCall, Busy
<1>3. IsFiniteSet(Busy)
  BY <1>1, <1>2, FS_Subset
<1>4. IsFiniteSet(InCall) /\ Cardinality(InCall) <= Cardinality(Busy)
  BY <1>2, <1>3, FS_Subset
<1> QED
  BY <1>3, <1>4, FS_CardinalityType

(* No request joins those that may create a Board, and no Board comes, but  *)
(* a Board that MayCreate allowed.                                          *)
LEMMA ReserveKept ==
  ASSUME uids \in Nat, Reserve, InCall' \subseteq InCall,
         uids' = uids \/ (MayCreate /\ uids' = uids + 1)
  PROVE  Reserve'
<1>1. Cardinality(InCall)' \in Nat /\ Cardinality(InCall)' <= Cardinality(InCall)
  <2>1. IsFiniteSet(InCall)
    BY InCallCounts
  <2>2. InCall' \in SUBSET InCall
    OBVIOUS
  <2>3. IsFiniteSet(InCall') /\ Cardinality(InCall') <= Cardinality(InCall)
    BY <2>1, <2>2, FS_Subset
  <2> QED
    BY <2>3, FS_CardinalityType
<1> QED
  BY <1>1, InCallCounts, AppAssumption DEF Reserve, MayCreate

(* A request that starts takes one Board out of what MayCreate leaves. *)
LEMMA ReserveTaken ==
  ASSUME uids \in Nat, MayCreate, NEW r \in Requests, r \in InCall',
         InCall' \subseteq InCall \cup {r}, uids' = uids
  PROVE  Reserve'
<1>1. IsFiniteSet(InCall \cup {r}) /\ Cardinality(InCall \cup {r}) <= Cardinality(InCall) + 1
  <2>1. /\ IsFiniteSet(InCall \cup {r})
        /\ Cardinality(InCall \cup {r}) =
             IF r \in InCall THEN Cardinality(InCall) ELSE Cardinality(InCall) + 1
    BY InCallCounts, FS_AddElement
  <2> QED
    BY <2>1, InCallCounts
<1>2. IsFiniteSet(InCall') /\ Cardinality(InCall') <= Cardinality(InCall \cup {r})
  <2>1. InCall' \in SUBSET (InCall \cup {r})
    OBVIOUS
  <2> QED
    BY <2>1, <1>1, FS_Subset
<1>3. Cardinality(InCall') \in Nat /\ Cardinality(InCall \cup {r}) \in Nat
  BY <1>1, <1>2, FS_CardinalityType
<1> QED
  BY <1>1, <1>2, <1>3, InCallCounts, AppAssumption DEF Reserve, MayCreate

(* A request that creates its Board no longer needs the one in reserve. *)
LEMMA ReserveSpent ==
  ASSUME uids \in Nat, Reserve, NEW r \in InCall,
         InCall' \subseteq InCall \ {r}, uids' = uids + 1
  PROVE  Reserve' /\ uids' <= MaxBoards
<1>1. /\ IsFiniteSet(InCall \ {r})
      /\ Cardinality(InCall \ {r}) = Cardinality(InCall) - 1
  BY InCallCounts, FS_RemoveElement
<1>2. IsFiniteSet(InCall') /\ Cardinality(InCall') <= Cardinality(InCall \ {r})
  <2>1. InCall' \in SUBSET (InCall \ {r})
    OBVIOUS
  <2> QED
    BY <2>1, <1>1, FS_Subset
<1>3. Cardinality(InCall') \in Nat /\ Cardinality(InCall \ {r}) \in Nat
  BY <1>1, <1>2, FS_CardinalityType
<1> QED
  BY <1>1, <1>2, <1>3, InCallCounts, AppAssumption DEF Reserve

TypeInv == TypeOK /\ Reserve

(* What is read is an object of the type, and so is what it is read into. *)
LEMMA ObjectTypes ==
  /\ NewObject \in Target /\ NoPoll \in Target /\ Unnamed \in Target
  /\ \A b \in Board \cup {NoBoard} : Read(b) \in Target /\ b.uid \in 0 .. MaxBoards
  /\ \A o, a \in Target : ReadInto(o, a) \in Target
<1>1. MaxBoards \in Nat
  BY AppAssumption
<1>2. NewObject \in Target /\ NoPoll \in Target /\ Unnamed \in Target
  BY <1>1 DEF NewObject, NoPoll, Unnamed, Target
<1>3. ASSUME NEW b \in Board \cup {NoBoard}
      PROVE  Read(b) \in Target /\ b.uid \in 0 .. MaxBoards
  <2>1. b.uid \in 0 .. MaxBoards /\ b.deleting \in BOOLEAN
    <3>1. CASE b \in Board
      BY <1>1, <3>1 DEF Board
    <3>2. CASE b = NoBoard
      BY <1>1, <3>2 DEF NoBoard
    <3> QED
      BY <3>1, <3>2
  <2> QED
    BY <2>1 DEF Read, Target
<1>4. ASSUME NEW o \in Target, NEW a \in Target PROVE ReadInto(o, a) \in Target
  BY <1>4 DEF ReadInto, Target
<1> QED
  BY <1>2, <1>3, <1>4

(* A Board that was just created. *)
LEMMA NewBoardTyped ==
  ASSUME uids \in Nat, uids + 1 <= MaxBoards, NEW s \in {"Playing", "GameOver"}
  PROVE  [uid |-> uids + 1, state |-> s, deleting |-> FALSE] \in Board
  BY AppAssumption DEF Board

(* At the start no request is under way and there is one Board. *)
LEMMA InitTypeInv == Init => TypeInv
<1> SUFFICES ASSUME Init PROVE TypeInv
  OBVIOUS
<1>1. InCall = {}
  BY DEF Init, InCall
<1>2. Cardinality(InCall) = 0
  BY <1>1, FS_EmptySet
<1>3. MaxBoards \in Nat \ {0} /\ MaxFaults \in Nat
  BY AppAssumption
<1>4. board \in Board
  BY <1>3 DEF Init, Board
<1>5. target \in Target /\ poll \in Target /\ boardUID \in 0 .. MaxBoards
  <2>1. Read(board) \in Target /\ board.uid \in 0 .. MaxBoards
    BY <1>4, ObjectTypes
  <2> QED
    BY <2>1, ObjectTypes DEF Init, Loaded
<1>6. pc \in [Requests -> Steps]
  BY DEF Init, Steps
<1>7. Reserve
  BY <1>2, <1>3 DEF Init, Reserve
<1>8. t4sGoing \in BOOLEAN /\ alone \subseteq Requests /\ owners \subseteq 1 .. MaxBoards
  BY DEF Init
<1>9. uids \in 0 .. MaxBoards /\ faults \in 0 .. MaxFaults
  <2>1. uids = 1 /\ faults = 0
    BY DEF Init
  <2> QED
    BY <1>3, <2>1
<1> QED
  BY <1>4, <1>5, <1>6, <1>7, <1>8, <1>9 DEF TypeInv, TypeOK

(* A step of one request other than the creation of its Board. *)
LEMMA GotoType ==
  ASSUME TypeInv, NEW r \in Requests, r \in Busy, NEW step \in Steps, Goto(r, step),
         r \in InCall \/ step \notin {"GetT4s", "Delete", "Replace", "Create"}
  PROVE  /\ pc' \in [Requests -> Steps] /\ alone' \subseteq Requests
         /\ InCall' \subseteq InCall
         /\ step = "SetUid" => InCall' \subseteq InCall \ {r}
  BY DEF TypeInv, TypeOK, Goto, InCall, Busy

(* Every step keeps the types and the reserve. *)
LEMMA NextTypeInv == TypeInv /\ [Next]_vars => TypeInv'
<1> SUFFICES ASSUME TypeInv, [Next]_vars PROVE TypeInv'
  OBVIOUS
<1> USE DEF TypeInv
<1>0. uids \in Nat /\ MaxBoards \in Nat /\ MaxFaults \in Nat
  BY AppAssumption DEF TypeOK
<1>1. ASSUME NEW r \in Requests, Start(r) PROVE TypeInv'
  <2>1. TypeOK'
    BY <1>1 DEF TypeOK, Start, Steps, Target, Board, NoBoard
  <2>2. r \in InCall' /\ InCall' \subseteq InCall \cup {r}
    BY <1>1 DEF TypeOK, Start, InCall
  <2>3. MayCreate /\ uids' = uids
    BY <1>1 DEF Start
  <2> QED
    BY <2>1, <2>2, <2>3, <1>0, ReserveTaken
<1>2. ASSUME NEW r \in Requests, GetT4s(r) \/ Delete(r) \/ Replace(r) \/ SetUid(r) \/ CallFails(r)
      PROVE  TypeInv'
  <2>1. PICK step \in Steps : Goto(r, step)
    BY <1>2 DEF GetT4s, Delete, Replace, SetUid, CallFails, Steps
  <2>2. r \in Busy /\ (r \in InCall \/ step \notin {"GetT4s", "Delete", "Replace", "Create"})
    BY <1>2, <2>1
    DEF GetT4s, Delete, Replace, SetUid, CallFails, Busy, InCall, Goto, Steps, TypeOK
  <2>3. pc' \in [Requests -> Steps] /\ alone' \subseteq Requests /\ InCall' \subseteq InCall
    BY <2>1, <2>2, GotoType
  <2>4. uids' = uids
    BY <1>2 DEF GetT4s, Delete, Replace, SetUid, CallFails
  <2>5. board' \in Board \cup {NoBoard} /\ boardUID' \in 0 .. MaxBoards
    <3>1. target.uid \in 0 .. MaxBoards
      BY DEF TypeOK, Target
    <3>2. board' \in {board, NoBoard} /\ boardUID' \in {boardUID, target.uid}
      BY <1>2 DEF GetT4s, Delete, Replace, SetUid, CallFails
    <3> QED
      BY <3>1, <3>2 DEF TypeOK
  <2>6. target' \in Target /\ poll' \in Target
    BY <1>2, ObjectTypes DEF TypeOK, GetT4s, Delete, Replace, SetUid, CallFails
  <2>7. t4sGoing' = t4sGoing /\ owners' = owners /\ faults' \in 0 .. MaxFaults
    BY <1>2, <1>0 DEF TypeOK, GetT4s, Delete, Replace, SetUid, CallFails
  <2>9. TypeOK'
    BY <2>3, <2>4, <2>5, <2>6, <2>7 DEF TypeOK
  <2> QED
    BY <2>3, <2>4, <2>9, <1>0, ReserveKept
<1>3. ASSUME NEW r \in Requests, Create(r) PROVE TypeInv'
  <2>0. pc[r] = "Create" /\ r \in InCall /\ r \in Busy
    BY <1>3 DEF Create, InCall, Busy
  <2>1. CASE board = NoBoard /\ target.uid = 0
    <3>1. Goto(r, "SetUid") /\ uids' = uids + 1
      BY <1>3, <2>1 DEF Create
    <3>2. pc' \in [Requests -> Steps] /\ alone' \subseteq Requests /\ InCall' \subseteq InCall \ {r}
      BY <2>0, <3>1, GotoType DEF Steps
    <3>3. Reserve' /\ uids' <= MaxBoards
      BY <2>0, <3>1, <3>2, <1>0, ReserveSpent
    <3>4. board' \in Board
      BY <1>3, <2>1, <3>3, <1>0, NewBoardTyped DEF Create
    <3>5. target' \in Target
      BY <1>3, <2>1, <3>4, ObjectTypes DEF Create
    <3>6. TypeOK'
      BY <1>3, <2>1, <3>2, <3>3, <3>4, <3>5, <1>0 DEF TypeOK, Create
    <3> QED
      BY <3>3, <3>6
  <2>2. CASE ~(board = NoBoard /\ target.uid = 0)
    <3>1. /\ Goto(r, "Idle")
          /\ UNCHANGED <<board, target, uids, t4sGoing, poll, boardUID, owners, faults>>
      BY <1>3, <2>2 DEF Create
    <3>2. pc' \in [Requests -> Steps] /\ alone' \subseteq Requests /\ InCall' \subseteq InCall
      BY <2>0, <3>1, GotoType DEF Steps
    <3> QED
      BY <3>1, <3>2, <1>0, ReserveKept DEF TypeOK
  <2> QED
    BY <2>1, <2>2
<1>4. ASSUME NEW r \in Requests, CallTimesOut(r) PROVE TypeInv'
  <2>1. pc' \in [Requests -> Steps] /\ InCall' \subseteq InCall \ {r} /\ alone' = {}
    BY <1>4 DEF CallTimesOut, Other, TypeOK, InCall, Steps
  <2>2. CASE pc[r] = "Delete"
    <3>1. board' = NoBoard /\ uids' = uids
      BY <1>4, <2>2 DEF CallTimesOut
    <3>2. TypeOK'
      BY <1>4, <2>1, <3>1, <1>0 DEF TypeOK, CallTimesOut
    <3> QED
      BY <2>1, <3>1, <3>2, <1>0, ReserveKept
  <2>3. CASE pc[r] = "Create"
    <3>1. /\ board' = [uid |-> uids + 1, state |-> "Playing", deleting |-> FALSE]
          /\ uids' = uids + 1
      BY <1>4, <2>3 DEF CallTimesOut
    <3>2. r \in InCall
      BY <2>3 DEF InCall
    <3>3. Reserve' /\ uids' <= MaxBoards
      BY <2>1, <3>1, <3>2, <1>0, ReserveSpent
    <3>4. TypeOK'
      BY <1>4, <2>1, <3>1, <3>3, <1>0, NewBoardTyped DEF TypeOK, CallTimesOut
    <3> QED
      BY <3>3, <3>4
  <2> QED
    BY <1>4, <2>2, <2>3 DEF CallTimesOut
<1>5. CASE T4sCreatesBoard
  <2>1. MayCreate /\ uids' = uids + 1 /\ InCall' = InCall
    BY <1>5 DEF T4sCreatesBoard, InCall
  <2>2. uids' <= MaxBoards
    BY <2>1, <1>0, InCallCounts DEF MayCreate
  <2>3. TypeOK'
    BY <1>5, <2>2, <1>0, NewBoardTyped DEF TypeOK, T4sCreatesBoard, Other
  <2> QED
    BY <2>1, <2>3, <1>0, ReserveKept
<1>6. CASE GetBoard \/ AnswerGetBoard \/ PostAction
  <2>1. uids' = uids /\ InCall' = InCall
    BY <1>6 DEF GetBoard, AnswerGetBoard, PostAction, InCall
  <2>2. TypeOK'
    <3>1. Read(board) \in Target /\ ReadInto(target, poll) \in Target
      BY ObjectTypes DEF TypeOK
    <3>2. target' \in Target /\ poll' \in Target
      BY <1>6, <3>1, ObjectTypes DEF TypeOK, GetBoard, AnswerGetBoard, PostAction
    <3>3. owners' \subseteq 1 .. MaxBoards
      <4>1. boardUID \in 0 .. MaxBoards /\ owners \subseteq 1 .. MaxBoards
        BY DEF TypeOK
      <4>2. owners' = owners \/ (boardUID # 0 /\ owners' = owners \cup {boardUID})
        BY <1>6 DEF GetBoard, AnswerGetBoard, PostAction
      <4>3. boardUID # 0 => boardUID \in 1 .. MaxBoards
        BY <4>1, <1>0
      <4> QED
        BY <4>1, <4>2, <4>3
    <3>4. alone' \subseteq Requests /\ UNCHANGED <<board, t4sGoing, boardUID, pc, uids, faults>>
      BY <1>6 DEF TypeOK, GetBoard, AnswerGetBoard, PostAction
    <3> QED
      BY <3>2, <3>3, <3>4 DEF TypeOK
  <2> QED
    BY <2>1, <2>2, <1>0, ReserveKept
<1>7. CASE T4sDeletesBoard \/ DeleteT4s \/ MarkBoardDeleted \/ RemoveMarkedBoard
  <2>1. uids' = uids /\ InCall' = InCall
    BY <1>7 DEF T4sDeletesBoard, DeleteT4s, MarkBoardDeleted, RemoveMarkedBoard, InCall
  <2>2. TypeOK'
    BY <1>7, <1>0
    DEF TypeOK, T4sDeletesBoard, DeleteT4s, MarkBoardDeleted, RemoveMarkedBoard, Other, Board,
        NoBoard
  <2> QED
    BY <2>1, <2>2, <1>0, ReserveKept
<1>8. CASE Restart
  <2>1. uids' = uids /\ InCall' = {}
    BY <1>8 DEF Restart, InCall
  <2>2. target' \in Target /\ poll' \in Target /\ boardUID' \in 0 .. MaxBoards
    <3>1. Read(board) \in Target /\ board.uid \in 0 .. MaxBoards
      BY ObjectTypes DEF TypeOK
    <3> QED
      BY <1>8, <3>1, ObjectTypes DEF Restart, Loaded
  <2>3. pc' \in [Requests -> Steps]
    BY <1>8 DEF Restart, Steps
  <2>4. TypeOK'
    BY <1>8, <1>0, <2>2, <2>3 DEF TypeOK, Restart, Other
  <2> QED
    BY <2>1, <2>4, <1>0, ReserveKept
<1>9. CASE UNCHANGED vars
  <2>1. uids' = uids /\ InCall' = InCall
    BY <1>9 DEF vars, InCall
  <2> QED
    BY <1>9, <2>1, <1>0, ReserveKept DEF TypeOK, vars
<1> QED
  BY <1>1, <1>2, <1>3, <1>4, <1>5, <1>6, <1>7, <1>8, <1>9 DEF Next, NewBoardStep

(* TypeOK for every number of requests, Boards and errors: no interleaving  *)
(* of newBoards creates more Boards than MayCreate set aside, and           *)
(* TargetBoard, BoardUID and the owners only ever name Boards that were.    *)
THEOREM TypeCorrect == Spec => []TypeOK
  BY InitTypeInv, NextTypeInv, PTL DEF Spec, TypeInv

-----------------------------------------------------------------------------
(* What an undisturbed request past its delete knows: there is no Board, or  *)
(* one that is on its way out, and once it replaced the object TargetBoard   *)
(* points to, that object is one the API server never saw.                   *)
OnItsWay(r) ==
  /\ pc[r] \in {"Replace", "Create"} => board = NoBoard \/ board.deleting
  /\ pc[r] = "Create" => target.uid = 0

WayInv == TypeInv /\ \A r \in alone : OnItsWay(r)

(* Every step keeps it: what would create a Board or read one into the      *)
(* object ends the peace of the request.                                    *)
LEMMA NextWay == WayInv /\ [Next]_vars => WayInv'
<1> SUFFICES ASSUME WayInv, [Next]_vars PROVE \A r \in alone' : OnItsWay(r)'
  BY NextTypeInv DEF WayInv
<1>0. pc \in [Requests -> Steps] /\ alone \subseteq Requests
  BY DEF WayInv, TypeInv, TypeOK
<1> SUFFICES ASSUME NEW r \in alone' PROVE OnItsWay(r)'
  OBVIOUS
<1>1. ASSUME NEW q \in Requests, Start(q) PROVE OnItsWay(r)'
  BY <1>0, <1>1 DEF Start, OnItsWay
<1>2. ASSUME NEW q \in Requests, Delete(q) PROVE OnItsWay(r)'
  BY <1>0, <1>2 DEF Delete, Goto, OnItsWay, NoBoard
<1>3. ASSUME NEW q \in Requests, Replace(q) PROVE OnItsWay(r)'
  BY <1>0, <1>3 DEF Replace, Goto, OnItsWay, NewObject, WayInv
<1>4. ASSUME NEW q \in Requests, Create(q) PROVE OnItsWay(r)'
  BY <1>0, <1>4 DEF Create, Goto, OnItsWay
<1>5. ASSUME NEW q \in Requests, GetT4s(q) \/ SetUid(q) \/ CallFails(q) PROVE OnItsWay(r)'
  BY <1>0, <1>5 DEF GetT4s, SetUid, CallFails, Goto, OnItsWay
<1>6. ASSUME NEW q \in Requests, CallTimesOut(q) PROVE OnItsWay(r)'
  BY <1>6 DEF CallTimesOut, Other
<1>7. CASE GetBoard \/ PostAction
  BY <1>7 DEF GetBoard, PostAction, OnItsWay, WayInv
<1>8. CASE AnswerGetBoard \/ RemoveMarkedBoard
  BY <1>8 DEF AnswerGetBoard, RemoveMarkedBoard
<1>9. CASE T4sDeletesBoard \/ T4sCreatesBoard \/ DeleteT4s \/ MarkBoardDeleted \/ Restart
  BY <1>9 DEF T4sDeletesBoard, T4sCreatesBoard, DeleteT4s, MarkBoardDeleted, Restart, Other
<1>10. CASE UNCHANGED vars
  BY <1>10 DEF vars, OnItsWay, WayInv
<1> QED
  BY <1>1, <1>2, <1>3, <1>4, <1>5, <1>6, <1>7, <1>8, <1>9, <1>10 DEF Next, NewBoardStep

(* NewGameSucceeds: newBoard never stumbles over its own steps.  A request   *)
(* that got past the delete undisturbed and ends without its Board met an    *)
(* error of the API server, or a Board still held by a foreground deletion.  *)
THEOREM NewGameSucceedsCorrect == Spec => NewGameSucceeds
<1>1. Init => WayInv
  BY InitTypeInv DEF Init, WayInv
<1>2. ASSUME WayInv, [Next]_vars, NEW r \in alone,
             pc[r] \in {"Replace", "Create"}, pc'[r] = "Idle"
      PROVE  board.deleting \/ faults' # faults
  <2>0. /\ pc \in [Requests -> Steps] /\ r \in Requests /\ faults \in Nat
        /\ board = NoBoard \/ board.deleting
        /\ pc[r] = "Create" => target.uid = 0
    BY <1>2, AppAssumption DEF WayInv, TypeInv, TypeOK, OnItsWay
  <2>1. ASSUME NEW q \in Requests, Start(q) \/ GetT4s(q) \/ Delete(q) \/ Replace(q) \/ SetUid(q)
        PROVE  FALSE
    BY <1>2, <2>0, <2>1 DEF Start, GetT4s, Delete, Replace, SetUid, Goto
  <2>2. ASSUME NEW q \in Requests, Create(q) PROVE board.deleting
    BY <1>2, <2>0, <2>2 DEF Create, Goto
  <2>3. ASSUME NEW q \in Requests, CallFails(q) \/ CallTimesOut(q) PROVE faults' # faults
    BY <2>0, <2>3 DEF CallFails, CallTimesOut
  <2>4. CASE Restart
    BY <2>0, <2>4 DEF Restart
  <2>5. ASSUME UNCHANGED pc PROVE FALSE
    BY <1>2, <2>5
  <2>6. CASE GetBoard \/ AnswerGetBoard \/ PostAction
    BY <2>5, <2>6 DEF GetBoard, AnswerGetBoard, PostAction
  <2>7. CASE T4sDeletesBoard \/ T4sCreatesBoard \/ DeleteT4s \/ MarkBoardDeleted
               \/ RemoveMarkedBoard
    BY <2>5, <2>7
    DEF T4sDeletesBoard, T4sCreatesBoard, DeleteT4s, MarkBoardDeleted, RemoveMarkedBoard
  <2>8. CASE UNCHANGED vars
    BY <2>5, <2>8 DEF vars
  <2> QED
    BY <1>2, <2>1, <2>2, <2>3, <2>4, <2>6, <2>7, <2>8 DEF Next, NewBoardStep
<1>3. WayInv /\ [Next]_vars =>
        \A r \in alone : pc[r] \in {"Replace", "Create"} /\ pc'[r] = "Idle" =>
          board.deleting \/ faults' # faults
  BY <1>2
<1> QED
  BY <1>1, <1>3, NextWay, PTL DEF Spec, NewGameSucceeds
=============================================================================
