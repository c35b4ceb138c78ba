------------------------- MODULE T4sNamespace_proofs -------------------------
(***************************************************************************)
(* Proofs about T4sNamespace, for any users, names, sizes and bounds: its   *)
(* type invariant, and that a T4s the manager knew when a creation was      *)
(* requested keeps the new one out.                                         *)
(***************************************************************************)
EXTENDS T4sNamespace, TLAPS

(* No T4s has a UID that is yet to be given, and nobody knows of one.       *)
Given ==
  /\ \A n \in Names : t4s[n].uid <= uids /\ cache[n].uid <= uids
  /\ \A i \in 1 .. Len(events) : events[i].obj.uid <= uids
  /\ \A u \in Users : req[u].knew \subseteq 1 .. uids

(* The objects of the model. *)
LEMMA Objects ==
  /\ NoT4s.uid = 0 /\ ~NoT4s.going
  /\ \A o \in T4s : o.uid \in Nat \ {0} /\ o # NoT4s
  /\ \A o \in T4s : [o EXCEPT !.going = TRUE] \in T4s /\ [o EXCEPT !.going = TRUE].uid = o.uid
  /\ Empty \in [Names -> T4s \cup {NoT4s}] /\ \A n \in Names : Empty[n].uid = 0
  /\ NoRequest.stage = "None" /\ NoRequest.knew = {}
<1>1. NoT4s.uid = 0 /\ ~NoT4s.going /\ \A n \in Names : Empty[n] = NoT4s
  BY DEF NoT4s, Empty
<1>2. \A o \in T4s : o.uid \in Nat \ {0} /\ o # NoT4s
  BY <1>1 DEF T4s
<1>3. \A o \in T4s : [o EXCEPT !.going = TRUE] \in T4s /\ [o EXCEPT !.going = TRUE].uid = o.uid
  BY DEF T4s
<1>4. Empty \in [Names -> T4s \cup {NoT4s}]
  BY DEF Empty
<1> QED
  BY <1>1, <1>2, <1>3, <1>4 DEF NoRequest

(* The bounds are numbers, the sizes positive ones. *)
LEMMA Bounds ==
  MaxT4s \in Nat /\ MaxIncidents \in Nat /\ \A n \in Names : SizeOf[n] \in Nat \ {0}
  BY NamespaceAssumption

(* The types, taken apart. *)
StoreOK ==
  /\ t4s \in [Names -> T4s \cup {NoT4s}] /\ uids \in 0 .. MaxT4s /\ events \in Seq(Event)
  /\ board \in Board \cup {NoBoard}
CacheOK ==
  /\ up \in BOOLEAN /\ cache \in [Names -> T4s \cup {NoT4s}]
  /\ boardSeen \in Board \cup {NoBoard} /\ queued \subseteq Names
  /\ pc \in {"Idle", "Get", "Delete", "Create"}
  /\ local \in [name : Names, uid : 1 .. MaxT4s] \cup {NoLocal}
Requests ==
  [stage : {"Sent", "Admitted"}, name : Names, knew : SUBSET (1 .. MaxT4s)] \cup {NoRequest}
ReqOK == req \in [Users -> Requests] /\ incidents \in 0 .. MaxIncidents

(* Reconcile works on what it has read, and a manager that is down knows    *)
(* nothing.                                                                 *)
LocalOK == pc # "Idle" => local \in [name : Names, uid : 1 .. MaxT4s]
DownOK  == ~up => events = <<>> /\ cache = Empty

IInv == StoreOK /\ CacheOK /\ ReqOK /\ Given /\ LocalOK /\ DownOK

(* The invariant implies the types. *)
LEMMA TypeParts == IInv => TypeOK
  BY DEF IInv, TypeOK, StoreOK, CacheOK, ReqOK, Requests

(* A write of the store. *)
LEMMA PutTyped ==
  ASSUME StoreOK, up \in BOOLEAN, NEW n \in Names, NEW obj \in T4s \cup {NoT4s}, Put(n, obj)
  PROVE  /\ t4s' \in [Names -> T4s \cup {NoT4s}] /\ events' \in Seq(Event)
         /\ t4s'[n] = obj /\ \A m \in Names \ {n} : t4s'[m] = t4s[m]
         /\ \/ events' = events
            \/ /\ Len(events') = Len(events) + 1
               /\ \A i \in 1 .. Len(events) : events'[i] = events[i]
               /\ events'[Len(events) + 1] = [name |-> n, obj |-> obj]
<1>1. [name |-> n, obj |-> obj] \in Event
  BY DEF Event
<1>2. /\ t4s' \in [Names -> T4s \cup {NoT4s}]
      /\ t4s'[n] = obj /\ \A m \in Names \ {n} : t4s'[m] = t4s[m]
  BY DEF StoreOK, Put
<1>3. events \in Seq(Event)
  BY DEF StoreOK
<1>4. CASE events' = events
  BY <1>2, <1>3, <1>4
<1>5. CASE events' = Append(events, [name |-> n, obj |-> obj])
  BY <1>1, <1>2, <1>3, <1>5
<1> QED
  BY <1>4, <1>5 DEF Put

(* A request of the user u that is answered or goes on. *)
LEMMA AnswerTyped ==
  ASSUME req \in [Users -> Requests], NEW u \in Users, Answer(u)
  PROVE  /\ req' \in [Users -> Requests]
         /\ req'[u] = NoRequest /\ \A v \in Users \ {u} : req'[v] = req[v]
  BY DEF Answer, Requests

(* Initially nothing is there. *)
LEMMA InitIInv == Init => IInv
<1> SUFFICES ASSUME Init PROVE IInv
  OBVIOUS
<1>1. StoreOK
  BY Objects, Bounds DEF Init, StoreOK
<1>2. CacheOK
  BY Objects DEF Init, CacheOK
<1>3. ReqOK
  BY Bounds DEF Init, ReqOK, Requests
<1>4. Given
  <2>1. \A n \in Names : t4s[n].uid = 0 /\ cache[n].uid = 0
    BY Objects DEF Init
  <2>2. events = <<>> /\ uids = 0 /\ \A u \in Users : req[u].knew = {}
    BY DEF Init, NoRequest
  <2> QED
    BY <2>1, <2>2 DEF Given
<1> QED
  BY <1>1, <1>2, <1>3, <1>4 DEF IInv, Init, LocalOK, DownOK

(* The steps of Reconcile. *)
LEMMA ReconcileIInv == ASSUME IInv, Reconcile \/ CallFails PROVE IInv'
<1> USE Bounds DEF store
<1>a. StoreOK /\ CacheOK /\ ReqOK /\ Given /\ LocalOK /\ DownOK
  BY DEF IInv
<1>b. UNCHANGED <<store, req, up, cache>>
      /\ (incidents' = incidents \/ Incident)
  BY DEF Reconcile, GetT4s, GetBoard, DeleteBoard, CreateBoard, CallFails
<1>c. Given' /\ DownOK'
  BY <1>a, <1>b DEF DownOK, Given, Empty
<1>d. ReqOK'
  BY <1>a, <1>b DEF ReqOK, Incident
<1>e. SUFFICES StoreOK' /\ CacheOK' /\ LocalOK'
  BY <1>c, <1>d DEF IInv
<1>1. CASE \E n \in Names : GetT4s(n)
  <2> PICK n \in Names : GetT4s(n)
    BY <1>1
  <2>1. cache[n] # NoT4s => cache[n].uid \in 1 .. MaxT4s
    BY <1>a, Objects DEF CacheOK, Given, StoreOK
  <2>2. CacheOK' /\ LocalOK'
    BY <1>a, <2>1 DEF GetT4s, CacheOK, LocalOK
  <2>3. StoreOK'
    BY <1>a DEF GetT4s, StoreOK
  <2> QED
    BY <2>2, <2>3
<1>2. CASE GetBoard \/ CallFails
  <2>1. StoreOK'
    BY <1>a, <1>2 DEF GetBoard, CallFails, StoreOK
  <2>2. CacheOK' /\ LocalOK'
    BY <1>a, <1>2 DEF GetBoard, CallFails, Make, Return, CacheOK, LocalOK
  <2> QED
    BY <2>1, <2>2
<1>3. CASE DeleteBoard \/ CreateBoard
  <2>1. pc = "Create" => [owner |-> local.uid, size |-> SizeOf[local.name]] \in Board
    BY <1>a DEF Board, LocalOK
  <2>2. StoreOK'
    BY <1>a, <1>3, <2>1 DEF DeleteBoard, CreateBoard, StoreOK
  <2>3. CacheOK' /\ LocalOK'
    BY <1>a, <1>3 DEF DeleteBoard, CreateBoard, Make, Return, CacheOK, LocalOK
  <2> QED
    BY <2>2, <2>3
<1> QED
  BY <1>1, <1>2, <1>3 DEF Reconcile

(* The steps that write the store: what is written has a UID of the store's *)
(* or a new one.                                                            *)
LEMMA PutIInv ==
  ASSUME IInv, NEW n \in Names, NEW obj \in T4s \cup {NoT4s}, Put(n, obj),
         uids' \in uids .. MaxT4s, obj.uid <= uids', UNCHANGED <<board, manager>>, ReqOK',
         \A u \in Users : req'[u].knew \subseteq 1 .. uids
  PROVE  IInv'
<1>a. StoreOK /\ CacheOK /\ Given /\ LocalOK /\ DownOK
  BY DEF IInv
<1>b. /\ t4s' \in [Names -> T4s \cup {NoT4s}] /\ events' \in Seq(Event)
      /\ t4s'[n] = obj /\ \A m \in Names \ {n} : t4s'[m] = t4s[m]
      /\ \/ events' = events
         \/ /\ Len(events') = Len(events) + 1
            /\ \A i \in 1 .. Len(events) : events'[i] = events[i]
            /\ events'[Len(events) + 1] = [name |-> n, obj |-> obj]
  BY <1>a, PutTyped DEF CacheOK
<1>c. uids \in Nat /\ uids' \in Nat /\ uids <= uids' /\ Len(events) \in Nat
  BY <1>a, Bounds DEF StoreOK
<1>1. StoreOK'
  BY <1>a, <1>b, <1>c, Bounds DEF StoreOK
<1>2. CacheOK' /\ LocalOK' /\ DownOK'
  BY <1>a DEF CacheOK, LocalOK, DownOK, Put, manager, Empty
<1>3. \A o \in T4s \cup {NoT4s} : o.uid \in Nat
  BY Objects
<1>4. \A m \in Names : t4s'[m].uid <= uids' /\ cache'[m].uid <= uids'
  BY <1>a, <1>b, <1>c, <1>3 DEF Given, StoreOK, CacheOK, manager
<1>5. \A i \in 1 .. Len(events) : events[i].obj.uid \in Nat
  <2>1. \A i \in 1 .. Len(events) : events[i] \in Event
    BY <1>a DEF StoreOK
  <2> QED
    BY <2>1, <1>3 DEF Event
<1>6. \A i \in 1 .. Len(events') : events'[i].obj.uid <= uids'
  BY <1>a, <1>b, <1>c, <1>5 DEF Given
<1>7. Given'
  BY <1>4, <1>6, <1>c DEF Given
<1> QED
  BY <1>1, <1>2, <1>7 DEF IInv

(* The other steps. *)
LEMMA NextIInv == IInv /\ [Next]_vars => IInv'
<1> SUFFICES ASSUME IInv, [Next]_vars PROVE IInv'
  OBVIOUS
<1> USE Bounds DEF store, manager
<1>a. StoreOK /\ CacheOK /\ ReqOK /\ Given /\ LocalOK /\ DownOK
  BY DEF IInv
<1>b. /\ uids \in Nat /\ \A o \in T4s \cup {NoT4s} : o.uid \in Nat
      /\ \A u \in Users : req[u].knew \subseteq 1 .. uids
  BY <1>a, Objects DEF StoreOK, Given
<1>1. CASE Reconcile \/ CallFails
  BY <1>1, ReconcileIInv
<1>2. CASE \E u \in Users : Request(u)
  <2> PICK u \in Users : Request(u)
    BY <1>2
  <2>1. PICK n \in Names :
          req' = [req EXCEPT ![u] = [stage |-> "Sent", name |-> n, knew |-> Uids(cache)]]
    BY DEF Request
  <2>2. Uids(cache) \subseteq 1 .. uids
    BY <1>a, <1>b DEF Uids, Given, CacheOK
  <2>3. uids <= MaxT4s
    BY <1>a DEF StoreOK
  <2>4. [stage |-> "Sent", name |-> n, knew |-> Uids(cache)] \in Requests
    BY <1>b, <2>2, <2>3 DEF Requests
  <2>5. ReqOK' /\ \A v \in Users : req'[v].knew \subseteq 1 .. uids
    BY <1>a, <1>b, <2>1, <2>2, <2>4 DEF ReqOK, Request, Requests
  <2> QED
    BY <1>a, <2>5 DEF Request, IInv, StoreOK, CacheOK, Given, LocalOK, DownOK, Empty
<1>3. CASE \E u \in Users : Validate(u) \/ CreationFails(u)
  <2> PICK u \in Users : Validate(u) \/ CreationFails(u)
    BY <1>3
  <2>1. Answer(u) \/ (req[u].stage = "Sent" /\ req' = [req EXCEPT ![u].stage = "Admitted"])
    BY DEF Validate, ValidateCreate, NobodyValidates, CreationFails
  <2>2. UNCHANGED <<store, board, manager>> /\ (incidents' = incidents \/ Incident)
    BY DEF Validate, ValidateCreate, NobodyValidates, CreationFails
  <2>3. req' \in [Users -> Requests] /\ \A v \in Users : req'[v].knew \subseteq 1 .. uids
    <3>1. CASE Answer(u)
      <4>1. /\ req' \in [Users -> Requests] /\ req'[u] = NoRequest
            /\ \A v \in Users \ {u} : req'[v] = req[v]
        BY <1>a, <3>1, AnswerTyped DEF ReqOK
      <4> QED
        BY <1>b, <4>1, Objects
    <3>2. CASE req[u].stage = "Sent" /\ req' = [req EXCEPT ![u].stage = "Admitted"]
      <4>1. req[u] \in Requests /\ req[u] # NoRequest
        BY <1>a, <3>2, Objects DEF ReqOK
      <4>2. /\ [req[u] EXCEPT !.stage = "Admitted"] \in Requests
            /\ [req[u] EXCEPT !.stage = "Admitted"].knew = req[u].knew
        BY <4>1 DEF Requests
      <4> QED
        BY <1>a, <1>b, <3>2, <4>2 DEF ReqOK
    <3> QED
      BY <2>1, <3>1, <3>2
  <2>4. ReqOK'
    BY <1>a, <2>2, <2>3 DEF ReqOK, Incident
  <2> QED
    BY <1>a, <2>2, <2>3, <2>4 DEF IInv, StoreOK, CacheOK, Given, LocalOK, DownOK, Empty
<1>4. CASE \E u \in Users : Store(u)
  <2> PICK u \in Users : Store(u)
    BY <1>4
  <2>1. /\ req' \in [Users -> Requests] /\ req'[u] = NoRequest
        /\ \A v \in Users \ {u} : req'[v] = req[v]
    BY <1>a, AnswerTyped DEF Store, ReqOK
  <2>2. ReqOK' /\ \A v \in Users : req'[v].knew \subseteq 1 .. uids
    BY <1>a, <1>b, <2>1, Objects DEF ReqOK, Store
  <2>3. CASE UNCHANGED store
    BY <1>a, <2>2, <2>3 DEF Store, IInv, StoreOK, CacheOK, Given, LocalOK, DownOK, Empty
  <2>4. CASE Put(req[u].name, [uid |-> uids + 1, going |-> FALSE]) /\ uids' = uids + 1
    <3>1. req[u].name \in Names /\ uids + 1 <= MaxT4s
      <4>1. req[u] \in Requests /\ req[u] # NoRequest
        BY <1>a, Objects DEF Store, ReqOK
      <4> QED
        BY <1>a, <1>b, <4>1 DEF Store, Requests, StoreOK
    <3>2. [uid |-> uids + 1, going |-> FALSE] \in T4s
      BY <1>b DEF T4s
    <3> QED
      BY <1>b, <2>2, <2>4, <3>1, <3>2, PutIInv DEF Store
  <2> QED
    BY <2>3, <2>4 DEF Store
<1>5. CASE \E n \in Names : DeleteT4s(n) \/ MarkT4sDeleted(n) \/ RemoveMarkedT4s(n)
  <2> PICK n \in Names : DeleteT4s(n) \/ MarkT4sDeleted(n) \/ RemoveMarkedT4s(n)
    BY <1>5
  <2>1. /\ UNCHANGED <<uids, board, req, manager>> /\ uids' \in uids .. MaxT4s
        /\ (incidents' = incidents \/ Incident)
    BY <1>a, <1>b DEF DeleteT4s, MarkT4sDeleted, RemoveMarkedT4s, StoreOK
  <2>2. ReqOK' /\ \A u \in Users : req'[u].knew \subseteq 1 .. uids
    BY <1>a, <1>b, <2>1 DEF ReqOK, Incident
  <2>3. CASE Put(n, NoT4s)
    BY <1>b, <2>1, <2>2, <2>3, PutIInv, Objects
  <2>4. CASE t4s[n] # NoT4s /\ Put(n, [t4s[n] EXCEPT !.going = TRUE])
    <3>1. t4s[n] \in T4s /\ t4s[n].uid <= uids
      BY <1>a, <2>4 DEF StoreOK, Given
    <3> QED
      BY <2>1, <2>2, <2>4, <3>1, PutIInv, Objects
  <2> QED
    BY <2>3, <2>4 DEF DeleteT4s, MarkT4sDeleted, RemoveMarkedT4s
<1>6. CASE CollectBoard \/ SyncBoard \/ \E n \in Names : Requeue(n)
  <2>1. UNCHANGED <<store, req, up, cache, pc, local, incidents>>
    BY <1>6 DEF CollectBoard, SyncBoard, Requeue
  <2>2. StoreOK' /\ CacheOK'
    BY <1>6, <1>a DEF CollectBoard, SyncBoard, Requeue, StoreOK, CacheOK
  <2> QED
    BY <1>a, <2>1, <2>2 DEF IInv, ReqOK, Given, LocalOK, DownOK, Empty
<1>7. CASE SyncT4s
  <2>1. events # <<>> /\ events \in Seq(Event)
    BY <1>7, <1>a DEF SyncT4s, StoreOK
  <2>2. /\ Head(events) = events[1] /\ events[1] \in Event /\ Len(events) \in Nat \ {0}
        /\ Tail(events) \in Seq(Event) /\ Len(Tail(events)) = Len(events) - 1
        /\ \A i \in 1 .. Len(events) - 1 : Tail(events)[i] = events[i + 1]
    BY <2>1
  <2>3. /\ cache' = [cache EXCEPT ![events[1].name] = events[1].obj]
        /\ queued' = queued \cup {events[1].name} /\ events' = Tail(events)
        /\ UNCHANGED <<t4s, uids, board, req, up, boardSeen, pc, local, incidents>> /\ up
    BY <1>7, <2>2 DEF SyncT4s
  <2>4. StoreOK' /\ CacheOK' /\ ReqOK'
    BY <1>a, <2>2, <2>3 DEF StoreOK, CacheOK, ReqOK, Event
  <2>5. events[1].name \in Names /\ events[1].obj.uid <= uids
    BY <1>a, <2>2 DEF Given, Event
  <2>6. \A m \in Names : cache'[m].uid <= uids
    BY <1>a, <2>3, <2>5 DEF Given, CacheOK
  <2>7. \A i \in 1 .. Len(events') : events'[i].obj.uid <= uids
    BY <1>a, <2>2, <2>3 DEF Given
  <2>8. Given'
    BY <1>a, <2>3, <2>6, <2>7 DEF Given
  <2> QED
    BY <1>a, <2>3, <2>4, <2>8 DEF IInv, LocalOK, DownOK
<1>8. CASE Crash
  <2>1. ReqOK'
    BY <1>8, <1>a DEF Crash, ReqOK, Incident
  <2>2. StoreOK'
    BY <1>8, <1>a DEF Crash, StoreOK
  <2>3. CacheOK'
    BY <1>8, <1>a, Objects DEF Crash, CacheOK
  <2>4. Given'
    BY <1>8, <1>a, <1>b, Objects DEF Crash, Given
  <2> QED
    BY <1>8, <2>1, <2>2, <2>3, <2>4 DEF Crash, IInv, LocalOK, DownOK, Empty
<1>9. CASE Restart
  <2>1. StoreOK' /\ CacheOK'
    BY <1>9, <1>a DEF Restart, StoreOK, CacheOK
  <2> QED
    BY <1>9, <1>a, <2>1 DEF Restart, IInv, ReqOK, Given, LocalOK, DownOK
<1>10. CASE UNCHANGED vars
  BY <1>10, <1>a DEF vars, IInv, StoreOK, CacheOK, ReqOK, Given, LocalOK, DownOK, Empty
<1> QED
  BY <1>1, <1>2, <1>3, <1>4, <1>5, <1>6, <1>7, <1>8, <1>9, <1>10 DEF Next

(* The type invariant of T4sNamespace.                                      *)
THEOREM TypeCorrect == Spec => []TypeOK
<1> QED
  BY InitIInv, NextIInv, TypeParts, PTL DEF Spec

-----------------------------------------------------------------------------
(* What the cache says of a T4s that is stored, now and after the events to *)
(* come: once it has shown the T4s it shows nothing else under its name.    *)

(* UIDs are not used twice. *)
Unique == \A m, n \in Names : t4s[m].uid = t4s[n].uid /\ t4s[n].uid # 0 => m = n

Seen ==
  \A n, m \in Names : t4s[n].uid # 0 /\ cache[m].uid = t4s[n].uid =>
    /\ m = n
    /\ \A i \in 1 .. Len(events) : events[i].name = n => events[i].obj.uid = t4s[n].uid

SeenSoon ==
  \A n \in Names, i \in 1 .. Len(events) : t4s[n].uid # 0 /\ events[i].obj.uid = t4s[n].uid =>
    /\ events[i].name = n
    /\ \A j \in i .. Len(events) : events[j].name = n => events[j].obj.uid = t4s[n].uid

(* What was known to a request and is stored, is in the cache still. *)
Known ==
  up => \A u \in Users, n \in Names :
          req[u].stage = "Sent" /\ t4s[n].uid \in req[u].knew => cache[n].uid = t4s[n].uid

Admitted ==
  \A u \in Users, n \in Names : req[u].stage = "Admitted" => t4s[n].uid \notin req[u].knew

KInv == Unique /\ Seen /\ SeenSoon /\ Known /\ Admitted

(* The invariants about UIDs as they are used below.                        *)
LEMMA UidFacts ==
  ASSUME IInv
  PROVE  /\ uids \in Nat /\ Len(events) \in Nat
         /\ \A n \in Names : t4s[n].uid \in 0 .. uids /\ cache[n].uid \in 0 .. uids
         /\ \A i \in 1 .. Len(events) : events[i].obj.uid \in 0 .. uids /\ events[i] \in Event
         /\ \A u \in Users : req[u].knew \subseteq 1 .. uids
<1>a. StoreOK /\ CacheOK /\ Given
  BY DEF IInv
<1>1. uids \in Nat /\ Len(events) \in Nat
  BY <1>a DEF StoreOK
<1>2. \A o \in T4s \cup {NoT4s} : o.uid \in Nat
  BY Objects
<1>3. \A n \in Names : t4s[n].uid \in 0 .. uids /\ cache[n].uid \in 0 .. uids
  BY <1>a, <1>1, <1>2 DEF StoreOK, CacheOK, Given
<1>4. \A i \in 1 .. Len(events) : events[i] \in Event
  BY <1>a DEF StoreOK
<1>5. \A i \in 1 .. Len(events) : events[i].obj.uid \in 0 .. uids
  BY <1>a, <1>1, <1>2, <1>4 DEF Given, Event
<1> QED
  BY <1>a, <1>1, <1>3, <1>4, <1>5 DEF Given

(* Nothing is there initially that could be known.                          *)
LEMMA InitKInv == Init => KInv
<1> SUFFICES ASSUME Init PROVE KInv
  OBVIOUS
<1>1. /\ \A n \in Names : t4s[n].uid = 0 /\ cache[n].uid = 0
      /\ Len(events) = 0 /\ \A u \in Users : req[u].stage = "None"
  BY Objects DEF Init
<1> QED
  BY <1>1 DEF KInv, Unique, Seen, SeenSoon, Known, Admitted

(* A write of the store deletes a T4s, keeps its UID or gives a new one, and *)
(* may answer a request.                                                    *)
LEMMA PutKInv ==
  ASSUME IInv, KInv, NEW n \in Names, NEW obj \in T4s \cup {NoT4s}, Put(n, obj),
         obj.uid \in {0, t4s[n].uid, uids + 1}, UNCHANGED manager,
         \A u \in Users : req'[u] = req[u] \/ req'[u] = NoRequest
  PROVE  KInv'
<1>a. StoreOK /\ up \in BOOLEAN /\ UNCHANGED <<up, cache>>
  BY DEF IInv, CacheOK, manager
<1>b. /\ t4s'[n] = obj /\ \A m \in Names \ {n} : t4s'[m] = t4s[m]
      /\ \/ events' = events
         \/ /\ Len(events') = Len(events) + 1
            /\ \A i \in 1 .. Len(events) : events'[i] = events[i]
            /\ events'[Len(events) + 1] = [name |-> n, obj |-> obj]
  BY <1>a, PutTyped
<1>c. /\ uids \in Nat /\ Len(events) \in Nat
      /\ \A m \in Names : t4s[m].uid \in 0 .. uids /\ cache[m].uid \in 0 .. uids
      /\ \A i \in 1 .. Len(events) : events[i].obj.uid \in 0 .. uids
      /\ \A u \in Users : req[u].knew \subseteq 1 .. uids
  BY UidFacts
<1>d. [name |-> n, obj |-> obj].name = n /\ [name |-> n, obj |-> obj].obj = obj
  OBVIOUS
<1>e. \A m \in Names : t4s'[m].uid \in {0, t4s[m].uid, uids + 1}
  BY <1>b
<1>1. Unique'
  BY <1>b, <1>c DEF KInv, Unique
<1>2. Seen'
  <2> SUFFICES ASSUME NEW k \in Names, NEW m \in Names, t4s'[k].uid # 0,
                      cache[m].uid = t4s'[k].uid
               PROVE  /\ m = k
                      /\ \A i \in 1 .. Len(events') :
                           events'[i].name = k => events'[i].obj.uid = t4s'[k].uid
    BY <1>a DEF Seen
  <2>1. t4s'[k].uid = t4s[k].uid
    BY <1>c, <1>e
  <2>2. /\ m = k
        /\ \A i \in 1 .. Len(events) : events[i].name = k => events[i].obj.uid = t4s[k].uid
    BY <2>1 DEF KInv, Seen
  <2>3. CASE events' = events
    BY <2>1, <2>2, <2>3
  <2>4. CASE events' # events
    BY <1>b, <1>c, <1>d, <2>1, <2>2, <2>4
  <2> QED
    BY <2>3, <2>4
<1>3. SeenSoon'
  <2> SUFFICES ASSUME NEW k \in Names, NEW i \in 1 .. Len(events'), t4s'[k].uid # 0,
                      events'[i].obj.uid = t4s'[k].uid
               PROVE  /\ events'[i].name = k
                      /\ \A j \in i .. Len(events') :
                           events'[j].name = k => events'[j].obj.uid = t4s'[k].uid
    BY DEF SeenSoon
  <2>1. CASE i \in 1 .. Len(events)
    <3>1. events'[i] = events[i] /\ t4s'[k].uid = t4s[k].uid
      BY <1>b, <1>c, <1>e, <2>1
    <3>2. /\ events[i].name = k
          /\ \A j \in i .. Len(events) : events[j].name = k => events[j].obj.uid = t4s[k].uid
      BY <2>1, <3>1 DEF KInv, SeenSoon
    <3>3. CASE events' = events
      BY <3>1, <3>2, <3>3
    <3>4. CASE events' # events
      BY <1>b, <1>c, <1>d, <2>1, <3>1, <3>2, <3>4
    <3> QED
      BY <3>3, <3>4
  <2>2. CASE i \notin 1 .. Len(events)
    <3>1. i = Len(events) + 1 /\ Len(events') = i /\ events'[i] = [name |-> n, obj |-> obj]
      BY <1>b, <1>c, <2>2
    <3>2. obj.uid # 0 /\ obj.uid = t4s'[k].uid /\ t4s'[n].uid = obj.uid
      BY <1>b, <1>d, <3>1
    <3>3. k = n
      BY <1>1, <3>2 DEF Unique
    <3> QED
      BY <1>c, <1>d, <3>1, <3>2, <3>3
  <2> QED
    BY <2>1, <2>2
<1>4. Known'
  <2> SUFFICES ASSUME up, NEW u \in Users, NEW k \in Names, req'[u].stage = "Sent",
                      t4s'[k].uid \in req'[u].knew
               PROVE  cache[k].uid = t4s'[k].uid
    BY <1>a DEF Known
  <2>1. req'[u] = req[u] /\ t4s'[k].uid = t4s[k].uid
    BY <1>c, <1>e, Objects
  <2> QED
    BY <2>1 DEF KInv, Known
<1>5. Admitted'
  <2> SUFFICES ASSUME NEW u \in Users, NEW k \in Names, req'[u].stage = "Admitted"
               PROVE  t4s'[k].uid \notin req'[u].knew
    BY DEF Admitted
  <2>1. req'[u] = req[u] /\ t4s[k].uid \notin req[u].knew
    BY Objects DEF KInv, Admitted
  <2> QED
    BY <1>c, <1>e, <2>1
<1> QED
  BY <1>1, <1>2, <1>3, <1>4, <1>5 DEF KInv

(* The request and the check: one knows what the cache has, the other admits *)
(* only when the cache has nothing.                                         *)
LEMMA RequestKInv ==
  ASSUME IInv, KInv, NEW u \in Users, Request(u) \/ Validate(u) \/ CreationFails(u)
  PROVE  KInv'
<1>a. UNCHANGED <<store, manager>> /\ req \in [Users -> Requests]
  BY DEF IInv, ReqOK, Request, Validate, ValidateCreate, NobodyValidates, CreationFails
<1>b. UNCHANGED <<t4s, events, up, cache>>
  BY <1>a DEF store, manager
<1>c. Unique' /\ Seen' /\ SeenSoon'
  BY <1>b DEF KInv, Unique, Seen, SeenSoon
<1>d. SUFFICES Known' /\ Admitted'
  BY <1>c DEF KInv
<1>e. \A n \in Names : t4s[n].uid \in Nat /\ cache[n].uid \in Nat
  BY UidFacts
<1>1. CASE Request(u)
  <2>1. PICK n \in Names :
          req' = [req EXCEPT ![u] = [stage |-> "Sent", name |-> n, knew |-> Uids(cache)]]
    BY <1>1 DEF Request
  <2>2. /\ req'[u].stage = "Sent" /\ req'[u].knew = Uids(cache)
        /\ \A v \in Users \ {u} : req'[v] = req[v]
    BY <1>a, <2>1
  <2>3. \A m \in Names : t4s[m].uid \in Uids(cache) => cache[m].uid = t4s[m].uid
    BY <1>e DEF Uids, KInv, Seen
  <2>4. Known'
    BY <1>b, <2>2, <2>3 DEF KInv, Known
  <2>5. Admitted'
    BY <1>b, <2>2 DEF KInv, Admitted
  <2> QED
    BY <2>4, <2>5
<1>2. CASE Answer(u)
  <2>1. req'[u] = NoRequest /\ \A v \in Users \ {u} : req'[v] = req[v]
    BY <1>a, <1>2, AnswerTyped
  <2> QED
    BY <1>b, <2>1, Objects DEF KInv, Known, Admitted
<1>3. CASE /\ up /\ cache = Empty /\ req[u].stage = "Sent"
           /\ req' = [req EXCEPT ![u].stage = "Admitted"]
  <2>1. req[u] \in Requests /\ req[u] # NoRequest
    BY <1>3, <1>a, Objects
  <2>2. /\ req'[u].stage = "Admitted" /\ req'[u].knew = req[u].knew
        /\ \A v \in Users \ {u} : req'[v] = req[v]
    BY <1>3, <1>a, <2>1 DEF Requests
  <2>3. \A n \in Names : t4s[n].uid \notin req[u].knew
    <3> SUFFICES ASSUME NEW n \in Names, t4s[n].uid \in req[u].knew PROVE FALSE
      OBVIOUS
    <3>1. t4s[n].uid = 0
      BY <1>3, Objects DEF KInv, Known
    <3> QED
      BY <3>1, UidFacts
  <2>4. Known'
    BY <1>b, <2>2 DEF KInv, Known
  <2>5. Admitted'
    BY <1>b, <2>2, <2>3 DEF KInv, Admitted
  <2> QED
    BY <2>4, <2>5
<1> QED
  BY <1>1, <1>2, <1>3 DEF Validate, ValidateCreate, NobodyValidates, CreationFails

(* The cache receives an event. *)
LEMMA SyncKInv == ASSUME IInv, KInv, SyncT4s PROVE KInv'
<1>1. events # <<>> /\ events \in Seq(Event) /\ cache \in [Names -> T4s \cup {NoT4s}]
  BY DEF SyncT4s, IInv, StoreOK, CacheOK
<1>2. /\ Head(events) = events[1] /\ events[1] \in Event /\ Len(events) \in Nat \ {0}
      /\ Len(Tail(events)) = Len(events) - 1
      /\ \A i \in 1 .. Len(events) - 1 : Tail(events)[i] = events[i + 1]
  BY <1>1
<1>3. /\ cache' = [cache EXCEPT ![events[1].name] = events[1].obj] /\ events' = Tail(events)
      /\ UNCHANGED <<t4s, req, up>>
  BY <1>2 DEF SyncT4s
<1>4. /\ cache'[events[1].name] = events[1].obj /\ events[1].name \in Names
      /\ \A m \in Names \ {events[1].name} : cache'[m] = cache[m]
  BY <1>1, <1>2, <1>3 DEF Event
<1>5. Unique' /\ Admitted'
  BY <1>3 DEF KInv, Unique, Admitted
<1>6. Seen'
  <2> SUFFICES ASSUME NEW n \in Names, NEW m \in Names, t4s[n].uid # 0,
                      cache'[m].uid = t4s[n].uid
               PROVE  /\ m = n
                      /\ \A i \in 1 .. Len(events') :
                           events'[i].name = n => events'[i].obj.uid = t4s[n].uid
    BY <1>3 DEF Seen
  <2>1. CASE m = events[1].name
    <3>1. events[1].obj.uid = t4s[n].uid
      BY <1>4, <2>1
    <3>2. /\ events[1].name = n
          /\ \A j \in 1 .. Len(events) : events[j].name = n => events[j].obj.uid = t4s[n].uid
      BY <1>2, <3>1 DEF KInv, SeenSoon
    <3> QED
      BY <1>2, <1>3, <2>1, <3>2
  <2>2. CASE m # events[1].name
    <3>1. /\ m = n
          /\ \A i \in 1 .. Len(events) : events[i].name = n => events[i].obj.uid = t4s[n].uid
      BY <1>4, <2>2 DEF KInv, Seen
    <3> QED
      BY <1>2, <1>3, <3>1
  <2> QED
    BY <2>1, <2>2
<1>7. SeenSoon'
  <2> SUFFICES ASSUME NEW n \in Names, NEW i \in 1 .. Len(events'), t4s[n].uid # 0,
                      events'[i].obj.uid = t4s[n].uid
               PROVE  /\ events'[i].name = n
                      /\ \A j \in i .. Len(events') :
                           events'[j].name = n => events'[j].obj.uid = t4s[n].uid
    BY <1>3 DEF SeenSoon
  <2>1. i + 1 \in 1 .. Len(events) /\ events'[i] = events[i + 1]
    BY <1>2, <1>3
  <2>2. /\ events[i + 1].name = n
        /\ \A j \in i + 1 .. Len(events) : events[j].name = n => events[j].obj.uid = t4s[n].uid
    BY <2>1 DEF KInv, SeenSoon
  <2> QED
    BY <1>2, <1>3, <2>1, <2>2
<1>8. Known'
  <2> SUFFICES ASSUME up, NEW u \in Users, NEW n \in Names, req[u].stage = "Sent",
                      t4s[n].uid \in req[u].knew
               PROVE  cache'[n].uid = t4s[n].uid
    BY <1>3 DEF Known
  <2>1. cache[n].uid = t4s[n].uid /\ t4s[n].uid # 0
    BY UidFacts DEF KInv, Known
  <2>2. events[1].name = n => events[1].obj.uid = t4s[n].uid
    BY <1>2, <2>1 DEF KInv, Seen
  <2> QED
    BY <1>4, <2>1, <2>2
<1> QED
  BY <1>5, <1>6, <1>7, <1>8 DEF KInv

(* The steps of the store, the cache, the requests and the rest.            *)
LEMMA NextKInv == IInv /\ KInv /\ [Next]_vars => KInv'
<1> SUFFICES ASSUME IInv, KInv, [Next]_vars PROVE KInv'
  OBVIOUS
<1> USE DEF store, manager
<1>a. req \in [Users -> Requests] /\ t4s \in [Names -> T4s \cup {NoT4s}] /\ uids \in Nat
  BY UidFacts DEF IInv, ReqOK, StoreOK
<1>1. CASE \E u \in Users : Request(u) \/ Validate(u) \/ CreationFails(u)
  BY <1>1, RequestKInv
<1>2. CASE \E u \in Users : Store(u)
  <2> PICK u \in Users : Store(u)
    BY <1>2
  <2>1. req'[u] = NoRequest /\ \A v \in Users \ {u} : req'[v] = req[v]
    BY <1>a, AnswerTyped DEF Store
  <2>2. CASE UNCHANGED store
    <3>1. UNCHANGED <<t4s, events, up, cache>>
      BY <2>2 DEF Store
    <3> QED
      BY <3>1, <2>1, Objects DEF KInv, Unique, Seen, SeenSoon, Known, Admitted
  <2>3. CASE Put(req[u].name, [uid |-> uids + 1, going |-> FALSE])
    <3>1. req[u] \in Requests /\ req[u] # NoRequest
      BY <1>a, Objects DEF Store
    <3>2. req[u].name \in Names /\ [uid |-> uids + 1, going |-> FALSE] \in T4s
      BY <1>a, <3>1 DEF Requests, T4s
    <3>3. UNCHANGED manager
      BY DEF Store
    <3> QED
      BY <2>1, <2>3, <3>2, <3>3, PutKInv
  <2> QED
    BY <2>2, <2>3 DEF Store
<1>3. CASE \E n \in Names : DeleteT4s(n) \/ MarkT4sDeleted(n) \/ RemoveMarkedT4s(n)
  <2> PICK n \in Names : DeleteT4s(n) \/ MarkT4sDeleted(n) \/ RemoveMarkedT4s(n)
    BY <1>3
  <2>1. UNCHANGED <<req, manager>>
    BY DEF DeleteT4s, MarkT4sDeleted, RemoveMarkedT4s
  <2>2. CASE Put(n, NoT4s)
    BY <2>1, <2>2, PutKInv, Objects
  <2>3. CASE t4s[n] # NoT4s /\ Put(n, [t4s[n] EXCEPT !.going = TRUE])
    <3>1. t4s[n] \in T4s
      BY <1>a, <2>3
    <3> QED
      BY <2>1, <2>3, <3>1, PutKInv, Objects
  <2> QED
    BY <2>2, <2>3 DEF DeleteT4s, MarkT4sDeleted, RemoveMarkedT4s
<1>4. CASE SyncT4s
  BY <1>4, SyncKInv
<1>5. CASE UNCHANGED <<t4s, events, req, up, cache>>
  BY <1>5 DEF KInv, Unique, Seen, SeenSoon, Known, Admitted
<1>6. CASE Crash
  <2>1. /\ ~up' /\ Len(events') = 0 /\ \A n \in Names : cache'[n].uid = 0
        /\ UNCHANGED <<t4s, req>>
    BY <1>6, Objects DEF Crash
  <2> QED
    BY <2>1 DEF KInv, Unique, Seen, SeenSoon, Known, Admitted
<1>7. CASE Restart
  <2>1. Len(events') = 0 /\ cache' = t4s /\ UNCHANGED <<t4s, req>>
    BY <1>7 DEF Restart, IInv, DownOK
  <2> QED
    BY <2>1 DEF KInv, Unique, Seen, SeenSoon, Known, Admitted
<1>8. Reconcile \/ CallFails \/ CollectBoard \/ SyncBoard \/ (\E n \in Names : Requeue(n))
        \/ UNCHANGED vars => UNCHANGED <<t4s, events, req, up, cache>>
  BY DEF Reconcile, GetT4s, GetBoard, DeleteBoard, CreateBoard, CallFails, CollectBoard,
         SyncBoard, Requeue, vars
<1> QED
  BY <1>1, <1>2, <1>3, <1>4, <1>5, <1>6, <1>7, <1>8 DEF Next

(* A T4s that the manager knew when a creation was requested, and that is   *)
(* there still, keeps the new one out.                                      *)
THEOREM KnownT4sKeepsOthersOutCorrect == Spec => KnownT4sKeepsOthersOut
<1> DEFINE Out == uids' # uids =>
             \E u \in Users : req[u] # req'[u] /\ req[u].knew \cap Uids(t4s) = {}
<1>1. IInv /\ KInv /\ [Next]_vars => [Out]_vars
  <2> SUFFICES ASSUME IInv, KInv, Next, uids' # uids
               PROVE  \E u \in Users : req[u] # req'[u] /\ req[u].knew \cap Uids(t4s) = {}
    OBVIOUS
  <2>1. PICK u \in Users : Store(u)
    BY DEF Next, Reconcile, GetT4s, GetBoard, DeleteBoard, CreateBoard, CallFails, CollectBoard,
           SyncBoard, SyncT4s, Requeue, Crash, Restart, Request, Validate, ValidateCreate,
           NobodyValidates, CreationFails, DeleteT4s, MarkT4sDeleted, RemoveMarkedT4s, store
  <2>2. req'[u] = NoRequest /\ req[u].stage = "Admitted"
    BY <2>1, AnswerTyped DEF Store, IInv, ReqOK
  <2>3. req[u].knew \cap Uids(t4s) = {}
    BY <2>2 DEF KInv, Admitted, Uids
  <2> QED
    BY <2>2, <2>3, Objects
<1> QED
  BY <1>1, InitIInv, NextIInv, InitKInv, NextKInv, PTL DEF Spec, KnownT4sKeepsOthersOut
=============================================================================
