---------------------------- MODULE T4sNamespace ----------------------------
(***************************************************************************)
(* The T4s of one namespace, from the webhook that admits them              *)
(* (api/v1/t4s_webhook.go) to the collector that removes what they leave.   *)
(*                                                                          *)
(* A creation has three steps: the request, the webhook's check of the      *)
(* manager's cache, and the write to the store, which no check guards any   *)
(* more.  The cache receives the events of the store in their order, as     *)
(* late as it likes.  The same cache serves the T4s controller, of which    *)
(* this module has what reconcileBoard does: every T4s of the namespace     *)
(* wants the one Board "board" for its own, and Boards are not watched.     *)
(***************************************************************************)
EXTENDS Integers, Sequences

CONSTANTS
  Users,        \* clients that create T4s, one request at a time each
  Names,        \* names of T4s
  SizeOf,       \* size of the Board that the T4s of a name asks for
  MaxT4s,       \* bound: T4s ever created
  MaxIncidents  \* bound: deletions, failing calls and crashes

ASSUME NamespaceAssumption ==
  /\ SizeOf \in [Names -> Nat \ {0}]
  /\ MaxT4s \in Nat /\ MaxIncidents \in Nat

VARIABLES
  t4s,      \* the T4s of each name, or NoT4s
  uids,     \* UIDs given to T4s so far
  board,    \* the Board, or NoBoard
  req,      \* each user's request: its stage, name and what it knew
  up,       \* the manager, with its webhook, is running
  cache,    \* the T4s in the manager's cache
  events,   \* changes of T4s that the cache has yet to receive
  boardSeen,  \* the Board in the manager's cache
  queued,   \* names in the work queue
  pc,       \* the call reconcileBoard makes next, "Idle" when it is not running
  local,    \* the name and UID that Reconcile read, NoLocal when idle
  incidents

store   == <<t4s, uids, events>>
manager == <<up, cache, boardSeen, queued, pc, local>>
vars    == <<store, board, req, manager, incidents>>

T4s   == [uid : Nat \ {0}, going : BOOLEAN]
NoT4s == [uid |-> 0, going |-> FALSE]
Board   == [owner : Nat, size : Nat \ {0}]
NoBoard == [owner |-> 0, size |-> 0]
NoLocal == [name |-> "", uid |-> 0]
NoRequest == [stage |-> "None", name |-> "", knew |-> {}]
Event == [name : Names, obj : T4s \cup {NoT4s}]

Uids(f) == {f[n].uid : n \in Names} \ {0}

TypeOK ==
  /\ t4s \in [Names -> T4s \cup {NoT4s}] /\ cache \in [Names -> T4s \cup {NoT4s}]
  /\ uids \in 0 .. MaxT4s
  /\ events \in Seq(Event)
  /\ board \in Board \cup {NoBoard} /\ boardSeen \in Board \cup {NoBoard}
  /\ req \in [Users -> [stage : {"Sent", "Admitted"}, name : Names, knew : SUBSET (1 .. MaxT4s)]
                         \cup {NoRequest}]
  /\ up \in BOOLEAN
  /\ queued \subseteq Names
  /\ pc \in {"Idle", "Get", "Delete", "Create"}
  /\ local \in [name : Names, uid : 1 .. MaxT4s] \cup {NoLocal}
  /\ incidents \in 0 .. MaxIncidents

Empty == [n \in Names |-> NoT4s]

Init ==
  /\ t4s = Empty /\ uids = 0 /\ board = NoBoard
  /\ req = [u \in Users |-> NoRequest]
  /\ up = TRUE /\ cache = Empty /\ events = <<>> /\ boardSeen = NoBoard
  /\ queued = {} /\ pc = "Idle" /\ local = NoLocal
  /\ incidents = 0

Incident == incidents < MaxIncidents /\ incidents' = incidents + 1

-----------------------------------------------------------------------------
(* Creations. *)

Request(u) ==
  /\ req[u] = NoRequest /\ uids < MaxT4s
  /\ \E n \in Names :
       req' = [req EXCEPT ![u] = [stage |-> "Sent", name |-> n, knew |-> Uids(cache)]]
  /\ UNCHANGED <<store, board, manager, incidents>>

Answer(u) == req' = [req EXCEPT ![u] = NoRequest]

\* Mutant: an off-by-one, no number of T4s is small enough.
ValidateCreateNever(u) ==
  /\ up /\ req[u].stage = "Sent"
  /\ Answer(u)
  /\ UNCHANGED <<store, board, manager, incidents>>

\* Mutant: a T4s that is being deleted does not count.
ValidateCreateSparesGoing(u) ==
  /\ up /\ req[u].stage = "Sent"
  /\ IF \A n \in Names : cache[n] = NoT4s \/ cache[n].going
     THEN req' = [req EXCEPT ![u].stage = "Admitted"]
     ELSE Answer(u)
  /\ UNCHANGED <<store, board, manager, incidents>>

(* Lists the T4s of the namespace, whatever their names and whether or not  *)
(* they are being deleted.                                                  *)
ValidateCreate(u) ==
  /\ up /\ req[u].stage = "Sent"
  /\ IF cache = Empty
     THEN req' = [req EXCEPT ![u].stage = "Admitted"]
     ELSE Answer(u)
  /\ UNCHANGED <<store, board, manager, incidents>>

(* failurePolicy=fail: no webhook, no T4s. *)
NobodyValidates(u) ==
  /\ ~up /\ req[u].stage = "Sent"
  /\ Answer(u)
  /\ UNCHANGED <<store, board, manager, incidents>>

(* The List of the webhook fails, or a call times out. *)
CreationFails(u) ==
  /\ Incident
  /\ req[u] # NoRequest
  /\ Answer(u)
  /\ UNCHANGED <<store, board, manager>>

(* A write of the store and its event. *)
Put(n, obj) ==
  /\ t4s' = [t4s EXCEPT ![n] = obj]
  /\ events' = IF up THEN Append(events, [name |-> n, obj |-> obj]) ELSE events

(* The API server stores what was admitted unless the name is taken.        *)
Store(u) ==
  /\ req[u].stage = "Admitted" /\ uids < MaxT4s
  /\ IF t4s[req[u].name] = NoT4s
     THEN Put(req[u].name, [uid |-> uids + 1, going |-> FALSE]) /\ uids' = uids + 1
     ELSE UNCHANGED store
  /\ Answer(u)
  /\ UNCHANGED <<board, manager, incidents>>

-----------------------------------------------------------------------------
(* Deletions and the garbage collector. *)

DeleteT4s(n) ==
  /\ Incident
  /\ t4s[n] # NoT4s /\ ~t4s[n].going
  /\ Put(n, NoT4s)
  /\ UNCHANGED <<uids, board, req, manager>>

(* Deletion in the foreground: the T4s waits for its Board to go.           *)
MarkT4sDeleted(n) ==
  /\ Incident
  /\ t4s[n] # NoT4s /\ ~t4s[n].going
  /\ Put(n, [t4s[n] EXCEPT !.going = TRUE])
  /\ UNCHANGED <<uids, board, req, manager>>

RemoveMarkedT4s(n) ==
  /\ t4s[n].going /\ board.owner # t4s[n].uid
  /\ Put(n, NoT4s)
  /\ UNCHANGED <<uids, board, req, manager, incidents>>

(* It has an owner, which is not there any more or is waiting for this.     *)
CollectBoard ==
  /\ board.owner # 0
  /\ \A n \in Names : t4s[n].uid = board.owner => t4s[n].going
  /\ board' = NoBoard
  /\ UNCHANGED <<store, req, manager, incidents>>

-----------------------------------------------------------------------------
(* The caches and the queue. *)

SyncT4s ==
  /\ up /\ events # <<>>
  /\ LET e == Head(events)
     IN  cache' = [cache EXCEPT ![e.name] = e.obj] /\ queued' = queued \cup {e.name}
  /\ events' = Tail(events)
  /\ UNCHANGED <<t4s, uids, board, req, up, boardSeen, pc, local, incidents>>

SyncBoard ==
  /\ up /\ boardSeen # board
  /\ boardSeen' = board
  /\ UNCHANGED <<store, board, req, up, cache, queued, pc, local, incidents>>

(* An event of an object of t4s-app, or the periodic resync.                *)
Requeue(n) ==
  /\ up /\ cache[n] # NoT4s /\ n \notin queued
  /\ queued' = queued \cup {n}
  /\ UNCHANGED <<store, board, req, up, cache, boardSeen, pc, local, incidents>>

InSync == events = <<>> /\ boardSeen = board

-----------------------------------------------------------------------------
(* The T4s controller. *)

Return(err) ==
  /\ pc' = "Idle" /\ local' = NoLocal
  /\ queued' = IF err THEN queued \cup {local.name} ELSE queued

\* Mutant: goes on with whatever the cache has for the name.
GetT4sUnchecked(n) ==
  /\ up /\ pc = "Idle" /\ n \in queued
  /\ queued' = queued \ {n}
  /\ pc' = "Get" /\ local' = [name |-> n, uid |-> cache[n].uid]
  /\ UNCHANGED <<store, board, req, up, cache, boardSeen, incidents>>

GetT4s(n) ==
  /\ up /\ pc = "Idle" /\ n \in queued
  /\ queued' = queued \ {n}
  /\ IF cache[n] = NoT4s \/ cache[n].going
     THEN UNCHANGED <<pc, local>>
     ELSE pc' = "Get" /\ local' = [name |-> n, uid |-> cache[n].uid]
  /\ UNCHANGED <<store, board, req, up, cache, boardSeen, incidents>>

Make(c) == pc' = c /\ UNCHANGED <<local, queued>>

(* Whose Board it is is not looked at. *)
GetBoard ==
  /\ pc = "Get"
  /\ \/ boardSeen = NoBoard /\ Make("Create")
     \/ boardSeen # NoBoard /\ boardSeen.size # SizeOf[local.name] /\ Make("Delete")
     \/ boardSeen # NoBoard /\ boardSeen.size = SizeOf[local.name] /\ Return(FALSE)
  /\ UNCHANGED <<store, board, req, up, cache, boardSeen, incidents>>

DeleteBoard ==
  /\ pc = "Delete"
  /\ board' = NoBoard
  /\ IF board = NoBoard THEN Return(TRUE) ELSE Make("Create")
  /\ UNCHANGED <<store, req, up, cache, boardSeen, incidents>>

\* Mutant: the Board gets no controller reference.
CreateBoardUnowned ==
  /\ pc = "Create"
  /\ IF board = NoBoard
     THEN board' = [owner |-> 0, size |-> SizeOf[local.name]] /\ Return(FALSE)
     ELSE UNCHANGED board /\ Return(TRUE)
  /\ UNCHANGED <<store, req, up, cache, boardSeen, incidents>>

CreateBoard ==
  /\ pc = "Create"
  /\ IF board = NoBoard
     THEN board' = [owner |-> local.uid, size |-> SizeOf[local.name]] /\ Return(FALSE)
     ELSE UNCHANGED board /\ Return(TRUE)
  /\ UNCHANGED <<store, req, up, cache, boardSeen, incidents>>

CallFails ==
  /\ Incident
  /\ pc # "Idle"
  /\ Return(TRUE)
  /\ UNCHANGED <<store, board, req, up, cache, boardSeen>>

Crash ==
  /\ Incident
  /\ up /\ up' = FALSE
  /\ cache' = Empty /\ events' = <<>> /\ boardSeen' = NoBoard
  /\ queued' = {} /\ pc' = "Idle" /\ local' = NoLocal
  /\ UNCHANGED <<t4s, uids, board, req>>

(* The webhook answers once the first list has filled the cache.            *)
Restart ==
  /\ ~up /\ up' = TRUE
  /\ cache' = t4s /\ boardSeen' = board
  /\ queued' = {n \in Names : t4s[n] # NoT4s}
  /\ UNCHANGED <<store, board, req, pc, local, incidents>>

-----------------------------------------------------------------------------
Reconcile == (\E n \in Names : GetT4s(n)) \/ GetBoard \/ DeleteBoard \/ CreateBoard

Validate(u) == ValidateCreate(u) \/ NobodyValidates(u)

Next ==
  \/ Reconcile \/ CallFails \/ Crash \/ Restart
  \/ SyncT4s \/ SyncBoard \/ CollectBoard
  \/ \E u \in Users : Request(u) \/ Validate(u) \/ CreationFails(u) \/ Store(u)
  \/ \E n \in Names : DeleteT4s(n) \/ MarkT4sDeleted(n) \/ RemoveMarkedT4s(n) \/ Requeue(n)

Spec == Init /\ [][Next]_vars

(* The manager comes back, and it, its informers and the collector go on by *)
(* themselves; the resync finds the caches up to date.  Users need not ask. *)
FairSpec ==
  /\ Spec
  /\ WF_vars(Restart) /\ WF_vars(Reconcile) /\ WF_vars(SyncT4s) /\ WF_vars(SyncBoard)
  /\ WF_vars(CollectBoard)
  /\ \A n \in Names : WF_vars(RemoveMarkedT4s(n)) /\ WF_vars(InSync /\ Requeue(n))
  /\ \A u \in Users : WF_vars(Validate(u))

-----------------------------------------------------------------------------
(* A T4s that the manager knew when a creation was requested, and that is   *)
(* still there, keeps the new one out: only creations closer together than  *)
(* the cache is late can both succeed, a crash of the manager or a deletion *)
(* in the foreground meanwhile notwithstanding.                             *)
KnownT4sKeepsOthersOut ==
  [][uids' # uids =>
       \E u \in Users : req[u] # req'[u] /\ req[u].knew \cap Uids(t4s) = {}]_vars

(* The namespace opens again: once its last T4s is gone, creations are not  *)
(* refused for ever.                                                        *)
NamespaceReopens ==
  <>[](t4s = Empty) =>
    <>[][\A u \in Users : req[u].stage = "Sent" => req'[u] # NoRequest]_vars

Alone(n) == t4s[n] # NoT4s /\ ~t4s[n].going /\ \A m \in Names \ {n} : t4s[m] = NoT4s

(* A T4s that is, or is left, alone gets a Board of its own in the end,     *)
(* though it may have found one of another T4s, or of one of its own name   *)
(* from before, which the collector then took away.                         *)
LastT4sHasBoard ==
  \A n \in Names : <>[]Alone(n) => <>[](board.owner = t4s[n].uid)

(* When all T4s are gone, so is the Board, even if a cache that was late    *)
(* had the controller create it for a T4s that was gone already.            *)
NothingLeftBehind == <>[](t4s = Empty) => <>[](board = NoBoard)
=============================================================================
