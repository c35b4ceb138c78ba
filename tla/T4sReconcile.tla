---------------------------- MODULE T4sReconcile ----------------------------
(***************************************************************************)
(* The T4s controller (controllers/t4s_controller.go): one worker that      *)
(* brings the Minoes, the Board and the objects of t4s-app in line with the *)
(* T4s, in this order, one API call per step.                               *)
(*                                                                          *)
(* It reads from informer caches, one per kind, each as old as it likes,    *)
(* and writes to the API server.  Only the T4s and the objects of t4s-app   *)
(* are watched: a change of a Board or a Mino puts nothing into the queue.  *)
(* A cache catches up with an object in one step that stands for all its    *)
(* events so far.  Meanwhile players start new games through t4s-app, users *)
(* edit the T4s and change or delete what the controller made.              *)
(***************************************************************************)
EXTENDS Integers, Sequences

CONSTANTS
  Specs,      \* the specs of the T4s: [size, wait, service]
  Minoes,     \* names of the Minoes of minoes.yaml, in the order of the file
  Children,   \* names of the objects of t4s-app, in the order of reconcileApp
  MaxGames,   \* bound: new games
  MaxIncidents  \* bound: edits of the T4s and of single objects, API errors, crashes

MinoNames  == {Minoes[i] : i \in 1 .. Len(Minoes)}
ChildNames == {Children[i] : i \in 1 .. Len(Children)}
Names      == MinoNames \cup ChildNames

ASSUME T4sAssumption ==
  /\ Minoes \in Seq(MinoNames) /\ Children \in Seq(ChildNames)
  /\ Specs \subseteq [size : Nat \ {0}, wait : Nat, service : Nat] /\ Specs # {}
  /\ MinoNames \cap ChildNames = {} /\ "Board" \notin Names
  /\ MaxGames \in Nat /\ MaxIncidents \in Nat

VARIABLES
  t4s,      \* the T4s: its spec, or Going once it has a DeletionTimestamp
  board,    \* the Board object "board", or NoBoard
  objects,  \* the content of each Mino and child, Absent if it is not there
  cache,    \* what the caches hold of the three: [t4s, board, objects]
  news,     \* Minoes and children whose latest events the caches have yet to get
  queued,   \* the work queue holds the T4s
  pc,       \* what Reconcile is at: an index of Plan, 0 when idle
  call,     \* the API call it makes next for Plan[pc]
  local,    \* the T4s it read, Going when idle
  seen,     \* the Board it had read when it decided on that call
  found,    \* likewise, for a Mino or a child
  game,     \* newBoard of t4s-app: the call it makes next
  gameSpec, \* the spec newBoard read, Going when there is no new game
  revision, \* the latest resourceVersion of a Board
  games, incidents

env    == <<t4s, objects, news, game, gameSpec, games>>
worker == <<queued, pc, call, local, seen, found>>
vars   == <<t4s, board, objects, cache, news, queued, pc, call, local, seen, found, game,
            gameSpec, revision, games, incidents>>

Going  == [size |-> 0, wait |-> 0, service |-> 0]
Absent == "Absent"
Fixed  == "Fixed"
Drift  == "Drift"     \* what a user made of it

(* A new Board takes its first resourceVersion for its UID, too. *)
Board ==
  [uid : Nat \ {0}, version : Nat \ {0}, size : Nat, wait : Nat, deleting : BOOLEAN]
NoBoard == [uid |-> 0, version |-> 0, size |-> 0, wait |-> 0, deleting |-> FALSE]

Present(b) == b # NoBoard /\ ~b.deleting

(* Only the Service depends on the spec. *)
Wanted(spec, name) == IF name = "Service" THEN <<Fixed, spec.service>> ELSE <<Fixed>>

Contents == {<<Fixed>>, <<Drift>>, <<Absent>>} \cup {<<Fixed, s.service>> : s \in Specs}

Plan == Minoes \o <<"Board">> \o Children

(* Types and bounds of the variables. *)
TypeOK ==
  /\ t4s \in Specs \cup {Going}
  /\ board \in Board \cup {NoBoard} /\ seen \in Board \cup {NoBoard}
  /\ objects \in [Names -> Contents]
  /\ cache \in [t4s : Specs \cup {Going}, board : Board \cup {NoBoard},
                objects : [Names -> Contents]]
  /\ found \in Contents /\ news \subseteq Names
  /\ queued \in BOOLEAN
  /\ pc \in 0 .. Len(Plan)
  /\ call \in {"Get", "Create", "Update", "Delete", "Patch"}
  /\ local \in Specs \cup {Going} /\ gameSpec \in Specs \cup {Going}
  /\ game \in {"Idle", "Delete", "Create"}
  /\ revision \in Nat /\ games \in 0 .. MaxGames /\ incidents \in 0 .. MaxIncidents

(* A T4s has just been created. *)
Init ==
  /\ t4s \in Specs
  /\ board = NoBoard
  /\ objects = [n \in Names |-> <<Absent>>]
  /\ cache = [t4s |-> t4s, board |-> board, objects |-> objects]
  /\ news = {}
  /\ queued = TRUE
  /\ pc = 0 /\ call = "Get" /\ local = Going /\ seen = NoBoard /\ found = <<Absent>>
  /\ game = "Idle" /\ gameSpec = Going
  /\ revision = 0 /\ games = 0 /\ incidents = 0

-----------------------------------------------------------------------------
Incident == incidents < MaxIncidents /\ incidents' = incidents + 1

(* Users. *)

EditT4s ==
  /\ Incident
  /\ t4s # Going /\ t4s' \in (Specs \ {t4s}) \cup {Going}
  /\ UNCHANGED <<board, objects, cache, news, worker, game, gameSpec, revision, games>>

(* A write that changes nothing is no event. *)
Write(name, c) ==
  /\ objects' = [objects EXCEPT ![name] = c]
  /\ news' = IF objects[name] = c THEN news ELSE news \cup {name}

EditObject(name) ==
  /\ Incident
  /\ objects[name] # <<Absent>>
  /\ \E c \in {<<Drift>>, <<Absent>>} : Write(name, c)
  /\ UNCHANGED <<t4s, board, cache, worker, game, gameSpec, revision, games>>

(* Every write of the stored Board b gives it the next resourceVersion.     *)
WriteBoard(b) == board' = [b EXCEPT !.version = revision + 1] /\ revision' = revision + 1

MarkBoardDeleted ==
  /\ Incident
  /\ Present(board)
  /\ WriteBoard([board EXCEPT !.deleting = TRUE])
  /\ UNCHANGED <<t4s, objects, cache, news, worker, game, gameSpec, games>>

RemoveMarkedBoard ==
  /\ board.deleting
  /\ board' = NoBoard
  /\ UNCHANGED <<env, cache, worker, revision, incidents>>

(* newBoard of t4s-app: reads the T4s, deletes the Board, creates another.  *)
(* Its pod is there some time after the first Board.                        *)
GameReadsT4s ==
  /\ game = "Idle" /\ games < MaxGames /\ revision > 0
  /\ games' = games + 1
  /\ t4s # Going
  /\ game' = "Delete" /\ gameSpec' = t4s
  /\ UNCHANGED <<t4s, board, objects, cache, news, worker, revision, incidents>>

(* getWait reads the T4s into the same variable. *)
GetWait ==
  /\ game = "Delete" /\ t4s \notin {Going, gameSpec}
  /\ gameSpec' = t4s
  /\ UNCHANGED <<t4s, board, objects, cache, news, worker, game, revision, games, incidents>>

(* A Board that is being deleted in the foreground stays for a while. *)
Deleted(b) == IF b.deleting THEN b ELSE NoBoard

GameDeletesBoard ==
  /\ game = "Delete"
  /\ board' = Deleted(board)
  /\ game' = "Create"
  /\ UNCHANGED <<t4s, objects, cache, news, worker, gameSpec, revision, games, incidents>>

NewBoard(spec) ==
  [uid |-> revision + 1, version |-> revision + 1,
   size |-> spec.size, wait |-> spec.wait, deleting |-> FALSE]

(* An error if there is a Board. *)
GameCreatesBoard ==
  /\ game = "Create"
  /\ IF board = NoBoard
     THEN board' = NewBoard(gameSpec) /\ revision' = revision + 1
     ELSE UNCHANGED <<board, revision>>
  /\ game' = "Idle" /\ gameSpec' = Going
  /\ UNCHANGED <<t4s, objects, cache, news, worker, games, incidents>>

(* newBoard gives up, a call of it fails, or the pod of t4s-app dies.       *)
GameEnds ==
  /\ game # "Idle"
  /\ game' = "Idle" /\ gameSpec' = Going
  /\ UNCHANGED <<t4s, board, objects, cache, news, worker, revision, games, incidents>>

-----------------------------------------------------------------------------
(* The caches and the queue. *)

SyncT4s ==
  /\ cache.t4s # t4s
  /\ cache' = [cache EXCEPT !.t4s = t4s]
  /\ queued' = TRUE
  /\ UNCHANGED <<env, board, pc, call, local, seen, found, revision, incidents>>

SyncBoard ==
  /\ cache.board # board
  /\ cache' = [cache EXCEPT !.board = board]
  /\ UNCHANGED <<env, board, worker, revision, incidents>>

Reload(name) ==
  /\ name \in news
  /\ news' = news \ {name}
  /\ cache' = [cache EXCEPT !.objects[name] = objects[name]]
  /\ UNCHANGED <<t4s, board, objects, pc, call, local, seen, found, game, gameSpec, revision, games,
                 incidents>>

\* Mutant: the objects of t4s-app are not watched.
SyncObjectUnwatched(name) == Reload(name) /\ UNCHANGED queued

(* The children are watched, the Minoes are not. *)
SyncObject(name) == Reload(name) /\ queued' = (queued \/ name \in ChildNames)

InSync == news = {} /\ cache = [t4s |-> t4s, board |-> board, objects |-> objects]

(* Every few hours the informers put everything into the queue again: the   *)
(* caches have caught up long before.                                       *)
Resync ==
  /\ ~queued /\ InSync
  /\ queued' = TRUE
  /\ UNCHANGED <<env, board, cache, pc, call, local, seen, found, revision, incidents>>

-----------------------------------------------------------------------------
(* Reconcile. *)

Return(err) ==
  /\ pc' = 0 /\ call' = "Get" /\ queued' = (queued \/ err)
  /\ local' = Going /\ seen' = NoBoard /\ found' = <<Absent>>

\* Mutant: does not notice the end.
AdvancePast ==
  /\ pc' = pc + 1 /\ call' = "Get" /\ UNCHANGED <<queued, local>>
  /\ seen' = NoBoard /\ found' = <<Absent>>

(* The next item of the plan, or the end. *)
Advance ==
  IF pc = Len(Plan) THEN Return(FALSE)
  ELSE /\ pc' = pc + 1 /\ call' = "Get" /\ UNCHANGED <<queued, local>>
       /\ seen' = NoBoard /\ found' = <<Absent>>

Make(c) ==
  /\ call' = c /\ UNCHANGED <<pc, queued, local>>
  /\ IF Plan[pc] = "Board"
     THEN seen' = cache.board /\ UNCHANGED found
     ELSE found' = cache.objects[Plan[pc]] /\ UNCHANGED seen

At(items, c) == pc # 0 /\ Plan[pc] \in items /\ call = c

GetT4s ==
  /\ pc = 0 /\ queued
  /\ queued' = FALSE
  /\ IF cache.t4s = Going
     THEN UNCHANGED <<pc, local>>
     ELSE pc' = 1 /\ local' = cache.t4s
  /\ UNCHANGED <<env, board, cache, call, seen, found, revision, incidents>>

(* reconcileMino: CreateOrUpdate. *)
GetMino ==
  /\ At(MinoNames, "Get")
  /\ LET c == cache.objects[Plan[pc]]
     IN  \/ c = <<Absent>> /\ Make("Create")
         \/ c = Wanted(local, Plan[pc]) /\ Advance
         \/ c \notin {<<Absent>>, Wanted(local, Plan[pc])} /\ Make("Update")
  /\ UNCHANGED <<env, board, cache, revision, incidents>>

(* Create fails if the Mino is there, Update if it is not what was read.    *)
Accepted == objects[Plan[pc]] = found

WriteMino ==
  /\ At(MinoNames, call) /\ call \in {"Create", "Update"}
  /\ \/ Accepted /\ Advance /\ Write(Plan[pc], Wanted(local, Plan[pc]))
     \/ ~Accepted /\ Return(TRUE) /\ UNCHANGED <<objects, news>>
  /\ UNCHANGED <<t4s, board, cache, game, gameSpec, revision, games, incidents>>

\* Mutant: the size is not compared.
GetBoardNoSize ==
  /\ At({"Board"}, "Get")
  /\ LET b == cache.board
     IN  \/ b = NoBoard /\ Make("Create")
         \/ b.deleting /\ Advance
         \/ Present(b) /\ b.wait # local.wait /\ Make("Update")
         \/ Present(b) /\ b.wait = local.wait /\ Advance
  /\ UNCHANGED <<env, board, cache, revision, incidents>>

(* reconcileBoard: what the cached Board calls for. *)
GetBoard ==
  /\ At({"Board"}, "Get")
  /\ LET b == cache.board
     IN  \/ b = NoBoard /\ Make("Create")
         \/ b.deleting /\ Advance
         \/ Present(b) /\ b.size # local.size /\ Make("Delete")
         \/ Present(b) /\ b.size = local.size /\ b.wait # local.wait /\ Make("Update")
         \/ Present(b) /\ b.size = local.size /\ b.wait = local.wait /\ Advance
  /\ UNCHANGED <<env, board, cache, revision, incidents>>

(* Deletes by name, whichever Board that is by now. *)
DeleteBoard ==
  /\ At({"Board"}, "Delete")
  /\ board' = Deleted(board)
  /\ IF board = NoBoard THEN Return(TRUE) ELSE Make("Create")
  /\ UNCHANGED <<env, cache, revision, incidents>>

CreateBoard ==
  /\ At({"Board"}, "Create")
  /\ IF board = NoBoard
     THEN board' = NewBoard(local) /\ revision' = revision + 1 /\ Advance
     ELSE Return(TRUE) /\ UNCHANGED <<board, revision>>
  /\ UNCHANGED <<env, cache, incidents>>

\* Mutant: an Update without resourceVersion, which takes whatever Board is there.
UpdateBoardAnyway ==
  /\ At({"Board"}, "Update")
  /\ IF board # NoBoard
     THEN WriteBoard([seen EXCEPT !.uid = board.uid, !.wait = local.wait]) /\ Advance
     ELSE Return(TRUE) /\ UNCHANGED <<board, revision>>
  /\ UNCHANGED <<env, cache, incidents>>

(* Sends the whole Board as it was read, with the new wait time.  The API   *)
(* server compares the resourceVersion.                                     *)
UpdateBoard ==
  /\ At({"Board"}, "Update")
  /\ IF board.version = seen.version
     THEN WriteBoard([seen EXCEPT !.wait = local.wait]) /\ Advance
     ELSE Return(TRUE) /\ UNCHANGED <<board, revision>>
  /\ UNCHANGED <<env, cache, incidents>>

(* reconcileServiceAccount, -Role, -RoleBinding, -Deployment and -Service.  *)
GetChild ==
  /\ At(ChildNames, "Get")
  /\ IF cache.objects[Plan[pc]] = Wanted(local, Plan[pc]) THEN Advance ELSE Make("Patch")
  /\ UNCHANGED <<env, board, cache, revision, incidents>>

(* A forced server-side apply creates the object or overrides all others.   *)
PatchChild ==
  /\ At(ChildNames, "Patch")
  /\ Write(Plan[pc], Wanted(local, Plan[pc]))
  /\ Advance
  /\ UNCHANGED <<t4s, board, cache, game, gameSpec, revision, games, incidents>>

(* A call fails, or Update meets a Board whose status has just changed.  A  *)
(* call that is carried out and not answered is one that succeeds followed  *)
(* by this.                                                                 *)
CallFails ==
  /\ pc # 0
  /\ Incident
  /\ Return(TRUE)
  /\ UNCHANGED <<env, board, cache, revision>>

(* The manager restarts: the first lists fill caches and queue. *)
Crash ==
  /\ Incident
  /\ cache' = [t4s |-> t4s, board |-> board, objects |-> objects] /\ news' = {}
  /\ pc' = 0 /\ call' = "Get" /\ queued' = TRUE
  /\ local' = Going /\ seen' = NoBoard /\ found' = <<Absent>>
  /\ UNCHANGED <<t4s, board, objects, game, gameSpec, revision, games>>

-----------------------------------------------------------------------------
Reconcile == \/ GetT4s \/ GetMino \/ WriteMino
             \/ GetBoard \/ DeleteBoard \/ CreateBoard \/ UpdateBoard
             \/ GetChild \/ PatchChild

Game == GameDeletesBoard \/ GameCreatesBoard

Next ==
  \/ Reconcile \/ CallFails \/ Crash
  \/ EditT4s \/ (\E n \in Names : EditObject(n)) \/ MarkBoardDeleted \/ RemoveMarkedBoard
  \/ GameReadsT4s \/ GetWait \/ Game \/ GameEnds
  \/ SyncT4s \/ SyncBoard \/ (\E n \in Names : SyncObject(n)) \/ Resync

Spec == Init /\ [][Next]_vars

(* The worker, the watches, the resync, the garbage collector and the       *)
(* handler of t4s-app go on by themselves.                                  *)
FairSpec ==
  /\ Spec
  /\ WF_vars(Reconcile) /\ WF_vars(SyncT4s) /\ WF_vars(SyncBoard)
  /\ \A n \in Names : WF_vars(SyncObject(n))
  /\ WF_vars(Resync) /\ WF_vars(RemoveMarkedBoard) /\ WF_vars(Game)

-----------------------------------------------------------------------------
Idle == pc = 0 /\ ~queued

(* With nothing queued and the caches up to date, the objects of t4s-app    *)
(* are what the T4s asks for, whoever changed or deleted them meanwhile and *)
(* whichever version of them the controller compared.                       *)
QuietChildrenMatch ==
  Idle /\ InSync /\ t4s # Going =>
    \A n \in ChildNames : objects[n] = Wanted(t4s, n)

(* The update of the wait time sends back a whole Board that was read from  *)
(* a cache.  Neither a stale cache nor a new game or a deletion between the *)
(* read and the write lets it put the Board it read in the place of another *)
(* one, change the size under a game, or take back a deletion.              *)
OnlyWaitChanges ==
  [][board # NoBoard /\ board' # NoBoard =>
       /\ board'.uid = board.uid /\ board'.size = board.size
       /\ board.deleting => board'.deleting]_vars

Matches(b, spec) == b # NoBoard /\ b.size = spec.size /\ b.wait = spec.wait

(* Boards are not watched, so a new game that read the T4s before an edit   *)
(* may leave a Board of the old spec with nothing queued.  The periodic     *)
(* resync makes up for it: a T4s that stays gets its Board in the end,      *)
(* stale caches, new games, errors and crashes notwithstanding.             *)
BoardFollowsT4s == <>[](t4s # Going => Matches(board, t4s))
=============================================================================
