# Formal models of t4s

t4s is a Tetris played by Kubernetes controllers.  This directory holds TLA+
specifications of the program in `src/`, TLC configurations that check them on
small instances, and proofs checked by TLAPS.

1. Inventory. 2. Modules. 3. Runs. 4. Bounds. 5. Fairness. 6. Proofs.
7. Disagreements found. 8. Not modelled. 9. Plan.

## 1. Inventory

| Component | State it keeps | Operations | Hard behaviour | What makes it correct |
|---|---|---|---|---|
| Board controller, rules of the game (`controllers/board_controller.go`, functions below `Reconcile`) | the `status` of a Board: grid `data`, `currentMino` (0 or 1), `state` | initialise, `newMino`, `moveCurrentMino` (down, left, right, rotate, drop), `checkRemoveRows` | a dropped mino is in the grid and still current; rows copied inside one array; boundary rows; indexing without checks | the mino is always on the board and either falling or resting where it was written; no index panics; filled cells change only when a row is removed; a finished game stays |
| Board controller, `Reconcile` against the API server | nothing between calls; everything is in the API server and the work queue | Get, List Minoes, List and Delete Actions, create, update or delete the Cron, update the status | every call can race with t4s-app, the T4s controller, the Cron controller and the garbage collector, fail, time out, or be the last before a crash | it implements the game atomically, handles an Action at most once, leaves nothing unhandled at rest, and keeps the Cron in step with the state |
| Cron controller (`controllers/cron_controller.go`) | the delayed entry of its work queue | create a "down" Action, requeue after `period` | cached reads, requeue timer against events, period 0 | a playing Board keeps getting "down"; no second heartbeat; it stops with the Cron, and starts anew after a period of 0 |
| T4s controller (`controllers/t4s_controller.go`) | nothing between calls | Minoes, Board, ServiceAccount, Roles, RoleBindings, Deployment, Service | cached reads, deletes by name, Boards and Minoes not watched, new games in between | children and Board follow the T4s; a wait update never carries another Board's size |
| t4s-app (`app/app.go`) | package variables `TargetBoard`, `BoardUID`, `TargetT4s` | get board, new game, post action | handlers run concurrently on variables no lock protects; delete and create are two calls; restarts; answers decoded into used objects | Actions are owned by the present Board; a new game can always be started; getBoard indexes within the board when nobody interferes |
| T4s webhook (`api/v1/t4s_webhook.go`) | none; it reads the manager's cache | validate creation | checks a cached list, then the API server creates; the T4s of a namespace share the Board `board` | at most one T4s per namespace, as far as the cache can tell; the namespace opens again |
| Web client (`app/static/main.js`) | canvas, poll interval, colours | poll, draw, post | polls overlap and are answered in any order | what is drawn is the Board that is there |
| Manager (`main.go`), manifests (`config/`) | none | start the controllers | restarts | |

The parts talk through API objects alone:

* t4s-app and the Cron controller create **Actions**; the Board controller
  watches them, handles the first it lists and deletes all it listed.
* The Board controller creates, updates and deletes the **Cron**; the Cron
  controller reads it from a cache.
* The T4s controller and t4s-app both create and delete the **Board** `board`,
  the T4s controller also updates its wait time; all T4s of a namespace
  mean the same Board.
* The webhook reads the T4s from the cache that the Cron and the T4s controller
  read from; the Board controller reads from the API server.
* The page polls t4s-app, which reads the Board into one object for all polls.
* The garbage collector deletes Actions, Crons and Boards whose owner is gone.

`PROJECT.json` lists, under `hazards`, each place where this goes wrong in ways
that a test hardly reaches, with the properties that watch it.

## 2. Modules

| Module | Models | State | Actions |
|---|---|---|---|
| `Playfield` | the pure functions of `board_controller.go`: `isCollision`, `setAbsoluteCoords`, `newMino`, `moveCurrentMino`, `checkRemoveRows`, initialisation | none; operators on a `status` record | – |
| `BoardGame` | the abstract promise: one Board whose status changes by whole reconciles | `specState` ("Absent" without a Board), `status` | `CreateBoard`, `DeleteBoard`, `ReconcileIdle`, `ReconcileOp(op)` |
| `RowDropLoop` | the loop of `checkRemoveRows` that copies rows inside one array, one iteration per step | `data`, `removeYs`, `y`, `newY` | `SkipRow`, `CopyRow` |
| `BoardReconcile` | `Reconcile`, `reconcileAction`, `reconcileCron` of the Board controller, one API call per step, and the API server, the watch, the queue, the collector and the other writers around it | the Board, the Actions, the Cron; queue flags; `pc` and the locals of the one worker | one per API call, its lost answer, its failure; one per other actor |
| `CronTicker` | the Cron controller with its cache, work queue and delayed entry, and the clock | `cron`, `feed`, `cached`, `queued`, `timer`, `pc`, `local` | `GetCron`, `CreateAction` and their failures; `Deliver`, `Fire`, `Pass`, `Crash` |
| `AppServer` | the handlers of t4s-app, one API call or shared assignment per step, any number of requests | `board`, `target` (`*TargetBoard`), `boardUID`, `pc` per request | `GetT4s`, `Delete`, `Replace`, `Create`, `SetUid` (= `newBoard`), `GetBoard`, `PostAction`, `Restart`, other actors |
| `T4sReconcile` | the T4s controller, one API call per step, with its caches, and new games, users, collector | `t4s`, `board`, `objects`, `cache`, `queued`, `pc`/`call` into `Plan` | `GetT4s`, `GetMino`, `WriteMino`, `GetBoard`, `DeleteBoard`, `CreateBoard`, `UpdateBoard`, `GetChild`, `PatchChild`, failures, others |
| `T4sNamespace` | the webhook, the cache as a stream of events, `reconcileBoard` and the collector, for all T4s of one namespace | `t4s` per name, `board`, `req` per user, `cache`, `events`, `boardSeen`, `queued`, `pc`, `local` | `Request`, `ValidateCreate`, `Store`; deletions; `SyncT4s`, `SyncBoard`; `GetT4s`, `GetBoard`, `DeleteBoard`, `CreateBoard`; `Crash`, `Restart` |
| `BoardView` | the polls of the page, `getBoard` and `newBoard` of t4s-app on the shared `TargetBoard`, one field read or written per step | `board`, `target` (the pointer), `objects` (what it has pointed to), `req` per request, `canvas` | `FetchBoard`, `GetBoard`, `DecodeMino`, `DecodeData` (= line 96), `TakeData`, `CheckMino`, `ReadCoords`, `StampMino`, `Panic` (= lines 106-114), `EncodeBoard`, `ReceiveBoard`, `NewBoard`, failures, changes of the Board |
| `MC*` | small constants for TLC | | |
| `*_proofs` | theorems, section 6 | | |

`BoardReconcile` extends `Playfield` and implements `BoardGame`: the instance
`Game` maps `specState` and `status` to those of the stored Board, and the run
`system` checks that the initial state and every step that changes the stored
Board are ones of `Game`.  It also composes the controller with the heartbeat:
`Beat` is the Cron controller as `CronTicker` shows it to behave, an Action for
the owner of the Cron again and again while there is one.  `RowDropLoop` shows that the loop in the
code computes the closed form `DropRows` that `Playfield` uses.  Its definitions
are named `Loop...` because `BoardGame_proofs` speaks of it and of `BoardGame`.

Abstractions that hold in all modules.  Metrics and logging are left out.
Names are fixed (one Board, one Cron per namespace, and one T4s but in
`T4sNamespace`).  A
resourceVersion matters only by being the one that was read; `T4sReconcile` has
it as a number, because the T4s controller sends a whole object that it took
from its cache.  Deletions happen
at once, or leave a Board that is marked and goes later.  A call either takes
effect or not; it may take effect without its answer getting back.  The order
of listed Actions is arbitrary since their names are random.

Particular to a module:

* `Playfield` keeps a status as the code does, `currentMino` as a sequence of
  at most one mino.  A mino's coordinates are a set; the order in the file
  decides nothing.
* `BoardReconcile`: the client of this controller is not cached for Boards,
  Actions, Minoes and Crons, so reads are of the API server.  Events only carry
  the Board's name, so those on their way are one flag.
* `CronTicker`: events are a sequence, because each of them queues the Cron
  and may come with its timer.  Work-queue backoff is any time up to
  `MaxPeriod`.
* `BoardReconcile`: the ids of Actions are used again once nothing refers to
  them, so the number of Actions in a behaviour is not bounded.  Any Action
  that is listed may come first.
* `AppServer`: `target` is what `TargetBoard` points to now.  `Read` of a Board
  that is not found leaves it alone, as `Get` does, and an answer without a
  DeletionTimestamp leaves the one that is there (`ReadInto`).  One getBoard is
  watched, which is any of those under way.  Each assignment is one step.
* `T4sReconcile`: an object of t4s-app is as wanted, drifted or absent; only
  the Service depends on the spec.  The caches take in all events of an object
  at once, and a child that changed and changed back is still an event
  (`news`).
* `T4sNamespace`: the cache receives the events of the T4s in their order;
  a second T4s of a namespace is only possible while it is late.  Of the T4s
  controller there is `reconcileBoard`; sizes are given per name, the wait time
  is in `T4sReconcile`.  A user has one request at a time.
* `BoardView`: one column, so that a coordinate is a row.  `json:"omitempty"`
  leaves a coordinate of 0, an empty `currentMino` and an unset `data` out of
  the API server's answer, and decoding keeps what the object held before
  (`ReadMino`, `ReadData`); `currentMino` comes before `data` in the answer.
  A handler passes the pointer it reads first to `Get`, and reads `TargetBoard`
  again for the Data, for the length of `currentMino`, for its coordinates and
  for its id.  The Data it took is a slice: a length of its own, and the array of
  the object it was taken from (`objects` is kept for that), whose capacity is
  taken to be enough for every height: growing would copy the rows, which are
  slices themselves and stay shared.  A failing call reaches the page as a JSON object without rows,
  which `draw` shows as a blank canvas; `response.ok` is not looked at.  A
  panic ends the handler and its connection.

## 3. Runs

| Run | Question | Properties |
|---|---|---|
| `row_drop_loop` | is the in-place loop right for every set of removed rows? | `UnreadRowsIntact`, `LoopIsDropRows`, `RowsFallPastRemoved` |
| `game` | do the rules keep the status well formed, with every op in every order, and does a mino come down? | `StatusInv` (the type invariant is part of it), `NoIndexPanic`, `DropEnds`, `DropThenDownLands`, `FilledCellsChangeOnlyOnRemoval`, `GameOverIsFinal`, `MinoLands` |
| `system` | does the reconcile loop implement the game, at most once, finish its work, keep the Cron in step with the Board, and does the heartbeat bring every mino down through it? | `ImplementsGame`, `AtMostOnce`, `QuietBoardIsReconciled`, `OnlyCollectorLosesCron`, `ComesToRest`, `MinoComesDown` |
| `heartbeat` | does the heartbeat go on, stay single and stop? | `HeartbeatArmed`, `BeatsApart`, `HeartbeatGoesOn`, `HeartbeatStops` |
| `new_game_races` | does a new game left alone repair what races and faults did, and what keeps players from one for ever? | `NewGameRepairsOwner`, `NewGameSucceeds`, `RefusesForGoodReason` |
| `t4s` | do the objects of t4s-app and the Board follow the T4s, and only in ways the code means? | `QuietChildrenMatch`, `OnlyWaitChanges`, `BoardFollowsT4s` |
| `namespace` | what does the webhook's check guarantee, and what becomes of T4s that share a Board? | `KnownT4sKeepsOthersOut`, `NamespaceReopens`, `LastT4sHasBoard`, `NothingLeftBehind` |
| `view` | does the page end up showing the Board, and is a getBoard that is left alone safe from what others left behind? | `AloneIsSafe`, `GhostsFade` |

`TypeOK` (`LoopTypeOK` of the loop) is checked in each of the other modules besides.  The runs `row_removal`,
`gc_cron`, `two_requests` and `app_restart`, marked `violation`, are the
disagreements of section 7.  Each property of a passing
run has a mutant of the code that breaks it; the mutants are definitions marked
`\* Mutant` next to the definition they change.

`QuietCronMatchesBoard` is violated in `gc_cron`: the collector decides from its
cache and deletes later, with the UID as its only precondition.
`OnlyCollectorLosesCron` shows that this is the only way: `cronLost` is set when
the collector deletes a Cron whose owner is there, and cleared by the next
write of it.

`MinoComesDown` names what may keep a mino up: no Cron for that same reason, a
Board that goes, or Actions of an earlier Board.  When the collector removes an
Action between the List and the Delete, the Delete answers NotFound, the
reconcile is given up, and the effect of the "down" it had handled with it; as
long as such Actions keep coming the game may stand still.

`BeatsApart` is about two beats apart, not one: a worker that is late with one
beat brings the next close to it.  The count `calm` of undisturbed beats is 3,
which is tight: with 2 TLC finds a violation.

## 4. Bounds

* A Board of 3×4 cells for the game, of 7 rows for the loop.  On 3×4 a mino can
  fall, be blocked on either side, complete one or two rows, and a removal can
  reach the top row; the loop's run has every pattern of removed rows with kept
  rows above, below and between.  The minoes have one to three cells; the
  shipped ones need boards that TLC does not exhaust, and are within what the
  theorems cover.
* `BoardReconcile`: 2 Boards, so that a Board is recreated under a running
  reconcile; 2 Actions at a time, so that one is handled and one dropped, of the
  ops "down" and "rotate", so that players can keep the heartbeat's from being
  handled; 1 error, lost answer, crash or change of the wait time at any point.
  The smallest board the CRD allows with a single dot, since the rules are
  checked in `game`.  `gc_cron` needs neither Actions nor incidents.
* `CronTicker`: periods 0, 1 and 3 of a clock that saturates at 3, three writes
  (create, update, delete) and one fault.  A timer that should be set anew and
  one that should be kept both occur with two periods.
* `AppServer`: 2 requests, 4 Boards, 2 faults; a Board is kept in reserve for
  each request under way so that no behaviour ends for lack of Boards in the
  middle of a new game.
* `T4sReconcile`: three specs, which differ in the size alone and in wait and
  service; a Mino, the Board and the Service, which are one object of each kind
  of step; one new game; two edits, errors or crashes at any point.
* `T4sNamespace`: two users and two names with Boards of different sizes; two
  T4s are created; two deletions, errors or crashes.  That is enough for two
  T4s at once, for one deleted and created again with the same name or the
  other, in the background or the foreground, and for a crash in between.
* `BoardView`: Boards of heights 1 and 2, which has a mino outside the smaller
  one; two requests, so that one takes any of its steps between any two of the
  other; one change of the Board, restart or failure besides the first status,
  and what t4s-app has read at first may be an earlier Board, so that two Boards
  may have been replaced.  With two changes the states are too many to exhaust;
  the theorems are for any number.

## 5. Fairness

Only what the scheduling of the code gives.  The worker of a controller takes
every step it can (`Reconcile`); watches deliver; delayed entries of the queue
come due; the clock passes; the collector and foreground deletions finish; a
handler of t4s-app runs on; a manager that is down is started again; the page's
timer goes off.  All modules bound the number of faults, so an error does not
happen for ever.  `MinoLands` assumes that
"down" is handled again and again, which the random choice among listed Actions
gives with probability one; `MinoComesDown` assumes the same of a "down" that is
listed again and again (strong fairness of `ListDown`), and of the heartbeat
that it creates a "down" although the bound on Actions blocks it at times (strong
fairness of `Beat`; without the bound it would be weak).  `NewGameStarts` and
`RefusesForGoodReason` assume that players go on asking
and that clients poll.  `BoardFollowsT4s` assumes the resync of the informers
(ten hours by default); without it the property does not hold (section 7).  `LastT4sHasBoard` assumes it
as well.  Users, new games, faults and crashes are never assumed to happen.

## 6. Proofs

TLAPS proves the following for every value of the constants that satisfy the
modules' named assumptions.

**`Playfield_proofs`, `BoardGame_proofs`.**  `StatusInv` ties the parts of a
status together: no board without `data`, a mino only while playing, inside the
board, with cells all empty or all its own and then resting.  That its cells are
so (`MinoFits`) alone is not inductive: a "drop" of a mino that is written already keeps it
only because it rests.  There is one lemma per operator (`MoveToWellFormed`,
`LandWellFormed`, `DroppedWellFormed`, ...) that it keeps a status well formed,
and one step per action.  From it follow the type invariant, `NoIndexPanic`,
`DroppedRests`, `DropEnds` (a mino inside the board that is taken down by its
whole height is outside it), `DropThenDownLands`, and the action properties
`FilledCellsChangeOnlyOnRemoval` and `GameOverIsFinal`.  Assumption:
`PlayfieldAssumption` (a width and height of at least 3, the CRD's minimum, and
minoes with at least one cell and an id of at least 1).

`MinoDescendsCorrect` is the safety half of `MinoLands`: no operation takes a
mino up, and a "down" lands it or takes it down by one row, which leaves the
height of the board as the bound of what the fairness has to bring about.

**`BoardGame_proofs`, on `RowDropLoop`.**  `LoopInv`: `newY` is the height minus
one minus the number of rows copied, each row copied is where `NewY` puts it, and
every other row is as it was.  It is inductive because `NewY` is strictly monotone in the
kept rows (`NewYOrder`) and never above its row (`NewYBelow`), which is also why
no row is overwritten before it is read (`UnreadRowsIntactCorrect`).
`LoopIsDropRowsCorrect` and `RowsFallPastRemovedCorrect` follow at the end of
the loop, and with `LoopIsCheckRemoveRows` the loop leaves the grid that a landing
of `BoardGame` has.

**`BoardReconcile_proofs`.**  `TypeCorrect`, `StatusCorrect`,
`AtMostOnceCorrect`, `QuietBoardIsReconciledCorrect`,
`OnlyCollectorLosesCronCorrect`, `ImplementsGameCorrect` and `RefinesGame`, for
any number of Boards, Actions, errors, crashes and other writers, any set of
ops and any size.  All follow from one invariant, `IInv`, with a part per
question:

* `Stored` and `InHand`: the stored status and the worker's copy are well
  formed, by the lemmas of `Playfield_proofs`.  A stored status has gone
  through any number of reconciles, so it is all the next one can rely on.
* `Copy`: while nobody has written the Board since the worker's Get (`~stale`)
  the worker's copy is what the reconcile so far makes of the stored status,
  `InitStatus` after the Get, a mino after the Minoes, and from the Actions on
  one of the outcomes of `ReconcileIdle` or `ReconcileOp`.  The update is
  refused when the copy is stale, so whatever it stores is one whole step of
  `BoardGame`.
* `Listed`: an id names one Action, and the one that was handled is gone or is
  next in line to be deleted.  `AtMostOnce` alone is not inductive: the update
  must know that everything listed was deleted before.
* `Attended`: with no event on its way and nothing queued, what is stored of
  Actions is in the worker's list, and at rest there are none.  It is kept
  because each creation notifies, and each failure queues the Board again.
* `CronInStep`: between the worker's last call for the Cron and its next look
  the Cron is the one the state asks for, unless `cronLost`.

For the refinement, the lemmas `Game...` show that the instance's copies of the
operators of `Playfield` are the same operators, and `StepOfGame` goes through
the actions.  `ImplementsGame` is what TLC checks: the initial state and the
steps that change the stored Board.  `RefinesGame`, `Spec => Game!Spec`, is the
whole refinement.  `StoredCellsStayCorrect`, `StoredGameEndsOnceCorrect` and
`StoredMinoDescendsCorrect` say of the stored Board what `BoardGame_proofs` says of
the game; both rest on the lemmas `Reconcile...` of `Playfield_proofs` about one
whole reconcile of a status.  Assumptions: `PlayfieldAssumption` and
`ReconcileAssumption` (the bounds are numbers, the ops are ops).

**`CronTicker_proofs`.**  `TypeCorrect`, `HeartbeatArmedCorrect` and
`BeatsApartCorrect`.  The first invariant, `ArmedInv`, adds to the types that
the cache is what the events not yet delivered lead to: when Reconcile gives up
a Cron it reads as gone, either it is gone or an event that queues it again is
on its way.  So a Cron whose period is not 0 is never without something that
leads to its next beat, whatever periods it had before.  The second, `ApartInv`,
explains why two beats are a period apart only with one between them, and only
after three undisturbed ones.  An entry of the queue, a timer and a call under
way may each be the start of a chain of beats.  After one beat two of them are
left (`TwoChains`); after the second the two do not come closer than a period
(`ChainsApart`: the time since the last beat and what the timer has to go make
up a period); after the third so it is for the beat before the last (`InStep`).

**`AppServer_proofs`.**  For any number of requests and faults:

* `TypeCorrect`.  The UID of a new Board is in range only because `MayCreate`
  keeps a Board for each request that may yet create one: `Reserve` counts them
  with the theorems on finite sets.
* `NewGameRepairsOwnerCorrect`: `AloneInv` says that an undisturbed request
  between its Create and its assignment of `BoardUID` still has `TargetBoard`
  pointing to the Board that is there.
* `NewGameSucceedsCorrect`: `WayInv` says that after an undisturbed Delete there
  is no Board, or one marked deleted, and that after the Replace the object of
  `TargetBoard` is one without a UID, so the Create can only be refused for a
  foreground deletion.

**`BoardView_proofs`.**  `TypeCorrect` and `AloneIsSafeCorrect`, for Boards of
any height and any number of polls.  getBoard does panic when others come in
between (section 7); the theorem says that this leaves nothing behind that makes
a later poll panic which is left alone.  `AloneIsSafe` is not inductive.
`ViewInv` adds to it:

* `KnownObject` and `KnownFetch`: the Data of an object and a slice of it is
  empty or has the height of a Board there was (`heights`), and a mino, or a row
  that was read from one, is on a Board there was.
* `FilledInv`: a mino without Data is one whose Data some handler is about to
  decode.  This is the state in which another handler panics.
* `AloneInv`: nobody else is half way through its decoding while a handler is
  alone.  So from its own decoding on a mino comes with Data, and what it has
  seen of the target (`Sees`) is still so when it looks again.
* `TakenInv`: what a handler takes Data from is a Board, not the empty object of
  a pod that started without one.

**`T4sReconcile_proofs`.**  `TypeCorrect`, `OnlyWaitChangesCorrect` and
`QuietChildrenMatchCorrect`.  `IInv` adds to
the types that no Board has a UID yet to be given, so a new Board is never
taken for the one before, that specs in use are never those of a T4s that is
going, and that an Update is of a Board that was there.  For the children the
invariant `QInv` says that one that is not as wanted is *due*: its event is on
the way, or the T4s is queued or its event on the way, or Reconcile is running
with the present spec and the present child and has yet to come to it or is
about to patch it.  It is inductive because only an event lets a cache differ
from the store, and because every error queues the T4s again.  For the Board
`Versions` says that versions are given once: what the cache and the worker hold
under the version of the stored Board is that Board.  The Update sends the whole
object that was read, so it is by this alone that it changes nothing but the
wait time.

**`T4sNamespace_proofs`.**  `TypeCorrect` and `KnownT4sKeepsOthersOutCorrect`, for
any number of users, names and incidents.  A request may be admitted only when
the cache is empty, so a T4s that was known must have left it.  `Known` says
that it cannot while it is stored: once the cache shows a T4s it goes on doing
so, because every event still to come under that name is of the same T4s
(`Seen`), and so it is for T4s the cache has yet to see (`SeenSoon`); a restart
loads the store, in which UIDs are `Unique`.  `Admitted` carries the result of
the check to the write.

Every invariant and every action property of the passing runs is a theorem.
Only model-checked are the liveness properties: `MinoLands`, `ComesToRest`,
`MinoComesDown`, `HeartbeatGoesOn`, `HeartbeatStops`, `RefusesForGoodReason`,
`BoardFollowsT4s`, `NamespaceReopens`, `LastT4sHasBoard`, `NothingLeftBehind`
and `GhostsFade`.  They rest on weak fairness, hence on ENABLED, which the
prover does not do.  So are the runs of section 7, whose properties do not hold.

## 7. Disagreements found

Each is a run that TLC finds violated, with the counterexample described under
`findings` in `PROJECT.json`.

| Run | What the program says | What it does |
|---|---|---|
| `row_removal` | "Drop rows except the ones to be removed" (`board_controller.go:280`) | the bottom row is overwritten even if it stays; what is in the top rows stays although they were copied down |
| `gc_cron` | a game has its Cron (`design.md:32`) | the collector can remove the Cron of a new game; nobody watches Crons |
| `two_requests` | t4s-app creates Actions (`design.md:54`) | concurrent new games leave `BoardUID` empty: all Actions are refused |
| `app_restart` | a new game deletes and recreates the Board (`design.md:53`) | a pod that starts without a Board never creates one |

Observations without a run of their own, which the modules show when their
constants or properties are changed accordingly:

* A conflict of the status write loses the effect of an Action that was
  deleted just before; `AtMostOnce` is bought at this price.
* "drop" followed by a move aside leaves the dropped cells in the grid
  (`StatusInv` allows the mino to fall again from there).
* A Cron with a period of 0 beats once: `RequeueAfter` of 0 is no requeue.
* Two T4s in one namespace are possible although `README.md:130` says "Only 1
  `T4s` resource in a namespace" and the webhook's test sees the second one
  refused: the check reads a cache, and nothing guards the write.  Even a single
  user who creates two in a row gets both while the cache is late.  With
  different sizes they delete each other's Board by name.
* `getBoard` panics after a Board was replaced by a smaller one while its
  `currentMino` is empty or has a row of 0 (`AloneIsSafe` without its
  conclusion), and a poll of a Board without a mino, or with one in row or
  column 0, shows what an earlier poll left in `TargetBoard`.
* With Boards of one size `getBoard` panics when others come in between
  (`AloneIsSafe` for all handlers instead of those in `alone`): a handler takes
  the empty `Data` of a new Board at `app.go:109`, another one decodes the first
  status, and the first one sees its mino at line 110 and indexes the empty
  `Data` at 112; or newBoard points `TargetBoard` to an empty object (line 147)
  after line 110, and `CurrentMino[0]` does not exist at 111 or 112.
* With `Others = {"foreground"}` `NewGameStarts` fails: a `DeletionTimestamp`
  that getBoard saw once is never cleared, and newBoard refuses for ever.
* Before the resync the Board may be at odds with the T4s with nothing queued:
  a new game that read the T4s before an edit made it, and the T4s controller
  does not watch Boards.

## 8. Not modelled

* Of the web client: the poll of the wait time, whose error bodies are taken
  for a wait time, the colours, which are fetched once, and the keys, whose
  Actions are those of `BoardReconcile`.
* Of the manager: leader election (one process at a time is the library's
  promise and the manifests run one replica), flags, probes, the manifests.
* `ValidateUpdate` and `ValidateDelete`, which return nil.
* The contents of Roles, Deployment and the other children beyond being as
  wanted or not; metrics, logging; generated code.
* Torn reads of a single string or slice by racing goroutines of t4s-app (a
  field is read or written in one step), and `getColors`, which shares nothing.
* A Mino without cells, with which "drop" would not end, and one with the id 0,
  whose cells count as empty.
* A foreground deletion of a Cron.

## 9. Plan

Written so far, in this order: `Playfield`, `BoardGame`, `RowDropLoop`,
`BoardReconcile`, their proofs, `CronTicker`, `AppServer`, `T4sReconcile` and
their proofs, the heartbeat composed with `BoardReconcile`, `T4sNamespace` with
its proofs, `BoardView`, `BoardReconcile_proofs` with the refinement, the proofs
of `BeatsApart`, `NewGameSucceeds` and `BoardView`.

Next:

1. The safety halves of further liveness properties, as `MinoDescends` is for
   `MinoLands`: what a reconcile of `BoardReconcile` has still to do gets less
   with each of its steps; the plan of `T4sReconcile` is gone through in order.
2. t4s-app and the T4s controller on one Board with both pods of a rolling
   update of the Deployment.
