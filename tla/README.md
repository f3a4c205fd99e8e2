# Verification of the FAForever Rust client

TLA+ models of the parts of the client where the order of things decides
whether it works: joining and launching games, the matchmaker, the command
loop, the stream of state to the window, signing in, the two long-lived sockets, the game process,
replay reads, and what a crash leaves on disk. They are checked with TLC on small instances,
and the safety properties that matter most are proved for every instance with
TLAPS. Every definition is translated from the source; `PROJECT.json` names,
for each, the file and the lines it stands for.

Paths below are relative to the repository; `runtime/`, `services/` and `infra/`
are those of `crates/faf-app/src`.

## 1. The system

The client is one process: a Tauri shell (`src-tauri`) around a runtime
(`crates/faf-app`) that owns the state (`crates/faf-domain`, pure reducers) and
talks to the outside through ports. The window runs a React page (`ui`) that
shows a copy of the state.

    page --command--> command loop --admitted task--> service --port--> server, disk, game
      ^                                                  |
      |  deltas, snapshots                               | emit(event)
      +---- pump <---- broadcast channel <---- event sink (state + revision)

| Component | State it keeps | Operations | What is hard | What makes it correct |
|---|---|---|---|---|
| Command admission (`runtime/command_policy.rs`) | keys in use, tails of serial keys, the token of the latest read | admit, wait for the turn, end it early, drop it | a turn dropped while it waits; a turn ended before its command; a drop of either kind | one command of a serial key at a time, in the order of admission; no key left taken |
| Command loop (`runtime/mod.rs`) | two bounded queues, two pools of permits, release stamps | dispatch, drive, superseded | a release overtakes its start through the priority lane; stamps and releases recorded out of order | a start is dropped exactly when a later release was recorded; a cancel always runs |
| Services behind it (`services/maps.rs`, `guides.rs`, ...) | running installs and their tokens, searches | install, cancel, search, accept | an answer after its question was replaced | only the newest search answers |
| Shared lobby operations (`runtime/policies.rs`) | the current operation and its flag in one word, the join slot, the record of called-off requests | issue, make current, cancel, take, mark, release, call off, take the record | every one is called from several tasks, each under its own short lock | a dead operation never comes back; nobody frees another's slot |
| Joining, hosting, launching (`services/lobby/{joining,launch}.rs`, `launcher.rs`) | where each operation's code stands | join, host, launch order, terminate, cancel | minutes of preparation between two checks; answers that name only a game | an answer to a given-up request does not start or end a newer one; the slot is always freed |
| Lobby connection (`services/lobby/{connection,updates}.rs`, `infra/lobby_ws.rs`) | the update loop, the link's status | connect, disconnect, teardown, one handler per server message | sockets that reopen by themselves, teardown with a launch under way | every way down leaves no join behind |
| Matchmaking (`services/lobby/matchmaking.rs`, `infra/lobby_ws.rs`) | three copies of a search (slice, port, server), the preparation's token, two timers | start, stop, confirm, time out, match found, launched, cancelled | a stop and a restart of the same queues, timers of older searches and matches, ends of earlier games | the panel tells what is; every wait has an end; nothing stopped is sent; a cancelled match leaves no game running |
| Event sink (`runtime/mod.rs`, `EventSink`) | state, revision, the lock's poison | emit, snapshot, subscribe | a reducer that panics half-way; two emitters | deltas leave in order of revision; no silent change |
| State stream (`src-tauri/src/startup.rs`) | one receiver of a lossy channel | forward, resubscribe | overrun, failed sends | one boundary between snapshot and subscription |
| Front-end mirror (`ui/src/ipc/revisionedMirror.ts`, `App.tsx`) | revision, held events, what was lost, the recovery in progress | receive, replace, recover, dispose | answers and messages in any order, retries, a second mount | the page shows a state the backend had, never an older one, and catches up |
| Account scope, sessions (`runtime/account.rs`, `services/auth.rs`, `infra/oauth.rs`) | generation, cancel slot, mutation lock; tokens, renewal epoch; the account's token | log in, cancel, restore, play offline, log out; renew | minutes in a browser behind one lock, answers after their question was withdrawn | what the screen shows as signed in has a live session; nothing of an ended one comes back |
| Sockets and reconnect watchdog (`services/reconnect.rs`, `connection.rs`, `chat.rs`, `infra/lobby_ws.rs`, `irc.rs`) | who holds the connection, armed links, backoff, the port's cancel slot | connect, hang up, retry, drop, give up, switch account | a retry against a Disconnect; a former account's socket and its last words | no socket without a reader; a wanted link comes back |
| Game session (`services/launcher.rs`, `lobby/launch.rs`, `infra/game.rs`) | the process slot, the adapter, the running game, the join state | launch, terminate, withdraw, exit, late failure | five tasks that tear down one game, none of which names it | at rest process, adapter and screen agree; a withdrawn match leaves no game |
| Replay reads (`useReplayDetailResources.ts`, `services/replays.rs`) | the panel's request, the queue's read slots, running reads, the slice | ask, close, begin, join, replace, answer, cancel | a close against the reads of the next panel | what a panel waits for is being read |
| Settings (`services/settings.rs`, `infra/settings_file.rs`) | slice, file, last good copy, write order | load, change, save | a file that vanishes or is held, an older build, a crash | nothing the player chose is replaced by defaults; the disk follows the slice |
| Mod folders on disk (`infra/vault_install.rs`, `interrupted_work.rs`, `mods.rs`) | folders, staging folders with their record | install, replace, remove, recover, sweep | a crash or a failing call between two renames | a mod is never lost, and what an update replaced does not come back |
| Game updater, client update, catalogues, tournaments, notifications, processes, parsers, shell, views | see `PROJECT.json` | | | |

The list of hazards, each at its line and with the properties that watch it, is
in `PROJECT.json` under `hazards`.

## 2. The modules

| Module | Models | Built from |
|---|---|---|
| `LobbyOperations` | `LobbyOperations` of `runtime/policies.rs`: one operator per critical section or atomic access | |
| `JoinFlow` | joins, host requests and launches over that record, with the user, the update loop, the connection and the server around them | extends `LobbyOperations` |
| `CommandAdmission` | `CommandAdmission` and `Turn` of `runtime/command_policy.rs` | |
| `CommandLoop` | dispatch, the queues, the loop and the tasks, with the bodies of six kinds of command | extends `CommandAdmission` |
| `SerialTurns` | abstract: what a serial key promises | instantiated twice by `CommandLoop` |
| `RevisionedMirror` | the class of that name, as operators on one mirror | |
| `StateMirror` | event sink, channel, pump, messages, bootstrap, recoveries, mounts | extends `RevisionedMirror` |
| `SignIn` | the auth commands, the token port, renewals, the ban | |
| `Links` | one socket, the lobby's or the chat's: attempts, watchdog, account switches, the port's session task | |
| `AccountSocket` | abstract: what `AccountConnection` promises of a long-lived socket | instantiated by `Links` |
| `Matchmaking` | a search in the slice, the port and the server, from the button to the match and its end | |
| `GameSession` | the launcher from the order to the game's end, with every task that follows a game | |
| `ReplayReads` | the insights panel, the bridge, the read slots, the read tasks, the slice | |
| `SettingsFile` | the settings on disk and in memory through starts and mishaps | |
| `FolderSwap` | a mod's folders through installs, updates, crashes and recovery | |
| `AtomicUpdate` | abstract: what the installer promises of one mod | instantiated by `FolderSwap` |
| `JoinFlow_proofs`, `CommandLoop_proofs`, `StateMirror_proofs` | the theorems about the component of that name | extend it |
| `Account_proofs`, `Disk_proofs`, `Play_proofs` | those about `SignIn` and `Links`; `SettingsFile` and `FolderSwap`; `GameSession` and `ReplayReads` | extend the two, which share nothing |
| `Lobby_proofs` | those about `Matchmaking`, and about the run over both parts of the lobby | extends `MCLobby`, `JoinFlow_proofs` |
| `Client_proofs` | those about the runs over six components | extends `MCClient` and the proofs of the six |
| `MCJoinFlow`, `MCCommandLoop`, `MCStateMirror` | what TLC needs: the symmetry sets | extend their component |
| `MCClient` | two runs over `SignIn`, `Links`, `FolderSwap`, `SettingsFile`, `GameSession`, `ReplayReads` | extends the six |
| `MCLobby` | one run over `JoinFlow` and `Matchmaking` | extends the two |

`MCClient` and `MCLobby` are there for TLC. The components of each share
no variable (their properties need nothing of each other), so exploring them
side by side would only multiply their states: the variable `part` picks one at
the start, among those a run names (`Parts`), that one moves as its own specification says, and the others rest.
Each property is the one of its module, unchanged; that the run adds no behaviour
to a component's own is proved (`ClientIsItsParts`, `LobbyIsItsParts`).

Operators named `Faulty...` bring back a mistake, often one that a comment of
the code reports as fixed. No action uses them. `PROJECT.json` pairs each with
a property that TLC then finds violated: it shows that the property says
something about the code.

### 2.1 JoinFlow

An operation is an id of `Ops`. `flow[op]` says what it is (join, host or
launch), for which game, and where its code stands: one value per point at
which another task can run, so between two values the code holds a lock or
touches nothing shared. The names follow the code: `claiming` is
`try_begin_join` holding the join lock before `make_current`; `asking` is the
point before `try_mark_join_sent`; `marked` the point between the mark and the
port's answer; `refusing`, `conflicting` and `failing` are the three early
exits before they release their slot.

* The join lock is `JoinLockFree`. It is held across two steps only in
  `try_begin_join`; elsewhere a locked section is one step.
* `user` is the one user command in progress (`CancelJoin`, `TerminateGame`,
  `Disconnect`), cut where it lets go of a lock. One at a time is a bound.
* `loop`, `order`, `term`, `launch`, `launchOff` are the update loop's task and
  what it polls: the launch is a future of that task (`MayStep`), so it does not
  move while a handler runs.
* `owed` is the server's side: join requests it will answer, in sending order.
  A refusal or a launch order names a game and no operation; that is why the
  record of called-off requests exists. When a socket closes, what the server
  has not answered is lost, but answers that are in the update channel already
  (up to 8) are still handled before the loop sees its end (`Unread`,
  `CloseWire`). A socket that the port reopens by itself keeps none
  (`Reconnecting`): there the answers before the drop are steps of their own.
* `gaveUp` and `muddled` are history. `gaveUp` holds the requests the user
  called off after they were marked. `muddled` holds the games whose answers
  cannot be told apart any more, because a request and its retry crossed on
  their way to the port, or an answer was taken by nobody's record. The
  properties about answers leave those games out, and the reason is in the
  protocol: a message names the game only.

The events of a run are a constant (`Events`), so that a run can afford
several operations where few events matter, and every event where one game
does.

### 2.2 CommandLoop

A command of `Cmds` is dispatched at most once: stamped, recorded if it is a
release, sent when its queue has room, taken by the loop, admitted, run by its
task. Six kinds stand for the policy table: the start and the release of a
pair, a serial command that ends its turn early, a single-flight check, a read
of which only the latest counts, and a concurrent command.

Admission happens in the loop's own step, before the task exists (`admit`, then
`spawn`), and the model keeps that: `AdmitAndSpawn` is part of `TakePriority`
and `Admit`, never of the task. A task dropped before its turn (`Abandon`) is
the case the code's `Drop` handles with a task of its own (`handing`, `PassOn`).
`ahead` is history: who was in a command's line when it was admitted.

### 2.3 StateMirror

The state is counted in changes and the page's store is the sequence of changes
it holds. A delta carries one change, a snapshot a number of changes; hydrating
and applying are then what they do to that sequence, and a change applied
twice, skipped or too early shows in it.

* `Reduce` and `Panic` are `EventSink::emit` under the send order and the
  state's lock. A panic leaves the lock poisoned and no message; whoever takes
  the lock next reserves a revision that is never sent (`Recovered`).
* `channel` is the pump's receiver of the broadcast channel, which drops its
  oldest event when full; the pump then resubscribes with a snapshot. Either
  message may fail to be sent (`ForwardFails`, `ResubscribeFails`): the pump
  ignores that and goes on.
* `wire` is what the pump emitted, in order. Answers of the snapshot command
  (`requests`) travel on their own and arrive whenever they do.
* Timers fire at any time: backoff and cooldown are left out, an attempt made
  at once is a timer that fires next. An answer past its deadline is a failure
  first and then lands nowhere.
* A remount starts a new mirror over the same store, as App's effect does when
  it is run twice.

### 2.4 SignIn

A command of `Requests` is sent by a page that offers it (`OffersOn`) and then
runs as `services/auth.rs` does, one step per stretch between two points at
which another task can run: the cancellation lock is held over two steps
(`TakeSlot`, `NextGeneration`; everybody else who takes it waits,
`SlotFree`), the mutation lock from `AcquireMutation` to `Finish`. A session is
named after the request that obtained it, so `live`, `saved` and `auth.who` can
be compared. The page sends whenever it likes, while at most `MaxRacing` handlers
do anything but wait: two commands can be on their way to their first lock at
once. The task a command is given is the first idle one; the tasks are alike. A renewal remembers the epoch it was scheduled in; an answer that
has arrived cannot be aborted any more and meets the epoch check
(`RenewalLands`). Behaviours begin with the restore that the shell dispatches
at start.

### 2.5 Links

`link` says which of the two sockets this is; they differ where the code does
(whose late words the event sink drops, whether a drop is announced, who says
`Disconnected`). An attempt `t` goes from `acquire` to `release` as
`connect_with` and `connect` do; `holder` is the port's cancel slot, `cut` the
sessions told to end, `inbox` the update channel (8 in the code). An account is
a number, and an attempt is cancelled once the account has moved on.
`Tick` is one round of the watchdog for this link. `Noticed` bounds the user: he
does not click between two awaits of his own last click.

`AccountSocket` is the doc comment of `AccountConnection` ("one adapter
connection at a time") as a specification of three variables: the current
account, the account that owns the connection, and the accounts of the sockets
that run and were not told to close. `Links` instantiates it with the guard and
the port's sessions; attempts, the watchdog, updates and the user disappear.

### 2.6 GameSession

`order[g]` is where `start` stands for a launch; behind it live the child in
the process slot, its poller, the exit watcher and the late-failure task.
`Poll` wakes every watcher that waits, as `notify_waiters` does. The launch is
polled by the update loop, so kill notices and `match_cancelled` meet it at an
await (`AtAwait`), while the user's termination is a task of its own. Both the
server's withdrawal and the end of the connection call a launch off and wait for
it to notice (`CallOffLaunch`). Before the adapter is up the screen says what is being
prepared (`Narrate`), and a cancel there only flags the operation
(`CancelJoin`); on any later screen it terminates.
`strayed` is history: two games' tasks met, or a stop met a launch past its
last check. What the code does then is in the model; what it promises is not.

### 2.7 ReplayReads

From a button to the slice: `RequestInsights` and `CancelReads` of the hook,
the bridge, `stamp`, the ordinary and the priority queue, `begin_*`, `run_*`,
`cancel_reads` and the page's reducer. The shell's `dispatch` is an asynchronous
command that awaits `admit` first, so any two calls of the page may be stamped
in either order: `Dispatch(i)` takes any call off the bridge. A close may come
before the read it closes, or after those of the next panel. One swap breaks
`AwaitedIsRead`: when a read of an older request is stamped after the same kind
of read of a later request, it counts as the newer of the two and the open
panel's own read is dropped as superseded. `outrun` (history) records that this
happened, and the property says nothing from then on.

### 2.8 SettingsFile

A document is what the player chose, whether it has filters that a start forgets,
whether it names a game path, what only a newer build reads in it, and whether
it records its first build. `Launch(b)` starts a build, and `Load` is cut where another
command can come between: `Read` is the port's `load`, `Discover` finds the install
paths and saves them outside the write order, `AnnounceLoaded` emits `Loaded`, and
only `MarkLoaded` lets anything be saved. A command's `Change` is in the slice at any
time after the start; `Persist` is the check of `try_persist`, which refuses before
`MarkLoaded`. What was changed before the announcement is overwritten by it; what was
changed after it stays in the slice, unsaved until the next save or lost with the
next start, although the comment of `persist` (`settings.rs:587`) speaks only of
changes that `Loaded` is about to overwrite. `save` is two steps, the look
at what it replaces and the rename. Mishaps: the file vanishes, or another program keeps
it from being opened. Files that do not parse are left out.

`DiskIsMemory` compares the two at rest. It speaks of runs in which the last thing
to be saved was neither refused nor failed (`unsaved`), and before a run's first save
it allows for the filters, which `Load` clears in the slice alone.

### 2.9 FolderSwap

Every system call that moves or removes a folder is a step that works or fails,
and the process may die between any two (`Crash` is the one step that is not a
call of the code's). `Discard` is the removal of a staging folder, `RemovePart` and
`RemoveRest` that of an installed mod: either may stop half-way, which leaves a
folder that holds no version any more (`Broken`). A start recovers, and its sweep then
runs beside the client's new operations, as `finish` does.

A mod may be installed in several versions at once: `Install` needs only its own
target free, as joining a game installs the version it requires beside another
whose folder has another name. So `owned` (history) is the set of versions that
were put in place and neither replaced nor removed since. The properties are about
that set: none of it is ever lost (`CopyKept`), all of it is in place once the
client is up (`InPlaceWhenUp`), and no folder ever holds anything else
(`NothingComesBack`), which is where a version that an update replaced would show.
`retained` and `mingled` are history too: a rename back failed, or an operation
began beside the backup of an earlier one.

`AtomicUpdate` knows nothing of folders: the versions the player has, one an
operation is about to bring, the one that goes with it, and what may happen to them
(`Begin`, `BeginRemoval`, `Commit`, `Remove`, `Abort`). `FolderSwap` instantiates
it. `Held` is what lies whole in a folder or was moved aside for a version that has
not come (what a start would put back); `Incoming` and `Outgoing` are the archive of the
operation under way and the version that goes when it succeeds. So the
renames aside and back, the record and the whole recovery change nothing the
abstract module sees, the one rename that puts the archive in place is its
`Commit`, and every other end of an operation, a crash included, its `Abort`.
`sure` is the negation of `mingled`: beside the backup of an earlier update the
abstract module promises nothing (`Unsure`), because then an outdated copy does
come back (section 5).

### 2.10 Matchmaking

A search exists three times: in the slice the screen shows (`matchmaking`), in
the session of the port (`port`, started empty by every session), and in the
server (`seeks`, `paired`, `granted`), which is known only by what the port makes
of its messages. `frames` and `updates` are the two channels between them; both
are short, and a full one refuses, respectively makes the port wait.

* `search[a]` is the `a`-th start: checked and registered under the lock
  (`StartSearch`), announced (`AnnounceSearch`), prepared with no lock, checked
  again (`CheckSearch`), sent or failed. `off` is its token, `timer` its
  fifteen seconds. The submission lock is `SubmissionFree`.
* `watch[m]` is the timer of the `m`-th match found, by its generation.
* A handler that reads the slice and emits later is two steps (`...Reads`,
  `...Fires`; `StopReads`, `StopActs`): the update loop moves in between. Timers
  fire at any time.
* The game is only as far along as the panel depends on it (`game`): `Leaves` is
  the report to the server, `Left` what the screen makes of it.
* `left` and `crossed` are history: the searches that were stopped or replaced on
  screen while they were being prepared, and whether a handler emitted what it had
  decided on a slice that changed in between. From then to the next word of the
  server the panel may show anything, and the two invariants leave that stretch
  out; the hazards at `matchmaking.rs:376` and `:287` say what happens in it.
* Several queues are in the model and the proofs; run `calloff` has one.

## 3. The runs

| Run | Instance | Properties |
|---|---|---|
| `calloff` | joins: two games, three operations, the user cancels; matchmaker: one queue, four of: two searches, two acts of the server, one cut | `LobbyTypeOK`, `SlotAnswerable`, `RecordedAnswersAreComing`, `GivenUpIsTurnedAway`, `RefusalSparesRetry`; `PanelIsTrue`, `WaitIsEnded`, `CalledOffIsNotSent` |
| `races` | one game, two operations, all events but hang-up and narration | `NoRevival`, `OwnSlotOnly` |
| `live` | one game, two operations, hang-up, end of stream, narration | `SlotEventuallyFree` |
| `order` | three commands, two items, all six kinds, tasks may be dropped | `TypeOK`, `FlightHasHolder`, `OnlyNewestSearch`, `SerialTurnsKept`, `DroppedIffOvertaken` |
| `live_loop` | three commands, one item: installs, cancels, verdicts | `CancelAlwaysRuns`, `EveryCommandEnds` |
| `mirror` | five changes, two mounts | `TypeOK`, `MirrorIsTheState`, `GapsAreReal`, `NeverRolledBack`, `CatchesUp` |
| `account` | `SignIn` and `Links` of `MCClient`, each in turn | `ClientTypeOK`, `ShownSessionIsLive`, `CredentialsFollowCommits`, `NewerDecisionStands`, `LockIsReturned`; `NoOrphanSocket`, `ShownHasReporter`, `ComesBack` |
| `local` | the other four of `MCClient`, each in turn | `InPlaceWhenUp`, `NothingComesBack`, `UpdatesAreAtomic`; `NeverReset`, `NewerKeysSurvive`, `DiskIsMemory`; `WithdrawnIsStopped`, `SessionsAgree`; `AwaitedIsRead` |
| `drop`, `busy`, `cancel`, `refused` | see section 6 | violated |

What they show and why the bounds are enough:

* `calloff`: three operations of one game are a request given up, its retry, and
  one more request that the retry's answer could be mistaken for; a join for each
  of two games, and a launch, let an answer meet a join for another game
  (`FewJoins` is the bound: three joins only of one game). Here too no socket is reopened and no
  frame refused. The properties say that an answer of a
  given-up request starts nothing unless the user joins that very game again,
  that a refusal of the first attempt spares the retry, and that no record and
  no slot outlives its answer.
* `calloff`, the matchmaker: two searches are one stopped and its restart for the
  same queue, two acts of the server a match and the next (or a leader's search),
  one cut a drop or a hang-up anywhere between; any four of the five
  (`MaxTurns`), since all five only repeat what a shorter run has. `FrameLimit = 1` refuses frames,
  `UpdateLimit = 2` (a launch order needs two) makes the port wait. When both are
  used up the client rests, so deadlock is not checked. Two queues with one
  search and `FrameLimit = 2` (seven million states) hold as well and are left
  out for their time.
* `races`: two operations suffice for one to come back or to free the other's
  slot, and here every event is on, full queues and dropped sockets included.
  The proofs cover every number of operations.
* `live`: a join, with its retry or its launch, through preparation, while the
  user hangs up or the stream ends. A socket the port reopens by itself is left
  to run `drop`, a refused frame to run `busy`: there the property fails. `SlotEventuallyFree` is a liveness property per operation,
  so a third would repeat the second.
* `order`: a line of three is the shortest in which the middle turn is dropped
  while the first runs and the third waits. `Room = 1` makes senders wait, so
  arrivals and stamps disagree. Commands and items are symmetric; no liveness
  is checked under symmetry.
* `live_loop`: one permit for urgent commands and two for ordinary ones: two
  commands that hang fill the ordinary lane. A plain command, a check and a search
  have no turn to hand on and would hold a permit as an install does: `order` has them.
* `mirror`: one held event is the ceiling, so the second overflows it; two
  attempts, so that a retry and a surrender both happen; a channel of two, so
  that the pump is overrun; five changes fill the channel and go on;
  two revisions without a message make two gaps; two mounts are StrictMode's.
  Deadlock is not checked: with its changes used up and the page caught up the
  system rests.

* `account` and `local`, by component:
  * `SignIn`: the restore and three more requests of any kind. Two commands and
    the restore race for the locks and a third comes after them: the shortest
    run in which a log-out is taken over by a login that is cancelled in turn.
    `MaxRacing = 1`: a command is sent while one other handler runs freely.
    `ShownSessionIsLive`, `CredentialsFollowCommits`, `NewerDecisionStands`,
    and the liveness `LockIsReturned`.
  * `Links`: either socket, two attempts at once, two accounts, one fault.
    `NoOrphanSocket`, `ShownHasReporter` and the liveness `ComesBack`.
    A third attempt only waits or returns as the second does.
  * `FolderSwap`: two folder names, two staging folders, three archives, two
    failing calls, two crashes: an update, its failure and the crash in the
    middle of the next, or two versions side by side. `InPlaceWhenUp`,
    `NothingComesBack`, and the refinement
    `UpdatesAreAtomic`; `CopyKept` is proved (section 4).
  * `SettingsFile`: two saves at once beside the load's, three starts of either build,
    one change besides the first configuration, two mishaps. `NeverReset`,
    `NewerKeysSurvive`, `DiskIsMemory`.
  * `GameSession`: two launches and two stops of any kind, a cancel and the end of
    the connection among them. `WithdrawnIsStopped`,
    `SessionsAgree`.
  * `ReplayReads`: two replays, two panels, five commands in any order: a panel's
    two reads, its close, and the two reads of the next. `AwaitedIsRead`.
  * `ClientTypeOK` is the types of all six; the types of the four in `local`,
    a run of safety properties only, are left to their proofs (`ClientTypes`).
    Each component may come to rest (all requests used up, a client that is
    off), so deadlock is not checked.

Bounds, all of them: `MaxOps` (operations), one user command at a time,
`Room` (64 and 16 in the code), `OrdinarySlots` and `UrgentSlots` (64 and 8),
`MaxChanges` (of state; of settings), `MaxDropped` (how many revisions go without a message before
`ForwardFails` stops), `MaxMounts`, `Capacity`, `MaxPending` (4096) and
`MaxAttempts` (4). `LiveLaunch = FALSE`, the shell without a game, is covered
by the proofs and not by a run. `Requests`, `MaxRacing`, `Tasks`, `MaxAccount`, `MaxFaults`,
`MaxBackoff` (12 in the code), `InboxLimit` (8), `Folders`, `Slots`,
`MaxVersion`, `MaxFailures`, `MaxCrashes`, `Savers`, `MaxStarts`, `MaxMishaps`,
`Launches`, `MaxStops`, `Keys`, `MaxRequests`, `MaxCommands`, `Queues`,
`MaxSearches`, `MaxActs`, `MaxCuts`, `MaxTurns`, `FewJoins` of `MCLobby`, `FrameLimit` (1024 in the code),
`UpdateLimit` (8). The theorems hold for all values of those of their module,
`InboxLimit` excepted, as is `UpdateCapacity` of `JoinFlow`, which is the code's 8.

### Fairness

* `JoinFlow`: a task that can run does (`FlowStep`, `UserStep`, `LoopStep`): the
  runtime schedules its tasks. Preparation comes to an end however often it
  narrates (strong fairness, since each narration disables and enables the
  end): the updater's work is finite. The handshake succeeds, and the server
  answers each request it took: that is the server's protocol, outside this
  repository. Nothing is owed by the user, by the socket, or by a reconnect.
* `CommandLoop`: callers, the loop and tasks are scheduled. No body is assumed
  to end; `EveryCommandEnds` takes it as its premise (`NobodyHangs`), and
  `CancelAlwaysRuns` does without.
* `StateMirror`: an emitter finishes its broadcast, the pump and the page take
  what is there, timers fire, a request is answered or fails, and a reader that
  meets a poisoned lock recovers it. No change, panic, failure or remount is
  owed.

* `SignIn`: handlers run, and what the port awaits ends: the wait for the
  browser is bounded by `LOGIN_TIMEOUT`, the requests by the HTTP client's
  timeouts. Users and renewals owe nothing.
* `Links`: tasks run, a dialled socket that can be opened is opened, one that
  was cut closes, and the watchdog ticks. A tick needs strong fairness: it is
  modelled with a free task to retry with, which comes and goes, while the timer
  itself never stops. Faults, accounts and the user owe nothing; faults are
  bounded, so a line that drops for ever is not covered.

## 4. The proofs

Each proof module proves an inductive invariant first; the invariants TLC
checks are too weak to be inductive on their own.

* `JoinFlow_proofs`: `FlowInv` is the types, `IdsInOrder` (an id not issued
  belongs to nobody, the current, launching and slot-holding operations were
  issued, a held slot names a join of its own game) and `JoinsNameGames`.
  `TypeCorrect` needs it because a launch order looks up the game of the
  request at the head of `owed`; `NoRevivalHolds` because only a fresh id can
  be made current; `OwnSlotOnlyHolds` because a free slot or a fresh id is all
  a step may take. Assumed: `NoGame` is no game, `MaxOps` positive, the events
  known. Nothing is assumed of the number of games or of operations.
* `JoinFlow_proofs`, the answers: the steps are sorted into a dozen kinds
  (`StepKinds`), and three invariants are kept by kinds. All rest on `LineInv`: a
  request is owed one answer only, a claim is marked sent when its request is,
  nothing is owed once the loop is past its reading, and an open wire has a loop.
  While the loop reads, a closed wire may still owe the oldest answers of its
  channel (`OldestIsKept`): they stay in line, so every count holds for them.
  * `GivenUpIsTurnedAwayHolds` and `RefusalSparesRetryHolds`, for any events
    without `drop`: `GivenInv` says that the given-up requests of a game are on
    record, that a request that is owed an answer is the slot's or was given up,
    and that those given up were sent first. The last part is what keeps the
    count when the answer at the head is the waiting join's own.
  * `SlotAnswerableHolds` and `RecordedAnswersAreComingHolds`, in two cases. When
    the user calls joins off over a connection that stays (`CalledOffOnly`),
    `CountInv`: there is a request on the way for every record, and one more for a
    slot that waits. When nobody calls off and the connection may close
    (`NeverCalledOff`), `WaitInv`: the waiting slot's own request is on the way.
    The cases are as wide as they can be: with `cancel` and one of `hangup`,
    `end`, `busy` and `unnamed`, TLC finds both properties violated, with `race`
    the second, with `drop` the first (runs `drop` and `busy` keep two of these).
* `CommandLoop_proofs`: `LoopInv` adds to the types that a queue holds a command
  once (`QueuesInv`), and the chain of a serial key (`TurnsInv`): whoever waits
  for another has that one and everybody ahead of it ahead of itself
  (`WaitInv`); who was signalled or runs has nobody ahead left (`SignalledInv`,
  `RunningInv`); the tail has the whole line at or ahead of it (`LinesInv`).
  `TurnsAreSerial` is refinement: every step of the loop is an `Admit`, `Begin`
  or `Leave` of `SerialTurns`, or a stutter, under either key. Dropped turns and
  turns ended early are what makes it more than bookkeeping. `LoopTypes` is the
  type invariant. `OutcomeInv` is the other part of `LoopInv`: a release order
  records exactly the highest stamp of the cancels that reached it, every flight
  belongs to one check on its way to give it back, and the newest search of a
  catalogue is the one that is not replaced. From it follow `DropsAreJust`
  (`DroppedIffOvertaken`), `KeysHaveHolders` (`FlightHasHolder`),
  `ChecksAreSingle` and `NewestSearchAnswers` (`OnlyNewestSearch`).
* `StateMirror_proofs`: `SyncInv` says of every place between the reducer and
  the page (the sink, the channel, the wire, the requests, the held events)
  that what it carries names the revision whose changes it brings, and that
  the number of changes is the revision, plus one while the lock is poisoned.
  From it follow `PageShowsTheState` (`MirrorIsTheState`), `NoRollback`
  (`NeverRolledBack`) and `StreamTypes`. The drain of held events stops at the
  first revision not held; that there is one, by well-founded descent, is the
  lemma `HoleFound`. `GapsAreNeverInvented` (`GapsAreReal`) adds that, as long as
  nothing was withheld, there is a revision `f` the page was sent last such that
  wire, channel and emitter lead on from it one revision at a time (`Flow`; only a
  snapshot leaps), and that a mirror which listens holds everything up to it
  that its buffer did not let go (`Covered`).

* `Account_proofs`, the sign-in: `SignInInv` adds to the types that one handler at a time is
  past the mutation lock, and what it has staged is the port's
  (`PortIsExclusive`), that a renewal of the current epoch renews the live
  session (`RenewsTheLive`), and that no two requests share a generation. From
  it follow `CredentialsComeFromCommits` and `LateAttemptsStaySilent`.
  `ShownAccountsHaveSessions` (`ShownSessionIsLive`) needs to know who will still
  speak: an account shown whose session is gone, or about to go, has a handler
  that reports or a newer command that will (`LossIsTold`). A command that is
  told to be silent is so by one that outdates it (`CancelsOutdate`), otherwise
  the last speaker could be silenced with nobody left.
* `Account_proofs`, the links: `LinksInv` says that one attempt is past the guard
  (`OneHolder`), that nobody holds a token of a later account, that a session
  not told to end is the port's and is read by that attempt (`HasReader`), and
  that a handler has an update to handle. `EverySocketIsRead` is its last part.
  `StatusesAreReported` (`ShownHasReporter`) is inductive on top of it: a status is
  set by the attempt that will report the end, and for chat the account has to
  be the current one, which is what `LinksInv` knows of a holder.
  `LinksAreOneSocket` (`OneSocket`) is refinement: every step of the links is a
  `Switch`, `Claim`, `Open`, `Close` or `Release` of `AccountSocket`, or a stutter.
  A dial opens nothing beside an older session because whoever is about to dial is
  the one holder, and an open session has a reader that holds (`OpenIsOwners`); for
  the same reason nothing is open when the guard is given back.
* `Play_proofs`, the game: `SessionInv` says that one launch is under way at a
  time, that the process in the slot is past its launch's spawn, and that a
  withdrawn launch keeps its mark until it is killed or over.
  `WithdrawnGameIsStopped` follows.
  `RestingSessionsAgree` (`SessionsAgree`) is about rest, so its invariant
  (`Agreement`, kept while nothing strayed) says what is still to come before: a
  process in the slot is polled for and none of its parts is gone
  (`ChildIsFollowed`), an adapter or a running game has a launch or a watcher
  that takes it down (`TeardownComes`), "in game" a task that takes it back
  (`EndIsTold`), and a stop that has killed meets no launch it could not
  (`StopMeetsNoLaunch`). All of it rests on one game at a time having a task, a
  process or an adapter (`OneGame`).
* `Play_proofs`, the replay reads: `TypesInv` (types, the panel's shape, and a stamp
  left for everything sent) holds whatever order the bridge delivers in, and gives
  `ReadsTypes`. `AwaitedIsReadHolds` (`AwaitedIsRead`) rests on `ReadsInv`, kept
  until a read is outrun: stamps grow from the tasks to the queue (`SeqOrder`), no
  read queued or running is of a later request than the last one stamped of its kind
  (`ReqOrder`), and whatever bears the open
  panel's request reads its replay and is no cancel (`PanelFits`), the slot's
  task is the analysis nobody called off (`SlotFits`), one analysis and one
  read of a replay's details are live at a time (`OneLive`), and the slice
  shows the panel's own live reads as loading (`LiveLoading`). What the panel waits
  for is then always on the bridge, or queued as the newest of its kind, or being
  read (`Awaited`). Three steps need all of it: a read of the panel's that
  ends answers it, since the slice still shows it as loading; one that is replaced
  is so by a read of the panel's own request; and the cancel of a former panel never
  names the request of the open one.
* `Lobby_proofs`, the matchmaker: `PanelInv` adds to the types that starts are
  numbered in order (`StartsInOrder`), that a search which left the screen is
  still being prepared and, were it the newest, is not what the screen shows
  (`LeftIsGone`), and that the search shown as prepared is the newest, not called
  off, and on its way or waited for (`PreparedIsKnown`). `CalledOffStaysUnsent`
  needs the second: without it `StillWanted` could be true again of a search that
  was stopped. `PortIsServer` says that the port's copy is the server's word. On
  these two rest:
  * `WaitsEnd` (`WaitIsEnded`): `PreparedIsKnown` for a search. For a match,
    `MatchInv`: matches on their way alternate with messages that clear the panel
    (`Alternates`), so a match never lands on one still shown, and they can be
    numbered within what the server has done (`Numbered`), so each gets a timer
    of its own.
  * `PanelTellsTruth` (`PanelIsTrue`): the last telling message in the channel
    is the port's copy, and with none in it the panel agrees with the port
    (`ToldInv`); a launch shown has its order behind it in the channel, or a game
    (`LaunchInv`).
* `Disk_proofs`, the settings: `SettingsInv` says that once the disk holds a choice of
  the player's, so does every document on its way to the disk. The last good
  copy is what makes it true through a file that vanished. `SameInv` is for
  `NewestSettingsAreSaved` (`DiskIsMemory`): a saver writes what the load or the slice
  holds unless another is queued behind it (`TakenIsNewest`), what the load
  announces is what the disk holds by then (`LoadIsDisk`), and a slice not on disk
  has a saver on its way (`SliceIsComing`). `KeysInv` is for
  `OlderBuildsKeepNewerKeys` (`NewerKeysSurvive`): while an older build saves over
  files it can open, file, copy and the document about to be written have the
  newer build's key alike.
* `Disk_proofs`, the folders: `SwapInv` ties every staging folder to the operation or
  the recovery that owns it (`StagingFits`, `OpFits`). While nothing mingled it
  allows one backup at a time (`OneBackup`) and no version in two places
  (`Distinct`), says that the folders and the backups that wait for their place
  hold exactly what the player has (`HeldIsOwned`), and where a backup may still
  wait (`Settled`). From it follow `ModIsNeverLost` (`CopyKept`), `ModIsInPlace`
  (`InPlaceWhenUp`) and `ReplacedStaysAway` (`NothingComesBack`).
  `InstallerIsAtomic` (`UpdatesAreAtomic`) is refinement: as long as nothing
  mingled, every step is a `Begin`, `BeginRemoval`, `Commit`, `Remove` or `Abort` of
  `AtomicUpdate`, or a stutter (one lemma per action). `Held` is what the player has
  by `HeldIsOwned`, so a rename aside changes nothing: the version goes from its
  folder to the backups that wait. That a removal of a staging folder, which may
  stop half-way, changes nothing held needs `Settled`: a backup that may go has its
  target in place. `Dated` (everything on the disk was fetched before now) makes
  a `Begin` bring something new.

* `Lobby_proofs` and `Client_proofs`, the joined runs: every step of one is a step
  of the part that was picked and a stutter of the others (`LobbyIsItsParts`,
  `ClientIsItsParts`), so all of the above holds of the runs as well. `LobbyTypes`
  and `ClientTypes` are the types of all parts together.

Assumed of the constants: sets are finite where they are counted, the names for
"nobody" are not members, and the bounds are numbers (positive where a module
says so). The theorems about answers in `JoinFlow_proofs` suppose more, in their
statement: the events named above.

TLC only:

* liveness, which is out of the prover's reach: `SlotEventuallyFree`,
  `CancelAlwaysRuns`, `EveryCommandEnds`, `CatchesUp`, `LockIsReturned`,
  `ComesBack`. All of them need fairness and what it enables;
* the cases the theorems' suppositions leave out: joins called off while a socket
  closes or a queue refuses. There the properties fail (the answers above; runs
  `drop` and `busy`), so there is nothing to prove.

Every invariant and every action property of a passing run is a theorem, and so
are the refinements. `OneSocket` and `CopyKept` are proved and in no run:
`NoOrphanSocket` and `UpdatesAreAtomic` are checked in their place.

## 5. What is left out

* `JoinFlow`: passwords, ratings and the list of games (a join may be refused at
  any time for them); the updater's files (preparation ends well, badly or with
  a conflict); the relay messages kept for the adapter; the saved host form and
  the searches a host leaves. The account token and the watchdog are in
  `Links`, the adapter's and the game's life in `GameSession`.
* `CommandLoop`: account scoping; `try_dispatch`; a command run inside another; closing the loop. A search that
  was replaced is dropped at its next await in the code; the model ends it when
  it would start, and the window between its check and its event is a hazard
  with its own entry.
* `SignIn`: the game started offline, the browser's link, a keyring that fails,
  the exchange's several requests (one step that works or fails).
* `Links`: what the updates carry, the pauses between attempts, the two sockets
  at once (they share the account and nothing else), and a disconnect that
  follows a ban. One case is in the model and in no property: an attempt that
  waits behind a former account's connection passes its check after a
  Disconnect that is already through, so a hung-up link can come up once.
* `GameSession`: the relay, the replay recorder, an offline game. The user's
  termination between the last check and the spawn, or a new order within half
  a second of a game's end, sets `strayed`: the game then starts although it
  was given up, or loses its adapter to the former game's watcher.
* `Matchmaking`: the party (its snapshot, factions, the check that a leader
  starts), vetoes, a member's warm-up, the lists of queues and map pools, and a
  launch order while this client's last game still exits (`strayed` in
  `GameSession`). Two cases are in the model and in no property: the port
  publishes `Idle` when an earlier match's `Ended` passes it, which takes a
  search being prepared off the screen, and it is given up without a word; and a
  connection that ends between a search's registration and its announcement
  leaves the panel on `Preparing` until the next one.
* `SettingsFile`: a command whose merge read the slice before `Loaded` and emits after
  it, which would carry defaults back (`Loaded` is emitted outside the merge lock);
  what clears and announces after `mark_loaded`; files that do not parse (the last good copy is not asked for
  them), the single settings and their migrations. A file that cannot be opened
  at the moment of a save loses a newer build's keys (`blind`).
* `FolderSwap`: map folders (installed by the same code), the enabled list, a
  replacement begun before the recovery ended, and the folders of other mods. Where an update's staging folder
  could not be removed, a crash in a later operation brings the outdated copy
  back (`mingled`).
* `ReplayReads`: lists, live tracking, the cap on kept details, retries of
  details that were evicted; and, in the model but in no property, what follows
  a read that was outrun (section 2.7).
* `StateMirror`: the plain event stream beside the versioned one; the account
  scope of `emit`; the pump's exits for a client update and for the popup
  window; lengths of timers. A reload of the page is a new page, hence an
  initial state. `NeverRolledBack` is per mount, as the code means it: a second
  mount starts without a revision, and an older snapshot still on the wire may
  reach it before its bootstrap answer. `CatchesUp` leaves out a newest change
  that no message carried: nothing tells a mirror that it is behind until the
  next one does.
* Not modelled at all, with reasons, in `PROJECT.json`: parsers and codecs (pure
  conversions), processes and sockets, the shell's windows, the views, and the
  services whose only state is data.

## 6. Where code and text disagree

Four runs check what a document or a comment says, and TLC finds it violated.

* `drop` (`SlotAnswerable`): `docs/CONCURRENCY.md` says a drop frees the join slot. When the port
  reopens the socket by itself, the handler of `Reconnecting`
  (`services/lobby/updates.rs`) frees nothing: a join whose request went out
  keeps its slot, and later joins are refused as duplicates until the user
  cancels or the connection is torn down.
* `busy` (`SlotEventuallyFree`): a request is marked sent before the port takes it. Called off in
  between, and then refused by a full queue, it leaves a record of an answer
  that never comes (`joining.rs`, `policies.rs`). The record takes the refusal
  of the next request for the same game, whose slot stays held.
* `cancel` (`NoSessionBehindLoginScreen`): `services/auth.rs` says the commit's lock keeps a cancel from
  leaving a live session behind a login screen. It does for a cancel that comes
  before the commit. One that was clicked while the sign-in landed runs after
  it: it finds nothing to cancel and announces a log-out, and the tokens stay.
* `refused` (`RefusalSparesGame`): a custom join or host must not start while a game runs
  (`joining.rs`). A join is refused as such; a host request reports a launch
  failure, whose handling stops the adapter: the running game loses its peers.

## 7. Plan

Done: `JoinFlow`, `CommandLoop` and `StateMirror`, because every other part of
the client goes through them; then the parts with state of their own that
outlives a command: `SignIn`, `Links`, `GameSession`, `ReplayReads`,
`SettingsFile`, `FolderSwap`; then `Matchmaking`, which shares its screen with
the games.

Left, in this order:

1. `try_dispatch` and nested commands in `CommandLoop`.
2. The party beside `Matchmaking`: snapshots, the leader's check, factions.
3. The client's own update and the exit sequence of the shell.

Theorems next: with the safety properties proved, what a further component
brings; and more of what the code promises where two parts meet, stated as an
abstract specification like `SerialTurns`, `AtomicUpdate` and `AccountSocket`
(the join slot, a game from its order to its end) that `JoinFlow` and
`GameSession` are shown to implement.

## 8. Running

    tlc -workers 2 -config Lobby_calloff.cfg MCLobby
    tlc -workers 2 -config Client_local.cfg MCClient
    tlapm CommandLoop_proofs.tla

The longest run (`account`) takes about two minutes with two workers, the others at
most a minute and a half, and the longest proof modules a few minutes each.
