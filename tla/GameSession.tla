---------------------------- MODULE GameSession ----------------------------
(***************************************************************************)
(* The process behind a launch order: start of services/launcher.rs from   *)
(* the order to "in game", its exit watcher and its late-failure task,     *)
(* terminate_game and LaunchSlot::started (services/lobby/launch.rs), the  *)
(* game slot of infra/game.rs with the poller of each child, and the       *)
(* adapter of infra/ice_select.rs.  JoinFlow holds what leads up to the    *)
(* order; here a game is what lives on after its launch has reported.      *)
(*                                                                         *)
(* Between the last look at the cancel flag and the moment the process     *)
(* exists lie file and socket calls, and everything after it runs on tasks *)
(* of its own, which nobody tells apart by game.                           *)
(***************************************************************************)
EXTENDS Naturals, FiniteSets

CONSTANTS
    Launches,       \* the launch orders of one run
    MaxStops        \* what the user or the server stops, in one run

NoLaunch == "no launch"

ASSUME GameSessionAssumption ==
    /\ IsFiniteSet(Launches) /\ NoLaunch \notin Launches
    /\ MaxStops \in Nat

AnyLaunch == Launches \cup {NoLaunch}

VARIABLES
    order,      \* where each launch order is
    withdrawn,  \* history: orders called off by the server or the session's end
    calledOff,  \* LaunchSlot::called_off
    flag,       \* the launch under way was cancelled
    child,      \* the process in the game slot
    exited,     \* ... has ended, which nobody has noticed yet
    poller,     \* the children somebody polls for
    watcher,    \* the exit watcher of each game
    late,       \* its late-failure task
    muted,      \* stopped_by_failure
    adapter,    \* the adapter that is up
    playing,    \* RunningGame
    screen,     \* the join state
    stopping,   \* where terminate_game is
    byLoop,     \* ... and whether the update loop called it
    strayed,    \* history: two games met, or a stop met a launch past its last check
    stops

orderVars == <<order, withdrawn, calledOff, flag>>
processVars == <<child, exited, poller, watcher>>
failureVars == <<late, muted>>
sessionVars == <<orderVars, processVars, failureVars, adapter, playing, screen, stopping, byLoop,
                 strayed, stops>>

OrderPlaces == {"none", "ordered", "adapter", "spawning", "spawned", "watched", "running",
                "shown", "kill", "stop", "show", "done"}

SessionTypeOK ==
    /\ order \in [Launches -> OrderPlaces]
    /\ withdrawn \subseteq Launches
    /\ calledOff \in BOOLEAN /\ flag \in BOOLEAN
    /\ child \in AnyLaunch /\ exited \in BOOLEAN
    /\ poller \subseteq Launches
    /\ watcher \in [Launches -> {"none", "spawned", "waiting", "woken", "stopped", "done"}]
    /\ late \in [Launches -> {"none", "armed", "kill", "report", "over"}]
    /\ muted \subseteq Launches
    /\ adapter \in AnyLaunch /\ playing \in AnyLaunch
    /\ screen \in {"idle", "launched", "preparing", "inGame", "failed"}
    /\ stopping \in {"no", "kill", "stop", "show"} /\ byLoop \in BOOLEAN
    /\ strayed \in BOOLEAN
    /\ stops \in 0 .. MaxStops

SessionInit ==
    /\ order = [g \in Launches |-> "none"]
    /\ withdrawn = {} /\ calledOff = FALSE /\ flag = FALSE
    /\ child = NoLaunch /\ exited = FALSE /\ poller = {}
    /\ watcher = [g \in Launches |-> "none"]
    /\ late = [g \in Launches |-> "none"] /\ muted = {}
    /\ adapter = NoLaunch /\ playing = NoLaunch
    /\ screen = "idle" /\ stopping = "no" /\ byLoop = FALSE /\ strayed = FALSE /\ stops = 0

-----------------------------------------------------------------------------

Ordered == {g \in Launches : order[g] \notin {"none", "done"}}
PastLastCheck == {g \in Launches : order[g] \in {"spawning", "spawned", "watched", "running"}}

(* Preparing is told of a match only, which the matchmaking state names as  *)
(* well; an order of a custom game finds it prepared.                       *)
StartingOrRunning ==
    child # NoLaunch \/ playing # NoLaunch \/ screen \in {"launched", "preparing", "inGame"}

(* Tasks of an earlier game are still at work.                             *)
Followed ==
    \/ poller # {}
    \/ \E g \in Launches : late[g] \in {"kill", "report"} \/ watcher[g] \notin {"none", "done"}

(* The launch is polled by the update loop, so a handler of the loop meets *)
(* it at an await and holds it up until the handler returns.               *)
AtAwait == \A g \in Launches : order[g] \in {"none", "ordered", "adapter", "spawning", "done"}
LoopIsFree == ~(byLoop /\ stopping # "no")

Proceed(g, place) == order' = [order EXCEPT ![g] = place]

(* fail and abandon: the adapter stops, the join state says so.            *)
Fails(g) ==
    /\ Proceed(g, "done")
    /\ adapter' = NoLaunch /\ screen' = "failed" /\ calledOff' = FALSE
Abandons(g) ==
    /\ Proceed(g, "done")
    /\ adapter' = NoLaunch /\ calledOff' = FALSE
    /\ screen' = IF screen \in {"launched", "preparing"} THEN "idle" ELSE screen

(* ProcessPort::kill.                                                      *)
Kill == child' = NoLaunch /\ exited' = FALSE

(* The adapter stops and the running game is forgotten.                    *)
Teardown == adapter' = NoLaunch /\ playing' = NoLaunch

-----------------------------------------------------------------------------
(* The launch: launcher.rs, start.                                         *)

(* The server answers a join, a host request or a search, none of which    *)
(* this client lets through while a game is starting or running.           *)
ReceiveOrder(g) ==
    /\ order[g] = "none" /\ Ordered = {} /\ ~StartingOrRunning /\ stopping = "no"
    /\ Proceed(g, "ordered")
    /\ calledOff' = FALSE /\ flag' = FALSE
    /\ screen' = "launched"
    /\ strayed' = (strayed \/ Followed)
    /\ UNCHANGED <<withdrawn, processVars, failureVars, adapter, playing, stopping,
                   stops, byLoop>>

(* Steps of the updater are told for as long as the launch is wanted.       *)
Narrate(g) ==
    /\ order[g] = "ordered" /\ LoopIsFree
    /\ ~flag /\ child = NoLaunch
    /\ screen' = "preparing"
    /\ UNCHANGED <<orderVars, processVars, failureVars, adapter, playing, stopping,
                   strayed, stops, byLoop>>

(* Refused while a process is in the slot; otherwise the install and the   *)
(* map are brought up to date, and the flag is read.                       *)
Prepare(g) ==
    /\ order[g] = "ordered" /\ LoopIsFree
    /\ \/ Fails(g)
       \/ flag /\ child = NoLaunch /\ Abandons(g)
       \/ /\ ~flag /\ child = NoLaunch
          /\ Proceed(g, "adapter")
          /\ UNCHANGED <<adapter, screen, calledOff>>
    /\ UNCHANGED <<withdrawn, flag, processVars, failureVars, playing, stopping,
                   strayed, stops, byLoop>>

(* ice.start, and the last look at the flag.                               *)
StartAdapter(g) ==
    /\ order[g] = "adapter" /\ LoopIsFree
    /\ \/ Fails(g)
       \/ flag /\ Abandons(g)
       \/ /\ ~flag
          /\ Proceed(g, "spawning")
          /\ adapter' = g
          /\ UNCHANGED <<screen, calledOff>>
    /\ UNCHANGED <<withdrawn, flag, processVars, failureVars, playing, stopping,
                   strayed, stops, byLoop>>

(* launch_game: the slot is checked under its lock.                        *)
Spawn(g) ==
    /\ order[g] = "spawning" /\ LoopIsFree
    /\ \/ Fails(g) /\ UNCHANGED <<child, exited, poller>>
       \/ /\ child = NoLaunch
          /\ child' = g /\ exited' = FALSE /\ poller' = poller \cup {g}
          /\ Proceed(g, "spawned")
          /\ UNCHANGED <<adapter, screen, calledOff>>
    /\ UNCHANGED <<withdrawn, flag, watcher, failureVars, playing, stopping, strayed,
                   stops, byLoop>>

SpawnWatcher(g) ==
    /\ order[g] = "spawned"
    /\ watcher' = [watcher EXCEPT ![g] = "spawned"]
    /\ Proceed(g, "watched")
    /\ UNCHANGED <<withdrawn, calledOff, flag, child, exited, poller, failureVars,
                   adapter, playing, screen, stopping, strayed, stops, byLoop>>

SetRunningGame(g) ==
    /\ order[g] = "watched"
    /\ playing' = g
    /\ Proceed(g, "running")
    /\ UNCHANGED <<withdrawn, calledOff, flag, processVars, failureVars, adapter,
                   screen, stopping, strayed, stops, byLoop>>

(* Only an adapter that was started behind the game can fail late.         *)
ShowInGame(g) ==
    /\ order[g] = "running"
    /\ screen' = "inGame"
    /\ late' \in {late, [late EXCEPT ![g] = "armed"]}
    /\ Proceed(g, "shown")
    /\ UNCHANGED <<withdrawn, calledOff, flag, processVars, muted, adapter, playing,
                   stopping, strayed, stops, byLoop>>

(* Faulty: the end of a launch looks at nothing.                           *)
FaultyStarted(g) ==
    /\ order[g] = "shown"
    /\ Proceed(g, "done")
    /\ calledOff' = FALSE
    /\ UNCHANGED <<withdrawn, flag, processVars, failureVars, adapter, playing,
                   screen, stopping, strayed, stops, byLoop>>

(* LaunchSlot::started: a launch that was called off meanwhile is stopped. *)
Started(g) ==
    /\ order[g] = "shown"
    /\ Proceed(g, IF calledOff THEN "kill" ELSE "done")
    /\ calledOff' = FALSE
    /\ UNCHANGED <<withdrawn, flag, processVars, failureVars, adapter, playing,
                   screen, stopping, strayed, stops, byLoop>>

-----------------------------------------------------------------------------
(* terminate_game, at the end of a launch that was called off, and by the  *)
(* user's command or the server's kill notice.                             *)

StartedKills(g) ==
    /\ order[g] = "kill"
    /\ flag' = TRUE /\ Kill
    /\ Proceed(g, "stop")
    /\ UNCHANGED <<withdrawn, calledOff, poller, watcher, failureVars, adapter,
                   playing, screen, stopping, strayed, stops, byLoop>>

StartedStops(g) ==
    /\ order[g] = "stop"
    /\ Teardown
    /\ Proceed(g, "show")
    /\ UNCHANGED <<withdrawn, calledOff, flag, processVars, failureVars, screen,
                   stopping, strayed, stops, byLoop>>

StartedTerminates(g) ==
    /\ order[g] = "show"
    /\ screen' = "idle"
    /\ Proceed(g, "done")
    /\ UNCHANGED <<withdrawn, calledOff, flag, processVars, failureVars, adapter,
                   playing, stopping, strayed, stops, byLoop>>

Stop == stops < MaxStops /\ stops' = stops + 1

Terminate ==
    /\ stopping = "no" /\ screen \in {"launched", "inGame"}
    /\ Stop
    /\ stopping' = "kill" /\ byLoop' = FALSE
    /\ UNCHANGED <<order, withdrawn, calledOff, flag, processVars, failureVars,
                   adapter, playing, screen, strayed>>

KillNotice ==
    /\ stopping = "no" /\ AtAwait
    /\ Stop
    /\ stopping' = "kill" /\ byLoop' = TRUE
    /\ calledOff' = (Ordered # {}) /\ withdrawn' = withdrawn \cup Ordered
    /\ UNCHANGED <<order, flag, processVars, failureVars, adapter, playing, screen,
                   strayed>>

(* match_cancelled for a launch under way, or the end of its session: the  *)
(* launch goes on to its next check or its end and is waited for.          *)
CallOffLaunch ==
    /\ Ordered # {} /\ AtAwait /\ LoopIsFree
    /\ Stop
    /\ calledOff' = TRUE /\ flag' = TRUE /\ withdrawn' = withdrawn \cup Ordered
    /\ UNCHANGED <<order, processVars, failureVars, adapter, playing, screen,
                   stopping, strayed, byLoop>>

(* cancel_join while the preparation is on screen; on any later screen it   *)
(* is Terminate.                                                            *)
CancelJoin ==
    /\ screen = "preparing"
    /\ Stop
    /\ flag' = TRUE /\ screen' = "idle"
    /\ UNCHANGED <<order, withdrawn, calledOff, processVars, failureVars, adapter,
                   playing, stopping, strayed, byLoop>>

TerminateKills ==
    /\ stopping = "kill" /\ stopping' = "stop"
    /\ flag' = TRUE /\ Kill
    /\ strayed' = (strayed \/ PastLastCheck # {})
    /\ UNCHANGED <<order, withdrawn, calledOff, poller, watcher, failureVars, adapter,
                   playing, screen, stops, byLoop>>

TerminateStops ==
    /\ stopping = "stop" /\ stopping' = "show"
    /\ Teardown
    /\ strayed' = (strayed \/ PastLastCheck # {})
    /\ UNCHANGED <<orderVars, processVars, failureVars, screen, stops, byLoop>>

Terminated ==
    /\ stopping = "show" /\ stopping' = "no" /\ byLoop' = FALSE
    /\ screen' = "idle"
    /\ strayed' = (strayed \/ PastLastCheck # {})
    /\ UNCHANGED <<orderVars, processVars, failureVars, adapter, playing, stops>>

(* host, refused: report_failure stops the adapter, whoever uses it.       *)
RefuseHost ==
    /\ StartingOrRunning
    /\ Stop
    /\ adapter' = NoLaunch /\ screen' = "failed"
    /\ strayed' = TRUE
    /\ UNCHANGED <<orderVars, processVars, failureVars, playing, stopping, byLoop>>

-----------------------------------------------------------------------------
(* The process and the tasks that follow it.                               *)

Exits ==
    /\ child # NoLaunch /\ ~exited
    /\ exited' = TRUE
    /\ UNCHANGED <<orderVars, child, poller, watcher, failureVars, adapter, playing,
                   screen, stopping, strayed, stops, byLoop>>

(* watch_for_exit: a poll that finds the slot empty or its process gone    *)
(* wakes every watcher that waits.                                         *)
Poll(g) ==
    /\ g \in poller
    /\ child = NoLaunch \/ exited
    /\ Kill
    /\ poller' = poller \ {g}
    /\ watcher' = [h \in Launches |-> IF watcher[h] = "waiting" THEN "woken" ELSE watcher[h]]
    /\ UNCHANGED <<orderVars, failureVars, adapter, playing, screen, stopping,
                   strayed, stops, byLoop>>

(* wait_for_exit, and what the watcher does once it is over.               *)
WaitForExit(g) ==
    /\ watcher[g] = "spawned"
    /\ watcher' = [watcher EXCEPT ![g] = IF child = NoLaunch THEN "woken" ELSE "waiting"]
    /\ UNCHANGED <<orderVars, child, exited, poller, failureVars, adapter, playing,
                   screen, stopping, strayed, stops, byLoop>>

WatcherStops(g) ==
    /\ watcher[g] = "woken"
    /\ Teardown
    /\ watcher' = [watcher EXCEPT ![g] = "stopped"]
    /\ strayed' = (strayed \/ PastLastCheck # {})
    /\ UNCHANGED <<orderVars, child, exited, poller, failureVars, screen, stopping,
                   stops, byLoop>>

WatcherReports(g) ==
    /\ watcher[g] = "stopped"
    /\ screen' = IF g \in muted THEN screen ELSE "idle"
    /\ watcher' = [watcher EXCEPT ![g] = "done"]
    /\ strayed' = (strayed \/ PastLastCheck # {})
    /\ UNCHANGED <<orderVars, child, exited, poller, failureVars, adapter, playing,
                   stopping, stops, byLoop>>

(* Faulty: a failure that comes after the game is told all the same.       *)
FaultyLateAnswer(g) ==
    /\ late[g] = "armed"
    /\ late' = [late EXCEPT ![g] = "kill"]
    /\ UNCHANGED <<orderVars, processVars, muted, adapter, playing, screen, stopping,
                   strayed, stops, byLoop>>

(* The adapter cannot be had after all, or the game ended first.           *)
LateAnswer(g) ==
    /\ late[g] = "armed"
    /\ late' = [late EXCEPT ![g] = IF playing = g THEN "kill" ELSE "over"]
    /\ UNCHANGED <<orderVars, processVars, muted, adapter, playing, screen, stopping,
                   strayed, stops, byLoop>>

LateKills(g) ==
    /\ late[g] = "kill"
    /\ late' = [late EXCEPT ![g] = "report"]
    /\ muted' = muted \cup {g}
    /\ Kill
    /\ UNCHANGED <<orderVars, poller, watcher, adapter, playing, screen, stopping,
                   strayed, stops, byLoop>>

LateReports(g) ==
    /\ late[g] = "report"
    /\ late' = [late EXCEPT ![g] = "over"]
    /\ adapter' = NoLaunch /\ screen' = "failed"
    /\ UNCHANGED <<orderVars, processVars, muted, playing, stopping, strayed, stops,
                   byLoop>>

-----------------------------------------------------------------------------

LaunchStep(g) ==
    \/ Narrate(g) \/ Prepare(g) \/ StartAdapter(g) \/ Spawn(g) \/ SpawnWatcher(g) \/ SetRunningGame(g)
    \/ ShowInGame(g) \/ Started(g) \/ StartedKills(g) \/ StartedStops(g) \/ StartedTerminates(g)
FollowUp(g) ==
    Poll(g) \/ WaitForExit(g) \/ WatcherStops(g) \/ WatcherReports(g)
        \/ LateKills(g) \/ LateReports(g)
Termination == TerminateKills \/ TerminateStops \/ Terminated

SessionNext ==
    \/ \E g \in Launches : ReceiveOrder(g) \/ LaunchStep(g) \/ FollowUp(g) \/ LateAnswer(g)
    \/ Termination \/ Terminate \/ CancelJoin \/ KillNotice \/ CallOffLaunch \/ RefuseHost \/ Exits

SessionSpec == SessionInit /\ [][SessionNext]_sessionVars

-----------------------------------------------------------------------------

AtRest ==
    /\ Ordered = {} /\ stopping = "no" /\ ~exited /\ (child = NoLaunch => poller = {})
    /\ \A g \in Launches : /\ watcher[g] \in {"none", "waiting", "done"}
                           /\ late[g] \in {"none", "armed", "over"}

(* A match withdrawn while its game was being spawned, by the server or    *)
(* with the session that ended, is not left on the player's screen: the    *)
(* last check has passed by then, so only the end of the launch stops it.  *)
WithdrawnIsStopped == Ordered = {} => child \notin withdrawn

(* Once every task has come to rest, process, adapter, running game and    *)
(* join state agree: nobody waits in a game that is gone, and no adapter   *)
(* is left behind.  Where the tasks of two games met, or a stop met a      *)
(* launch past its last check, the code does not promise this (strayed).   *)
SessionsAgree ==
    AtRest /\ ~strayed =>
        /\ adapter = child /\ playing = child
        /\ (screen = "inGame") <=> (child # NoLaunch)

(* What a_game_is_starting_or_running is for: a request that is refused    *)
(* while a game runs leaves that game alone.                               *)
RefusalSparesGame ==
    [][ (/\ screen = "inGame" /\ ~exited
         /\ adapter # NoLaunch /\ adapter = child /\ adapter' = NoLaunch)
        => \/ stopping # "no" \/ order[child] = "stop"
           \/ \E g \in Launches : watcher[g] = "woken" \/ late[g] = "report" ]_sessionVars

=============================================================================
