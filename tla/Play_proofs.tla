----------------------------- MODULE Play_proofs -----------------------------
(* Theorems about what the player watches, for any launches, replays, panels*)
(* and commands.  GameSession: a match the server withdrew leaves no game on*)
(* the player's screen, and at rest process, adapter and screen agree.      *)
(* ReplayReads: the types, and that no panel waits for a read nobody runs,  *)
(* in whatever order the bridge takes calls.                                *)
EXTENDS GameSession, ReplayReads, SequenceTheorems, TLAPS

-----------------------------------------------------------------------------
(* GameSession.  The invariant.                                             *)

(* One launch at a time is between its order and its end.                   *)
OneLaunch == \A g, h \in Ordered : g = h

(* A process in the slot is past the point where its launch spawned it.     *)
ChildIsSpawned ==
    child # NoLaunch => order[child] \notin {"none", "ordered", "adapter", "spawning"}

(* A withdrawn launch is not forgotten: until it is killed or over, the     *)
(* end of the launch still finds it called off.                             *)
WithdrawnIsKnown ==
    \A g \in withdrawn :
        /\ order[g] # "none"
        /\ order[g] \notin {"kill", "stop", "show", "done"} => calledOff
        /\ child = g => order[g] \notin {"stop", "show", "done"}

SessionInv == SessionTypeOK /\ OneLaunch /\ ChildIsSpawned /\ WithdrawnIsKnown

LEMMA NoLaunchIsNone == NoLaunch \notin Launches /\ MaxStops \in Nat
BY GameSessionAssumption

LEMMA InitSession == SessionInit => SessionInv
<1> SUFFICES ASSUME SessionInit PROVE SessionInv
    OBVIOUS
<1>1. SessionTypeOK
    <2>1. stops \in 0 .. MaxStops
        BY NoLaunchIsNone DEF SessionInit
    <2>2. /\ calledOff \in BOOLEAN /\ flag \in BOOLEAN /\ exited \in BOOLEAN
          /\ byLoop \in BOOLEAN /\ strayed \in BOOLEAN
        BY Zenon DEF SessionInit
    <2>3. /\ order \in [Launches -> OrderPlaces]
          /\ watcher \in [Launches -> {"none", "spawned", "waiting", "woken", "stopped", "done"}]
          /\ late \in [Launches -> {"none", "armed", "kill", "report", "over"}]
        BY DEF SessionInit, OrderPlaces
    <2> QED
        BY <2>1, <2>2, <2>3 DEF SessionInit, SessionTypeOK, AnyLaunch
<1>2. OneLaunch /\ ChildIsSpawned /\ WithdrawnIsKnown
    BY DEF SessionInit, OneLaunch, Ordered, ChildIsSpawned, WithdrawnIsKnown
<1> QED
    BY <1>1, <1>2 DEF SessionInv

-----------------------------------------------------------------------------
(* Every step keeps the types.                                              *)

LEMMA TypesKept == SessionTypeOK /\ [SessionNext]_sessionVars => SessionTypeOK'
<1> SUFFICES ASSUME SessionTypeOK, [SessionNext]_sessionVars
             PROVE  SessionTypeOK'
    OBVIOUS
<1> USE NoLaunchIsNone DEF SessionTypeOK, OrderPlaces, AnyLaunch
<1>1. ASSUME NEW g \in Launches, ReceiveOrder(g) PROVE SessionTypeOK'
    BY <1>1 DEF ReceiveOrder, Proceed, Ordered, orderVars, processVars, failureVars
<1>2. ASSUME NEW g \in Launches, Prepare(g) PROVE SessionTypeOK'
    BY ZenonT(40), <1>2 DEF Prepare, Fails, Abandons, Proceed, orderVars, processVars, failureVars
<1>3. ASSUME NEW g \in Launches, StartAdapter(g) PROVE SessionTypeOK'
    BY ZenonT(40), <1>3
    DEF StartAdapter, Fails, Abandons, Proceed, orderVars, processVars, failureVars
<1>4. ASSUME NEW g \in Launches, Spawn(g) PROVE SessionTypeOK'
    BY ZenonT(40), <1>4 DEF Spawn, Fails, Proceed, orderVars, processVars, failureVars
<1>5. ASSUME NEW g \in Launches, SpawnWatcher(g) PROVE SessionTypeOK'
    BY <1>5 DEF SpawnWatcher, Proceed, orderVars, processVars, failureVars
<1>6. ASSUME NEW g \in Launches, SetRunningGame(g) PROVE SessionTypeOK'
    BY <1>6 DEF SetRunningGame, Proceed, orderVars, processVars, failureVars
<1>7. ASSUME NEW g \in Launches, ShowInGame(g) PROVE SessionTypeOK'
    BY <1>7 DEF ShowInGame, Proceed, orderVars, processVars, failureVars
<1>8. ASSUME NEW g \in Launches, Started(g) PROVE SessionTypeOK'
    BY ZenonT(40), <1>8 DEF Started, Proceed, orderVars, processVars, failureVars
<1>9. ASSUME NEW g \in Launches, StartedKills(g) PROVE SessionTypeOK'
    BY ZenonT(40), <1>9 DEF StartedKills, Kill, Proceed, orderVars, processVars, failureVars
<1>10. ASSUME NEW g \in Launches, StartedStops(g) PROVE SessionTypeOK'
    BY <1>10 DEF StartedStops, Teardown, Proceed, orderVars, processVars, failureVars
<1>11. ASSUME NEW g \in Launches, StartedTerminates(g) PROVE SessionTypeOK'
    BY <1>11 DEF StartedTerminates, Proceed, orderVars, processVars, failureVars
<1>12. ASSUME NEW g \in Launches, Poll(g) PROVE SessionTypeOK'
    BY ZenonT(40), <1>12 DEF Poll, Kill, orderVars, processVars, failureVars
<1>13. ASSUME NEW g \in Launches, WaitForExit(g) PROVE SessionTypeOK'
    BY <1>13 DEF WaitForExit, orderVars, processVars, failureVars
<1>14. ASSUME NEW g \in Launches, WatcherStops(g) PROVE SessionTypeOK'
    BY <1>14 DEF WatcherStops, Teardown, orderVars, processVars, failureVars
<1>15. ASSUME NEW g \in Launches, WatcherReports(g) PROVE SessionTypeOK'
    BY <1>15 DEF WatcherReports, orderVars, processVars, failureVars
<1>16. ASSUME NEW g \in Launches, LateKills(g) PROVE SessionTypeOK'
    BY ZenonT(40), <1>16 DEF LateKills, Kill, orderVars, processVars, failureVars
<1>17. ASSUME NEW g \in Launches, LateReports(g) PROVE SessionTypeOK'
    BY <1>17 DEF LateReports, orderVars, processVars, failureVars
<1>18. ASSUME NEW g \in Launches, LateAnswer(g) PROVE SessionTypeOK'
    BY <1>18 DEF LateAnswer, orderVars, processVars, failureVars
<1>19. CASE TerminateKills
    BY <1>19 DEF TerminateKills, Kill, orderVars, processVars, failureVars
<1>20. CASE TerminateStops
    BY <1>20 DEF TerminateStops, Teardown, orderVars, processVars, failureVars
<1>21. CASE Terminated
    BY <1>21 DEF Terminated, orderVars, processVars, failureVars
<1>22. CASE Terminate
    <2>1. stops' \in 0 .. MaxStops
        BY <1>22 DEF Terminate, Stop
    <2>2. /\ stopping' \in {"no", "kill", "stop", "show"} /\ byLoop' \in BOOLEAN
          /\ screen' \in {"idle", "launched", "preparing", "inGame", "failed"}
        BY <1>22, Zenon DEF Terminate
    <2> QED
        BY <1>22, <2>1, <2>2 DEF Terminate, orderVars, processVars, failureVars
<1>23. CASE KillNotice
    BY <1>23 DEF KillNotice, Stop, Ordered, AtAwait, orderVars, processVars, failureVars
<1>24. CASE CallOffLaunch
    BY <1>24 DEF CallOffLaunch, Stop, Ordered, AtAwait, orderVars, processVars, failureVars
<1>25. CASE RefuseHost
    BY <1>25 DEF RefuseHost, Stop, orderVars, processVars, failureVars
<1>26. CASE Exits
    BY <1>26 DEF Exits, orderVars, processVars, failureVars
<1>27. CASE UNCHANGED sessionVars
    BY <1>27 DEF sessionVars, orderVars, processVars, failureVars
<1>28. ASSUME NEW g \in Launches, Narrate(g) PROVE SessionTypeOK'
    BY <1>28 DEF Narrate, orderVars, processVars, failureVars
<1>29. CASE CancelJoin
    BY <1>29 DEF CancelJoin, Stop, processVars, failureVars
<1> QED
    BY <1>1, <1>2, <1>3, <1>4, <1>5, <1>6, <1>7, <1>8, <1>9, <1>10, <1>11, <1>12, <1>13, <1>14,
       <1>15, <1>16, <1>17, <1>18, <1>19, <1>20, <1>21, <1>22, <1>23, <1>24, <1>25, <1>26, <1>27,
       <1>28, <1>29
    DEF SessionNext, LaunchStep, FollowUp, Termination

-----------------------------------------------------------------------------
(* Every step keeps what is said of the launches.                           *)

Fits == OneLaunch /\ ChildIsSpawned /\ WithdrawnIsKnown

LEMMA FitsKept == SessionInv /\ [SessionNext]_sessionVars => Fits'
<1> SUFFICES ASSUME SessionInv, [SessionNext]_sessionVars
             PROVE  Fits'
    OBVIOUS
<1> USE NoLaunchIsNone DEF SessionInv, SessionTypeOK, OrderPlaces, AnyLaunch, Fits, OneLaunch,
    Ordered, ChildIsSpawned,
           WithdrawnIsKnown
<1>1. ASSUME NEW g \in Launches, ReceiveOrder(g) PROVE Fits'
    BY <1>1 DEF ReceiveOrder, Proceed, Ordered, orderVars, processVars, failureVars
<1>2. ASSUME NEW g \in Launches, Prepare(g) PROVE Fits'
    BY <1>2 DEF Prepare, Fails, Abandons, Proceed, orderVars, processVars, failureVars
<1>3. ASSUME NEW g \in Launches, StartAdapter(g) PROVE Fits'
    BY <1>3 DEF StartAdapter, Fails, Abandons, Proceed, orderVars, processVars, failureVars
<1>4. ASSUME NEW g \in Launches, Spawn(g) PROVE Fits'
    BY <1>4 DEF Spawn, Fails, Proceed, orderVars, processVars, failureVars
<1>5. ASSUME NEW g \in Launches, SpawnWatcher(g) PROVE Fits'
    BY <1>5 DEF SpawnWatcher, Proceed, orderVars, processVars, failureVars
<1>6. ASSUME NEW g \in Launches, SetRunningGame(g) PROVE Fits'
    BY <1>6 DEF SetRunningGame, Proceed, orderVars, processVars, failureVars
<1>7. ASSUME NEW g \in Launches, ShowInGame(g) PROVE Fits'
    BY <1>7 DEF ShowInGame, Proceed, orderVars, processVars, failureVars
<1>8. ASSUME NEW g \in Launches, Started(g) PROVE Fits'
    BY <1>8 DEF Started, Proceed, orderVars, processVars, failureVars
<1>9. ASSUME NEW g \in Launches, StartedKills(g) PROVE Fits'
    BY <1>9 DEF StartedKills, Kill, Proceed, orderVars, processVars, failureVars
<1>10. ASSUME NEW g \in Launches, StartedStops(g) PROVE Fits'
    BY <1>10 DEF StartedStops, Teardown, Proceed, orderVars, processVars, failureVars
<1>11. ASSUME NEW g \in Launches, StartedTerminates(g) PROVE Fits'
    BY <1>11 DEF StartedTerminates, Proceed, orderVars, processVars, failureVars
<1>12. ASSUME NEW g \in Launches, Poll(g) PROVE Fits'
    BY <1>12 DEF Poll, Kill, orderVars, processVars, failureVars
<1>13. ASSUME NEW g \in Launches, LateKills(g) PROVE Fits'
    BY <1>13 DEF LateKills, Kill, orderVars, processVars, failureVars
<1>14. CASE TerminateKills
    BY <1>14 DEF TerminateKills, Kill, orderVars, processVars, failureVars
<1>15. CASE KillNotice
    BY <1>15 DEF KillNotice, Stop, Ordered, AtAwait, orderVars, processVars, failureVars
<1>16. CASE CallOffLaunch
    BY <1>16 DEF CallOffLaunch, Stop, Ordered, AtAwait, orderVars, processVars, failureVars
<1>17. CASE UNCHANGED <<order, withdrawn, calledOff, child>>
    BY <1>17
<1> QED
    BY <1>1, <1>2, <1>3, <1>4, <1>5, <1>6, <1>7, <1>8, <1>9, <1>10, <1>11, <1>12, <1>13, <1>14,
       <1>15, <1>16, <1>17
    DEF SessionNext, LaunchStep, FollowUp, Termination, Narrate, CancelJoin, WaitForExit, WatcherStops,
        WatcherReports, LateReports, LateAnswer, TerminateStops, Terminated, Terminate, RefuseHost,
        Exits, sessionVars, orderVars, processVars, failureVars, Teardown, Stop

-----------------------------------------------------------------------------
(* The theorems.                                                            *)

(* The inductive invariant: one launch at a time, a spawned process behind  *)
(* its launch, and no withdrawn launch forgotten.                           *)
THEOREM SessionInvariant == SessionSpec => []SessionInv
<1>1. SessionInit => SessionInv
    BY InitSession
<1>2. SessionInv /\ [SessionNext]_sessionVars => SessionInv'
    BY TypesKept, FitsKept DEF SessionInv, Fits
<1> QED
    BY <1>1, <1>2, PTL DEF SessionSpec

(* A match withdrawn while its game was being spawned (match_cancelled and  *)
(* the kill notice against launcher.rs, start) is stopped by the end of its *)
(* launch, for any number of launches and stops.                            *)
THEOREM WithdrawnGameIsStopped == SessionSpec => []WithdrawnIsStopped
<1>1. SessionInv => WithdrawnIsStopped
    BY NoLaunchIsNone
       DEF SessionInv, SessionTypeOK, OrderPlaces, WithdrawnIsKnown, WithdrawnIsStopped, Ordered
<1> QED
    BY <1>1, SessionInvariant, PTL

(* The variables of GameSession keep their types.                           *)
THEOREM SessionTypes == SessionSpec => []SessionTypeOK
<1>1. SessionInv => SessionTypeOK
    BY DEF SessionInv
<1> QED
    BY <1>1, SessionInvariant, PTL

-----------------------------------------------------------------------------
(* What the tasks of a game agree on, as long as nothing has strayed.       *)

Early == {"none", "ordered", "adapter", "spawning"}
Following == {"spawned", "waiting", "woken"}

Active(g) ==
    \/ g \in Ordered \/ g \in poller \/ watcher[g] \notin {"none", "done"}
    \/ late[g] \in {"kill", "report"} \/ g \in {child, playing, adapter}

(* One game at a time has a task, a process or an adapter.                  *)
OneGame == \A g, h \in Launches : Active(g) /\ Active(h) => g = h

(* What a launch has by then: the adapter from the last check on, a watcher *)
(* from the spawned process on, and the running game after it.              *)
LaunchGrows ==
    \A g \in Launches :
        /\ order[g] \in Early => g \notin poller /\ child # g /\ (order[g] # "spawning" => adapter # g)
        /\ order[g] \in Early \cup {"spawned"} => watcher[g] = "none" /\ playing # g
        /\ order[g] \in Early \cup {"spawned", "watched", "running"} =>
               late[g] = "none" /\ g \notin muted
        /\ order[g] \in {"watched", "running"} => watcher[g] \in Following
        /\ g \in PastLastCheck => adapter = g
        /\ order[g] = "running" => playing = g

(* A process in the slot is polled for, and nothing of its game is gone.    *)
ChildIsFollowed ==
    \A g \in Launches : child = g =>
        /\ g \in poller /\ g \notin muted /\ adapter = g
        /\ watcher[g] \in {"none", "spawned", "waiting"} /\ late[g] \in {"none", "armed", "kill"}
        /\ stopping \notin {"stop", "show"} /\ order[g] \notin {"stop", "show"}
        /\ order[g] \in {"shown", "kill", "done"} => playing = g /\ screen = "inGame"

WaitingIsPolled == \A g \in Launches : watcher[g] = "waiting" => g \in poller

(* What is up will be taken down, and "in game" taken back.                 *)
TeardownComes ==
    \A g \in Launches :
        /\ adapter = g => order[g] \in {"spawning", "spawned"} \/ watcher[g] \in Following
        /\ playing = g => watcher[g] \in Following
EndIsTold ==
    screen = "inGame" =>
        \E g \in Launches : \/ late[g] = "report"
                            \/ watcher[g] \in Following \cup {"stopped"} /\ g \notin muted

(* A stop that has killed meets no launch it could not kill.                *)
StopMeetsNoLaunch ==
    stopping \in {"stop", "show"} =>
        PastLastCheck = {} /\ \A g \in Launches : order[g] \in {"ordered", "adapter"} => flag

Agreement ==
    /\ OneGame /\ LaunchGrows /\ ChildIsFollowed /\ WaitingIsPolled /\ TeardownComes
    /\ EndIsTold /\ StopMeetsNoLaunch

LEMMA AgreementKept ==
    ASSUME SessionTypeOK, Agreement, ~strayed', [SessionNext]_sessionVars
    PROVE  Agreement'
<1> USE NoLaunchIsNone DEF SessionTypeOK, OrderPlaces, AnyLaunch, Agreement, OneGame, Active,
    LaunchGrows, ChildIsFollowed, WaitingIsPolled, TeardownComes, EndIsTold, StopMeetsNoLaunch,
    Ordered, PastLastCheck, Early, Following, Proceed, orderVars, processVars, failureVars
<1>1. ASSUME NEW g \in Launches, ReceiveOrder(g) PROVE Agreement'
    <2>1. ~Followed
        BY <1>1, Zenon DEF ReceiveOrder
    <2>2. \A h \in Launches : ~Active(h)
        BY <1>1, <2>1 DEF ReceiveOrder, Followed, StartingOrRunning
    <2>3. \A h \in Launches : Active(h)' => h = g
        BY <1>1, <2>2 DEF ReceiveOrder
    <2>4. OneGame' /\ TeardownComes' /\ WaitingIsPolled' /\ EndIsTold'
        BY <1>1, <2>2, <2>3 DEF ReceiveOrder
    <2>5. LaunchGrows' /\ ChildIsFollowed' /\ StopMeetsNoLaunch'
        BY <1>1, <2>2 DEF ReceiveOrder
    <2> QED
        BY <2>4, <2>5
<1>2. ASSUME NEW g \in Launches, Prepare(g) PROVE Agreement'
    BY <1>2 DEF Fails, Abandons, Prepare
<1>3. ASSUME NEW g \in Launches, StartAdapter(g) PROVE Agreement'
    BY <1>3 DEF Fails, Abandons, StartAdapter
<1>4. ASSUME NEW g \in Launches, Spawn(g) PROVE Agreement'
    BY <1>4 DEF Fails, Spawn
<1>5. ASSUME NEW g \in Launches, SpawnWatcher(g) PROVE Agreement'
    BY <1>5 DEF SpawnWatcher
<1>6. ASSUME NEW g \in Launches, SetRunningGame(g) PROVE Agreement'
    BY <1>6 DEF SetRunningGame
<1>7. ASSUME NEW g \in Launches, ShowInGame(g) PROVE Agreement'
    BY <1>7 DEF ShowInGame
<1>8. ASSUME NEW g \in Launches, Started(g) PROVE Agreement'
    BY <1>8 DEF Started
<1>9. ASSUME NEW g \in Launches, StartedKills(g) PROVE Agreement'
    BY <1>9 DEF Kill, StartedKills
<1>10. ASSUME NEW g \in Launches, StartedStops(g) PROVE Agreement'
    BY <1>10 DEF Teardown, StartedStops
<1>11. ASSUME NEW g \in Launches, StartedTerminates(g) PROVE Agreement'
    BY <1>11 DEF StartedTerminates
<1>12. ASSUME NEW g \in Launches, Poll(g) PROVE Agreement'
    BY <1>12 DEF Kill, Poll
<1>13. ASSUME NEW g \in Launches, WaitForExit(g) PROVE Agreement'
    BY <1>13 DEF WaitForExit
<1>14. ASSUME NEW g \in Launches, WatcherStops(g) PROVE Agreement'
    <2>1. PastLastCheck = {}
        BY <1>14, Zenon DEF WatcherStops
    <2>2. child = NoLaunch
        BY <1>14 DEF WatcherStops
    <2> QED
        BY <1>14, <2>1, <2>2 DEF Teardown, WatcherStops
<1>15. ASSUME NEW g \in Launches, WatcherReports(g) PROVE Agreement'
    BY <1>15 DEF WatcherReports
<1>16. ASSUME NEW g \in Launches, LateKills(g) PROVE Agreement'
    BY <1>16 DEF Kill, LateKills
<1>17. ASSUME NEW g \in Launches, LateReports(g) PROVE Agreement'
    BY <1>17 DEF LateReports
<1>18. ASSUME NEW g \in Launches, LateAnswer(g) PROVE Agreement'
    BY <1>18 DEF LateAnswer
<1>19. CASE TerminateKills
    <2>1. PastLastCheck = {}
        BY <1>19, Zenon DEF TerminateKills
    <2> QED
        BY <1>19, <2>1 DEF Kill, TerminateKills
<1>20. CASE TerminateStops
    BY <1>20 DEF Teardown, TerminateStops
<1>21. CASE Terminated
    BY <1>21 DEF Terminated
<1>22. CASE Terminate
    BY <1>22 DEF Stop, Terminate
<1>23. CASE KillNotice
    BY <1>23 DEF Stop, KillNotice
<1>24. CASE CallOffLaunch
    BY <1>24 DEF Stop, CallOffLaunch
<1>25. CASE Exits
    BY <1>25 DEF Exits
<1>26. CASE RefuseHost
    BY <1>26 DEF RefuseHost
<1>27. CASE UNCHANGED sessionVars
    BY <1>27 DEF sessionVars
<1>28. ASSUME NEW g \in Launches, Narrate(g) PROVE Agreement'
    BY <1>28 DEF Narrate
<1>29. CASE CancelJoin
    BY <1>29 DEF Stop, CancelJoin
<1> QED
    BY <1>1, <1>2, <1>3, <1>4, <1>5, <1>6, <1>7, <1>8, <1>9, <1>10, <1>11, <1>12, <1>13, <1>14,
       <1>15, <1>16, <1>17, <1>18, <1>19, <1>20, <1>21, <1>22, <1>23, <1>24, <1>25, <1>26,
       <1>27, <1>28, <1>29
    DEF SessionNext, LaunchStep, FollowUp, Termination

LEMMA InitAgreement == SessionInit => Agreement
BY NoLaunchIsNone
DEF SessionInit, Agreement, OneGame, Active, LaunchGrows, ChildIsFollowed, WaitingIsPolled,
    TeardownComes, EndIsTold, StopMeetsNoLaunch, Ordered, PastLastCheck, Early

LEMMA StrayedStays ==
    ASSUME [SessionNext]_sessionVars, ~strayed' PROVE ~strayed
<1>1. ASSUME NEW g \in Launches, ReceiveOrder(g) PROVE ~strayed
    BY <1>1, Zenon DEF ReceiveOrder
<1>2. ASSUME NEW g \in Launches, WatcherStops(g) \/ WatcherReports(g) PROVE ~strayed
    BY <1>2, Zenon DEF WatcherStops, WatcherReports
<1>3. CASE TerminateKills \/ TerminateStops \/ Terminated
    BY <1>3, Zenon DEF TerminateKills, TerminateStops, Terminated
<1>4. CASE RefuseHost
    BY <1>4 DEF RefuseHost
<1>5. CASE UNCHANGED strayed
    BY <1>5
<1> QED
    BY <1>1, <1>2, <1>3, <1>4, <1>5
    DEF SessionNext, LaunchStep, FollowUp, Termination, Prepare, StartAdapter, Spawn, SpawnWatcher,
        SetRunningGame, ShowInGame, Started, StartedKills, StartedStops, StartedTerminates, Poll,
        WaitForExit, LateKills, LateReports, LateAnswer, Terminate, KillNotice, CallOffLaunch,
        Narrate, CancelJoin, Exits, sessionVars

(* The agreement makes the state of a session at rest the same everywhere.  *)
LEMMA RestAgrees ==
    ASSUME SessionTypeOK, Agreement, AtRest
    PROVE  /\ adapter = child /\ playing = child
           /\ (screen = "inGame") <=> (child # NoLaunch)
<1> USE NoLaunchIsNone
<1>1. /\ \A g \in Launches : order[g] \in {"none", "done"}
      /\ \A g \in Launches : watcher[g] \in {"none", "waiting", "done"} /\ late[g] # "report"
      /\ child = NoLaunch => poller = {}
      /\ {child, adapter, playing} \subseteq AnyLaunch
    BY DEF AtRest, Ordered, SessionTypeOK
<1>2. CASE child \in Launches
    <2>1. order[child] = "done"
        BY <1>1, <1>2 DEF Agreement, LaunchGrows, Early
    <2> QED
        BY <1>2, <2>1 DEF Agreement, ChildIsFollowed
<1>3. CASE child = NoLaunch
    <2>1. \A g \in Launches : watcher[g] \notin Following \cup {"stopped"}
        BY <1>1, <1>3 DEF Agreement, WaitingIsPolled, Following
    <2>2. adapter = NoLaunch /\ playing = NoLaunch
        BY <1>1, <2>1 DEF Agreement, TeardownComes, AnyLaunch
    <2>3. screen # "inGame"
        BY <1>1, <2>1 DEF Agreement, EndIsTold
    <2> QED
        BY <1>3, <2>2, <2>3
<1> QED
    BY <1>1, <1>2, <1>3 DEF AnyLaunch

(* Once every task of a game has come to rest the process, the adapter, the *)
(* running game and the join state agree, for any launches and stops, where *)
(* nothing has strayed.                                                     *)
THEOREM RestingSessionsAgree == SessionSpec => []SessionsAgree
<1> DEFINE Inv == SessionTypeOK /\ (~strayed => Agreement)
<1>1. SessionInit => Inv
    BY InitSession, InitAgreement DEF SessionInv
<1>2. Inv /\ [SessionNext]_sessionVars => Inv'
    BY TypesKept, AgreementKept, StrayedStays
<1>3. Inv => SessionsAgree
    BY RestAgrees DEF SessionsAgree
<1> HIDE DEF Inv
<1> QED
    BY <1>1, <1>2, <1>3, PTL DEF SessionSpec

-----------------------------------------------------------------------------
(* ReplayReads.  The operators.                                             *)

Queued == [what : Reads, key : Keys, req : 1 .. MaxRequests, seq : Stamped]
Runs == [what : Reads, key : Keys, req : 1 .. MaxRequests, seq : Stamped, off : BOOLEAN]
Views == [loading : [Reads -> AnyKey], error : [Reads -> AnyKey],
          details : SUBSET Keys, analysis : AnyKey]

(* What each reduction does to the loading marks and to a read's answer.    *)
LEMMA LoadingMarks ==
    ASSUME NEW v \in Views, NEW read \in Reads, NEW k \in Keys
    PROVE  /\ Loading(v, read, k) \in Views
           /\ Loading(v, read, k).loading[read] = k
           /\ \A x \in Reads \ {read} : Loading(v, read, k).loading[x] = v.loading[x]
BY DEF Loading, Views, Reads, AnyKey

LEMMA LandedClears ==
    ASSUME NEW v \in Views, NEW read \in Reads, NEW k \in Keys
    PROVE  /\ Landed(v, read, k) \in Views
           /\ \A x \in Reads : \/ Landed(v, read, k).loading[x] = v.loading[x]
                               \/ x = read /\ v.loading[x] = k
           /\ v.loading[read] = k => /\ Landed(v, read, k) # v
                                     /\ read \in Answered(Landed(v, read, k), k)
<1>1. k # NoKey
  BY ReplayReadsAssumption
<1>2. CASE read = "details"
  BY ZenonT(40), <1>1, <1>2 DEF Landed, Clear, Views, Reads, AnyKey, Answered, Has
<1>3. CASE read = "analysis" /\ v.loading[read] = k
  <2> DEFINE w == [v EXCEPT !.analysis = k, !.loading[read] = NoKey, !.error[read] = NoKey]
  <2>1. Landed(v, read, k) = w
    BY <1>3 DEF Landed
  <2>2. /\ w \in Views /\ w.analysis = k /\ w.loading[read] = NoKey
        /\ \A x \in Reads \ {read} : w.loading[x] = v.loading[x]
    BY DEF Views, Reads, AnyKey
  <2>3. w # v
    BY <1>1, <1>3, <2>2
  <2>4. read \in Answered(w, k)
    BY <1>3, <2>2 DEF Answered, Has
  <2> HIDE DEF w
  <2> QED BY <1>3, <2>1, <2>2, <2>3, <2>4
<1>4. CASE read = "analysis" /\ v.loading[read] # k
  BY <1>4 DEF Landed
<1> QED BY <1>2, <1>3, <1>4 DEF Reads

LEMMA FailedClears ==
    ASSUME NEW v \in Views, NEW read \in Reads, NEW k \in Keys
    PROVE  /\ Failed(v, read, k) \in Views
           /\ \A x \in Reads : \/ Failed(v, read, k).loading[x] = v.loading[x]
                               \/ x = read /\ v.loading[x] = k
           /\ v.loading[read] = k => /\ Failed(v, read, k) # v
                                     /\ read \in Answered(Failed(v, read, k), k)
<1>1. k # NoKey
  BY ReplayReadsAssumption
<1> QED BY ZenonT(40), <1>1 DEF Failed, Views, Reads, AnyKey, Answered

LEMMA CancelledClears ==
    ASSUME NEW v \in Views, NEW k \in Keys
    PROVE  /\ ReadsCancelled(v, k) \in Views
           /\ \A x \in Reads : \/ ReadsCancelled(v, k).loading[x] = v.loading[x]
                               \/ v.loading[x] = k
BY DEF ReadsCancelled, Clear, Views, AnyKey

(* What is called off keeps everything else, and who is live was before.    *)
LEMMA CalledOffAre ==
    ASSUME runs \subseteq Runs, NEW which
    PROVE  /\ CallOff(which) \subseteq Runs
           /\ \A x \in CallOff(which) : \E run \in runs :
                 /\ x.what = run.what /\ x.key = run.key /\ x.req = run.req /\ x.seq = run.seq
                 /\ x.off => run.off \/ run \in which
           /\ \A x \in CallOff(which) : ~x.off => x \in runs /\ x \notin which
           /\ \A x \in runs : ~x.off /\ x \notin which => x \in CallOff(which)
<1> DEFINE Off(run) == [run EXCEPT !.off = @ \/ run \in which]
<1>1. ASSUME NEW run \in runs
      PROVE  /\ Off(run) \in Runs /\ Off(run).what = run.what /\ Off(run).key = run.key
             /\ Off(run).req = run.req /\ Off(run).seq = run.seq
             /\ Off(run).off <=> (run.off \/ run \in which)
             /\ ~(run.off \/ run \in which) => Off(run) = run
  <2>1. run \in Runs /\ run.off \in BOOLEAN
    BY DEF Runs
  <2>2. CASE run \in which
    BY <2>1, <2>2 DEF Runs
  <2>3. CASE run \notin which
    BY <2>1, <2>3 DEF Runs
  <2> QED BY <2>2, <2>3
<1>2. CallOff(which) = {Off(run) : run \in runs}
  BY DEF CallOff
<1> HIDE DEF Off
<1> QED BY <1>1, <1>2

-----------------------------------------------------------------------------
(* The types.                                                               *)

(* A sequence without one of its members.                                   *)
LEMMA WithoutIs ==
    ASSUME NEW S, NEW s \in Seq(S), NEW i \in 1 .. Len(s)
    PROVE  /\ Without(s, i) \in Seq(S)
           /\ Len(Without(s, i)) = Len(s) - 1
           /\ \A j \in 1 .. Len(s) - 1 : Without(s, i)[j] = IF j < i THEN s[j] ELSE s[j + 1]
<1> DEFINE a == SubSeq(s, 1, i - 1)
           b == SubSeq(s, i + 1, Len(s))
<1>1. Len(s) \in Nat /\ \A j \in 1 .. Len(s) : s[j] \in S
  OBVIOUS
<1>2. /\ a \in Seq(S) /\ Len(a) = i - 1
      /\ \A j \in 1 .. i - 1 : a[j] = s[j]
  <2>1. \A j \in 1 .. i - 1 : s[j] \in S
    BY <1>1
  <2> QED BY <1>1, <2>1, SubSeqProperties
<1>3. /\ b \in Seq(S) /\ Len(b) = Len(s) - i
      /\ \A j \in 1 .. Len(s) - i : b[j] = s[i + j]
  <2>1. \A j \in i + 1 .. Len(s) : s[j] \in S
    BY <1>1
  <2> QED BY <1>1, <2>1, SubSeqProperties
<1>4. Without(s, i) = a \o b
  BY DEF Without
<1> HIDE DEF a, b
<1>5. /\ a \o b \in Seq(S) /\ Len(a \o b) = Len(s) - 1
      /\ \A j \in 1 .. Len(s) - 1 :
            (a \o b)[j] = IF j <= i - 1 THEN a[j] ELSE b[j - (i - 1)]
  <2>1. /\ a \o b \in Seq(S) /\ Len(a \o b) = Len(a) + Len(b)
        /\ \A j \in 1 .. Len(a) + Len(b) :
              (a \o b)[j] = IF j <= Len(a) THEN a[j] ELSE b[j - Len(a)]
    BY <1>2, <1>3, ConcatProperties
  <2>2. Len(a) + Len(b) = Len(s) - 1
    BY <1>1, <1>2, <1>3
  <2> QED BY <1>2, <2>1, <2>2
<1>6. ASSUME NEW j \in 1 .. Len(s) - 1
      PROVE  (a \o b)[j] = IF j < i THEN s[j] ELSE s[j + 1]
  <2>1. CASE j < i
    <3>1. j \in 1 .. i - 1 /\ j <= i - 1
      BY <1>1, <2>1
    <3> QED BY <1>2, <1>5, <2>1, <3>1
  <2>2. CASE ~(j < i)
    <3>1. j - (i - 1) \in 1 .. Len(s) - i /\ ~(j <= i - 1) /\ i + (j - (i - 1)) = j + 1
      BY <1>1, <2>2
    <3> QED BY <1>3, <1>5, <2>2, <3>1
  <2> QED BY <2>1, <2>2
<1> QED BY <1>4, <1>5, <1>6

(* What the panel sends when it asks.                                       *)
Ask(w, read, k, r) == IF read \in w THEN <<Command(read, k, r)>> ELSE <<>>

LEMMA OneAsked ==
    ASSUME NEW w, NEW read \in Reads, NEW k \in Keys, NEW r \in 1 .. MaxRequests
    PROVE  /\ Ask(w, read, k, r) \in Seq(Commands)
           /\ Len(Ask(w, read, k, r)) = IF read \in w THEN 1 ELSE 0
           /\ \A i \in 1 .. Len(Ask(w, read, k, r)) : Ask(w, read, k, r)[i] = Command(read, k, r)
<1>1. Command(read, k, r) \in Commands
  BY DEF Command, Commands, Reads
<1>2. <<Command(read, k, r)>> \in Seq(Commands) /\ Len(<<Command(read, k, r)>>) = 1
  BY <1>1
<1>3. CASE read \in w
  BY <1>1, <1>3 DEF Ask
<1>4. CASE read \notin w
  BY <1>4 DEF Ask
<1> QED BY <1>3, <1>4

Asking(w, k, r) == Ask(w, "details", k, r) \o Ask(w, "analysis", k, r)

LEMMA AskedAre ==
    ASSUME NEW k \in Keys, NEW r \in 1 .. MaxRequests, NEW w \in SUBSET Reads
    PROVE  /\ Asking(w, k, r) \in Seq(Commands)
           /\ \A i \in 1 .. Len(Asking(w, k, r)) : Asking(w, k, r)[i].req = r /\ Asking(w, k, r)[i].key = k /\ Asking(w, k, r)[i].what \in Reads
           /\ \A x \in w : \E i \in 1 .. Len(Asking(w, k, r)) : Asking(w, k, r)[i] = Command(x, k, r)
<1> DEFINE s == Asking(w, k, r)
           t == Ask(w, "details", k, r)
           u == Ask(w, "analysis", k, r)
<1>1. /\ t \in Seq(Commands) /\ Len(t) = (IF "details" \in w THEN 1 ELSE 0)
      /\ \A i \in 1 .. Len(t) : t[i] = Command("details", k, r)
      /\ u \in Seq(Commands) /\ Len(u) = (IF "analysis" \in w THEN 1 ELSE 0)
      /\ \A i \in 1 .. Len(u) : u[i] = Command("analysis", k, r)
  BY OneAsked DEF Reads
<1> HIDE DEF s, t, u
<1>2. /\ s \in Seq(Commands) /\ Len(s) = Len(t) + Len(u)
      /\ \A i \in 1 .. Len(t) + Len(u) : s[i] = IF i <= Len(t) THEN t[i] ELSE u[i - Len(t)]
  <2>1. s = t \o u
    BY DEF s, t, u, Asking
  <2>2. t \in Seq(Commands) /\ u \in Seq(Commands)
    BY <1>1
  <2>3. /\ t \o u \in Seq(Commands) /\ Len(t \o u) = Len(t) + Len(u)
        /\ \A i \in 1 .. Len(t) + Len(u) : (t \o u)[i] = IF i <= Len(t) THEN t[i] ELSE u[i - Len(t)]
    BY <2>2, ConcatProperties
  <2> QED BY <2>1, <2>3, Zenon
<1>3. \A i \in 1 .. Len(s) : /\ (i <= Len(t) => s[i] = Command("details", k, r))
                             /\ (i > Len(t) => s[i] = Command("analysis", k, r))
  <2> TAKE i \in 1 .. Len(s)
  <2>1. i <= Len(t) => i \in 1 .. Len(t)
    BY <1>1, <1>2
  <2>2. i > Len(t) => i - Len(t) \in 1 .. Len(u) /\ ~(i <= Len(t))
    BY <1>1, <1>2
  <2> QED BY <1>1, <1>2, <2>1, <2>2
<1>4. \A i \in 1 .. Len(s) : i <= Len(t) \/ i > Len(t)
  BY <1>1, <1>2
<1>5. \A x : Command(x, k, r).req = r /\ Command(x, k, r).key = k /\ Command(x, k, r).what = x
  BY DEF Command
<1>6. \A i \in 1 .. Len(s) : s[i].req = r /\ s[i].key = k /\ s[i].what \in Reads
  <2> TAKE i \in 1 .. Len(s)
  <2>1. s[i] = Command("details", k, r) \/ s[i] = Command("analysis", k, r)
    BY <1>3, <1>4
  <2> QED BY <1>5, <2>1 DEF Reads
<1>7. Len(t) \in 0 .. 1 /\ Len(u) \in 0 .. 1 /\ Len(s) \in Nat
  BY <1>1, <1>2
<1>8. ASSUME "details" \in w PROVE \E i \in 1 .. Len(s) : s[i] = Command("details", k, r)
  <2>1. Len(t) = 1
    BY <1>1, <1>8, Zenon
  <2>2. 1 \in 1 .. Len(s) /\ 1 <= Len(t)
    BY <1>2, <1>7, <2>1
  <2> QED BY <1>3, <2>2
<1>9. ASSUME "analysis" \in w PROVE \E i \in 1 .. Len(s) : s[i] = Command("analysis", k, r)
  <2>1. Len(u) = 1
    BY <1>1, <1>9, Zenon
  <2>2. Len(s) \in 1 .. Len(s) /\ Len(s) > Len(t)
    BY <1>2, <1>7, <2>1
  <2> QED BY <1>3, <2>2
<1> QED BY <1>2, <1>6, <1>8, <1>9 DEF Reads, s

(* A closed panel is empty; an open one shows a replay under the newest     *)
(* request id.                                                              *)
PanelShape ==
    \/ panel.key = NoKey /\ panel.req = 0 /\ panel.waits = {}
    \/ panel.key \in Keys /\ panel.req = requests /\ requests > 0

(* Everything sent has a stamp left for it.                                 *)
StampsSuffice == stamps + Len(bridge) <= MaxCommands

TypesInv == ReadsTypeOK /\ PanelShape /\ StampsSuffice

(* The panel keeps its replay and its request as it sees a slice, and waits *)
(* for no more; what the slice answers it waits for no longer.              *)
LEMMA ShownIs ==
    ASSUME ReadsTypeOK, NEW v \in Views, ShowSlice(v)
    PROVE  /\ view' = v
           /\ panel' \in [key : AnyKey, req : 0 .. MaxRequests, waits : SUBSET Reads]
           /\ panel'.key = panel.key /\ panel'.req = panel.req
           /\ panel'.waits \subseteq panel.waits
           /\ v # view => \A r \in Answered(v, panel.key) : r \notin panel'.waits
<1>1. panel \in [key : AnyKey, req : 0 .. MaxRequests, waits : SUBSET Reads]
  BY DEF ReadsTypeOK
<1> DEFINE answered == Answered(v, panel.key)
<1>2. view' = v /\ panel' = IF v = view THEN panel ELSE [panel EXCEPT !.waits = @ \ answered]
  BY DEF ShowSlice
<1> HIDE DEF answered
<1>3. CASE v = view
  BY <1>1, <1>2, <1>3
<1>4. CASE v # view
  <2>1. panel' = [panel EXCEPT !.waits = panel.waits \ answered]
    BY <1>2, <1>4
  <2>2. /\ panel' \in [key : AnyKey, req : 0 .. MaxRequests, waits : SUBSET Reads]
        /\ panel'.key = panel.key /\ panel'.req = panel.req
        /\ panel'.waits = panel.waits \ answered
    BY <1>1, <2>1
  <2> QED BY <1>2, <2>2 DEF answered
<1> QED BY <1>3, <1>4

(* Asking, by a panel that is closed or shows the replay already.           *)
LEMMA RequestIs ==
    ASSUME TypesInv, NEW k \in Keys, RequestInsights(k)
    PROVE  \E r \in 1 .. MaxRequests, s \in Seq(Commands), wanted \in SUBSET Reads :
              /\ panel'.key = k /\ panel'.req = r /\ panel'.waits = panel.waits \cup wanted
              /\ panel' \in [key : AnyKey, req : 0 .. MaxRequests, waits : SUBSET Reads]
              /\ requests' = r /\ bridge' = bridge \o s
              /\ stamps + Len(bridge) + Len(s) <= MaxCommands
              /\ \A i \in 1 .. Len(s) : s[i].req = r /\ s[i].key = k /\ s[i].what \in Reads
              /\ \A x \in wanted : \E i \in 1 .. Len(s) : s[i] = Command(x, k, r)
              /\ \/ panel.req = requests /\ panel.key = k /\ r = requests
                 \/ panel.req = 0 /\ panel.waits = {} /\ r = requests + 1
<1> DEFINE claimed == panel.req # 0
           r == IF claimed THEN panel.req ELSE requests + 1
           Wanted(read) == ~Has(view, read, k) /\ (view.loading[read] # k \/ ~claimed)
           Asks(read) == IF Wanted(read) THEN <<Command(read, k, r)>> ELSE <<>>
           s == Asks("details") \o Asks("analysis")
           wanted == {read \in Reads : Wanted(read)}
<1>1. /\ panel.key \in {NoKey, k} /\ r <= MaxRequests
      /\ requests' = IF claimed THEN requests ELSE r
      /\ panel' = [key |-> k, req |-> r, waits |-> panel.waits \cup wanted]
      /\ stamps + Len(bridge) + Len(s) <= MaxCommands /\ bridge' = bridge \o s
  BY DEF RequestInsights, SendAll
<1>2. /\ requests \in Nat /\ panel.req \in Nat /\ panel.waits \subseteq Reads
      /\ MaxRequests \in Nat
  BY ReplayReadsAssumption DEF TypesInv, ReadsTypeOK
<1>3. \/ claimed /\ panel.req = requests /\ panel.key = k /\ r = requests /\ r > 0
      \/ ~claimed /\ panel.req = 0 /\ panel.waits = {} /\ r = requests + 1
  <2>1. CASE claimed
    <3>1. panel.key \in Keys /\ panel.req = requests /\ requests > 0
      BY <2>1 DEF TypesInv, PanelShape
    <3> QED BY <1>1, <2>1, <3>1, ReplayReadsAssumption
  <2>2. CASE ~claimed
    <3>1. panel.waits = {}
      BY <1>2, <2>2 DEF TypesInv, PanelShape
    <3> QED BY <2>2, <3>1
  <2> QED BY <2>1, <2>2
<1>4. r \in 1 .. MaxRequests /\ requests' = r
  BY <1>1, <1>2, <1>3
<1>5. wanted \subseteq Reads /\ \A x \in Reads : x \in wanted <=> Wanted(x)
  OBVIOUS
<1>6. s = Asking(wanted, k, r)
  <2> HIDE DEF Wanted, wanted
  <2> QED BY <1>5 DEF Asking, Ask, Reads
<1> HIDE DEF Wanted, wanted, Asks, r, s, claimed
<1>7. /\ s \in Seq(Commands)
      /\ \A i \in 1 .. Len(s) : s[i].req = r /\ s[i].key = k /\ s[i].what \in Reads
      /\ \A x \in wanted : \E i \in 1 .. Len(s) : s[i] = Command(x, k, r)
  BY <1>4, <1>5, <1>6, AskedAre
<1>8. /\ panel'.key = k /\ panel'.req = r /\ panel'.waits = panel.waits \cup wanted
      /\ panel' \in [key : AnyKey, req : 0 .. MaxRequests, waits : SUBSET Reads]
  BY <1>1, <1>2, <1>4, <1>5 DEF AnyKey
<1> QED BY <1>1, <1>3, <1>4, <1>5, <1>7, <1>8 DEF claimed

ReadSlots == [Reads -> [seq : Stamped, key : AnyKey, req : 0 .. MaxRequests, off : BOOLEAN]]

(* One step of each kind keeps the types.                                   *)
LEMMA RequestTypes ==
    ASSUME TypesInv, NEW k \in Keys, RequestInsights(k)
    PROVE  TypesInv'
<1>1. PICK r \in 1 .. MaxRequests, s \in Seq(Commands), wanted \in SUBSET Reads :
         /\ panel'.key = k /\ panel'.req = r
         /\ panel' \in [key : AnyKey, req : 0 .. MaxRequests, waits : SUBSET Reads]
         /\ requests' = r /\ bridge' = bridge \o s
         /\ stamps + Len(bridge) + Len(s) <= MaxCommands
  BY RequestIs
<1>2. /\ stamps \in Stamped /\ bridge \in Seq(Commands)
      /\ UNCHANGED <<stamps, newest, queue, closes, runs, active, view, outrun>>
  BY DEF TypesInv, ReadsTypeOK, RequestInsights
<1>3. bridge' \in Seq(Commands) /\ Len(bridge') = Len(bridge) + Len(s)
  BY <1>1, <1>2, ConcatProperties
<1>4. ReadsTypeOK'
  BY <1>1, <1>2, <1>3 DEF TypesInv, ReadsTypeOK
<1>5. PanelShape'
  BY <1>1 DEF PanelShape
<1>6. StampsSuffice'
  <2>1. Len(bridge) \in Nat /\ Len(s) \in Nat /\ stamps \in Nat /\ stamps' = stamps
    BY <1>2 DEF Stamped
  <2> QED BY <1>1, <1>3, <2>1, ReplayReadsAssumption DEF StampsSuffice
<1> QED BY <1>4, <1>5, <1>6 DEF TypesInv

(* A close sends at most the one cancel of the panel's own request.         *)
LEMMA CancelIs ==
    ASSUME TypesInv, CancelReads
    PROVE  /\ panel' = Closed
           /\ \/ bridge' = bridge
              \/ /\ panel.req = requests /\ requests \in 1 .. MaxRequests /\ panel.key \in Keys
                 /\ Command("cancel", panel.key, panel.req) \in Commands
                 /\ bridge' = Append(bridge, Command("cancel", panel.key, panel.req))
                 /\ stamps + Len(bridge) + 1 <= MaxCommands
           /\ UNCHANGED <<requests, stamps, newest, queue, closes, runs, active, view, outrun>>
<1> DEFINE c == Command("cancel", panel.key, panel.req)
<1>1. /\ panel' = Closed
      /\ UNCHANGED <<requests, stamps, newest, queue, closes, runs, active, view, outrun>>
      /\ IF panel.waits # {} THEN SendAll(<<c>>) ELSE UNCHANGED bridge
  BY DEF CancelReads
<1>2. requests \in 0 .. MaxRequests /\ bridge \in Seq(Commands)
  BY DEF TypesInv, ReadsTypeOK
<1>3. ASSUME panel.waits # {}
      PROVE  /\ panel.req = requests /\ requests \in 1 .. MaxRequests /\ panel.key \in Keys
             /\ c \in Commands
             /\ bridge' = Append(bridge, c)
             /\ stamps + Len(bridge) + 1 <= MaxCommands
  <2>1. panel.req = requests /\ requests \in 1 .. MaxRequests /\ panel.key \in Keys
    BY <1>2, <1>3 DEF TypesInv, PanelShape
  <2>2. c \in Commands
    BY <2>1 DEF Command, Commands
  <2> HIDE DEF c
  <2>3. SendAll(<<c>>) /\ Len(<<c>>) = 1
    BY <1>1, <1>3
  <2>4. bridge \o <<c>> = Append(bridge, c)
    BY <1>2, <2>2, AppendIsConcat
  <2> QED BY <2>1, <2>2, <2>3, <2>4 DEF SendAll
<1> HIDE DEF c
<1>4. CASE panel.waits # {}
  BY <1>1, <1>3, <1>4 DEF c
<1>5. CASE panel.waits = {}
  BY <1>1, <1>5
<1> QED BY <1>4, <1>5

LEMMA CancelTypes ==
    ASSUME TypesInv, CancelReads
    PROVE  TypesInv'
<1>1. /\ panel' = Closed
      /\ UNCHANGED <<requests, stamps, newest, queue, closes, runs, active, view, outrun>>
      /\ stamps \in Stamped /\ bridge \in Seq(Commands)
  BY CancelIs DEF TypesInv, ReadsTypeOK
<1>2. bridge' \in Seq(Commands) /\ stamps + Len(bridge') <= MaxCommands
  <2>1. CASE bridge' = bridge
    BY <1>1, <2>1 DEF TypesInv, StampsSuffice
  <2>2. CASE bridge' # bridge
    <3>1. PICK c \in Commands : bridge' = Append(bridge, c) /\ stamps + Len(bridge) + 1 <= MaxCommands
      BY <2>2, CancelIs
    <3>2. bridge' \in Seq(Commands) /\ Len(bridge') = Len(bridge) + 1
      BY <1>1, <3>1, AppendProperties
    <3>3. Len(bridge) \in Nat /\ stamps \in Nat
      BY <1>1 DEF Stamped
    <3> QED BY <3>1, <3>2, <3>3, ReplayReadsAssumption
  <2> QED BY <2>1, <2>2
<1>3. ReadsTypeOK'
  BY <1>1, <1>2, ReplayReadsAssumption DEF TypesInv, ReadsTypeOK, Closed, AnyKey
<1>4. PanelShape' /\ StampsSuffice'
  BY <1>1, <1>2 DEF PanelShape, StampsSuffice, Closed
<1> QED BY <1>3, <1>4 DEF TypesInv

LEMMA DispatchTypes ==
    ASSUME TypesInv, NEW i \in 1 .. Len(bridge), Dispatch(i)
    PROVE  TypesInv'
<1> DEFINE c == bridge[i]
           q == [what |-> c.what, key |-> c.key, req |-> c.req, seq |-> stamps']
           slot == [seq |-> stamps', key |-> c.key, req |-> c.req, off |-> FALSE]
<1>1. /\ bridge' = Without(bridge, i) /\ stamps' = stamps + 1
      /\ UNCHANGED <<panel, requests, runs, active, view>>
      /\ outrun' = (outrun \/ Outruns(c)) /\ outrun \in BOOLEAN
      /\ IF c.what = "cancel"
         THEN /\ closes' = closes \cup {c}
              /\ newest' = [r \in Reads |->
                     IF newest[r].key = c.key /\ newest[r].req = c.req
                     THEN [newest[r] EXCEPT !.off = TRUE] ELSE newest[r]]
              /\ UNCHANGED queue
         ELSE /\ queue' = Append(queue, q)
              /\ newest' = [newest EXCEPT ![c.what] = slot]
              /\ UNCHANGED closes
  BY DEF Dispatch, TypesInv, ReadsTypeOK
<1>2. /\ bridge \in Seq(Commands) /\ stamps \in Stamped /\ newest \in ReadSlots
      /\ queue \in Seq(Queued) /\ closes \subseteq Commands
      /\ stamps + Len(bridge) <= MaxCommands
  BY DEF TypesInv, ReadsTypeOK, ReadSlots, Queued, StampsSuffice
<1>3. bridge' \in Seq(Commands) /\ Len(bridge') = Len(bridge) - 1
  BY <1>1, <1>2, WithoutIs
<1>4. stamps' \in Stamped /\ stamps' + Len(bridge') <= MaxCommands
  <2>1. Len(bridge) \in Nat /\ Len(bridge) >= 1 /\ stamps \in Nat /\ MaxCommands \in Nat
    BY <1>2, ReplayReadsAssumption DEF Stamped
  <2> QED BY <1>1, <1>2, <1>3, <2>1 DEF Stamped
<1>5. c \in Commands /\ outrun' \in BOOLEAN
  BY <1>1, <1>2
<1>6. CASE c.what = "cancel"
  <2>1. closes' \subseteq Commands /\ queue' = queue
    BY <1>1, <1>2, <1>5, <1>6
  <2>2. newest' \in ReadSlots
    BY ZenonT(40), <1>1, <1>2, <1>6 DEF ReadSlots
  <2>3. ReadsTypeOK'
    BY <1>1, <1>3, <1>4, <1>5, <2>1, <2>2 DEF TypesInv, ReadsTypeOK, ReadSlots
  <2> QED BY <1>1, <1>4, <2>3 DEF TypesInv, PanelShape, StampsSuffice
<1>7. CASE c.what # "cancel"
  <2>1. c.what \in Reads /\ q \in Queued
    BY <1>4, <1>5, <1>7 DEF Commands, Queued
  <2>2. slot \in [seq : Stamped, key : AnyKey, req : 0 .. MaxRequests, off : BOOLEAN]
    BY <1>4, <1>5 DEF Commands, AnyKey
  <2> HIDE DEF q, slot, c
  <2>3. queue' \in Seq(Queued) /\ closes' = closes
    BY SMTT(40), <1>1, <1>2, <1>7, <2>1, AppendProperties
  <2>4. newest' \in ReadSlots
    BY <1>1, <1>2, <1>7, <2>1, <2>2 DEF ReadSlots
  <2>5. ReadsTypeOK'
    BY <1>1, <1>3, <1>4, <1>5, <2>3, <2>4 DEF TypesInv, ReadsTypeOK, ReadSlots, Queued
  <2> QED BY <1>1, <1>4, <2>5 DEF TypesInv, PanelShape, StampsSuffice
<1> QED BY <1>6, <1>7

(* What seeing a slice, or none, leaves of the panel.                       *)
Sees ==
    /\ panel' \in [key : AnyKey, req : 0 .. MaxRequests, waits : SUBSET Reads]
    /\ panel'.key = panel.key /\ panel'.req = panel.req
    /\ panel'.waits \subseteq panel.waits
    /\ view' \in Views

LEMMA SeesKeeps ==
    /\ ReadsTypeOK /\ (\E v \in Views : ShowSlice(v)) => Sees
    /\ ReadsTypeOK /\ UNCHANGED <<view, panel>> => Sees
<1>1. ASSUME ReadsTypeOK, NEW v \in Views, ShowSlice(v)
      PROVE  Sees
  BY <1>1, ShownIs DEF Sees
<1>2. ASSUME ReadsTypeOK, UNCHANGED <<view, panel>>
      PROVE  Sees
  BY <1>2 DEF Sees, ReadsTypeOK, Views
<1> QED BY <1>1, <1>2

(* A step of the runtime that leaves bridge and stamps alone keeps the      *)
(* types when it keeps those of what it changes.                            *)
LEMMA RuntimeTypes ==
    ASSUME TypesInv, Sees, UNCHANGED <<requests, bridge, stamps, newest, outrun>>,
           queue' \in Seq(Queued), closes' \subseteq Commands, runs' \subseteq Runs,
           active' \in Stamped
    PROVE  TypesInv'
<1>1. ReadsTypeOK'
  BY DEF TypesInv, ReadsTypeOK, Sees, Queued, Runs, Views
<1>2. PanelShape'
  BY DEF TypesInv, PanelShape, Sees
<1> QED BY <1>1, <1>2 DEF TypesInv, StampsSuffice

LEMMA TypesGive ==
    ASSUME TypesInv
    PROVE  /\ queue \in Seq(Queued) /\ closes \subseteq Commands /\ runs \subseteq Runs
           /\ bridge \in Seq(Commands) /\ newest \in ReadSlots
           /\ active \in Stamped /\ stamps \in Stamped /\ view \in Views
           /\ panel \in [key : AnyKey, req : 0 .. MaxRequests, waits : SUBSET Reads]
           /\ requests \in 0 .. MaxRequests
BY DEF TypesInv, ReadsTypeOK, Queued, Runs, Views, ReadSlots

(* A command leaves its queue: dropped, or its read begins.                 *)
LEMMA LeaveIs ==
    ASSUME TypesInv, Leave
    PROVE  LET c == Head(queue) IN
           /\ queue # <<>> /\ queue' = Tail(queue) /\ queue' \in Seq(Queued) /\ c \in Queued
           /\ UNCHANGED <<requests, bridge, stamps, newest, closes, outrun>>
           /\ Task(c) \in Runs /\ ~Task(c).off
           /\ \/ /\ Superseded(c) \/ Joined(c)
                 /\ UNCHANGED <<runs, active, view, panel>>
              \/ /\ ~Superseded(c)
                 /\ runs' = CallOff({run \in runs : Replaces(c, run)}) \cup {Task(c)}
                 /\ active' = IF c.what = "analysis" THEN c.seq ELSE active
                 /\ Loading(view, c.what, c.key) \in Views
                 /\ ShowSlice(Loading(view, c.what, c.key))
<1> DEFINE c == Head(queue)
<1>1. /\ queue # <<>> /\ queue' = Tail(queue)
      /\ UNCHANGED <<requests, bridge, stamps, newest, closes, outrun>>
      /\ IF Superseded(c) \/ Joined(c)
         THEN UNCHANGED <<runs, active, view, panel>>
         ELSE /\ runs' = CallOff({run \in runs : Replaces(c, run)}) \cup {Task(c)}
              /\ active' = IF c.what = "analysis" THEN c.seq ELSE active
              /\ ShowSlice(Loading(view, c.what, c.key))
  BY DEF Leave
<1>2. queue' \in Seq(Queued) /\ c \in Queued
  BY <1>1, TypesGive, HeadTailProperties
<1>3. Task(c) \in Runs /\ ~Task(c).off
  BY <1>2 DEF Task, Runs, Queued
<1>4. Loading(view, c.what, c.key) \in Views
  BY <1>2, TypesGive, LoadingMarks DEF Queued
<1> HIDE DEF c
<1>5. CASE Superseded(c) \/ Joined(c)
  BY <1>1, <1>2, <1>3, <1>5 DEF c
<1>6. CASE ~(Superseded(c) \/ Joined(c))
  BY <1>1, <1>2, <1>3, <1>4, <1>6 DEF c
<1> QED BY <1>5, <1>6

LEMMA LeaveTypes ==
    ASSUME TypesInv, Leave
    PROVE  TypesInv'
<1> DEFINE c == Head(queue)
           old == CallOff({run \in runs : Replaces(c, run)})
<1>1. /\ queue' \in Seq(Queued) /\ c \in Queued /\ Task(c) \in Runs
      /\ UNCHANGED <<requests, bridge, stamps, newest, closes, outrun>>
      /\ \/ UNCHANGED <<runs, active, view, panel>>
         \/ /\ runs' = old \cup {Task(c)}
            /\ active' = IF c.what = "analysis" THEN c.seq ELSE active
            /\ Loading(view, c.what, c.key) \in Views
            /\ ShowSlice(Loading(view, c.what, c.key))
  BY LeaveIs
<1>2. old \subseteq Runs
  BY TypesGive, CalledOffAre
<1>3. c.seq \in Stamped
  BY <1>1 DEF Queued
<1> HIDE DEF c, old
<1>4. runs' \subseteq Runs /\ active' \in Stamped
  BY <1>1, <1>2, <1>3, TypesGive
<1>5. Sees
  BY <1>1, SeesKeeps DEF TypesInv
<1> QED BY <1>1, <1>4, <1>5, TypesGive, RuntimeTypes

LEMMA EndsTypes ==
    ASSUME TypesInv, NEW run \in runs, Ends(run)
    PROVE  TypesInv'
<1>1. /\ runs' = runs \ {run} /\ active' = IF run.seq = active THEN 0 ELSE active
      /\ UNCHANGED <<requests, bridge, stamps, newest, queue, closes, outrun>>
      /\ \/ UNCHANGED <<view, panel>>
         \/ ShowSlice(Landed(view, run.what, run.key))
         \/ ShowSlice(Failed(view, run.what, run.key))
  BY DEF Ends
<1>2. run \in Runs /\ run.what \in Reads /\ run.key \in Keys
  BY TypesGive DEF Runs
<1>3. Landed(view, run.what, run.key) \in Views /\ Failed(view, run.what, run.key) \in Views
  BY <1>2, TypesGive, LandedClears, FailedClears
<1>4. Sees
  BY <1>1, <1>3, SeesKeeps DEF TypesInv
<1>5. runs' \subseteq Runs /\ active' \in Stamped
  BY <1>1, TypesGive, ReplayReadsAssumption DEF Stamped
<1> QED BY <1>1, <1>4, <1>5, TypesGive, RuntimeTypes

LEMMA CancelRunTypes ==
    ASSUME TypesInv, NEW c \in closes, CancelRun(c)
    PROVE  TypesInv'
<1> DEFINE own == {run \in runs : run.key = c.key /\ run.req = c.req
                                    /\ (run.what = "analysis" => run.seq = active)}
<1>1. /\ closes' = closes \ {c} /\ runs' = CallOff(own)
      /\ active' = 0 \/ active' = active
      /\ UNCHANGED <<requests, bridge, stamps, newest, queue, outrun>>
      /\ UNCHANGED <<view, panel>> \/ ShowSlice(ReadsCancelled(view, c.key))
  BY DEF CancelRun
<1>2. runs' \subseteq Runs
  BY <1>1, TypesGive, CalledOffAre
<1>3. c.key \in Keys
  BY TypesGive DEF Commands
<1>4. Sees
  BY <1>1, <1>3, SeesKeeps, TypesGive, CancelledClears DEF TypesInv
<1>5. active' \in Stamped
  BY <1>1, TypesGive, ReplayReadsAssumption DEF Stamped
<1> QED BY <1>1, <1>2, <1>4, <1>5, TypesGive, RuntimeTypes

LEMMA TypesStep == TypesInv /\ [ReadsNext]_readVars => TypesInv'
<1> SUFFICES ASSUME TypesInv, [ReadsNext]_readVars
             PROVE  TypesInv'
  OBVIOUS
<1>1. CASE UNCHANGED readVars
  BY <1>1 DEF readVars, TypesInv, ReadsTypeOK, PanelShape, StampsSuffice
<1>2. ASSUME NEW k \in Keys, RequestInsights(k) PROVE TypesInv'
  BY <1>2, RequestTypes
<1>3. CASE CancelReads
  BY <1>3, CancelTypes
<1>4. ASSUME NEW i \in 1 .. Len(bridge), Dispatch(i) PROVE TypesInv'
  BY <1>4, DispatchTypes
<1>5. CASE Leave
  BY <1>5, LeaveTypes
<1>6. ASSUME NEW run \in runs, Ends(run) PROVE TypesInv'
  BY <1>6, EndsTypes
<1>7. ASSUME NEW c \in closes, CancelRun(c) PROVE TypesInv'
  BY <1>7, CancelRunTypes
<1> QED BY <1>1, <1>2, <1>3, <1>4, <1>5, <1>6, <1>7 DEF ReadsNext

LEMMA TypesStart == ReadsInit => TypesInv
<1> SUFFICES ASSUME ReadsInit PROVE TypesInv
  OBVIOUS
<1>1. /\ panel = Closed /\ requests = 0 /\ bridge = <<>> /\ stamps = 0
      /\ newest = [r \in Reads |-> Empty] /\ queue = <<>> /\ closes = {} /\ runs = {}
      /\ active = 0 /\ view = NoView /\ outrun = FALSE /\ MaxRequests \in Nat /\ MaxCommands \in Nat
  BY ReplayReadsAssumption DEF ReadsInit
<1>2. ReadsTypeOK
  <2>1. newest \in [Reads -> [seq : Stamped, key : AnyKey, req : 0 .. MaxRequests, off : BOOLEAN]]
    BY <1>1 DEF Empty, Stamped, AnyKey
  <2>2. view \in [loading : [Reads -> AnyKey], error : [Reads -> AnyKey],
                  details : SUBSET Keys, analysis : AnyKey]
    BY <1>1 DEF NoView, AnyKey
  <2>3. panel \in [key : AnyKey, req : 0 .. MaxRequests, waits : SUBSET Reads]
    BY <1>1 DEF Closed, AnyKey
  <2>4. stamps \in Stamped /\ active \in Stamped /\ requests \in 0 .. MaxRequests
    BY <1>1 DEF Stamped
  <2>5. outrun \in BOOLEAN
    BY <1>1
  <2> QED BY <1>1, <2>1, <2>2, <2>3, <2>4, <2>5 DEF ReadsTypeOK
<1> QED BY <1>1, <1>2 DEF TypesInv, PanelShape, StampsSuffice, Closed

(* Panels, commands, runs and the slice have their types, in whatever order *)
(* the bridge takes its calls.                                              *)
THEOREM ReadsTypes == ReadsSpec => []ReadsTypeOK
<1>1. TypesInv => ReadsTypeOK
  BY DEF TypesInv
<1> QED BY <1>1, TypesStart, TypesStep, PTL DEF ReadsSpec

-----------------------------------------------------------------------------
(* No panel waits for nothing, in whatever order the bridge's calls are     *)
(* stamped, unless a read was stamped after that of a later request.        *)

(* Stamps grow along the queue, past those of the tasks and of the slot.    *)
SeqOrder ==
    /\ \A i \in 1 .. Len(queue) : active < queue[i].seq /\ queue[i].seq <= stamps
    /\ \A i \in 1 .. Len(queue), run \in runs : run.seq < queue[i].seq
    /\ \A i, j \in 1 .. Len(queue) : i < j => queue[i].seq < queue[j].seq
    /\ \A run \in runs : 0 < run.seq /\ run.seq <= stamps
    /\ active <= stamps

(* No request id is above the newest, and none of a read above that of its  *)
(* kind's slot, which holds the request of the read that has its stamp.     *)
ReqOrder ==
    /\ \A i \in 1 .. Len(bridge) : bridge[i].req <= requests
    /\ \A i \in 1 .. Len(queue) :
          /\ queue[i].req <= requests
          /\ queue[i].req <= newest[queue[i].what].req
          /\ newest[queue[i].what].seq = queue[i].seq => newest[queue[i].what].req = queue[i].req
    /\ \A run \in runs : run.req <= requests /\ run.req <= newest[run.what].req
    /\ \A c \in closes : c.req <= requests

(* What bears the open panel's request reads its replay, and no cancel      *)
(* bears it.                                                                *)
PanelFits ==
    /\ \A i \in 1 .. Len(bridge) : bridge[i].req = panel.req =>
          bridge[i].key = panel.key /\ bridge[i].what # "cancel"
    /\ \A i \in 1 .. Len(queue) : queue[i].req = panel.req => queue[i].key = panel.key
    /\ \A run \in runs : run.req = panel.req => run.key = panel.key
    /\ \A c \in closes : c.what = "cancel" /\ c.req # panel.req

(* The slot's task is the analysis nobody called off.                       *)
SlotFits ==
    \A run \in runs : run.seq = active <=> (run.what = "analysis" /\ ~run.off)

(* One analysis is live at a time, and one read of a replay's details.      *)
OneLive ==
    \A a, b \in runs :
        ~a.off /\ ~b.off /\ a.what = b.what /\ (a.what = "details" => a.key = b.key) => a = b

(* The slice shows the open panel's reads as loading while they run.        *)
LiveLoading ==
    \A run \in runs : ~run.off /\ run.req = panel.req => view.loading[run.what] = run.key

(* What the open panel waits for is on the bridge, queued as the newest of  *)
(* its kind, or running.                                                    *)
Asked(r) == \E i \in 1 .. Len(bridge) : bridge[i] = Command(r, panel.key, panel.req)
Lined(r) ==
    \E i \in 1 .. Len(queue) :
        /\ queue[i].what = r /\ queue[i].key = panel.key /\ queue[i].req = panel.req
        /\ newest[r].seq = queue[i].seq /\ newest[r].req = panel.req /\ ~newest[r].off
Reading(r) ==
    \E run \in runs : run.what = r /\ run.key = panel.key /\ run.req = panel.req /\ ~run.off
Awaited == \A r \in panel.waits : Asked(r) \/ Lined(r) \/ Reading(r)

ReadsInv ==
    /\ SeqOrder /\ ReqOrder /\ PanelFits /\ SlotFits /\ OneLive /\ LiveLoading /\ Awaited

LEMMA RequestKeeps ==
    ASSUME TypesInv, ReadsInv, NEW k \in Keys, RequestInsights(k)
    PROVE  ReadsInv'
<1>1. PICK r \in 1 .. MaxRequests, s \in Seq(Commands), wanted \in SUBSET Reads :
         /\ panel'.key = k /\ panel'.req = r /\ panel'.waits = panel.waits \cup wanted
         /\ panel' \in [key : AnyKey, req : 0 .. MaxRequests, waits : SUBSET Reads]
         /\ requests' = r /\ bridge' = bridge \o s
         /\ stamps + Len(bridge) + Len(s) <= MaxCommands
         /\ \A i \in 1 .. Len(s) : s[i].req = r /\ s[i].key = k /\ s[i].what \in Reads
         /\ \A x \in wanted : \E i \in 1 .. Len(s) : s[i] = Command(x, k, r)
         /\ \/ panel.req = requests /\ panel.key = k /\ r = requests
            \/ panel.req = 0 /\ panel.waits = {} /\ r = requests + 1
  <2>1. TypesInv /\ RequestInsights(k)
    OBVIOUS
  <2> QED BY <2>1, RequestIs, Zenon
<1>2. UNCHANGED <<stamps, newest, queue, closes, runs, active, view, outrun>>
  BY DEF RequestInsights
<1>3. /\ requests \in Nat /\ bridge \in Seq(Commands) /\ Len(bridge) \in Nat
      /\ Len(s) \in Nat /\ queue \in Seq(Queued)
      /\ \A i \in 1 .. Len(bridge) : bridge[i].req \in Nat /\ bridge[i] \in Commands
      /\ \A i \in 1 .. Len(queue) : queue[i].req \in Nat
      /\ \A run \in runs : run.req \in Nat
      /\ \A c \in closes : c.req \in Nat
  <2>1. /\ requests \in Nat /\ bridge \in Seq(Commands) /\ queue \in Seq(Queued)
        /\ runs \subseteq Runs /\ closes \subseteq Commands
    BY TypesGive
  <2>2. \A c \in Commands : c.req \in Nat
    BY DEF Commands
  <2>3. \A q \in Queued : q.req \in Nat
    BY DEF Queued
  <2>4. \A run \in Runs : run.req \in Nat
    BY DEF Runs
  <2> QED BY <2>1, <2>2, <2>3, <2>4
<1>4. /\ Len(bridge') = Len(bridge) + Len(s)
      /\ \A i \in 1 .. Len(bridge') :
            IF i <= Len(bridge) THEN i \in 1 .. Len(bridge) /\ bridge'[i] = bridge[i]
            ELSE i - Len(bridge) \in 1 .. Len(s) /\ bridge'[i] = s[i - Len(bridge)]
  BY <1>1, <1>3, ConcatProperties
<1>5. /\ requests <= r /\ r \in Nat
      /\ r = requests => panel.req = r /\ panel.key = k
  BY <1>1, <1>3
<1>6. \A i \in 1 .. Len(bridge') :
         \/ i \in 1 .. Len(bridge) /\ bridge'[i] = bridge[i]
         \/ /\ i > Len(bridge) /\ bridge'[i].req = r /\ bridge'[i].key = k
            /\ bridge'[i].what # "cancel"
  <2> TAKE i \in 1 .. Len(bridge')
  <2>1. CASE i <= Len(bridge)
    BY <1>4, <2>1
  <2>2. CASE ~(i <= Len(bridge))
    <3>1. i > Len(bridge)
      BY <1>3, <1>4, <2>2
    <3>2. i - Len(bridge) \in 1 .. Len(s) /\ bridge'[i] = s[i - Len(bridge)]
      BY <1>4, <2>2
    <3> QED BY <1>1, <3>1, <3>2 DEF Reads
  <2> QED BY <2>1, <2>2
<1>7. SeqOrder' /\ SlotFits' /\ OneLive'
  BY <1>2 DEF ReadsInv, SeqOrder, SlotFits, OneLive
<1>8. ReqOrder'
  <2>1. \A i \in 1 .. Len(bridge') : bridge'[i].req <= r
    BY <1>3, <1>5, <1>6 DEF ReadsInv, ReqOrder
  <2>5. /\ \A i \in 1 .. Len(queue) : queue[i].req <= r
        /\ \A run \in runs : run.req <= r
        /\ \A c \in closes : c.req <= r
    BY <1>3, <1>5 DEF ReadsInv, ReqOrder
  <2> QED BY <1>1, <1>2, <2>1, <2>5 DEF ReadsInv, ReqOrder
<1>9. PanelFits'
  <2>1. \A i \in 1 .. Len(bridge') : bridge'[i].req = r =>
           bridge'[i].key = k /\ bridge'[i].what # "cancel"
    <3> SUFFICES ASSUME NEW i \in 1 .. Len(bridge'), bridge'[i].req = r,
                        i \in 1 .. Len(bridge), bridge'[i] = bridge[i]
                 PROVE  bridge'[i].key = k /\ bridge'[i].what # "cancel"
      BY <1>6
    <3>1. r = requests
      BY <1>3, <1>5 DEF ReadsInv, ReqOrder
    <3> QED BY <1>5, <3>1 DEF ReadsInv, PanelFits
  <2>2. \A i \in 1 .. Len(queue) : queue[i].req = r => queue[i].key = k
    BY <1>3, <1>5 DEF ReadsInv, ReqOrder, PanelFits
  <2>3. \A run \in runs : run.req = r => run.key = k
    BY <1>3, <1>5 DEF ReadsInv, ReqOrder, PanelFits
  <2>4. \A c \in closes : c.what = "cancel" /\ c.req # r
    BY <1>3, <1>5 DEF ReadsInv, ReqOrder, PanelFits
  <2> QED BY <1>1, <1>2, <2>1, <2>2, <2>3, <2>4 DEF PanelFits
<1>10. LiveLoading'
  <2>1. \A run \in runs : run.req = r => run.req = panel.req
    BY <1>3, <1>5 DEF ReadsInv, ReqOrder
  <2> QED BY <1>1, <1>2, <2>1 DEF ReadsInv, LiveLoading
<1>11. Awaited'
  <2>1. ASSUME NEW x \in wanted
        PROVE  Asked(x)'
    <3>1. PICK i \in 1 .. Len(s) : s[i] = Command(x, k, r)
      BY <1>1
    <3>2. Len(bridge) + i \in 1 .. Len(bridge') /\ bridge'[Len(bridge) + i] = s[i]
      <4> DEFINE at == Len(bridge) + i
      <4>1. at \in 1 .. Len(bridge') /\ ~(at <= Len(bridge)) /\ at - Len(bridge) = i
        BY <1>3, <1>4
      <4> HIDE DEF at
      <4>2. bridge'[at] = s[at - Len(bridge)]
        BY <1>4, <4>1
      <4> QED BY <4>1, <4>2 DEF at
    <3> QED BY <1>1, <3>1, <3>2 DEF Asked
  <2>2. ASSUME NEW x \in panel.waits
        PROVE  Asked(x)' \/ Lined(x)' \/ Reading(x)'
    <3>1. panel'.key = panel.key /\ panel'.req = panel.req
      BY <1>1, <2>2
    <3>2. ASSUME Asked(x) PROVE Asked(x)'
      <4>1. \A i \in 1 .. Len(bridge) : i \in 1 .. Len(bridge') /\ bridge'[i] = bridge[i]
        <5>1. Len(bridge) <= Len(bridge') /\ Len(bridge') \in Nat
          BY <1>3, <1>4
        <5> TAKE i \in 1 .. Len(bridge)
        <5>2. i \in 1 .. Len(bridge') /\ i <= Len(bridge)
          BY <1>3, <5>1
        <5> QED BY <1>4, <5>2
      <4> QED BY <3>1, <3>2, <4>1 DEF Asked
    <3>3. ASSUME Lined(x) PROVE Lined(x)'
      BY <1>2, <3>1, <3>3 DEF Lined
    <3>4. ASSUME Reading(x) PROVE Reading(x)'
      BY <1>2, <3>1, <3>4 DEF Reading
    <3> QED BY <3>2, <3>3, <3>4 DEF ReadsInv, Awaited
  <2> QED BY <1>1, <2>1, <2>2 DEF Awaited
<1> QED BY <1>7, <1>8, <1>9, <1>10, <1>11 DEF ReadsInv

(* The members of what waits, as they are typed.                            *)
LEMMA MembersAre ==
    ASSUME TypesInv
    PROVE  /\ requests \in Nat /\ stamps \in Nat /\ active \in Nat
           /\ bridge \in Seq(Commands) /\ Len(bridge) \in Nat
           /\ queue \in Seq(Queued) /\ Len(queue) \in Nat
           /\ \A i \in 1 .. Len(bridge) : bridge[i] \in Commands /\ bridge[i].req \in Nat \ {0}
           /\ \A i \in 1 .. Len(queue) : /\ queue[i] \in Queued /\ queue[i].req \in Nat \ {0}
                                         /\ queue[i].seq \in Nat
           /\ \A run \in runs : run \in Runs /\ run.req \in Nat \ {0} /\ run.seq \in Nat
           /\ \A c \in closes : c \in Commands /\ c.req \in Nat \ {0}
           /\ \A r \in Reads : newest[r].req \in Nat /\ newest[r].seq \in Nat
<1>1. /\ requests \in Nat /\ bridge \in Seq(Commands) /\ queue \in Seq(Queued)
      /\ runs \subseteq Runs /\ closes \subseteq Commands /\ stamps \in Nat /\ active \in Nat
  BY TypesGive DEF Stamped
<1>2. \A c \in Commands : c.req \in Nat \ {0}
  BY DEF Commands
<1>3. \A q \in Queued : q.req \in Nat \ {0} /\ q.seq \in Nat
  BY DEF Queued, Stamped
<1>4. \A run \in Runs : run.req \in Nat \ {0} /\ run.seq \in Nat
  BY DEF Runs, Stamped
<1>5. \A r \in Reads : newest[r].req \in Nat /\ newest[r].seq \in Nat
  BY TypesGive DEF ReadSlots, Stamped
<1> QED BY <1>1, <1>2, <1>3, <1>4, <1>5

LEMMA CancelKeeps ==
    ASSUME TypesInv, ReadsInv, CancelReads
    PROVE  ReadsInv'
<1>1. /\ panel'.req = 0 /\ panel'.waits = {}
      /\ UNCHANGED <<requests, stamps, newest, queue, closes, runs, active, view, outrun>>
  BY CancelIs DEF Closed
<1>2. \A i \in 1 .. Len(bridge') :
         /\ bridge'[i].req \in Nat \ {0}
         /\ \/ i \in 1 .. Len(bridge) /\ bridge'[i] = bridge[i]
            \/ bridge'[i].req = requests
  <2>1. CASE bridge' = bridge
    BY <2>1, MembersAre
  <2>2. CASE bridge' # bridge
    <3> DEFINE c == Command("cancel", panel.key, panel.req)
    <3>1. c \in Commands /\ bridge' = Append(bridge, c) /\ panel.req = requests /\ requests > 0
      BY <2>2, CancelIs
    <3>2. c.req = requests
      BY <3>1 DEF Command
    <3> HIDE DEF c
    <3>3. /\ Len(bridge') = Len(bridge) + 1 /\ bridge'[Len(bridge) + 1] = c
          /\ \A i \in 1 .. Len(bridge) : bridge'[i] = bridge[i]
      BY <3>1, MembersAre, AppendProperties
    <3>4. \A i \in 1 .. Len(bridge') : i \in 1 .. Len(bridge) \/ i = Len(bridge) + 1
      BY <3>3, MembersAre
    <3> QED BY <3>1, <3>2, <3>3, <3>4, MembersAre
  <2> QED BY <2>1, <2>2
<1>3. SeqOrder' /\ SlotFits' /\ OneLive'
  BY <1>1 DEF ReadsInv, SeqOrder, SlotFits, OneLive
<1>4. ReqOrder'
  <2>1. \A i \in 1 .. Len(bridge') : bridge'[i].req <= requests
    BY <1>2, MembersAre DEF ReadsInv, ReqOrder
  <2> QED BY <1>1, <2>1 DEF ReadsInv, ReqOrder
<1>5. PanelFits' /\ LiveLoading' /\ Awaited'
  <2>1. PanelFits'
    BY <1>1, <1>2, MembersAre DEF ReadsInv, PanelFits
  <2>2. LiveLoading'
    BY <1>1, MembersAre DEF LiveLoading
  <2>3. Awaited'
    BY <1>1 DEF Awaited
  <2> QED BY <2>1, <2>2, <2>3
<1> QED BY <1>3, <1>4, <1>5 DEF ReadsInv

(* What is left of a queue once its head is taken.                          *)
LEMMA TakenIs ==
    ASSUME NEW S, NEW s \in Seq(S), s # <<>>
    PROVE  /\ Len(s) \in Nat /\ 1 \in 1 .. Len(s) /\ Len(Tail(s)) = Len(s) - 1
           /\ \A i \in 1 .. Len(Tail(s)) : i + 1 \in 1 .. Len(s) /\ Tail(s)[i] = s[i + 1]
           /\ \A i \in 1 .. Len(s) : i = 1 \/ (i - 1 \in 1 .. Len(Tail(s)) /\ Tail(s)[i - 1] = s[i])
<1>1. /\ Len(s) \in Nat /\ Len(s) > 0 /\ Len(Tail(s)) = Len(s) - 1
      /\ \A i \in 1 .. Len(Tail(s)) : Tail(s)[i] = s[i + 1]
  BY HeadTailProperties
<1> QED BY <1>1

(* The bridge hands over one of its calls: the others stay, and what was    *)
(* asked for is still, or is that call.                                     *)
LEMMA BridgeTaken ==
    ASSUME TypesInv, ReadsInv, NEW at \in 1 .. Len(bridge), Dispatch(at)
    PROVE  /\ \A i \in 1 .. Len(bridge') : \E j \in 1 .. Len(bridge) : bridge'[i] = bridge[j]
           /\ UNCHANGED <<panel, requests, runs, active, view>>
           /\ \A x : Asked(x) => Asked(x)' \/ bridge[at] = Command(x, panel.key, panel.req)
<1>1. /\ bridge' = Without(bridge, at)
      /\ UNCHANGED <<panel, requests, runs, active, view>>
  BY DEF Dispatch
<1>2. /\ Len(bridge) \in Nat /\ Len(bridge') = Len(bridge) - 1
      /\ \A i \in 1 .. Len(bridge) - 1 : bridge'[i] = IF i < at THEN bridge[i] ELSE bridge[i + 1]
  BY <1>1, MembersAre, WithoutIs
<1>3. ASSUME NEW i \in 1 .. Len(bridge')
      PROVE  \E j \in 1 .. Len(bridge) : bridge'[i] = bridge[j]
  <2>1. i \in 1 .. Len(bridge) /\ i + 1 \in 1 .. Len(bridge)
    BY <1>2
  <2> QED BY <1>2, <2>1
<1>4. ASSUME NEW x, Asked(x)
      PROVE  Asked(x)' \/ bridge[at] = Command(x, panel.key, panel.req)
  <2>1. PICK j \in 1 .. Len(bridge) : bridge[j] = Command(x, panel.key, panel.req)
    BY <1>4 DEF Asked
  <2>2. CASE j < at
    <3>1. j \in 1 .. Len(bridge') /\ bridge'[j] = bridge[j]
      BY <1>2, <2>2
    <3> QED BY <1>1, <2>1, <3>1 DEF Asked
  <2>3. CASE j > at
    <3>1. j - 1 \in 1 .. Len(bridge') /\ ~(j - 1 < at) /\ (j - 1) + 1 = j
      BY <1>2, <2>3
    <3>2. bridge'[j - 1] = bridge[j]
      BY <1>2, <3>1
    <3> QED BY <1>1, <2>1, <3>1, <3>2 DEF Asked
  <2> QED BY <2>1, <2>2, <2>3
<1> QED BY <1>1, <1>3, <1>4

LEMMA CancelTaken ==
    ASSUME TypesInv, ReadsInv, NEW at \in 1 .. Len(bridge), Dispatch(at),
           bridge[at].what = "cancel"
    PROVE  ReadsInv'
<1> DEFINE c == bridge[at]
           off(r) == [newest[r] EXCEPT !.off = TRUE]
<1>1. /\ \A i \in 1 .. Len(bridge') : \E j \in 1 .. Len(bridge) : bridge'[i] = bridge[j]
      /\ UNCHANGED <<panel, requests, runs, active, view>>
      /\ \A x : Asked(x) => Asked(x)' \/ c = Command(x, panel.key, panel.req)
  BY BridgeTaken
<1>2. /\ closes' = closes \cup {c} /\ queue' = queue /\ stamps' = stamps + 1
      /\ newest' = [r \in Reads |-> IF newest[r].key = c.key /\ newest[r].req = c.req
                                    THEN off(r) ELSE newest[r]]
  BY DEF Dispatch
<1>3. c.what = "cancel" /\ c.req # panel.req /\ c.req <= requests /\ c.req \in Nat
  BY MembersAre DEF ReadsInv, PanelFits, ReqOrder
<1>4. SeqOrder'
  BY <1>1, <1>2, MembersAre DEF ReadsInv, SeqOrder
<1>5. ReqOrder'
  <2>1. \A x \in closes' : x.req <= requests
    BY <1>2, <1>3 DEF ReadsInv, ReqOrder
  <2>2. \A i \in 1 .. Len(bridge') : bridge'[i].req <= requests
    BY <1>1 DEF ReadsInv, ReqOrder
  <2> HIDE DEF c, off
  <2>3. \A r \in Reads : newest'[r].req = newest[r].req /\ newest'[r].seq = newest[r].seq
    <3>1. \A r \in Reads : off(r).req = newest[r].req /\ off(r).seq = newest[r].seq
      BY TypesGive DEF off, ReadSlots
    <3> QED BY <1>2, <3>1
  <2>4. (\A i \in 1 .. Len(queue) : queue[i].what \in Reads) /\ \A run \in runs : run.what \in Reads
    BY MembersAre DEF Queued, Runs
  <2>5. \A run \in runs : run.req <= newest'[run.what].req
    BY <2>3, <2>4 DEF ReadsInv, ReqOrder
  <2>6. \A i \in 1 .. Len(queue) :
           /\ queue[i].req <= newest'[queue[i].what].req
           /\ newest'[queue[i].what].seq = queue[i].seq
                 => newest'[queue[i].what].req = queue[i].req
    BY <2>3, <2>4 DEF ReadsInv, ReqOrder
  <2> QED BY <1>1, <1>2, <2>1, <2>2, <2>5, <2>6 DEF ReadsInv, ReqOrder
<1>6. PanelFits'
  <2>1. \A x \in closes' : x.what = "cancel" /\ x.req # panel.req
    BY <1>2, <1>3 DEF ReadsInv, PanelFits
  <2>2. \A i \in 1 .. Len(bridge') : bridge'[i].req = panel.req =>
            bridge'[i].key = panel.key /\ bridge'[i].what # "cancel"
    BY <1>1 DEF ReadsInv, PanelFits
  <2> HIDE DEF c
  <2> QED BY <1>1, <1>2, <2>1, <2>2 DEF ReadsInv, PanelFits
<1>7. SlotFits' /\ OneLive' /\ LiveLoading'
  BY <1>1 DEF ReadsInv, SlotFits, OneLive, LiveLoading
<1>8. Awaited'
  <2> SUFFICES ASSUME NEW r \in panel.waits
               PROVE  Asked(r)' \/ Lined(r)' \/ Reading(r)'
    BY <1>1 DEF Awaited
  <2>1. r \in Reads
    BY TypesGive
  <2>2. ASSUME Asked(r) PROVE Asked(r)'
    <3>1. c # Command(r, panel.key, panel.req)
      BY <1>3 DEF Command
    <3> QED BY <1>1, <2>2, <3>1
  <2>3. ASSUME Lined(r) PROVE Lined(r)'
    <3>1. newest[r].req = panel.req => newest'[r] = newest[r]
      <4> HIDE DEF off, c
      <4> QED BY <1>2, <1>3, <2>1
    <3> HIDE DEF off, c
    <3> QED BY <1>1, <1>2, <2>3, <3>1 DEF Lined
  <2>4. ASSUME Reading(r) PROVE Reading(r)'
    BY <1>1, <2>4 DEF Reading
  <2> QED BY <2>2, <2>3, <2>4 DEF ReadsInv, Awaited
<1> QED BY <1>4, <1>5, <1>6, <1>7, <1>8 DEF ReadsInv

LEMMA ReadTaken ==
    ASSUME TypesInv, ReadsInv, NEW at \in 1 .. Len(bridge), Dispatch(at),
           bridge[at].what # "cancel", ~outrun'
    PROVE  ReadsInv'
<1> DEFINE c == bridge[at]
           n == Len(queue)
           q == [what |-> c.what, key |-> c.key, req |-> c.req, seq |-> stamps']
           slot == [seq |-> stamps', key |-> c.key, req |-> c.req, off |-> FALSE]
<1>1. /\ \A i \in 1 .. Len(bridge') : \E j \in 1 .. Len(bridge) : bridge'[i] = bridge[j]
      /\ UNCHANGED <<panel, requests, runs, active, view>>
      /\ \A x : Asked(x) => Asked(x)' \/ c = Command(x, panel.key, panel.req)
  BY BridgeTaken
<1>2. /\ closes' = closes /\ queue' = Append(queue, q) /\ stamps' = stamps + 1
      /\ newest' = [newest EXCEPT ![c.what] = slot]
  BY DEF Dispatch
<1>3. /\ c \in Commands /\ c.what \in Reads /\ c.req <= requests /\ c.req \in Nat
      /\ c.req = panel.req => c.key = panel.key
      /\ stamps' \in Stamped /\ stamps' > stamps /\ stamps' \in Nat
      /\ newest[c.what].req <= c.req
  <2>1. c \in Commands /\ c.req \in Nat
    BY MembersAre
  <2>2. stamps' \in Stamped
    BY DispatchTypes DEF TypesInv, ReadsTypeOK
  <2>3. c.req <= requests /\ (c.req = panel.req => c.key = panel.key)
    BY DEF ReadsInv, ReqOrder, PanelFits
  <2>4. c.what \in Reads
    BY <2>1 DEF Commands
  <2>5. ~Outruns(c)
    BY DEF Dispatch
  <2>6. newest[c.what].req <= c.req
    BY <2>1, <2>4, <2>5, MembersAre DEF Outruns
  <2> HIDE DEF c
  <2> QED BY <1>2, <2>1, <2>2, <2>3, <2>4, <2>6, MembersAre
<1>4. /\ q \in Queued /\ q.what = c.what /\ q.key = c.key /\ q.req = c.req /\ q.seq = stamps'
      /\ slot.seq = stamps' /\ slot.req = c.req /\ ~slot.off
  BY <1>3 DEF Queued, Commands
<1>5. newest'[c.what] = slot /\ \A r \in Reads \ {c.what} : newest'[r] = newest[r]
  <2>1. newest \in ReadSlots
    BY TypesGive
  <2> HIDE DEF slot, c
  <2> QED BY <1>2, <1>3, <2>1 DEF ReadSlots
<1> HIDE DEF q, slot, c
<1>6. /\ n \in Nat /\ Len(queue') = n + 1 /\ queue'[n + 1] = q
      /\ \A i \in 1 .. n : i \in 1 .. Len(queue') /\ queue'[i] = queue[i]
      /\ \A i \in 1 .. Len(queue') : (i \in 1 .. n /\ queue'[i] = queue[i])
                                     \/ (i = n + 1 /\ queue'[i] = q)
  BY <1>2, <1>4, MembersAre, AppendProperties
<1>7. SeqOrder'
  <2>1. /\ \A i \in 1 .. Len(queue') : active < queue'[i].seq /\ queue'[i].seq <= stamps'
        /\ \A i \in 1 .. Len(queue'), run \in runs : run.seq < queue'[i].seq
    <3>1. /\ \A i \in 1 .. n : active < queue[i].seq /\ queue[i].seq <= stamps'
          /\ \A i \in 1 .. n, run \in runs : run.seq < queue[i].seq
      BY <1>3, MembersAre DEF ReadsInv, SeqOrder
    <3>2. /\ active < q.seq /\ q.seq <= stamps'
          /\ \A run \in runs : run.seq < q.seq
      BY <1>3, <1>4, MembersAre DEF ReadsInv, SeqOrder
    <3> QED BY <1>6, <3>1, <3>2
  <2>2. \A i, j \in 1 .. Len(queue') : i < j => queue'[i].seq < queue'[j].seq
    <3> SUFFICES ASSUME NEW i \in 1 .. Len(queue'), NEW j \in 1 .. Len(queue'), i < j
                 PROVE  queue'[i].seq < queue'[j].seq
      OBVIOUS
    <3>1. i \in 1 .. n /\ queue'[i] = queue[i]
      BY <1>6
    <3>2. CASE j \in 1 .. n /\ queue'[j] = queue[j]
      BY <3>1, <3>2 DEF ReadsInv, SeqOrder
    <3>3. CASE queue'[j] = q
      BY SMTT(40), <1>3, <1>4, <3>1, <3>3, MembersAre DEF ReadsInv, SeqOrder
    <3> QED BY <1>6, <3>2, <3>3
  <2>3. (\A run \in runs : 0 < run.seq /\ run.seq <= stamps') /\ active <= stamps'
    BY <1>3, MembersAre DEF ReadsInv, SeqOrder
  <2> QED BY <1>1, <2>1, <2>2, <2>3 DEF SeqOrder
<1>8. ReqOrder'
  <2>1. \A i \in 1 .. Len(bridge') : bridge'[i].req <= requests
    BY <1>1 DEF ReadsInv, ReqOrder
  <2>2. \A r \in Reads : newest[r].req <= newest'[r].req /\ newest'[r].req \in Nat
    <3> TAKE r \in Reads
    <3>1. CASE r = c.what
      BY <1>3, <1>4, <1>5, <3>1
    <3>2. CASE r # c.what
      BY <1>5, <3>2, MembersAre
    <3> QED BY <3>1, <3>2
  <2>3. \A run \in runs : run.req <= requests /\ run.req <= newest'[run.what].req
    <3> TAKE run \in runs
    <3>1. run.what \in Reads /\ run.req \in Nat
      BY MembersAre DEF Runs
    <3>2. run.req <= requests /\ run.req <= newest[run.what].req
      BY DEF ReadsInv, ReqOrder
    <3>3. newest[run.what].req <= newest'[run.what].req
      BY <2>2, <3>1
    <3>4. newest[run.what].req \in Nat /\ newest'[run.what].req \in Nat
      BY <2>2, <3>1, MembersAre
    <3> QED BY <3>1, <3>2, <3>3, <3>4
  <2>4. ASSUME NEW i \in 1 .. n
        PROVE  /\ queue[i].req <= requests
               /\ queue[i].req <= newest'[queue[i].what].req
               /\ newest'[queue[i].what].seq = queue[i].seq
                     => newest'[queue[i].what].req = queue[i].req
    <3>1. queue[i].what \in Reads /\ queue[i].req \in Nat /\ queue[i].seq \in Nat
      BY MembersAre DEF Queued
    <3>2. /\ queue[i].req <= requests /\ queue[i].req <= newest[queue[i].what].req
          /\ newest[queue[i].what].seq = queue[i].seq
                => newest[queue[i].what].req = queue[i].req
          /\ queue[i].seq <= stamps
      BY DEF ReadsInv, ReqOrder, SeqOrder
    <3>3. /\ newest[queue[i].what].req <= newest'[queue[i].what].req
          /\ newest[queue[i].what].req \in Nat /\ newest'[queue[i].what].req \in Nat
      BY <2>2, <3>1, MembersAre
    <3>4. queue[i].req <= newest'[queue[i].what].req
      BY <3>1, <3>2, <3>3
    <3>5. CASE queue[i].what = c.what
      <4>1. newest'[queue[i].what].seq = stamps'
        BY <1>4, <1>5, <3>5
      <4>2. stamps' # queue[i].seq
        BY <1>3, <3>1, <3>2, MembersAre
      <4> QED BY <3>2, <3>4, <4>1, <4>2
    <3>6. CASE queue[i].what # c.what
      <4>1. newest'[queue[i].what] = newest[queue[i].what]
        BY <1>5, <3>1, <3>6
      <4> QED BY <3>2, <4>1
    <3> QED BY <3>5, <3>6
  <2>5. /\ q.req <= requests /\ q.req <= newest'[q.what].req
        /\ newest'[q.what].req = q.req
    BY <1>3, <1>4, <1>5
  <2>6. \A i \in 1 .. Len(queue') :
           /\ queue'[i].req <= requests
           /\ queue'[i].req <= newest'[queue'[i].what].req
           /\ newest'[queue'[i].what].seq = queue'[i].seq
                 => newest'[queue'[i].what].req = queue'[i].req
    <3> TAKE i \in 1 .. Len(queue')
    <3>1. CASE i \in 1 .. n /\ queue'[i] = queue[i]
      BY <2>4, <3>1
    <3>2. CASE queue'[i] = q
      BY <2>5, <3>2
    <3> QED BY <1>6, <3>1, <3>2
  <2> QED BY <1>1, <1>2, <2>1, <2>3, <2>6 DEF ReadsInv, ReqOrder
<1>9. PanelFits'
  <2>1. \A i \in 1 .. Len(bridge') : bridge'[i].req = panel.req =>
            bridge'[i].key = panel.key /\ bridge'[i].what # "cancel"
    BY <1>1 DEF ReadsInv, PanelFits
  <2>2. \A i \in 1 .. Len(queue') : queue'[i].req = panel.req => queue'[i].key = panel.key
    BY SMTT(40), <1>3, <1>4, <1>6 DEF ReadsInv, PanelFits
  <2> QED BY <1>1, <1>2, <2>1, <2>2 DEF ReadsInv, PanelFits
<1>10. SlotFits' /\ OneLive' /\ LiveLoading'
  BY <1>1 DEF ReadsInv, SlotFits, OneLive, LiveLoading
<1>11. Awaited'
  <2> SUFFICES ASSUME NEW r \in panel.waits
               PROVE  Asked(r)' \/ Lined(r)' \/ Reading(r)'
    BY <1>1 DEF Awaited
  <2>1. r \in Reads
    BY TypesGive
  <2>2. ASSUME c.what = r, c.req = panel.req PROVE Lined(r)'
    <3>1. n + 1 \in 1 .. Len(queue')
      BY <1>6
    <3> QED BY <1>1, <1>3, <1>4, <1>5, <1>6, <2>2, <3>1 DEF Lined
  <2>3. ASSUME Asked(r) PROVE Asked(r)' \/ Lined(r)'
    <3>1. CASE c = Command(r, panel.key, panel.req)
      BY <2>2, <3>1 DEF Command
    <3> QED BY <1>1, <2>3, <3>1
  <2>4. ASSUME Lined(r) PROVE Lined(r)'
    <3>1. PICK i \in 1 .. n :
             /\ queue[i].what = r /\ queue[i].key = panel.key /\ queue[i].req = panel.req
             /\ newest[r].seq = queue[i].seq /\ newest[r].req = panel.req /\ ~newest[r].off
      BY <2>4 DEF Lined
    <3>2. CASE c.what # r
      <4>1. newest'[r] = newest[r]
        BY <1>5, <2>1, <3>2
      <4> QED BY <1>1, <1>6, <3>1, <4>1 DEF Lined
    <3>3. CASE c.what = r
      <4>1. panel.req <= c.req
        BY <1>3, <3>1, <3>3
      <4>2. panel.req = requests
        BY <3>1, MembersAre DEF TypesInv, PanelShape
      <4>3. c.req = panel.req
        BY <1>3, <4>1, <4>2, MembersAre
      <4> QED BY <2>2, <3>3, <4>3
    <3> QED BY <3>2, <3>3
  <2>5. ASSUME Reading(r) PROVE Reading(r)'
    BY <1>1, <2>5 DEF Reading
  <2> QED BY <2>3, <2>4, <2>5 DEF ReadsInv, Awaited
<1> QED BY <1>7, <1>8, <1>9, <1>10, <1>11 DEF ReadsInv

(* The head leaves the queue; what is left keeps its orders, and a read that*)
(* was lined up still is, or is the head, which nothing has superseded.     *)
LEMMA HeadLeaves ==
    ASSUME TypesInv, ReadsInv, Leave
    PROVE  LET c == Head(queue) IN
           /\ c = queue[1] /\ 1 \in 1 .. Len(queue) /\ c \in Queued
           /\ \A i \in 1 .. Len(queue') :
                /\ i + 1 \in 1 .. Len(queue) /\ queue'[i] = queue[i + 1]
                /\ c.seq < queue'[i].seq
           /\ \A i, j \in 1 .. Len(queue') :
                i < j => queue'[i].seq < queue'[j].seq
           /\ UNCHANGED <<requests, bridge, stamps, newest, closes, outrun>>
           /\ panel'.key = panel.key /\ panel'.req = panel.req
           /\ panel'.waits \subseteq panel.waits
           /\ \A x : Asked(x) => Asked(x)'
           /\ \A x : Lined(x) => \/ Lined(x)'
                                 \/ /\ ~Superseded(c) /\ c.what = x
                                    /\ c.key = panel.key /\ c.req = panel.req
<1> DEFINE c == Head(queue)
<1>1. /\ queue # <<>> /\ queue' = Tail(queue) /\ c \in Queued
      /\ UNCHANGED <<requests, bridge, stamps, newest, closes, outrun>>
      /\ \/ UNCHANGED <<runs, active, view, panel>>
         \/ /\ Loading(view, c.what, c.key) \in Views
            /\ ShowSlice(Loading(view, c.what, c.key))
  BY LeaveIs
<1>2. c = queue[1]
  BY <1>1, MembersAre
<1>3. /\ 1 \in 1 .. Len(queue)
      /\ \A i \in 1 .. Len(queue') : i + 1 \in 1 .. Len(queue) /\ queue'[i] = queue[i + 1]
      /\ \A i \in 1 .. Len(queue) :
            i = 1 \/ (i - 1 \in 1 .. Len(queue') /\ queue'[i - 1] = queue[i])
  BY <1>1, MembersAre, TakenIs
<1>4. Sees
  BY <1>1, SeesKeeps DEF TypesInv
<1> HIDE DEF c
<1>5. \A i \in 1 .. Len(queue') : c.seq < queue'[i].seq
  <2> TAKE i \in 1 .. Len(queue')
  <2>1. 1 < i + 1
    OBVIOUS
  <2> QED BY <1>2, <1>3, <2>1 DEF ReadsInv, SeqOrder, ReqOrder
<1>6. \A i, j \in 1 .. Len(queue') :
         i < j => queue'[i].seq < queue'[j].seq
  <2> TAKE i, j \in 1 .. Len(queue')
  <2>1. i < j => i + 1 < j + 1
    OBVIOUS
  <2> QED BY <1>3, <2>1 DEF ReadsInv, SeqOrder, ReqOrder
<1>7. ASSUME NEW x, Asked(x) PROVE Asked(x)'
  BY <1>1, <1>4, <1>7 DEF Asked, Sees
<1>8. ASSUME NEW x, Lined(x)
      PROVE  \/ Lined(x)'
             \/ ~Superseded(c) /\ c.what = x /\ c.key = panel.key /\ c.req = panel.req
  <2>1. PICK i \in 1 .. Len(queue) :
           /\ queue[i].what = x /\ queue[i].key = panel.key /\ queue[i].req = panel.req
           /\ newest[x].seq = queue[i].seq /\ newest[x].req = panel.req /\ ~newest[x].off
    BY <1>8 DEF Lined
  <2>2. CASE i = 1
    BY <1>2, <2>1, <2>2 DEF Superseded
  <2>3. CASE i - 1 \in 1 .. Len(queue') /\ queue'[i - 1] = queue[i]
    BY <1>1, <1>4, <2>1, <2>3 DEF Lined, Sees
  <2> QED BY <1>3, <2>2, <2>3
<1> QED BY <1>1, <1>2, <1>3, <1>4, <1>5, <1>6, <1>7, <1>8 DEF Sees, c

(* It is dropped, or joins the analysis its panel already runs.             *)
LEMMA DroppedKeeps ==
    ASSUME TypesInv, ReadsInv, Leave, Superseded(Head(queue)) \/ Joined(Head(queue)),
           UNCHANGED <<runs, active, view, panel>>
    PROVE  ReadsInv'
<1> DEFINE c == Head(queue)
<1>1. /\ \A i \in 1 .. Len(queue') : i + 1 \in 1 .. Len(queue) /\ queue'[i] = queue[i + 1]
      /\ \A i, j \in 1 .. Len(queue') :
           i < j => queue'[i].seq < queue'[j].seq
      /\ UNCHANGED <<requests, bridge, stamps, newest, closes, outrun>>
      /\ \A x : Asked(x) => Asked(x)'
      /\ \A x : Lined(x) => \/ Lined(x)'
                            \/ /\ ~Superseded(c) /\ c.what = x
                               /\ c.key = panel.key /\ c.req = panel.req
  BY HeadLeaves
<1> HIDE DEF c
<1>2. SeqOrder' /\ ReqOrder'
  BY ZenonT(40), <1>1 DEF ReadsInv, SeqOrder, ReqOrder
<1>3. PanelFits'
  BY ZenonT(40), <1>1 DEF ReadsInv, PanelFits
<1>4. SlotFits' /\ OneLive' /\ LiveLoading'
  BY DEF ReadsInv, SlotFits, OneLive, LiveLoading
<1>5. ASSUME NEW r \in panel.waits, ~Superseded(c), c.what = r, c.key = panel.key,
             c.req = panel.req
      PROVE  Reading(r)
  <2>1. Joined(c)
    BY <1>5 DEF c
  <2> QED BY <1>5, <2>1 DEF Joined, Reading, ReadsInv, SlotFits
<1>6. \A r : Reading(r) => Reading(r)'
  BY DEF Reading
<1>7. Awaited'
  BY <1>1, <1>5, <1>6 DEF ReadsInv, Awaited
<1> QED BY <1>2, <1>3, <1>4, <1>7 DEF ReadsInv

(* Or its read begins, replacing what it replaces.                          *)
LEMMA BegunKeeps ==
    ASSUME TypesInv, ReadsInv, Leave, ~Superseded(Head(queue)),
           runs' = CallOff({run \in runs : Replaces(Head(queue), run)}) \cup {Task(Head(queue))},
           active' = IF Head(queue).what = "analysis" THEN Head(queue).seq ELSE active,
           ShowSlice(Loading(view, Head(queue).what, Head(queue).key))
    PROVE  ReadsInv'
<1> DEFINE c == Head(queue)
           which == {run \in runs : Replaces(c, run)}
           task == Task(c)
           v == Loading(view, c.what, c.key)
<1>1. /\ c = queue[1] /\ 1 \in 1 .. Len(queue) /\ c \in Queued
      /\ \A i \in 1 .. Len(queue') :
           /\ i + 1 \in 1 .. Len(queue) /\ queue'[i] = queue[i + 1]
           /\ c.seq < queue'[i].seq
      /\ \A i, j \in 1 .. Len(queue') :
           i < j => queue'[i].seq < queue'[j].seq
      /\ UNCHANGED <<requests, bridge, stamps, newest, closes, outrun>>
      /\ panel'.key = panel.key /\ panel'.req = panel.req
      /\ panel'.waits \subseteq panel.waits
      /\ \A x : Asked(x) => Asked(x)'
      /\ \A x : Lined(x) => \/ Lined(x)'
                            \/ /\ ~Superseded(c) /\ c.what = x
                               /\ c.key = panel.key /\ c.req = panel.req
  BY HeadLeaves
<1>2. /\ runs' = CallOff(which) \cup {task} /\ view' = v
      /\ active' = IF c.what = "analysis" THEN c.seq ELSE active
  BY DEF ShowSlice
<1>3. c.what \in Reads /\ c.key \in Keys /\ c.req \in Nat \ {0} /\ c.seq \in Nat
  BY <1>1, MembersAre DEF Queued
<1>4. /\ task.what = c.what /\ task.key = c.key /\ task.req = c.req /\ task.seq = c.seq
      /\ ~task.off
  BY DEF Task
<1>5. /\ v.loading[c.what] = c.key
      /\ \A x \in Reads \ {c.what} : v.loading[x] = view.loading[x]
  BY <1>3, TypesGive, LoadingMarks
<1>6. /\ \A x \in CallOff(which) : \E run \in runs :
            /\ x.what = run.what /\ x.key = run.key /\ x.req = run.req /\ x.seq = run.seq
      /\ \A x \in CallOff(which) : ~x.off => x \in runs /\ x \notin which
      /\ \A x \in runs : ~x.off /\ x \notin which => x \in CallOff(which)
  BY TypesGive, CalledOffAre
<1>7. /\ c.seq <= stamps /\ active < c.seq /\ \A run \in runs : run.seq < c.seq
      /\ \A run \in runs : run.what = c.what => run.req <= c.req
      /\ c.req <= requests /\ c.req = newest[c.what].req /\ (c.req = panel.req => c.key = panel.key)
  <2>1. /\ c.seq <= stamps /\ active < c.seq /\ \A run \in runs : run.seq < c.seq
        /\ c.req <= requests /\ (c.req = panel.req => c.key = panel.key)
        /\ newest[c.what].seq = c.seq => newest[c.what].req = c.req
    BY <1>1 DEF ReadsInv, SeqOrder, ReqOrder, PanelFits
  <2>2. newest[c.what].seq = c.seq
    BY DEF Superseded
  <2>3. \A run \in runs : run.req <= newest[run.what].req
    BY DEF ReadsInv, ReqOrder
  <2> HIDE DEF c
  <2> QED BY <2>1, <2>2, <2>3
<1>8. \A run \in runs : run \in which <=> Replaces(c, run)
  OBVIOUS
<1> HIDE DEF c, which, task, v
<1>9. \A x \in runs' : \/ x = task
                       \/ \E run \in runs :
                            /\ x.what = run.what /\ x.key = run.key /\ x.req = run.req
                            /\ x.seq = run.seq
  BY <1>2, <1>6
<1>10. \A x \in runs' : ~x.off => x = task \/ (x \in runs /\ ~Replaces(c, x))
  BY <1>2, <1>6, <1>8
<1>11. /\ 0 < c.seq /\ requests \in Nat /\ stamps \in Nat
       /\ \A run \in runs : run.seq \in Nat /\ 0 < run.seq /\ run.seq <= c.seq
  BY <1>3, <1>7, MembersAre DEF ReadsInv, SeqOrder
<1>12. \A x \in runs' : x.seq \in Nat /\ 0 < x.seq /\ x.seq <= c.seq
  <2> TAKE x \in runs'
  <2>1. CASE x = task
    BY <1>3, <1>4, <1>11, <2>1
  <2>2. CASE \E run \in runs : x.seq = run.seq
    BY <1>11, <2>2
  <2> QED BY <1>9, <2>1, <2>2
<1>13. SeqOrder'
  <2>1. \A x \in runs' : 0 < x.seq /\ x.seq <= stamps
    <3> TAKE x \in runs'
    <3>1. 0 < x.seq /\ x.seq \in Nat /\ x.seq <= c.seq
      BY <1>12
    <3> QED BY <1>3, <1>7, <1>11, <3>1
  <2>2. active' <= c.seq /\ active' \in Nat
    BY <1>2, <1>3, <1>7, MembersAre
  <2>3. \A i \in 1 .. Len(queue') : queue'[i].seq \in Nat /\ queue'[i].seq <= stamps
    BY <1>1, MembersAre DEF ReadsInv, SeqOrder
  <2>5. \A i \in 1 .. Len(queue') : active' < queue'[i].seq
    BY <1>1, <1>3, <2>2, <2>3
  <2>6. \A i \in 1 .. Len(queue'), x \in runs' : x.seq < queue'[i].seq
    <3> TAKE i \in 1 .. Len(queue'), x \in runs'
    <3>1. x.seq \in Nat /\ x.seq <= c.seq /\ c.seq < queue'[i].seq /\ queue'[i].seq \in Nat
      BY <1>1, <1>12, <2>3
    <3> QED BY <1>3, <3>1
  <2>7. active' <= stamps
    BY <1>3, <1>7, <2>2, MembersAre
  <2> QED BY <1>1, <2>1, <2>3, <2>5, <2>6, <2>7 DEF SeqOrder
<1>14. ReqOrder'
  <2>1. \A x \in runs' : x.req <= requests /\ x.req <= newest[x.what].req
    <3> TAKE x \in runs'
    <3>1. CASE x = task
      BY <1>3, <1>4, <1>7, <3>1
    <3>2. CASE \E run \in runs : x.what = run.what /\ x.req = run.req
      BY <3>2 DEF ReadsInv, ReqOrder
    <3> QED BY <1>9, <3>1, <3>2
  <2>2. \A i \in 1 .. Len(queue') :
           /\ queue'[i].req <= requests
           /\ queue'[i].req <= newest[queue'[i].what].req
           /\ newest[queue'[i].what].seq = queue'[i].seq
                 => newest[queue'[i].what].req = queue'[i].req
    <3> TAKE i \in 1 .. Len(queue')
    <3>1. PICK j \in 1 .. Len(queue) : queue'[i] = queue[j]
      BY <1>1
    <3> QED BY <3>1 DEF ReadsInv, ReqOrder
  <2> QED BY <1>1, <2>1, <2>2 DEF ReadsInv, ReqOrder
<1>15. PanelFits'
  <2>1. \A x \in runs' : x.req = panel.req => x.key = panel.key
    <3> TAKE x \in runs'
    <3>1. CASE x = task
      BY <1>4, <1>7, <3>1
    <3>2. CASE \E run \in runs : x.key = run.key /\ x.req = run.req
      BY <3>2 DEF ReadsInv, PanelFits
    <3> QED BY <1>9, <3>1, <3>2
  <2>2. \A i \in 1 .. Len(queue') : queue'[i].req = panel.req => queue'[i].key = panel.key
    BY <1>1 DEF ReadsInv, PanelFits
  <2> QED BY <1>1, <2>1, <2>2 DEF ReadsInv, PanelFits
<1>16. SlotFits'
  <2> SUFFICES ASSUME NEW x \in runs'
               PROVE  x.seq = active' <=> (x.what = "analysis" /\ ~x.off)
    BY DEF SlotFits
  <2>1. CASE x = task
    <3>1. c.what = "analysis" => active' = c.seq
      BY <1>2
    <3>2. c.what # "analysis" => active' # c.seq
      BY <1>2, <1>3, <1>7, MembersAre
    <3> QED BY <1>4, <2>1, <3>1, <3>2
  <2>2. CASE x # task /\ c.what = "analysis"
    <3>1. x.seq # active'
      <4>1. PICK run \in runs : x.seq = run.seq
        BY <1>9, <2>2
      <4> QED BY <1>2, <1>3, <1>7, <2>2, <4>1, MembersAre
    <3>2. ~(x.what = "analysis" /\ ~x.off)
      BY <1>10, <2>2 DEF Replaces
    <3> QED BY <3>1, <3>2
  <2>3. CASE x # task /\ c.what # "analysis"
    <3>1. active' = active
      BY <1>2, <2>3
    <3>2. ASSUME x.what = "analysis", ~x.off PROVE x.seq = active
      BY <1>10, <2>3, <3>2 DEF ReadsInv, SlotFits
    <3>3. ASSUME x.seq = active PROVE x.what = "analysis" /\ ~x.off
      <4>1. x \in CallOff(which)
        BY <1>2, <2>3
      <4>2. PICK run \in runs : x.what = run.what /\ x.seq = run.seq
                                /\ (x.off => run.off \/ run \in which)
        BY <4>1, TypesGive, CalledOffAre
      <4>3. run.what = "analysis" /\ ~run.off
        BY <3>3, <4>2 DEF ReadsInv, SlotFits
      <4>4. run \notin which
        BY <1>8, <2>3, <4>3 DEF Replaces
      <4> QED BY <4>2, <4>3, <4>4
    <3> QED BY <3>1, <3>2, <3>3
  <2> QED BY <2>1, <2>2, <2>3
<1>17. OneLive'
  <2> SUFFICES ASSUME NEW a \in runs', NEW b \in runs', ~a.off, ~b.off, a.what = b.what,
                      a.what = "details" => a.key = b.key
               PROVE  a = b
    BY DEF OneLive
  <2>1. CASE a \in runs /\ b \in runs
    BY <2>1 DEF ReadsInv, OneLive
  <2>2. CASE a = task /\ b \in runs /\ ~Replaces(c, b)
    BY <1>4, <2>2 DEF Replaces
  <2>3. CASE b = task /\ a \in runs /\ ~Replaces(c, a)
    BY <1>4, <2>3 DEF Replaces
  <2>4. (a = task \/ (a \in runs /\ ~Replaces(c, a))) /\ (b = task \/ (b \in runs /\ ~Replaces(c, b)))
    BY <1>10
  <2> QED BY <2>1, <2>2, <2>3, <2>4
<1>18. LiveLoading'
  <2> SUFFICES ASSUME NEW x \in runs', ~x.off, x.req = panel.req
               PROVE  v.loading[x.what] = x.key
    BY <1>1, <1>2 DEF LiveLoading
  <2>1. CASE x = task
    BY <1>4, <1>5, <2>1
  <2>2. CASE x \in runs /\ ~Replaces(c, x)
    <3>1. view.loading[x.what] = x.key /\ x.what \in Reads
      BY <2>2, MembersAre DEF ReadsInv, LiveLoading, Runs
    <3>2. x.what # c.what
      <4> SUFFICES ASSUME x.what = c.what PROVE FALSE
        OBVIOUS
      <4>1. x.key = panel.key /\ panel.req = requests
        BY <2>2, MembersAre DEF ReadsInv, PanelFits, TypesInv, PanelShape
      <4>2. c.req = panel.req
        <5>1. panel.req <= c.req /\ c.req <= requests
          BY <1>7, <2>2
        <5> QED BY <1>3, <4>1, <5>1, MembersAre
      <4> QED BY <1>7, <2>2, <4>1, <4>2 DEF Replaces
    <3> QED BY <1>5, <3>1, <3>2
  <2> QED BY <1>10, <2>1, <2>2
<1>19. Awaited'
  <2> SUFFICES ASSUME NEW r \in panel.waits
               PROVE  Asked(r)' \/ Lined(r)' \/ Reading(r)'
    BY <1>1 DEF Awaited
  <2>1. task \in runs'
    BY <1>2
  <2>2. ASSUME c.what = r, c.key = panel.key, c.req = panel.req PROVE Reading(r)'
    BY <1>1, <1>4, <2>1, <2>2 DEF Reading
  <2>3. ASSUME Reading(r) PROVE Reading(r)'
    <3>1. PICK run \in runs :
             run.what = r /\ run.key = panel.key /\ run.req = panel.req /\ ~run.off
      BY <2>3 DEF Reading
    <3>2. CASE run \notin which
      <4>1. run \in runs'
        BY <1>2, <1>6, <3>1, <3>2
      <4> QED BY <1>1, <3>1, <4>1 DEF Reading
    <3>3. CASE run \in which
      <4>1. c.what = r
        BY <1>8, <3>1, <3>3 DEF Replaces
      <4>2. panel.req = requests
        BY <3>1, MembersAre DEF TypesInv, PanelShape
      <4>3. c.req = panel.req
        <5>1. panel.req <= c.req /\ c.req <= requests
          BY <1>7, <3>1, <4>1
        <5> QED BY <1>3, <4>2, <5>1, MembersAre
      <4> QED BY <1>7, <2>2, <4>1, <4>3
    <3> QED BY <3>2, <3>3
  <2> QED BY <1>1, <2>2, <2>3 DEF ReadsInv, Awaited
<1> QED BY <1>13, <1>14, <1>15, <1>16, <1>17, <1>18, <1>19 DEF ReadsInv

LEMMA LeaveKeeps ==
    ASSUME TypesInv, ReadsInv, Leave
    PROVE  ReadsInv'
<1>1. \/ /\ Superseded(Head(queue)) \/ Joined(Head(queue))
         /\ UNCHANGED <<runs, active, view, panel>>
      \/ /\ ~Superseded(Head(queue))
         /\ runs' = CallOff({run \in runs : Replaces(Head(queue), run)}) \cup {Task(Head(queue))}
         /\ active' = IF Head(queue).what = "analysis" THEN Head(queue).seq ELSE active
         /\ ShowSlice(Loading(view, Head(queue).what, Head(queue).key))
  BY LeaveIs
<1> QED BY <1>1, DroppedKeeps, BegunKeeps

(* A read ends: what it answers its panel waits for no longer.              *)
LEMMA EndsKeeps ==
    ASSUME TypesInv, ReadsInv, NEW run \in runs, Ends(run)
    PROVE  ReadsInv'
<1> DEFINE landed == Landed(view, run.what, run.key)
           failed == Failed(view, run.what, run.key)
<1>1. /\ runs' = runs \ {run} /\ active' = IF run.seq = active THEN 0 ELSE active
      /\ UNCHANGED <<requests, bridge, stamps, newest, queue, closes, outrun>>
      /\ \/ run.off /\ UNCHANGED <<view, panel>>
         \/ ~run.off /\ (ShowSlice(landed) \/ ShowSlice(failed))
  BY DEF Ends
<1>2. run \in Runs /\ run.what \in Reads /\ run.key \in Keys /\ view \in Views
  BY TypesGive DEF Runs
<1>3. landed \in Views /\ failed \in Views
  BY <1>2, LandedClears, FailedClears
<1>4. Sees
  BY <1>1, <1>3, SeesKeeps DEF TypesInv
<1>5. \A r \in Reads : \/ view'.loading[r] = view.loading[r]
                       \/ r = run.what /\ view.loading[r] = run.key /\ ~run.off
  BY SMTT(40), <1>1, <1>2, LandedClears, FailedClears DEF ShowSlice
<1>6. ASSUME ~run.off, run.req = panel.req
      PROVE  run.what \notin panel'.waits
  <2>1. view.loading[run.what] = run.key /\ run.key = panel.key
    BY <1>6 DEF ReadsInv, LiveLoading, PanelFits
  <2>2. CASE ShowSlice(landed)
    <3>1. landed # view /\ run.what \in Answered(landed, panel.key)
      BY <1>2, <2>1, LandedClears
    <3> HIDE DEF landed
    <3> QED BY <1>3, <2>2, <3>1, ShownIs DEF TypesInv
  <2>3. CASE ShowSlice(failed)
    <3>1. failed # view /\ run.what \in Answered(failed, panel.key)
      BY <1>2, <2>1, FailedClears
    <3> HIDE DEF failed
    <3> QED BY <1>3, <2>3, <3>1, ShownIs DEF TypesInv
  <2> QED BY <1>1, <1>6, <2>2, <2>3
<1> HIDE DEF landed, failed
<1>7. SeqOrder'
  <2>1. active' \in Nat /\ active' <= active
    BY <1>1, MembersAre
  <2>2. \A i \in 1 .. Len(queue) : active' < queue[i].seq
    BY SMTT(40), <2>1, MembersAre DEF ReadsInv, SeqOrder
  <2>3. active' <= stamps
    BY <2>1, MembersAre DEF ReadsInv, SeqOrder
  <2> QED BY <1>1, <2>2, <2>3 DEF ReadsInv, SeqOrder
<1>8. ReqOrder' /\ PanelFits'
  BY <1>1, <1>4 DEF ReadsInv, ReqOrder, PanelFits, Sees
<1>9. SlotFits'
  <2> SUFFICES ASSUME NEW x \in runs, x # run
               PROVE  x.seq = active' <=> (x.what = "analysis" /\ ~x.off)
    BY <1>1 DEF SlotFits
  <2>1. x.seq = active <=> (x.what = "analysis" /\ ~x.off)
    BY DEF ReadsInv, SlotFits
  <2>2. CASE run.seq = active
    <3>1. x.seq # active'
      BY <1>1, <2>2, MembersAre DEF ReadsInv, SeqOrder
    <3>2. ~(x.what = "analysis" /\ ~x.off)
      BY <2>1, <2>2 DEF ReadsInv, SlotFits, OneLive
    <3> QED BY <3>1, <3>2
  <2>3. CASE run.seq # active
    BY <1>1, <2>1, <2>3
  <2> QED BY <2>2, <2>3
<1>10. OneLive'
  BY <1>1 DEF ReadsInv, OneLive
<1>11. LiveLoading'
  <2> SUFFICES ASSUME NEW x \in runs, x # run, ~x.off, x.req = panel.req
               PROVE  view'.loading[x.what] = x.key
    BY <1>1, <1>4 DEF LiveLoading, Sees
  <2>1. view.loading[x.what] = x.key /\ x.what \in Reads
    BY MembersAre DEF ReadsInv, LiveLoading, Runs
  <2>2. x.what = run.what /\ x.key = run.key /\ ~run.off => x = run
    BY DEF ReadsInv, OneLive
  <2> QED BY <1>5, <2>1, <2>2
<1>12. Awaited'
  <2> SUFFICES ASSUME NEW r \in panel'.waits
               PROVE  Asked(r)' \/ Lined(r)' \/ Reading(r)'
    BY DEF Awaited
  <2>1. r \in panel.waits /\ panel'.key = panel.key /\ panel'.req = panel.req
    BY <1>4 DEF Sees
  <2>2. (Asked(r) => Asked(r)') /\ (Lined(r) => Lined(r)')
    BY <1>1, <2>1 DEF Asked, Lined
  <2>3. ASSUME Reading(r) PROVE Reading(r)'
    <3>1. PICK x \in runs : x.what = r /\ x.key = panel.key /\ x.req = panel.req /\ ~x.off
      BY <2>3 DEF Reading
    <3>2. x # run
      BY <1>6, <3>1
    <3> QED BY <1>1, <2>1, <3>1, <3>2 DEF Reading
  <2> QED BY <2>1, <2>2, <2>3 DEF ReadsInv, Awaited
<1> QED BY <1>7, <1>8, <1>9, <1>10, <1>11, <1>12 DEF ReadsInv

(* A cancel ends the reads of its own request, which the open panel's are   *)
(* not, and clears no mark another live read of its replay has set.         *)
LEMMA CancelRunKeeps ==
    ASSUME TypesInv, ReadsInv, NEW c \in closes, CancelRun(c)
    PROVE  ReadsInv'
<1> DEFINE Slotted(run) == run.what = "analysis" => run.seq = active
           own == {run \in runs : run.key = c.key /\ run.req = c.req /\ Slotted(run)}
           left == {run \in runs \ own : run.key = c.key /\ ~run.off /\ Slotted(run)}
           v == ReadsCancelled(view, c.key)
<1>1. /\ closes' = closes \ {c} /\ runs' = CallOff(own)
      /\ active' = IF \E run \in own : run.what = "analysis" THEN 0 ELSE active
      /\ UNCHANGED <<requests, bridge, stamps, newest, queue, outrun>>
      /\ \/ left = {} /\ ShowSlice(v)
         \/ UNCHANGED <<view, panel>>
  BY DEF CancelRun
<1>2. c.req # panel.req /\ c.key \in Keys /\ view \in Views /\ runs \subseteq Runs
  BY TypesGive DEF ReadsInv, PanelFits, Commands
<1>3. v \in Views /\ \A r \in Reads : v.loading[r] = view.loading[r] \/ view.loading[r] = c.key
  BY <1>2, CancelledClears
<1>4. \A run \in runs : run \in own <=> (run.key = c.key /\ run.req = c.req /\ Slotted(run))
  OBVIOUS
<1>5. \A run \in runs : run \notin own /\ run.key = c.key /\ ~run.off /\ Slotted(run)
                          => left # {}
  OBVIOUS
<1>6. own \subseteq runs
  OBVIOUS
<1> HIDE DEF own, left, v
<1>7. Sees
  BY <1>1, <1>3, SeesKeeps DEF TypesInv
<1>8. /\ \A x \in runs' : \E run \in runs :
            /\ x.what = run.what /\ x.key = run.key /\ x.req = run.req /\ x.seq = run.seq
            /\ x.off => run.off \/ run \in own
      /\ \A x \in runs' : ~x.off => x \in runs /\ x \notin own
      /\ \A x \in runs : ~x.off /\ x \notin own => x \in runs'
  BY <1>1, <1>2, CalledOffAre
<1>9. active' \in {0, active}
  BY <1>1
<1>10. SeqOrder'
  <2>1. active' \in Nat /\ active' <= active
    BY <1>9, MembersAre
  <2>2. \A i \in 1 .. Len(queue) : active' < queue[i].seq
    BY <2>1, MembersAre DEF ReadsInv, SeqOrder
  <2>3. active' <= stamps
    BY <2>1, MembersAre DEF ReadsInv, SeqOrder
  <2>4. \A x \in runs' : 0 < x.seq /\ x.seq <= stamps
    BY <1>8 DEF ReadsInv, SeqOrder
  <2>5. \A i \in 1 .. Len(queue), x \in runs' : x.seq < queue[i].seq
    BY <1>8 DEF ReadsInv, SeqOrder
  <2> QED BY <1>1, <2>2, <2>3, <2>4, <2>5 DEF ReadsInv, SeqOrder
<1>11. ReqOrder'
  <2>1. \A x \in runs' : x.req <= requests /\ x.req <= newest[x.what].req
    BY <1>8 DEF ReadsInv, ReqOrder
  <2> QED BY <1>1, <2>1 DEF ReadsInv, ReqOrder
<1>12. PanelFits'
  <2>1. \A x \in runs' : x.req = panel.req => x.key = panel.key
    BY <1>8 DEF ReadsInv, PanelFits
  <2> QED BY <1>1, <1>7, <2>1 DEF ReadsInv, PanelFits, Sees
<1>13. SlotFits'
  <2> SUFFICES ASSUME NEW x \in runs'
               PROVE  x.seq = active' <=> (x.what = "analysis" /\ ~x.off)
    BY DEF SlotFits
  <2>1. PICK run \in runs : /\ x.what = run.what /\ x.seq = run.seq
                            /\ x.off => run.off \/ run \in own
    BY <1>8
  <2>2. CASE \E a \in own : a.what = "analysis"
    <3>1. PICK a \in own : a.what = "analysis"
      BY <2>2
    <3>2. a \in runs /\ a.seq = active /\ ~a.off
      BY <1>4, <1>6, <3>1 DEF ReadsInv, SlotFits
    <3>3. x.seq # active'
      BY <1>1, <2>1, <2>2 DEF ReadsInv, SeqOrder
    <3>4. ~(x.what = "analysis" /\ ~x.off)
      BY <1>8, <3>1, <3>2 DEF ReadsInv, OneLive
    <3> QED BY <3>3, <3>4
  <2>3. CASE \A a \in own : a.what # "analysis"
    <3>1. active' = active
      BY <1>1, <2>3
    <3>2. ASSUME x.seq = active PROVE x.what = "analysis" /\ ~x.off
      BY <2>1, <2>3, <3>2 DEF ReadsInv, SlotFits
    <3>3. ASSUME x.what = "analysis", ~x.off PROVE x.seq = active
      BY <1>8, <3>3 DEF ReadsInv, SlotFits
    <3> QED BY <3>1, <3>2, <3>3
  <2> QED BY <2>2, <2>3
<1>14. OneLive'
  BY <1>8 DEF ReadsInv, OneLive
<1>15. LiveLoading'
  <2> SUFFICES ASSUME NEW x \in runs', ~x.off, x.req = panel.req
               PROVE  view'.loading[x.what] = x.key
    BY <1>7 DEF LiveLoading, Sees
  <2>1. x \in runs /\ x \notin own /\ view.loading[x.what] = x.key /\ x.what \in Reads
    BY <1>8, MembersAre DEF ReadsInv, LiveLoading, Runs
  <2>2. Slotted(x)
    BY <2>1 DEF ReadsInv, SlotFits
  <2>3. CASE UNCHANGED <<view, panel>>
    BY <2>1, <2>3
  <2>4. CASE left = {} /\ ShowSlice(v)
    <3>1. x.key # c.key
      BY <1>5, <2>1, <2>2, <2>4
    <3> QED BY <1>3, <2>1, <2>4, <3>1 DEF ShowSlice
  <2> QED BY <1>1, <2>3, <2>4
<1>16. Awaited'
  <2> SUFFICES ASSUME NEW r \in panel'.waits
               PROVE  Asked(r)' \/ Lined(r)' \/ Reading(r)'
    BY DEF Awaited
  <2>1. r \in panel.waits /\ panel'.key = panel.key /\ panel'.req = panel.req
    BY <1>7 DEF Sees
  <2>2. (Asked(r) => Asked(r)') /\ (Lined(r) => Lined(r)')
    BY <1>1, <2>1 DEF Asked, Lined
  <2>3. ASSUME Reading(r) PROVE Reading(r)'
    <3>1. PICK x \in runs : x.what = r /\ x.key = panel.key /\ x.req = panel.req /\ ~x.off
      BY <2>3 DEF Reading
    <3>2. x \notin own
      BY <1>2, <1>4, <3>1
    <3> QED BY <1>8, <2>1, <3>1, <3>2 DEF Reading
  <2> QED BY <2>1, <2>2, <2>3 DEF ReadsInv, Awaited
<1> QED BY <1>10, <1>11, <1>12, <1>13, <1>14, <1>15, <1>16 DEF ReadsInv

LEMMA ReadsStep ==
    TypesInv /\ (outrun \/ ReadsInv) /\ [ReadsNext]_readVars => (outrun \/ ReadsInv)'
<1> SUFFICES ASSUME TypesInv, outrun \/ ReadsInv, [ReadsNext]_readVars, ~outrun'
             PROVE  ReadsInv'
  OBVIOUS
<1>0. ReadsInv
  BY DEF ReadsNext, readVars, RequestInsights, CancelReads, Dispatch, Leave, Ends, CancelRun
<1>1. CASE UNCHANGED readVars
  BY <1>0, <1>1 DEF readVars, ReadsInv, SeqOrder, ReqOrder, PanelFits, SlotFits, OneLive, LiveLoading,
              Awaited, Asked, Lined, Reading
<1>2. ASSUME NEW k \in Keys, RequestInsights(k) PROVE ReadsInv'
  BY <1>0, <1>2, RequestKeeps
<1>3. CASE CancelReads
  BY <1>0, <1>3, CancelKeeps
<1>4. ASSUME NEW i \in 1 .. Len(bridge), Dispatch(i) PROVE ReadsInv'
  BY <1>0, <1>4, CancelTaken, ReadTaken
<1>5. CASE Leave
  BY <1>0, <1>5, LeaveKeeps
<1>6. ASSUME NEW run \in runs, Ends(run) PROVE ReadsInv'
  BY <1>0, <1>6, EndsKeeps
<1>7. ASSUME NEW c \in closes, CancelRun(c) PROVE ReadsInv'
  BY <1>0, <1>7, CancelRunKeeps
<1> QED BY <1>1, <1>2, <1>3, <1>4, <1>5, <1>6, <1>7 DEF ReadsNext

LEMMA ReadsStart == ReadsInit => ReadsInv
BY DEF ReadsInit, ReadsInv, SeqOrder, ReqOrder, PanelFits, SlotFits, OneLive, LiveLoading,
       Awaited, Closed

(* Once everything sent has been handled, what the open panel still waits   *)
(* for is being read, whatever was cancelled, replaced, joined or dropped,  *)
(* in whatever order the bridge's calls were stamped, unless a read was     *)
(* stamped after the same read of a later request.                          *)
THEOREM AwaitedIsReadHolds == ReadsSpec => []AwaitedIsRead
<1>1. ReadsInit => TypesInv /\ (outrun \/ ReadsInv)
  BY TypesStart, ReadsStart
<1>2. TypesInv /\ (outrun \/ ReadsInv) /\ [ReadsNext]_readVars
         => (TypesInv /\ (outrun \/ ReadsInv))'
  BY TypesStep, ReadsStep
<1>3. outrun \/ ReadsInv => AwaitedIsRead
  BY DEF ReadsInv, Awaited, AwaitedIsRead, AllHandled, Asked, Lined, Reading
<1> QED BY <1>1, <1>2, <1>3, PTL DEF ReadsSpec

=============================================================================
