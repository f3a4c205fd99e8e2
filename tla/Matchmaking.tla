---------------------------- MODULE Matchmaking ----------------------------
(***************************************************************************)
(* A matchmaker search from the button to the match, as the three parties  *)
(* that each keep a copy of it see it: the slice the screen shows          *)
(* (services/lobby/matchmaking.rs, the reducer in state/lobby.rs), the     *)
(* session of the lobby port with a copy of its own (infra/lobby_ws.rs),   *)
(* and the server, which is outside and only known by what the port makes  *)
(* of its messages.  GameSession has what a launch does to the game; here  *)
(* a game is only as far along as the search panel depends on it.          *)
(*                                                                         *)
(* Handlers run on threads, so one that reads the slice and emits later is *)
(* two steps.  A stretch whose emit does not depend on what it read is     *)
(* one: so are the update loop's handlers.                                 *)
(***************************************************************************)
EXTENDS Naturals, Sequences, FiniteSets

CONSTANTS
    Queues,         \* the matchmaker queues
    MaxSearches,    \* how many searches are started in one run
    MaxActs,        \* what the server does by itself: pairings, a leader's searches
    MaxCuts,        \* drops and hang-ups in one run
    MaxTurns,       \* searches, acts and cuts in one run, all together
    FrameLimit,     \* OUTGOING_FRAME_CAPACITY
    UpdateLimit     \* the capacity of the updates channel

NoQueue == "no queue"

ASSUME MatchmakingAssumption ==
    /\ IsFiniteSet(Queues) /\ NoQueue \notin Queues
    /\ MaxSearches \in Nat \ {0} /\ MaxActs \in Nat /\ MaxCuts \in Nat /\ MaxTurns \in Nat
    /\ FrameLimit \in Nat \ {0} /\ UpdateLimit \in Nat \ {0, 1}

VARIABLES
    matchmaking,    \* the slice: the search or the match on screen
    joinState, lobby,           \* ... the join, the connection
    started,        \* search_attempt
    search,         \* where each start is, its queues, its token and its timer
    stopper,        \* where a Stop is, and what it read
    found, watch,   \* match_generation, and the timer of each match found
    game,           \* the launch or the process of a match
    session,        \* the port's connection
    port,           \* its copy of the search
    frames, updates,            \* its two channels
    seeks, paired, granted, acks,   \* the server: searches, match, launch order, late stops
    acts, cuts,
    left,           \* history: the searches no longer shown while they are prepared
    crossed         \* history: an emit later than the server's last word was decided
                    \* on what had changed before it

sliceVars == <<matchmaking, joinState, lobby>>
searchVars == <<started, search, stopper>>
matchVars == <<found, watch>>
channelVars == <<frames, updates>>
serverVars == <<seeks, paired, granted, acks, acts>>
historyVars == <<left, crossed>>
mmVars == <<sliceVars, searchVars, matchVars, game, session, port, channelVars, serverVars,
            cuts, historyVars>>

Tries == 1 .. MaxSearches
Matches == 1 .. MaxActs

MatchmakingState(kind, names) == [is |-> kind, queues |-> names]
NotLooking == MatchmakingState("idle", {})
MatchmakingStates ==
    [is : {"idle", "preparing", "searching", "matchFound", "launching", "cancelled"},
     queues : SUBSET Queues]

Frame(what, q) == [what |-> what, queue |-> q]
Update(what, state) == [what |-> what, state |-> state]
Says(state) == Update("matchmaking", state)
Tells(what) == Update(what, NotLooking)

MatchmakingTypeOK ==
    /\ matchmaking \in MatchmakingStates /\ port \in MatchmakingStates
    /\ joinState \in {"idle", "preparing", "launched"}
    /\ lobby \in {"connected", "connecting", "disconnected"}
    /\ started \in 0 .. MaxSearches
    /\ search \in [Tries -> [at : {"none", "checked", "preparing", "wanted", "failing", "done"},
                             queues : SUBSET Queues, off : BOOLEAN,
                             timer : {"off", "armed", "fires"}]]
    /\ stopper \in {"none", "preparing", "searching"}
    /\ found \in 0 .. MaxActs
    /\ watch \in [Matches -> [at : {"off", "armed", "fires"}, queues : SUBSET Queues]]
    /\ game \in {"none", "starting", "draining", "running", "killed",
                 "failed", "abandoned", "exited"}
    /\ session \in {"up", "down", "closed", "off"}
    /\ frames \in Seq([what : {"start", "stop", "ended"}, queue : Queues \cup {NoQueue}])
    /\ updates \in Seq([what : {"matchmaking", "launch", "reconnecting", "authenticated"},
                        state : MatchmakingStates])
    /\ Len(frames) <= FrameLimit /\ Len(updates) <= UpdateLimit
    /\ seeks \subseteq Queues /\ paired \in Queues \cup {NoQueue}
    /\ granted \in BOOLEAN /\ acks \subseteq Queues
    /\ acts \in 0 .. MaxActs /\ cuts \in 0 .. MaxCuts
    /\ left \subseteq Tries
    /\ crossed \in BOOLEAN

(* Bound.                                                                  *)
TurnLeft == started + acts + cuts < MaxTurns

NoSearch == [at |-> "none", queues |-> {}, off |-> FALSE, timer |-> "off"]
NoWatch == [at |-> "off", queues |-> {}]

(* A client that has just signed in to the lobby.                          *)
MatchmakingInit ==
    /\ matchmaking = NotLooking /\ joinState = "idle" /\ lobby = "connected"
    /\ started = 0 /\ search = [a \in Tries |-> NoSearch] /\ stopper = "none"
    /\ found = 0 /\ watch = [m \in Matches |-> NoWatch]
    /\ game = "none"
    /\ session = "up" /\ port = NotLooking /\ frames = <<>> /\ updates = <<>>
    /\ seeks = {} /\ paired = NoQueue /\ granted = FALSE /\ acks = {}
    /\ acts = 0 /\ cuts = 0
    /\ left = {} /\ crossed = FALSE

-----------------------------------------------------------------------------
(* The slice.                                                              *)

IsLooking == matchmaking.is \in {"preparing", "searching"}

(* MatchmakingUpdated and the other events that touch the search; one      *)
(* still prepared and no longer shown is recorded.                         *)
Registered(a) == a \in Tries /\ search[a].at \in {"checked", "preparing"}

ShowMatchmaking(state) ==
    /\ matchmaking' = state
    /\ left' = IF matchmaking.is = "preparing" /\ state # matchmaking /\ Registered(started)
               THEN left \cup {started} ELSE left

(* Faulty: the end of a game ends whatever search is on screen.            *)
FaultyAfterGame(state) == NotLooking

(* GameTerminated, LaunchFailed: a search is not the ended game's.         *)
AfterGame(state) ==
    IF state.is \in {"launching", "matchFound"} THEN NotLooking ELSE state

(* JoinCancelled while preparing, LaunchAbandoned.                         *)
AfterLaunch(state) == IF state.is = "launching" THEN NotLooking ELSE state

(* Connecting.                                                             *)
AfterConnecting(state) == IF state.is = "launching" THEN state ELSE NotLooking

KeepGame == IF joinState = "launched" THEN "launched" ELSE "idle"

-----------------------------------------------------------------------------
(* start_search, matchmake: the parts under search_submission.             *)

SubmissionFree ==
    stopper = "none" /\ \A a \in Tries : search[a].at \notin {"checked", "wanted", "failing"}

SetSearch(a, field, value) == search' = [search EXCEPT ![a][field] = value]
SearchOver(a) == search' = [search EXCEPT ![a] = [NoSearch EXCEPT !.at = "done"]]

(* The preparation is registered before the screen says so.                *)
StartSearch(names) ==
    LET a == started + 1 IN
    /\ a \in Tries /\ TurnLeft /\ SubmissionFree
    /\ lobby = "connected" /\ joinState # "launched"
    /\ matchmaking.is \in {"idle", "cancelled"}
    /\ started' = a
    /\ search' = [search EXCEPT ![a].at = "checked", ![a].queues = names]
    /\ UNCHANGED <<sliceVars, stopper, matchVars, game, session, port, channelVars,
                   serverVars, cuts, historyVars>>

AnnounceSearch(a) ==
    /\ search[a].at = "checked"
    /\ SetSearch(a, "at", "preparing")
    /\ ShowMatchmaking(MatchmakingState("preparing", search[a].queues))
    /\ crossed' = (crossed \/ search[a].off \/ matchmaking.is \notin {"idle", "cancelled"})
    /\ UNCHANGED <<joinState, lobby, started, stopper, matchVars, game, session, port, channelVars,
                   serverVars, cuts>>

ShownAsPrepared(a) == matchmaking = MatchmakingState("preparing", search[a].queues)

(* Faulty: the state alone is asked, which a newer search may have set.    *)
FaultyStillWanted(a) == ShownAsPrepared(a)

StillWanted(a) == ~search[a].off /\ started = a /\ ShownAsPrepared(a)

(* A search's frames are sent all or none (try_reserve_many).  The code    *)
(* sends them in the order of the names, on which nothing here depends.    *)
Connected == session \in {"up", "down"}
QueueTakes(n) == Connected /\ Len(frames) + n <= FrameLimit
SendEach(what, names) ==
    LET places == 1 .. Cardinality(names) IN
    \E sorted \in [places -> names] :
        /\ \A q \in names : \E i \in places : sorted[i] = q
        /\ frames' = frames \o [i \in places |-> Frame(what, sorted[i])]

(* The preparation is over, and the search may have been called off.       *)
CheckSearch(a) ==
    /\ search[a].at = "preparing" /\ SubmissionFree
    /\ IF StillWanted(a) THEN SetSearch(a, "at", "wanted") ELSE SearchOver(a)
    /\ left' = left \ {a}
    /\ UNCHANGED <<sliceVars, started, stopper, matchVars, game, session, port, channelVars,
                   serverVars, cuts, crossed>>

(* The preparation or the port has failed, or the server is asked and a    *)
(* timer waits for its confirmation.                                       *)
SubmitSearch(a) ==
    /\ search[a].at = "wanted"
    /\ \/ SetSearch(a, "at", "failing") /\ UNCHANGED frames
       \/ /\ QueueTakes(Cardinality(search[a].queues))
          /\ search' = [search EXCEPT ![a].at = "done", ![a].timer = "armed"]
          /\ SendEach("start", search[a].queues)
    /\ UNCHANGED <<sliceVars, started, stopper, matchVars, game, session, port, updates,
                   serverVars, cuts, historyVars>>

FailSearch(a) ==
    /\ search[a].at = "failing"
    /\ SearchOver(a)
    /\ ShowMatchmaking(NotLooking)
    /\ crossed' = (crossed \/ ~ShownAsPrepared(a))
    /\ UNCHANGED <<joinState, lobby, started, stopper, matchVars, game, session, port,
                   channelVars, serverVars, cuts>>

(* A Stop reads the slice; without a search there is nothing to do.        *)
StopReads ==
    /\ SubmissionFree /\ IsLooking
    /\ stopper' = matchmaking.is
    /\ UNCHANGED <<sliceVars, started, search, matchVars, game, session, port, channelVars,
                   serverVars, cuts, historyVars>>

(* The newest start's preparation is still registered: nobody was asked    *)
(* for anything yet, and nobody will be.  Otherwise the server is asked,   *)
(* or the port has no room.                                                *)
StopActs ==
    /\ stopper # "none" /\ stopper' = "none"
    /\ IF stopper = "preparing" /\ Registered(started)
       THEN /\ SetSearch(started, "off", TRUE)
            /\ ShowMatchmaking(NotLooking)
            /\ crossed' = (crossed \/ matchmaking.is # "preparing")
            /\ UNCHANGED frames
       ELSE /\ \E q \in Queues : IF QueueTakes(1) THEN SendEach("stop", {q}) ELSE UNCHANGED frames
            /\ UNCHANGED <<search, matchmaking, historyVars>>
    /\ UNCHANGED <<joinState, lobby, started, matchVars, game, session, port, updates,
                   serverVars, cuts>>

-----------------------------------------------------------------------------
(* The two timers.  Between the reading and the emit there is no lock.     *)

(* Faulty: the preparation's entry is asked, which its end has removed.    *)
FaultyUnanswered(a) == Registered(a) /\ ShownAsPrepared(a)

(* watch_for_search_start.                                                 *)
Unanswered(a) == started = a /\ ShownAsPrepared(a)

SearchTimerReads(a) ==
    /\ search[a].timer = "armed"
    /\ IF Unanswered(a) THEN SetSearch(a, "timer", "fires") ELSE SearchOver(a)
    /\ UNCHANGED <<sliceVars, started, stopper, matchVars, game, session, port, channelVars,
                   serverVars, cuts, historyVars>>

SearchTimerFires(a) ==
    /\ search[a].timer = "fires"
    /\ SearchOver(a)
    /\ ShowMatchmaking(NotLooking)
    /\ crossed' = (crossed \/ ~Unanswered(a))
    /\ UNCHANGED <<joinState, lobby, started, stopper, matchVars, game, session, port,
                   channelVars, serverVars, cuts>>

(* watch_for_match_start, match_still_waiting.                             *)
StillWaiting(m) == found = m /\ matchmaking = MatchmakingState("matchFound", watch[m].queues)

MatchTimerReads(m) ==
    /\ watch[m].at = "armed"
    /\ watch' = [watch EXCEPT ![m] = IF StillWaiting(m) THEN [@ EXCEPT !.at = "fires"]
                                                        ELSE NoWatch]
    /\ UNCHANGED <<sliceVars, searchVars, found, game, session, port, channelVars, serverVars,
                   cuts, historyVars>>

MatchTimerFires(m) ==
    /\ watch[m].at = "fires"
    /\ watch' = [watch EXCEPT ![m] = NoWatch]
    /\ ShowMatchmaking(MatchmakingState("cancelled", watch[m].queues))
    /\ crossed' = (crossed \/ ~StillWaiting(m))
    /\ UNCHANGED <<joinState, lobby, searchVars, found, game, session, port, channelVars,
                   serverVars, cuts>>

-----------------------------------------------------------------------------
(* The update loop.  A launch that has returned is on its task, too.       *)

InLaunch == game \in {"starting", "draining"}
LoopTakes == game \notin {"failed", "abandoned"}

(* terminate_game, operations.cancel.                                      *)
AfterTerminate == CASE game = "starting" -> "draining"
                    [] game = "running" -> "killed"
                    [] OTHER -> game
AfterCallOff == IF game = "starting" THEN "draining" ELSE game

Take(what) ==
    /\ LoopTakes /\ session # "off"
    /\ updates # <<>> /\ Head(updates).what = what
    /\ updates' = Tail(updates)

(* on_matchmaking: a match found arms its watch unless one is on screen; a *)
(* match cancelled while it launches ends the launch or the game.          *)
OnMatchmaking ==
    /\ Take("matchmaking")
    /\ LET state == Head(updates).state
           ends == state.is = "cancelled" /\ matchmaking.is = "launching"
           kills == ends /\ ~InLaunch /\ joinState = "launched"
       IN /\ ShowMatchmaking(state)
          /\ IF state.is = "matchFound" /\ matchmaking.is # "matchFound"
             THEN /\ found' = found + 1
                  /\ watch' = [watch EXCEPT ![found + 1] = [at |-> "armed",
                                                            queues |-> state.queues]]
             ELSE UNCHANGED matchVars
          /\ game' = CASE ends /\ InLaunch -> AfterCallOff
                       [] kills -> AfterTerminate
                       [] OTHER -> game
          /\ joinState' = IF kills THEN "idle" ELSE joinState
    /\ crossed' = FALSE
    /\ UNCHANGED <<lobby, searchVars, session, port, frames, serverVars, cuts>>

(* on_launch_order; a launch still draining is dropped for it.             *)
OnLaunchOrder ==
    /\ Take("launch")
    /\ game' = "starting" /\ joinState' = "launched"
    /\ UNCHANGED <<matchmaking, lobby, searchVars, matchVars, session, port, frames, serverVars,
                   cuts, historyVars>>

OnReconnecting ==
    /\ Take("reconnecting")
    /\ lobby' = "connecting" /\ joinState' = KeepGame
    /\ ShowMatchmaking(AfterConnecting(matchmaking))
    /\ UNCHANGED <<searchVars, matchVars, game, session, port, frames, serverVars, cuts, crossed>>

OnAuthenticated ==
    /\ Take("authenticated")
    /\ lobby' = "connected"
    /\ UNCHANGED <<matchmaking, joinState, searchVars, matchVars, game, session, port, frames,
                   serverVars, cuts, historyVars>>

(* The stream has ended: the launch is awaited, the slice is emptied, the  *)
(* preparations are called off.                                            *)
EndConnection ==
    /\ session = "closed" /\ updates = <<>> /\ LoopTakes /\ ~InLaunch
    /\ session' = "off"
    /\ lobby' = "disconnected" /\ joinState' = KeepGame
    /\ ShowMatchmaking(IF joinState = "launched" THEN AfterConnecting(matchmaking)
                                                 ELSE NotLooking)
    /\ search' = [a \in Tries |-> [search[a] EXCEPT !.off = @ \/ Registered(a)]]
    /\ UNCHANGED <<started, stopper, matchVars, game, port, channelVars, serverVars, cuts, crossed>>

-----------------------------------------------------------------------------
(* The launch, the game and its exit watcher, as GameSession has them.     *)

(* GameState Ended; a full or a closed queue loses it.                     *)
RelayEnded ==
    frames' = IF QueueTakes(1) THEN Append(frames, Frame("ended", NoQueue)) ELSE frames

ShowPreparing ==
    /\ game = "starting"
    /\ joinState # "preparing" /\ joinState' = "preparing"
    /\ UNCHANGED <<matchmaking, lobby, searchVars, matchVars, game, session, port, channelVars,
                   serverVars, cuts, historyVars>>

ShowInGameMatch ==
    /\ game = "starting" /\ game' = "running" /\ joinState' = "launched"
    /\ UNCHANGED <<matchmaking, lobby, searchVars, matchVars, session, port, channelVars,
                   serverVars, cuts, historyVars>>

(* fail, abandon and the exit watcher tell the server first.               *)
Leaves ==
    /\ \/ InLaunch /\ game' = "failed"
       \/ game = "draining" /\ game' = "abandoned"
       \/ game \in {"running", "killed"} /\ game' = "exited"
    /\ RelayEnded
    /\ UNCHANGED <<sliceVars, searchVars, matchVars, session, port, updates, serverVars, cuts,
                   historyVars>>

Left ==
    /\ game \in {"failed", "abandoned", "exited"} /\ game' = "none"
    /\ joinState' = "idle"
    /\ ShowMatchmaking(
         CASE game # "abandoned" -> AfterGame(matchmaking)
           [] game = "abandoned" /\ joinState # "idle" -> AfterLaunch(matchmaking)
           [] OTHER -> matchmaking)
    /\ UNCHANGED <<lobby, searchVars, matchVars, session, port, channelVars, serverVars, cuts,
                   crossed>>

(* CancelJoin and TerminateGame, as the screen offers them.                *)
UserEndsMatch ==
    /\ joinState # "idle" /\ joinState' = "idle"
    /\ IF joinState = "launched"
       THEN game' = AfterTerminate /\ ShowMatchmaking(AfterGame(matchmaking))
       ELSE game' = AfterCallOff /\ ShowMatchmaking(AfterLaunch(matchmaking))
    /\ UNCHANGED <<lobby, searchVars, matchVars, session, port, channelVars, serverVars, cuts,
                   crossed>>

-----------------------------------------------------------------------------
(* The port's session and, in the same steps, the server behind it.        *)

Room(n) == session = "up" /\ Len(updates) + n <= UpdateLimit

(* MatchmakingState::update_search: a late stop changes nothing.           *)
UpdatedSearch(state, q, searching) ==
    LET names == IF state.is = "searching" THEN state.queues ELSE {}
        rest == IF searching THEN names \cup {q} ELSE names \ {q}
    IN IF ~searching /\ state.is # "searching" THEN state
       ELSE IF rest = {} THEN NotLooking ELSE MatchmakingState("searching", rest)

Publish(state) == port' = state /\ updates' = Append(updates, Says(state))

SearchInfo(q, searching) ==
    LET state == UpdatedSearch(port, q, searching) IN
    IF state # port THEN Publish(state) ELSE UNCHANGED <<port, updates>>

FrameGoes(what) ==
    /\ Room(1) /\ frames # <<>> /\ Head(frames).what = what
    /\ frames' = Tail(frames)

(* The server may refuse with a notice, as it does while a match is on.    *)
StartArrives ==
    /\ FrameGoes("start")
    /\ \/ UNCHANGED <<seeks, port, updates>>
       \/ /\ paired = NoQueue /\ Head(frames).queue \notin acks
          /\ seeks' = seeks \cup {Head(frames).queue}
          /\ SearchInfo(Head(frames).queue, TRUE)
    /\ UNCHANGED <<sliceVars, searchVars, matchVars, game, session, paired, granted, acks, acts,
                   cuts, historyVars>>

StopArrives ==
    /\ FrameGoes("stop")
    /\ seeks' = seeks \ {Head(frames).queue}
    /\ IF Head(frames).queue \in seeks THEN SearchInfo(Head(frames).queue, FALSE)
                                       ELSE UNCHANGED <<port, updates>>
    /\ UNCHANGED <<sliceVars, searchVars, matchVars, game, session, paired, granted, acks, acts,
                   cuts, historyVars>>

(* is_game_ended_relay: the end of the game is the end of the match.       *)
EndedGoes ==
    /\ FrameGoes("ended")
    /\ IF port.is \in {"launching", "matchFound"} THEN Publish(NotLooking)
                                                  ELSE UNCHANGED <<port, updates>>
    /\ paired' = NoQueue /\ granted' = FALSE
    /\ UNCHANGED <<sliceVars, searchVars, matchVars, game, session, seeks, acks, acts, cuts,
                   historyVars>>

(* A party's leader starts a search.                                       *)
LeaderStarts(q) ==
    /\ Room(1) /\ acts < MaxActs /\ TurnLeft /\ acts' = acts + 1
    /\ paired = NoQueue /\ q \notin seeks \cup acks
    /\ seeks' = seeks \cup {q}
    /\ SearchInfo(q, TRUE)
    /\ UNCHANGED <<sliceVars, searchVars, matchVars, game, session, frames, paired, granted, acks,
                   cuts, historyVars>>

MatchFound(q) ==
    /\ Room(1) /\ acts < MaxActs /\ TurnLeft /\ acts' = acts + 1
    /\ q \in seeks /\ seeks' = {} /\ acks' = seeks
    /\ paired' = q
    /\ Publish(MatchmakingState("matchFound", {q}))
    /\ UNCHANGED <<sliceVars, searchVars, matchVars, game, session, frames, granted, cuts,
                   historyVars>>

LateStop(q) ==
    /\ Room(1) /\ q \in acks /\ acks' = acks \ {q}
    /\ SearchInfo(q, FALSE)
    /\ UNCHANGED <<sliceVars, searchVars, matchVars, game, session, frames, seeks, paired,
                   granted, acts, cuts, historyVars>>

(* game_launch: one order a match, and none beside a game of this client.  *)
MatchedQueues == IF port.is \in {"matchFound", "launching", "cancelled"} THEN port.queues ELSE {}

GameLaunch ==
    /\ Room(2) /\ paired # NoQueue /\ ~granted /\ granted' = TRUE
    /\ game \in {"none", "draining"}
    /\ LET state == MatchmakingState("launching", MatchedQueues) IN
       IF MatchedQueues # {}
       THEN port' = state /\ updates' = updates \o <<Says(state), Tells("launch")>>
       ELSE updates' = Append(updates, Tells("launch")) /\ UNCHANGED port
    /\ UNCHANGED <<sliceVars, searchVars, matchVars, game, session, frames, seeks, paired, acks,
                   acts, cuts, historyVars>>

(* match_cancelled, before or after the order; or not a word.              *)
MatchOver ==
    /\ Room(1) /\ paired # NoQueue
    /\ paired' = NoQueue /\ granted' = FALSE
    /\ \/ Publish(MatchmakingState("cancelled", MatchedQueues))
       \/ ~granted /\ UNCHANGED <<port, updates>>
    /\ UNCHANGED <<sliceVars, searchVars, matchVars, game, session, frames, seeks, acks, acts,
                   cuts, historyVars>>

(* With the socket the server forgets the search and the match; what was   *)
(* queued for it is drained, and a new session starts with an empty copy.  *)
Severed ==
    /\ frames' = <<>> /\ port' = NotLooking
    /\ seeks' = {} /\ paired' = NoQueue /\ granted' = FALSE /\ acks' = {}

DropSocket ==
    /\ Room(1) /\ cuts < MaxCuts /\ TurnLeft /\ cuts' = cuts + 1
    /\ session' = "down" /\ Severed
    /\ updates' = Append(updates, Tells("reconnecting"))
    /\ UNCHANGED <<sliceVars, searchVars, matchVars, game, acts, historyVars>>

Welcome ==
    /\ session = "down" /\ session' = "up"
    /\ Len(updates) < UpdateLimit /\ updates' = Append(updates, Tells("authenticated"))
    /\ UNCHANGED <<sliceVars, searchVars, matchVars, game, port, frames, serverVars, cuts,
                   historyVars>>

GiveUp ==
    /\ session = "down" /\ session' = "closed" /\ Severed
    /\ UNCHANGED <<sliceVars, searchVars, matchVars, game, updates, acts, cuts, historyVars>>

(* Disconnect: a join is over, and what is under way is called off.        *)
UserHangsUp ==
    /\ Connected /\ cuts < MaxCuts /\ TurnLeft /\ cuts' = cuts + 1
    /\ session' = "closed" /\ Severed
    /\ game' = AfterCallOff
    /\ joinState' = KeepGame
    /\ ShowMatchmaking(IF joinState = "preparing" THEN AfterLaunch(matchmaking)
                                                  ELSE matchmaking)
    /\ UNCHANGED <<lobby, searchVars, matchVars, updates, acts, crossed>>

UserConnects ==
    /\ session = "off" /\ session' = "down"
    /\ lobby' = "connecting" /\ joinState' = KeepGame
    /\ ShowMatchmaking(AfterConnecting(matchmaking))
    /\ UNCHANGED <<searchVars, matchVars, game, port, channelVars, serverVars, cuts, crossed>>

-----------------------------------------------------------------------------

SearchStep(a) ==
    \/ AnnounceSearch(a) \/ CheckSearch(a) \/ SubmitSearch(a) \/ FailSearch(a)
    \/ SearchTimerReads(a) \/ SearchTimerFires(a)
MatchTimer(m) == MatchTimerReads(m) \/ MatchTimerFires(m)
UpdateStep ==
    OnMatchmaking \/ OnLaunchOrder \/ OnReconnecting \/ OnAuthenticated \/ EndConnection
GameStep == ShowPreparing \/ ShowInGameMatch \/ Leaves \/ Left \/ UserEndsMatch
PortStep ==
    \/ StartArrives \/ StopArrives \/ EndedGoes
    \/ \E q \in Queues : LeaderStarts(q) \/ MatchFound(q) \/ LateStop(q)
    \/ GameLaunch \/ MatchOver
    \/ DropSocket \/ Welcome \/ GiveUp \/ UserHangsUp \/ UserConnects

MatchmakingNext ==
    \/ \E names \in SUBSET Queues \ {{}} : StartSearch(names)
    \/ \E a \in Tries : SearchStep(a)
    \/ StopReads \/ StopActs
    \/ \E m \in Matches : MatchTimer(m)
    \/ UpdateStep \/ GameStep \/ PortStep

MatchmakingSpec == MatchmakingInit /\ [][MatchmakingNext]_mmVars

-----------------------------------------------------------------------------

(* The server is asked for no search that was called off: when its         *)
(* preparation ends a start goes on only if it was on screen all the       *)
(* while, whatever stops, restarts of the same queues, drops and answers   *)
(* came in between.                                                        *)
CalledOffIsNotSent ==
    [][\A a \in Tries : search[a].at = "preparing" /\ search'[a].at = "wanted"
           => a \notin left]_mmVars

(* The panel tells what is: with every update handled it shows a search    *)
(* exactly while the server searches, for those queues, a launch only      *)
(* while there is one, and gives up a match the port still waits for only  *)
(* when the time of that match is over.  No late message of an earlier     *)
(* match, timer of one, or end of an earlier game changes that.            *)
PanelIsTrue ==
    session = "up" /\ updates = <<>> /\ ~crossed =>
        /\ seeks # {} => matchmaking = MatchmakingState("searching", seeks)
        /\ matchmaking.is = "searching" => matchmaking.queues = seeks
        /\ matchmaking.is = "launching" => game # "none"
        /\ matchmaking.is = "cancelled" /\ port.is = "matchFound" => watch[found].at = "off"

PreparingIsEnded ==
    matchmaking.is = "preparing" =>
        \/ search[started].at \in {"preparing", "wanted", "failing"}
        \/ search[started].timer # "off"

MatchIsEnded ==
    matchmaking.is = "matchFound" =>
        watch[found].at # "off" /\ watch[found].queues = matchmaking.queues

(* A panel that waits, for its files, for the server's confirmation or for *)
(* the match to start, has what ends the wait if no answer comes: the      *)
(* preparation is running, or the timer of this search, this match, is.    *)
(* (A start called off by the end of its connection before it is announced *)
(* has crossed: its preparation goes quietly and the panel stays.)         *)
WaitIsEnded == ~crossed => PreparingIsEnded /\ MatchIsEnded

=============================================================================
