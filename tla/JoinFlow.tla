------------------------------ MODULE JoinFlow ------------------------------
(* Custom joins, host requests and launch orders of the lobby service, each *)
(* running on a task of its own over the shared LobbyOperations record,     *)
(* beside the user's CancelJoin, TerminateGame and Disconnect, the update   *)
(* loop of the connection, and a server that answers join requests in the   *)
(* order they were sent (services/lobby/{joining,launch,connection}.rs).    *)
EXTENDS LobbyOperations, Sequences, FiniteSets

CONSTANTS
    LiveLaunch,   \* process.supports_live_launch(): FALSE in an offline shell
    Events        \* which events happen in a run, see EventKinds

EventKinds ==
    {"cancel", "terminate", "hangup",  \* the user's CancelJoin, TerminateGame, Disconnect
     "host",         \* the user's host request
     "progress",     \* preparation narrates its steps
     "matchmaker",   \* a launch order for a hosted or a matchmaker's game
     "matchcancel",  \* the server cancels a matchmaker's match
     "kill",         \* the server's kill notice
     "unnamed",      \* a refusal that names no game
     "end",          \* the connection's stream ends by itself
     "drop",         \* the socket drops and the port reconnects by itself
     "busy",         \* the outgoing queue is full: join() answers false
     "race"}         \* the user calls off while a launch order is being handled

ASSUME FlowAssumption == LiveLaunch \in BOOLEAN /\ Events \subseteq EventKinds

VARIABLES
    flow,      \* per operation: what it is, its game, and where its code stands
    click,     \* a Join that passed the "is a game running" check, not begun yet
    user,      \* where the user's synchronous command stands
    loop,      \* where the connection's update loop stands
    order,     \* the launch order in the loop's hands
    term,      \* where a terminate_game called by the loop stands
    launch,    \* background.launch: the operation being launched
    launchOff, \* LaunchSlot.called_off
    running,   \* the operation whose game process runs
    wire,      \* whether the port takes frames
    status,    \* LobbyStatus
    screen,    \* JoinState
    owed,      \* join requests sent and not answered, in sending order
    gaveUp,    \* history: requests the user called off after they were marked sent
    muddled    \* history: games whose answers can no longer be told apart

flowVars == <<flow, click>>
loopVars == <<loop, order, term, launch, launchOff>>
linkVars == <<wire, status, owed>>
history == <<gaveUp, muddled>>
vars == <<opVars, flowVars, user, loopVars, running, linkVars, screen, history>>

-----------------------------------------------------------------------------
(* The view's join state and its reducer (faf-domain/src/state/lobby.rs).   *)

Screen(at, g, prepared) == [at |-> at, game |-> g, prepared |-> prepared]
Idle == Screen("Idle", NoGame, FALSE)
Joining(g, prepared) == Screen("Joining", g, prepared)
Screens == [at : {"Idle", "Joining", "Launched", "Preparing", "InGame",
                  "NeedsMods", "Failed", "LaunchFailed"},
            game : Games \cup {NoGame}, prepared : BOOLEAN]

OnJoinCancelled(s) == IF s.at \in {"Joining", "Preparing", "NeedsMods"} THEN Idle ELSE s
OnLinkLost(s) == IF s.at \in {"Launched", "InGame"} THEN s ELSE Idle
OnAbandoned(s, g) ==
    IF s.at = "Preparing" \/ (s.at \in {"Launched", "Joining"} /\ s.game = g)
    THEN Idle ELSE s

-----------------------------------------------------------------------------
NoOrder == [game |-> NoGame, prepared |-> FALSE]
NoFlow == [kind |-> "none", game |-> NoGame, pc |-> "none"]

FlowPcs == {"none", "claiming", "issued", "begun", "updating", "preparing", "narrating",
            "ready", "asking", "marked", "hosting",
            "refusing", "conflicting", "failing", "refused", "conflicted", "failed",
            "launching", "launchready", "starting", "spawning", "ingame", "abandoning", "done"}

Init ==
    /\ OperationsInit
    /\ flow = [o \in Ops |-> NoFlow]
    /\ click = NoGame
    /\ user = "idle"
    /\ loop = "off" /\ order = NoOrder /\ term = "no"
    /\ launch = NoOp /\ launchOff = FALSE /\ running = NoOp
    /\ wire = FALSE /\ status = "Disconnected" /\ owed = <<>>
    /\ screen = Idle
    /\ gaveUp = {} /\ muddled = {}

UserStates == {"idle", "calling", "flagged", "freed", "killing", "killed", "cleared",
               "hanging", "hung", "dropping"}

FlowTypeOK ==
    /\ flow \in [Ops -> [kind : {"none", "join", "host", "launch"},
                         game : Games \cup {NoGame}, pc : FlowPcs]]
    /\ click \in Games \cup {NoGame}
LoopTypeOK ==
    /\ loop \in {"off", "reading", "taken", "announced", "issued", "begun",
                 "refused", "ending", "closing", "closed"}
    /\ order \in [game : Games \cup {NoGame}, prepared : BOOLEAN]
    /\ term \in {"no", "kill", "release", "emit"}
    /\ launch \in 0..MaxOps /\ launchOff \in BOOLEAN
LinkTypeOK ==
    wire \in BOOLEAN /\ status \in {"Disconnected", "Connecting", "Connected"} /\ owed \in Seq(Ops)
TypeOK ==
    /\ OperationsTypeOK /\ FlowTypeOK /\ LoopTypeOK /\ LinkTypeOK
    /\ user \in UserStates
    /\ running \in 0..MaxOps
    /\ screen \in Screens
    /\ gaveUp \subseteq Ops /\ muddled \subseteq Games

(* The join lock is held from taking the slot to becoming current.          *)
JoinLockFree == \A o \in Ops : flow[o].pc # "claiming"

(* Bound: a launch order being handled keeps an id in reserve.              *)
RoomFor(n) == issued + n <= MaxOps
RoomForFlow == RoomFor(IF loop \in {"taken", "announced"} THEN 2 ELSE 1)

At(op, kind, pc) == flow[op].kind = kind /\ flow[op].pc = pc
Goto(op, pc) == flow' = [flow EXCEPT ![op].pc = pc]
StartFlow(op, kind, g, pc) == flow' = [flow EXCEPT ![op] = [kind |-> kind, game |-> g, pc |-> pc]]

(* A request is an orphan when its answer is still coming, no join waits    *)
(* for it and no record of it is kept.                                      *)
Requests(q) == {q[i] : i \in 1..Len(q)}
Orphans(q, claim, given) ==
    {flow[o].game : o \in {r \in Requests(q) : r # claim.op /\ r \notin given}}

-----------------------------------------------------------------------------
(* Join: joining.rs, join.                                                  *)

AGameIsStartingOrRunning == running # NoOp \/ screen.at \in {"Launched", "InGame"}

CheckJoin(g) ==
    /\ click = NoGame
    /\ IF AGameIsStartingOrRunning
       THEN screen' = Screen("Failed", g, FALSE) /\ UNCHANGED click
       ELSE click' = g /\ UNCHANGED screen
    /\ UNCHANGED <<opVars, flow, user, loopVars, running, linkVars, history>>

RefuseDuplicate ==
    /\ click # NoGame /\ JoinLockFree /\ slot # NoClaim
    /\ click' = NoGame
    /\ UNCHANGED <<opVars, flow, user, loopVars, running, linkVars, screen, history>>

BeginJoin(op) ==
    /\ click # NoGame /\ JoinLockFree /\ RoomForFlow
    /\ TakeSlot(op, click)
    /\ StartFlow(op, "join", click, "claiming")
    /\ click' = NoGame
    /\ UNCHANGED <<current, calledOff, user, loopVars, running, linkVars, screen, history>>

JoinBecomesCurrent(op) ==
    /\ At(op, "join", "claiming")
    /\ MakeCurrent(op)
    /\ Goto(op, "begun")
    /\ UNCHANGED <<issued, slot, calledOff, click, user, loopVars, running, linkVars,
                   screen, history>>

(* Not connected, or out of the host's rating range.                        *)
RefuseJoin(op) ==
    /\ At(op, "join", "begun")
    /\ Goto(op, "refusing")
    /\ UNCHANGED <<opVars, click, user, loopVars, running, linkVars, screen, history>>

(* The game may be listed no longer.                                        *)
ShowJoining(op) ==
    /\ At(op, "join", "begun") /\ status = "Connected"
    /\ screen' = Joining(flow[op].game, FALSE)
    /\ \E pc \in (IF LiveLaunch THEN {"preparing", "refusing"} ELSE {"asking"}) : Goto(op, pc)
    /\ UNCHANGED <<opVars, click, user, loopVars, running, linkVars, history>>

ShowPrepared(op) ==
    /\ At(op, "join", "ready")
    /\ screen' = Joining(flow[op].game, TRUE)
    /\ Goto(op, "asking")
    /\ UNCHANGED <<opVars, click, user, loopVars, running, linkVars, history>>

Mark(op) ==
    /\ At(op, "join", "asking") /\ JoinLockFree
    /\ IF MayMarkSent(op)
       THEN MarkSent(op) /\ Goto(op, "marked")
       ELSE ReleaseJoin(op) /\ Goto(op, "done")
    /\ UNCHANGED <<issued, current, calledOff, click, user, loopVars, running, linkVars,
                   screen, history>>

(* Two requests for one game cross when the one given up is sent last.      *)
Crosses(r, op) == At(r, "join", "marked") /\ flow[r].game = flow[op].game

(* The frame waits in the port's queue between two sockets, so only a       *)
(* closed wire or a full queue refuses it.                                  *)
SendJoin(op) ==
    /\ At(op, "join", "marked")
    /\ \/ /\ wire
          /\ owed' = Append(owed, op)
          /\ muddled' = IF \/ op \notin gaveUp /\ slot.op # op
                           \/ \E r \in gaveUp \ {op} : Crosses(r, op)
                        THEN muddled \cup {flow[op].game} ELSE muddled
          /\ Goto(op, "done")
       \/ /\ ~wire \/ "busy" \in Events
          /\ Goto(op, "refusing")
          /\ UNCHANGED <<owed, muddled>>
    /\ UNCHANGED <<opVars, click, user, loopVars, running, wire, status, screen, gaveUp>>

(* Every early exit releases the operation's own slot, then reports.        *)
Release(op) ==
    /\ flow[op].pc \in {"refusing", "conflicting", "failing"} /\ JoinLockFree
    /\ ReleaseJoin(op)
    /\ Goto(op, CASE flow[op].pc = "refusing" -> "refused"
                  [] flow[op].pc = "conflicting" -> "conflicted"
                  [] OTHER -> "failed")
    /\ UNCHANGED <<issued, current, calledOff, click, user, loopVars, running, linkVars,
                   screen, history>>

Report(op) ==
    /\ flow[op].kind # "launch"
    /\ flow[op].pc \in {"refused", "conflicted", "failed"}
    /\ screen' = CASE flow[op].pc = "refused" -> Screen("Failed", flow[op].game, FALSE)
                   [] flow[op].pc = "conflicted" -> Screen("NeedsMods", flow[op].game, FALSE)
                   [] OTHER -> Screen("LaunchFailed", NoGame, FALSE)
    /\ Goto(op, "done")
    /\ UNCHANGED <<opVars, click, user, loopVars, running, linkVars, history>>

-----------------------------------------------------------------------------
(* Preparation, run as the operation it is for (launcher.rs).               *)

(* A launch is polled by the update loop's own task.                        *)
MayStep(op) == flow[op].kind # "launch"
               \/ (launch = op /\ loop \in {"reading", "ending"} /\ term = "no")

(* drain_preparation: the token is read, then the step is narrated.         *)
CheckNarration(op) ==
    /\ "progress" \in Events
    /\ flow[op].pc = "preparing" /\ MayStep(op) /\ IsLive(op)
    /\ Goto(op, "narrating")
    /\ UNCHANGED <<opVars, click, user, loopVars, running, linkVars, screen, history>>

Narrate(op) ==
    /\ flow[op].pc = "narrating" /\ MayStep(op)
    /\ screen' = Screen("Preparing", NoGame, FALSE)
    /\ Goto(op, "preparing")
    /\ UNCHANGED <<opVars, click, user, loopVars, running, linkVars, history>>

(* Where the code goes when the preparation of each kind came down.         *)
AfterPreparation(kind) ==
    CASE kind = "join" -> {"ready", "conflicting", "failing"}
      [] kind = "host" -> {"hosting", "failed"}
      [] kind = "launch" -> {"starting", "failed"}
      [] OTHER -> {}

PreparationEnds(op) ==
    /\ flow[op].pc = "preparing" /\ MayStep(op) /\ JoinLockFree
    /\ \/ IsLive(op) /\ UNCHANGED slot
          /\ \E pc \in AfterPreparation(flow[op].kind) : Goto(op, pc)
       \/ ~IsLive(op) /\ ReleaseJoin(op)
          /\ \/ Goto(op, IF flow[op].kind = "launch" THEN "abandoning" ELSE "done")
             \/ flow[op].kind = "launch" /\ Goto(op, "failed")
    /\ UNCHANGED <<issued, current, calledOff, click, user, loopVars, running, linkVars,
                   screen, history>>

-----------------------------------------------------------------------------
(* Host: joining.rs, host.                                                  *)

RefuseHost ==
    /\ "host" \in Events
    /\ AGameIsStartingOrRunning
    /\ screen' = Screen("LaunchFailed", NoGame, FALSE)
    /\ UNCHANGED <<opVars, flowVars, user, loopVars, running, linkVars, history>>

BeginHost(op) ==
    /\ "host" \in Events
    /\ ~AGameIsStartingOrRunning /\ RoomForFlow
    /\ Issue(op)
    /\ StartFlow(op, "host", NoGame, "issued")
    /\ UNCHANGED <<current, slot, calledOff, click, user, loopVars, running, linkVars,
                   screen, history>>

HostBecomesCurrent(op) ==
    /\ At(op, "host", "issued")
    /\ MakeCurrent(op)
    /\ Goto(op, IF LiveLaunch THEN "updating" ELSE "hosting")
    /\ UNCHANGED <<issued, slot, calledOff, click, user, loopVars, running, linkVars,
                   screen, history>>

(* bring_up_to_date runs to its end whatever happens; the id is read after. *)
HostUpdated(op) ==
    /\ At(op, "host", "updating")
    /\ Goto(op, IF IsLive(op) THEN "preparing" ELSE "done")
    /\ UNCHANGED <<opVars, click, user, loopVars, running, linkVars, screen, history>>

(* while_live: the check and the send, or the check and the report of a     *)
(* refused send, under the token lock.                                      *)
SendHost(op) ==
    /\ At(op, "host", "hosting")
    /\ IF IsLive(op) /\ ~wire
       THEN screen' = Screen("LaunchFailed", NoGame, FALSE)
       ELSE UNCHANGED screen
    /\ Goto(op, "done")
    /\ UNCHANGED <<opVars, click, user, loopVars, running, linkVars, history>>

-----------------------------------------------------------------------------
(* A launch: launcher.rs, start, and LaunchSlot::started.                   *)

StartLaunch(op) ==
    /\ flow[op].pc \in {"launching", "launchready"} /\ MayStep(op)
    /\ Goto(op, IF running # NoOp THEN "failed"
                ELSE IF flow[op].pc = "launchready" THEN "starting" ELSE "preparing")
    /\ UNCHANGED <<opVars, click, user, loopVars, running, linkVars, screen, history>>

(* The adapter came up, or did not; then the last check before the game.    *)
AdapterStarted(op) ==
    /\ At(op, "launch", "starting") /\ MayStep(op)
    /\ \/ Goto(op, IF IsLive(op) THEN "spawning" ELSE "abandoning")
       \/ Goto(op, "failed")
    /\ UNCHANGED <<opVars, click, user, loopVars, running, linkVars, screen, history>>

GameSpawned(op) ==
    /\ At(op, "launch", "spawning") /\ MayStep(op)
    /\ \/ running' = op /\ Goto(op, "ingame")
       \/ UNCHANGED running /\ Goto(op, "failed")
    /\ UNCHANGED <<opVars, click, user, loopVars, linkVars, screen, history>>

(* The launch reports back and the loop's handler takes its answer: a game  *)
(* that came up for a launch called off meanwhile is stopped.               *)
LaunchReports(op) ==
    /\ flow[op].kind = "launch" /\ MayStep(op)
    /\ flow[op].pc \in {"failed", "abandoning", "ingame"}
    /\ screen' = CASE flow[op].pc = "failed" -> Screen("LaunchFailed", NoGame, FALSE)
                   [] flow[op].pc = "abandoning" -> OnAbandoned(screen, flow[op].game)
                   [] OTHER -> Screen("InGame", NoGame, FALSE)
    /\ Goto(op, "done")
    /\ launch' = NoOp /\ launchOff' = FALSE
    /\ term' = IF flow[op].pc = "ingame" /\ launchOff THEN "kill" ELSE term
    /\ UNCHANGED <<opVars, click, user, loop, order, running, linkVars, history>>

(* The exit watcher: the process went away by itself.                       *)
GameExits ==
    /\ running # NoOp
    /\ running' = NoOp
    /\ screen' = Idle
    /\ UNCHANGED <<opVars, flowVars, user, loopVars, linkVars, history>>

-----------------------------------------------------------------------------
(* terminate_game, by the user's command or by the loop: cancel and kill,   *)
(* forget every join, report.                                               *)

TerminateKills == Cancel /\ running' = NoOp
ForgetJoins ==
    /\ ReleaseAnyJoin
    /\ gaveUp' = {}
    /\ muddled' = muddled \cup Orphans(owed, NoClaim, {})

LoopKills ==
    /\ term = "kill" /\ term' = "release"
    /\ TerminateKills
    /\ UNCHANGED <<issued, slot, calledOff, flowVars, user, loop, order, launch, launchOff,
                   linkVars, screen, history>>

LoopForgets ==
    /\ term = "release" /\ term' = "emit" /\ JoinLockFree
    /\ ForgetJoins
    /\ UNCHANGED <<issued, current, flowVars, user, loop, order, launch, launchOff, running,
                   linkVars, screen>>

LoopTerminated ==
    /\ term = "emit" /\ term' = "no"
    /\ screen' = Idle
    /\ UNCHANGED <<opVars, flowVars, user, loop, order, launch, launchOff, running, linkVars,
                   history>>

-----------------------------------------------------------------------------
(* The user's CancelJoin, TerminateGame and Disconnect. Bound: one of them  *)
(* at a time.                                                               *)

UserCommand ==
    /\ user = "idle"
    /\ \/ /\ "cancel" \in Events
          /\ user' = IF screen.at \in {"Launched", "InGame"} THEN "killing" ELSE "calling"
       \/ "terminate" \in Events /\ user' = "killing"
    /\ UNCHANGED <<opVars, flowVars, loopVars, running, linkVars, screen, history>>

CancelFlags ==
    /\ user = "calling" /\ user' = "flagged"
    /\ Cancel
    /\ UNCHANGED <<issued, slot, calledOff, flowVars, loopVars, running, linkVars, screen, history>>

HandlingOrder == loop \in {"taken", "announced", "issued", "begun"}

CancelFrees ==
    /\ user = "flagged" /\ user' = "freed" /\ JoinLockFree
    /\ HandlingOrder => "race" \in Events
    /\ CallOffJoin
    /\ gaveUp' = IF slot.sent THEN gaveUp \cup {slot.op} ELSE gaveUp
    /\ UNCHANGED <<issued, current, flowVars, loopVars, running, linkVars, screen, muddled>>

CancelShows ==
    /\ user = "freed" /\ user' = "idle"
    /\ screen' = OnJoinCancelled(screen)
    /\ UNCHANGED <<opVars, flowVars, loopVars, running, linkVars, history>>

UserKills ==
    /\ user = "killing" /\ user' = "killed"
    /\ TerminateKills
    /\ UNCHANGED <<issued, slot, calledOff, flowVars, loopVars, linkVars, screen, history>>

UserForgets ==
    /\ user = "killed" /\ user' = "cleared" /\ JoinLockFree
    /\ ForgetJoins
    /\ UNCHANGED <<issued, current, flowVars, loopVars, running, linkVars, screen>>

UserTerminated ==
    /\ user = "cleared" /\ user' = "idle"
    /\ screen' = Idle
    /\ UNCHANGED <<opVars, flowVars, loopVars, running, linkVars, history>>

HangUp ==
    /\ "hangup" \in Events
    /\ user = "idle" /\ user' = "hanging"
    /\ screen' = OnJoinCancelled(screen)
    /\ UNCHANGED <<opVars, flowVars, loopVars, running, linkVars, history>>

(* What the server owed goes with the socket, except for the oldest answers *)
(* that wait in the update channel already: the loop reads those before it  *)
(* sees the stream end.                                                     *)
UpdateCapacity == 8
Unread ==
    CASE ~wire -> {Len(owed)}
      [] wire /\ status = "Connected" -> {n \in 0..Len(owed) : n <= UpdateCapacity}
      [] OTHER -> {0}
KeepFirst(n) ==
    /\ owed' = SubSeq(owed, 1, n)
    /\ gaveUp' = gaveUp \ (Requests(owed) \ Requests(owed'))
CloseWire ==
    /\ wire' = FALSE
    /\ \E n \in Unread : KeepFirst(n)
    /\ UNCHANGED <<status, muddled>>

HangUpCloses ==
    /\ user = "hanging" /\ user' = "hung"
    /\ CloseWire
    /\ UNCHANGED <<opVars, flowVars, loopVars, running, screen>>

HangUpFlags ==
    /\ user = "hung" /\ user' = "dropping"
    /\ Cancel
    /\ UNCHANGED <<issued, slot, calledOff, flowVars, loopVars, running, linkVars, screen, history>>

HangUpForgets ==
    /\ user = "dropping" /\ user' = "idle" /\ JoinLockFree
    /\ ForgetJoins
    /\ UNCHANGED <<issued, current, flowVars, loopVars, running, linkVars, screen>>

-----------------------------------------------------------------------------
(* The server's answers, one at a time, and what the update loop does with  *)
(* each. The server answers join requests in the order they were sent; the  *)
(* launch of a hosted or a matchmaker's game names no game of Games.        *)

Reading == loop = "reading" /\ term = "no" /\ status = "Connected"

Refusal(g) ==
    /\ Reading /\ owed # <<>> /\ JoinLockFree
    /\ g = flow[Head(owed)].game \/ (g = NoGame /\ "unnamed" \in Events)
    /\ owed' = Tail(owed)
    /\ RefusalOf(g)
    /\ loop' = IF RefusalIsOurs(g) THEN "refused" ELSE loop
    /\ order' = IF RefusalIsOurs(g) THEN [game |-> g, prepared |-> FALSE] ELSE NoOrder
    /\ gaveUp' = gaveUp \ {Head(owed)}
    /\ muddled' = muddled \cup Orphans(owed', slot', gaveUp)
    /\ UNCHANGED <<issued, current, flowVars, user, term, launch, launchOff, running, wire,
                   status, screen>>

ShowRefusal ==
    /\ loop = "refused" /\ loop' = "reading"
    /\ screen' = Screen("Failed", order.game, FALSE)
    /\ order' = NoOrder
    /\ UNCHANGED <<opVars, flowVars, user, term, launch, launchOff, running, linkVars,
                   history>>

LaunchOrder(g) ==
    /\ Reading /\ JoinLockFree /\ RoomFor(1)
    /\ \/ /\ owed # <<>> /\ g = flow[Head(owed)].game
          /\ owed' = Tail(owed) /\ gaveUp' = gaveUp \ {Head(owed)}
       \/ "matchmaker" \in Events /\ g = NoGame /\ UNCHANGED <<owed, gaveUp>>
    /\ TakeRecord(g)
    /\ IF LaunchUnwanted(g)
       THEN UNCHANGED <<loop, order>>
       ELSE loop' = "taken" /\ order' = [game |-> g, prepared |-> FALSE]
    /\ UNCHANGED <<issued, current, slot, flowVars, user, term, launch, launchOff, running,
                   wire, status, screen, muddled>>

AnnounceLaunch ==
    /\ loop = "taken"
    /\ order' = [order EXCEPT !.prepared = (screen = Joining(order.game, TRUE))]
    /\ screen' = Screen("Launched", order.game, FALSE)
    /\ loop' = IF LiveLaunch THEN "announced" ELSE "begun"
    /\ UNCHANGED <<opVars, flowVars, user, term, launch, launchOff, running, linkVars, history>>

(* A game whose join or host request was prepared is not prepared again.    *)
LaunchEntry ==
    CASE order.prepared -> {"launchready"}
      [] order.game = NoGame -> {"launching", "launchready"}
      [] OTHER -> {"launching"}

(* begin, its first half; a launch already under way is dropped.            *)
IssueLaunch(op) ==
    /\ loop = "announced" /\ loop' = "issued"
    /\ Issue(op)
    /\ \E pc \in LaunchEntry :
           flow' = [o \in Ops |->
               IF o = op THEN [kind |-> "launch", game |-> order.game, pc |-> pc]
               ELSE IF o = launch THEN [flow[o] EXCEPT !.pc = "done"] ELSE flow[o]]
    /\ launch' = op /\ launchOff' = FALSE
    /\ UNCHANGED <<current, slot, calledOff, click, user, order, term, running, linkVars,
                   screen, history>>

LaunchBecomesCurrent ==
    /\ loop = "issued" /\ loop' = "begun"
    /\ MakeCurrent(launch)
    /\ UNCHANGED <<issued, slot, calledOff, flowVars, user, order, term, launch, launchOff,
                   running, linkVars, screen, history>>

LaunchFreesSlot ==
    /\ loop = "begun" /\ loop' = "reading" /\ JoinLockFree
    /\ ReleaseLaunched(order.game)
    /\ order' = NoOrder
    /\ muddled' = muddled \cup Orphans(owed, slot', gaveUp)
    /\ UNCHANGED <<issued, current, flowVars, user, term, launch, launchOff, running,
                   linkVars, screen, gaveUp>>

KillNotice ==
    /\ "kill" \in Events /\ Reading
    /\ launchOff' = (launchOff \/ launch # NoOp)
    /\ term' = "kill"
    /\ UNCHANGED <<opVars, flowVars, user, loop, order, launch, running, linkVars, screen,
                   history>>

MatchCancelled ==
    /\ "matchcancel" \in Events /\ Reading
    /\ launch # NoOp /\ flow[launch].game = NoGame
    /\ Cancel
    /\ launchOff' = TRUE
    /\ UNCHANGED <<issued, slot, calledOff, flowVars, user, loop, order, term, launch, running,
                   linkVars, screen, history>>

-----------------------------------------------------------------------------
(* The connection: connection.rs, connect_with.                             *)

Connect ==
    /\ loop = "off" /\ loop' = "reading"
    /\ wire' = TRUE /\ status' = "Connecting"
    /\ screen' = OnLinkLost(screen)
    /\ UNCHANGED <<opVars, flowVars, user, order, term, launch, launchOff, running, owed,
                   history>>

Authenticated ==
    /\ loop = "reading" /\ term = "no" /\ wire
    /\ status = "Connecting" /\ status' = "Connected"
    /\ UNCHANGED <<opVars, flowVars, user, loopVars, running, wire, owed, screen, history>>

(* The socket is lost and the port opens another: what the server owed is   *)
(* gone (the notice queued up behind the answers that came), and the        *)
(* handler of Reconnecting emits Connecting.                                *)
Reconnecting ==
    /\ "drop" \in Events
    /\ loop = "reading" /\ term = "no" /\ wire
    /\ status' = "Connecting" /\ KeepFirst(0) /\ muddled' = {}
    /\ screen' = OnLinkLost(screen)
    /\ UNCHANGED <<opVars, flowVars, user, loopVars, running, wire>>

StreamEnds ==
    /\ "end" \in Events /\ wire
    /\ CloseWire
    /\ UNCHANGED <<opVars, flowVars, user, loopVars, running, screen>>

LoopEnds ==
    /\ loop = "reading" /\ term = "no" /\ ~wire /\ owed = <<>>
    /\ loop' = "ending" /\ muddled' = {}
    /\ UNCHANGED <<opVars, flowVars, user, order, term, launch, launchOff, running, linkVars,
                   screen, gaveUp>>

(* A launch under way is waited for; then every join goes with the socket.  *)
TeardownFlags ==
    /\ loop = "ending" /\ launch = NoOp /\ term = "no"
    /\ loop' = "closing"
    /\ Cancel
    /\ UNCHANGED <<issued, slot, calledOff, flowVars, user, order, term, launch, launchOff,
                   running, linkVars, screen, history>>

TeardownForgets ==
    /\ loop = "closing" /\ loop' = "closed" /\ JoinLockFree
    /\ ForgetJoins
    /\ UNCHANGED <<issued, current, flowVars, user, order, term, launch, launchOff, running,
                   linkVars, screen>>

TeardownShows ==
    /\ loop = "closed" /\ loop' = "off"
    /\ status' = "Disconnected"
    /\ screen' = OnLinkLost(screen)
    /\ UNCHANGED <<opVars, flowVars, user, order, term, launch, launchOff, running, wire, owed,
                   history>>

-----------------------------------------------------------------------------
JoinStep(op) ==
    \/ JoinBecomesCurrent(op) \/ RefuseJoin(op) \/ ShowJoining(op) \/ ShowPrepared(op)
    \/ Mark(op) \/ SendJoin(op) \/ Release(op) \/ Report(op)
PreparationStep(op) == CheckNarration(op) \/ Narrate(op) \/ PreparationEnds(op)
HostStep(op) == HostBecomesCurrent(op) \/ HostUpdated(op) \/ SendHost(op)
LaunchStep(op) == StartLaunch(op) \/ AdapterStarted(op) \/ GameSpawned(op) \/ LaunchReports(op)
FlowStep(op) == JoinStep(op) \/ PreparationStep(op) \/ HostStep(op) \/ LaunchStep(op)

UserStep ==
    \/ CancelFlags \/ CancelFrees \/ CancelShows
    \/ UserKills \/ UserForgets \/ UserTerminated
    \/ HangUpCloses \/ HangUpFlags \/ HangUpForgets

LoopStep ==
    \/ LoopKills \/ LoopForgets \/ LoopTerminated
    \/ ShowRefusal \/ AnnounceLaunch \/ (\E op \in Ops : IssueLaunch(op))
    \/ LaunchBecomesCurrent \/ LaunchFreesSlot
    \/ LoopEnds \/ TeardownFlags \/ TeardownForgets \/ TeardownShows

ServerAnswer == \E g \in Games \cup {NoGame} : Refusal(g) \/ LaunchOrder(g)

Environment ==
    \/ \E g \in Games : CheckJoin(g)
    \/ RefuseDuplicate \/ RefuseHost
    \/ \E op \in Ops : BeginJoin(op) \/ BeginHost(op)
    \/ UserCommand \/ HangUp
    \/ GameExits \/ KillNotice \/ MatchCancelled
    \/ Connect \/ Authenticated \/ Reconnecting \/ StreamEnds

Next ==
    \/ \E op \in Ops : FlowStep(op)
    \/ UserStep \/ LoopStep \/ ServerAnswer \/ Environment

Spec == Init /\ [][Next]_vars

-----------------------------------------------------------------------------
(* Fairness: tasks are scheduled, preparation comes down however often it   *)
(* narrates, the user's command and the update loop run on, the handshake   *)
(* succeeds, and the server answers every request. Nothing is assumed of    *)
(* the user, of the socket or of a reconnect.                               *)
Fairness ==
    /\ \A op \in Ops : WF_vars(FlowStep(op)) /\ SF_vars(PreparationEnds(op))
    /\ WF_vars(UserStep) /\ WF_vars(LoopStep)
    /\ WF_vars(Authenticated)
    /\ WF_vars(\E g \in Games : Refusal(g) \/ LaunchOrder(g))

FairSpec == Spec /\ Fairness

-----------------------------------------------------------------------------
(* Properties.                                                              *)

(* An operation that was current and is not live any more, because it was   *)
(* called off or superseded, never becomes live again: a cancelled          *)
(* preparation that is still draining cannot take the next operation's      *)
(* liveness for its own (the single shared flag it replaced could).         *)
WasCurrent(op) ==
    flow[op].pc \notin {"none", "claiming", "issued"} /\ ~(loop = "issued" /\ launch = op)
NoRevival == [][\A op \in Ops : WasCurrent(op) /\ ~IsLive(op) => ~IsLive(op)']_vars

(* A step of one operation's own code never frees or alters the slot while  *)
(* another operation holds it: a late cleanup leaves the next join alone.   *)
OwnSlotOnly ==
    [][\A op \in Ops :
          flow'[op] # flow[op] /\ slot.op \notin {op, NoOp} => slot' = slot]_vars

(* A launch order that answers a request the user called off is turned away *)
(* unless the user is joining that same game again, as long as the game's   *)
(* answers can be told apart (muddled).                                     *)
AcceptsGivenUp ==
    /\ loop = "reading" /\ loop' = "taken"
    /\ owed' # owed /\ Head(owed) \in gaveUp
GivenUpIsTurnedAway ==
    [][AcceptsGivenUp /\ flow[Head(owed)].game \notin muddled
          => slot.game = flow[Head(owed)].game]_vars

(* A refusal that answers a called-off request never ends the join the user *)
(* has begun since, not even a retry of the same game.                      *)
RefusalSparesRetry ==
    [][loop = "reading" /\ loop' = "refused" /\ order'.game # NoGame /\ Head(owed) \in gaveUp
          => flow[Head(owed)].game \in muddled]_vars

(* What the proofs of JoinFlow_proofs rest on. Ids are handed out in order, *)
(* so an id not issued yet belongs to nobody; a join names a game, and only *)
(* joins are owed an answer; whoever is current or launching was issued.    *)
IdsInOrder ==
    /\ \A o \in Ops : flow[o].kind = "none" <=> o > issued
    /\ current.op <= issued
    /\ launch # NoOp => flow[launch].kind = "launch"
    /\ slot.op # NoOp => flow[slot.op].kind = "join" /\ flow[slot.op].game = slot.game
JoinsNameGames ==
    /\ \A o \in Ops : flow[o].kind = "join" => flow[o].game \in Games
    /\ \A i \in 1..Len(owed) : flow[owed[i]].kind = "join"
FlowInv == TypeOK /\ IdsInOrder /\ JoinsNameGames

(* The requests for a game that are to be sent or answered.                 *)
OnWay(g) == {o \in Ops : flow[o].game = g /\ (o \in Requests(owed) \/ At(o, "join", "marked"))}

(* A held slot is never lost: its join is still on its way to the request,  *)
(* or the connection is down and its teardown frees every join, or an       *)
(* answer that frees it is still to come or in the loop's hands: its own,   *)
(* or that of an older request for the same game when the two crossed.      *)
SlotAnswerable ==
    slot.op # NoOp =>
        \/ flow[slot.op].pc # "done"
        \/ OnWay(slot.game) # {}
        \/ HandlingOrder /\ order.game = slot.game
        \/ ~wire

(* Every record of a called-off request has its answer still coming.        *)
RecordedAnswersAreComing ==
    \A g \in Games : calledOff[g] <= Cardinality(OnWay(g))

(* The join slot is always freed in the end: by the answer, by a cleanup or *)
(* by the user, so no join locks the user out of the next one.              *)
SlotEventuallyFree == \A op \in Ops : slot.op = op ~> slot.op # op

=============================================================================
