------------------------------ MODULE CommandLoop ------------------------------
(* The command loop (runtime/mod.rs): callers dispatch commands into two     *)
(* bounded queues, the loop takes them out, ahead of time those of the       *)
(* priority lane, drops the starts a later release called off, admits the    *)
(* others (CommandAdmission) and runs each on a task of its own. The bodies  *)
(* are those of the map vault's install and its cancel (services/maps.rs),   *)
(* of a single-flight check, a search, a guide verdict and a plain command.  *)
EXTENDS CommandAdmission, Sequences, FiniteSets

CONSTANTS
    NoItem,         \* the item of a command not dispatched yet
    Kinds,          \* the kinds of command a run dispatches, see AllKinds
    Room,           \* bound: how many commands a queue holds (64 and 16 in the code)
    OrdinarySlots,  \* bound: ordinary commands running at once (64 in the code)
    UrgentSlots,    \* bound: priority commands running at once (8 in the code)
    MayAbandon      \* whether tasks are dropped while they wait for their turn

AllKinds ==
    {"install",   \* Maps::InstallMap: serial, the start of the item's pair
     "cancel",    \* Maps::CancelInstall: priority, the release of the item's pair
     "verdict",   \* Guides::Accept: serial, ends its turn before it is finished
     "check",     \* Connectivity::RunCheck: single flight
     "search",    \* Maps::SearchVault: only the latest is wanted
     "plain"}     \* Maps::LoadInstalled: concurrent

ASSUME LoopAssumption ==
    /\ Kinds \subseteq AllKinds
    /\ Room \in Nat \ {0} /\ OrdinarySlots \in Nat \ {0} /\ UrgentSlots \in Nat \ {0}
    /\ NoItem \notin Items /\ MayAbandon \in BOOLEAN

VARIABLES
    cmd,        \* per command: its kind, its item, its stamp and where it stands
    next,       \* ReleaseOrder.next
    released,   \* ReleaseOrder.released: per item, the stamp of its latest release
    queue,      \* per lane, the commands that wait
    installs,   \* MapsContext.installs: the installs a cancel reaches
    calledOff,  \* the installs whose token was cancelled
    onDisk,     \* the maps installed
    ahead       \* history: per serial command, who was in its line at admission

loopVars == <<next, released, queue>>
bodyVars == <<installs, calledOff, onDisk>>
vars == <<cmd, loopVars, bodyVars, admissionVars, ahead>>

Lanes == {"ordinary", "priority"}
Pcs == {"none", "stamped", "sending", "queued", "dropped", "refused", "admitted",
        "working", "reading", "settled", "done", "abandoned"}

NoPlace == [kind |-> "none", item |-> NoItem, seq |-> 0, pc |-> "none"]

Init ==
    /\ AdmissionInit
    /\ cmd = [c \in Cmds |-> NoPlace]
    /\ next = 0 /\ released = [i \in Items |-> 0]
    /\ queue = [l \in Lanes |-> <<>>]
    /\ installs = {} /\ calledOff = {} /\ onDisk = {}
    /\ ahead = [c \in Cmds |-> {}]

CmdTypeOK ==
    cmd \in [Cmds -> [kind : Kinds \cup {"none"}, item : Items \cup {NoItem}, seq : Nat, pc : Pcs]]
QueueTypeOK == next \in Nat /\ released \in [Items -> Nat] /\ queue \in [Lanes -> Seq(Cmds)]
BodyTypeOK == installs \subseteq Cmds /\ calledOff \subseteq Cmds /\ onDisk \subseteq Items
TypeOK ==
    /\ AdmissionTypeOK /\ CmdTypeOK /\ QueueTypeOK /\ BodyTypeOK
    /\ ahead \in [Cmds -> SUBSET Cmds]

-----------------------------------------------------------------------------
(* The policy table (command_policy.rs, policy).                            *)

KeyOf(kind) == IF kind = "install" THEN "MapFiles" ELSE "GuidesVerdict"
Serial(kind) == kind \in {"install", "verdict"}

(* is_urgent. Faulty: cancels wait with everything else.                    *)
FaultyLane(kind) == "ordinary"
Lane(kind) == IF kind = "cancel" THEN "priority" ELSE "ordinary"

At(c, kind, pc) == cmd[c].kind = kind /\ cmd[c].pc = pc
Goto(c, pc) == cmd' = [cmd EXCEPT ![c].pc = pc]

(* The line of a serial key: whoever was admitted and still holds its turn.  *)
UnderKey(c, k) == Serial(cmd[c].kind) /\ KeyOf(cmd[c].kind) = k
HoldsTurn(c) ==
    \/ cmd[c].pc = "admitted"
    \/ cmd[c].pc \in {"working", "settled"} /\ c \notin signalled
Line(k) == {c \in Cmds : UnderKey(c, k) /\ HoldsTurn(c)}
Busy(k) == {c \in Line(k) : cmd[c].pc # "admitted"}

Running(l) == {c \in Cmds :
    Lane(cmd[c].kind) = l /\ cmd[c].pc \in {"refused", "admitted", "working", "reading", "settled"}}
SlotFree(l) ==
    Cardinality(Running(l)) < (IF l = "priority" THEN UrgentSlots ELSE OrdinarySlots)

-----------------------------------------------------------------------------
(* Dispatch: stamped, then, for a release, recorded, then sent. Each is a    *)
(* step of the caller's own task, and a full queue makes it wait.            *)

Stamp(c, kind, i) ==
    /\ cmd[c].pc = "none" /\ kind \in Kinds
    /\ next' = next + 1
    /\ cmd' = [cmd EXCEPT ![c] = [kind |-> kind, item |-> i, seq |-> next + 1,
                                  pc |-> IF kind = "cancel" THEN "stamped" ELSE "sending"]]
    /\ UNCHANGED <<released, queue, bodyVars, admissionVars, ahead>>

(* record_release. Faulty: whoever takes the lock last is kept.              *)
FaultyLatest(i, seq) == seq
Latest(i, seq) == IF released[i] < seq THEN seq ELSE released[i]

RecordRelease(c) ==
    /\ At(c, "cancel", "stamped")
    /\ released' = [released EXCEPT ![cmd[c].item] = Latest(cmd[c].item, cmd[c].seq)]
    /\ Goto(c, "sending")
    /\ UNCHANGED <<next, queue, bodyVars, admissionVars, ahead>>

Send(c) ==
    /\ cmd[c].pc = "sending"
    /\ Len(queue[Lane(cmd[c].kind)]) < Room
    /\ queue' = [queue EXCEPT ![Lane(cmd[c].kind)] = Append(@, c)]
    /\ Goto(c, "queued")
    /\ UNCHANGED <<next, released, bodyVars, admissionVars, ahead>>

-----------------------------------------------------------------------------
(* The loop (drive). The priority lane is looked at first.                   *)

(* superseded. Faulty: any release of the pair drops the start.              *)
FaultySuperseded(c) == cmd[c].kind = "install" /\ released[cmd[c].item] > 0
Superseded(c) == cmd[c].kind = "install" /\ released[cmd[c].item] > cmd[c].seq

TakenFrom(l) == queue' = [queue EXCEPT ![l] = Tail(@)]

(* admit, then spawn.                                                        *)
AdmitAndSpawn(c) ==
    \/ /\ cmd[c].kind = "check" /\ ~FlightFree(cmd[c].item)
       /\ Goto(c, "refused") /\ UNCHANGED <<admissionVars, ahead>>
    \/ /\ cmd[c].kind = "check" /\ FlightFree(cmd[c].item)
       /\ TakeFlight(cmd[c].item)
       /\ Goto(c, "admitted") /\ UNCHANGED ahead
    \/ /\ Serial(cmd[c].kind)
       /\ JoinLine(c, KeyOf(cmd[c].kind))
       /\ ahead' = [ahead EXCEPT ![c] = Line(KeyOf(cmd[c].kind))]
       /\ Goto(c, "admitted")
    \/ /\ cmd[c].kind = "search"
       /\ TakeLatest(c, cmd[c].item)
       /\ Goto(c, "admitted") /\ UNCHANGED ahead
    \/ /\ cmd[c].kind \in {"plain", "cancel"}
       /\ Goto(c, "admitted") /\ UNCHANGED <<admissionVars, ahead>>

TakePriority ==
    /\ queue["priority"] # <<>> /\ SlotFree("priority")
    /\ TakenFrom("priority")
    /\ AdmitAndSpawn(Head(queue["priority"]))
    /\ UNCHANGED <<next, released, bodyVars>>

LooksAtOrdinary ==
    /\ ~(queue["priority"] # <<>> /\ SlotFree("priority"))
    /\ queue["ordinary"] # <<>> /\ SlotFree("ordinary")

DropSuperseded(c) ==
    /\ LooksAtOrdinary /\ c = Head(queue["ordinary"]) /\ Superseded(c)
    /\ TakenFrom("ordinary")
    /\ Goto(c, "dropped")
    /\ UNCHANGED <<next, released, bodyVars, admissionVars, ahead>>

Admit(c) ==
    /\ LooksAtOrdinary /\ c = Head(queue["ordinary"]) /\ ~Superseded(c)
    /\ TakenFrom("ordinary")
    /\ AdmitAndSpawn(c)
    /\ UNCHANGED <<next, released, bodyVars>>

-----------------------------------------------------------------------------
(* The command's task: it waits for its turn, runs its body, ends.           *)

BeginInstall(c) ==
    IF cmd[c].item \in onDisk
    THEN Goto(c, "settled") /\ UNCHANGED installs
    ELSE Goto(c, "working") /\ installs' = installs \cup {c}

Start(c) ==
    /\ cmd[c].pc = "admitted" /\ TurnReady(c)
    /\ \/ /\ cmd[c].kind = "install"
          /\ BeginInstall(c) /\ UNCHANGED calledOff
       \/ /\ cmd[c].kind = "cancel"
          /\ calledOff' = calledOff \cup {i \in installs : cmd[i].item = cmd[c].item}
          /\ Goto(c, "settled") /\ UNCHANGED installs
       \/ /\ cmd[c].kind \in {"verdict", "check", "plain", "search"}
          /\ Goto(c, IF c \in stale THEN "settled" ELSE "working")
          /\ UNCHANGED <<installs, calledOff>>
    /\ wait' = [wait EXCEPT ![c] = NoCmd]
    /\ UNCHANGED <<loopVars, onDisk, flights, tail, signalled, handing, latest, stale, ahead>>

(* The port answers: an install is in place or it is not, whether it was     *)
(* called off or not; a call-off that came too late changes nothing.         *)
Settle(c) ==
    /\ cmd[c].pc \in {"working", "reading"}
    /\ installs' = installs \ {c}
    /\ \/ UNCHANGED onDisk
       \/ cmd[c].kind = "install" /\ onDisk' = onDisk \cup {cmd[c].item}
    /\ Goto(c, "settled")
    /\ UNCHANGED <<loopVars, calledOff, admissionVars, ahead>>

(* end_turn: the verdict is written, its reloads remain.                     *)
EndTurn(c) ==
    /\ At(c, "verdict", "working")
    /\ SignalDone(c)
    /\ Goto(c, "reading")
    /\ UNCHANGED <<loopVars, bodyVars, ahead>>

(* The turn is dropped, the permit given back, the caller answered.          *)
Finish(c) ==
    /\ cmd[c].pc \in {"settled", "refused"}
    /\ \/ cmd[c].pc = "settled" /\ Serial(cmd[c].kind) /\ SignalDone(c)
       \/ cmd[c].pc = "settled" /\ cmd[c].kind = "check" /\ LeaveFlight(cmd[c].item)
       \/ (cmd[c].pc = "refused" \/ cmd[c].kind \in {"search", "plain", "cancel"})
          /\ UNCHANGED admissionVars
    /\ Goto(c, "done")
    /\ UNCHANGED <<loopVars, bodyVars, ahead>>

(* A task dropped while its serial turn waits.                               *)
Abandon(c) ==
    /\ MayAbandon
    /\ cmd[c].pc = "admitted" /\ Serial(cmd[c].kind)
    /\ IF wait[c] = NoCmd
       THEN SignalDone(c)
       ELSE DropWaiting(c) /\ UNCHANGED <<flights, tail, wait, latest, stale>>
    /\ Goto(c, "abandoned")
    /\ UNCHANGED <<loopVars, bodyVars, ahead>>

PassOn(c) == HandOn(c) /\ UNCHANGED <<cmd, loopVars, bodyVars, ahead>>

-----------------------------------------------------------------------------
TakeOrdinary == \E c \in Cmds : DropSuperseded(c) \/ Admit(c)
TaskStep(c) == Start(c) \/ EndTurn(c) \/ Finish(c) \/ PassOn(c)

Done == (\A c \in Cmds : cmd[c].pc \in {"dropped", "done", "abandoned"}) /\ UNCHANGED vars

Next ==
    \/ \E c \in Cmds, kind \in Kinds, i \in Items : Stamp(c, kind, i)
    \/ \E c \in Cmds : RecordRelease(c) \/ Send(c)
    \/ TakePriority \/ TakeOrdinary
    \/ \E c \in Cmds : TaskStep(c) \/ Settle(c) \/ Abandon(c)
    \/ Done

Spec == Init /\ [][Next]_vars

(* Fairness: callers, the loop and the tasks are scheduled. Nothing is       *)
(* assumed of the bodies: a port may never answer.                           *)
Fairness ==
    /\ \A c \in Cmds : WF_vars(RecordRelease(c)) /\ WF_vars(Send(c)) /\ WF_vars(TaskStep(c))
    /\ WF_vars(TakePriority) /\ WF_vars(TakeOrdinary)

FairSpec == Spec /\ Fairness

-----------------------------------------------------------------------------
(* Properties.                                                               *)

Over(c) == cmd[c].pc \in {"dropped", "done", "abandoned"}

Ahead(k) == [c \in Cmds |-> IF UnderKey(c, k) THEN ahead[c] ELSE {}]
MapFiles == INSTANCE SerialTurns
    WITH line <- Line("MapFiles"), ahead <- Ahead("MapFiles"), busy <- Busy("MapFiles")
Verdicts == INSTANCE SerialTurns
    WITH line <- Line("GuidesVerdict"), ahead <- Ahead("GuidesVerdict"), busy <- Busy("GuidesVerdict")
(* Under a serial key one command runs at a time, in admission order, also   *)
(* when one that waits is dropped and when one ends its turn early: what     *)
(* SerialTurns promises, key by key.                                         *)
SerialTurnsKept == MapFiles!Spec /\ Verdicts!Spec

(* An install leaves the queue unrun exactly when a cancel for its map that  *)
(* was stamped later has been recorded: no order in which two cancels reach  *)
(* the record brings a called-off install back, and an install asked for     *)
(* after the cancel is never taken for the one called off.                   *)
Overtaken(c) == \E r \in Cmds :
    /\ cmd[r].kind = "cancel" /\ cmd[r].pc # "stamped"
    /\ cmd[r].item = cmd[c].item /\ cmd[r].seq > cmd[c].seq
DroppedIffOvertaken ==
    [][\A c \in Cmds : At(c, "install", "queued") /\ cmd'[c].pc # "queued"
          => (cmd'[c].pc = "dropped" <=> Overtaken(c))]_vars

(* A single-flight key is taken only while its command runs: a check is      *)
(* never refused for one that is gone.                                       *)
FlightHasHolder ==
    \A i \in flights : \E c \in Cmds :
        cmd[c].kind = "check" /\ cmd[c].item = i /\ cmd[c].pc \in {"admitted", "working", "settled"}

(* Of the searches of one catalogue only the one admitted last can still     *)
(* answer, and nothing cancels it, in whatever order their tasks first run.  *)
OnlyNewestSearch ==
    \A c \in Cmds :
        cmd[c].kind = "search" /\ cmd[c].pc \in {"admitted", "working"}
            => (c \notin stale <=> latest[cmd[c].item] = c)

(* A cancel is run however many ordinary commands hang.                      *)
CancelAlwaysRuns ==
    \A c \in Cmds : (cmd[c].kind = "cancel") ~> (cmd[c].kind = "cancel" /\ Over(c))

(* Unless some body never ends, every command dispatched is finished, also   *)
(* those behind a turn that was dropped or ended early.                      *)
NobodyHangs == \A c \in Cmds : []<>(cmd[c].pc \notin {"working", "reading"})
EveryCommandEnds == NobodyHangs => \A c \in Cmds : (cmd[c].pc # "none") ~> Over(c)

(* What the proof of CommandLoop_proofs rests on. A command not admitted yet *)
(* is in nobody's line; who waits for another has all of its line and itself *)
(* ahead; and a turn that was signalled, or whose command runs, has nobody   *)
(* ahead left.                                                               *)
Unadmitted(c) == cmd[c].pc \in {"none", "stamped", "sending", "queued", "dropped"}
SameKey(c, d) == Serial(cmd[c].kind) /\ Serial(cmd[d].kind) /\ KeyOf(cmd[c].kind) = KeyOf(cmd[d].kind)
Clear(c) == \A d \in ahead[c] : ~HoldsTurn(d)

ItemsInv == \A c \in Cmds : cmd[c].pc # "none" => cmd[c].item \in Items /\ cmd[c].kind \in Kinds
QueuesInv ==
    \A l \in Lanes : \A i, j \in 1..Len(queue[l]) :
        /\ cmd[queue[l][i]].pc = "queued" /\ Lane(cmd[queue[l][i]].kind) = l
        /\ queue[l][i] = queue[l][j] => i = j
FreshInv == \A c \in Cmds :
    Unadmitted(c) => c \notin signalled /\ wait[c] = NoCmd /\ ahead[c] = {}
AheadInv == \A c \in Cmds : \A d \in ahead[c] : SameKey(c, d) /\ ~Unadmitted(d)
WaitInv == \A c \in Cmds : wait[c] # NoCmd =>
    /\ SameKey(c, wait[c]) /\ ~Unadmitted(wait[c])
    /\ ahead[c] \subseteq ahead[wait[c]] \cup {wait[c]}
SignalledInv == \A c \in signalled : Serial(cmd[c].kind) /\ ~HoldsTurn(c) /\ Clear(c)
HandingInv == \A c \in handing :
    cmd[c].pc = "abandoned" /\ Serial(cmd[c].kind) /\ wait[c] # NoCmd
RunningInv == \A c \in Cmds :
    Serial(cmd[c].kind) /\ HoldsTurn(c) /\ (cmd[c].pc # "admitted" \/ wait[c] = NoCmd) => Clear(c)
LinesInv == \A k \in SerialKeys :
    /\ \A c, d \in Line(k) : c # d => d \in ahead[c] \/ c \in ahead[d]
    /\ IF tail[k] = NoCmd THEN Line(k) = {}
       ELSE /\ UnderKey(tail[k], k) /\ ~Unadmitted(tail[k])
            /\ Line(k) \subseteq ahead[tail[k]] \cup {tail[k]}
ReadingInv == \A c \in Cmds : cmd[c].pc = "reading" => c \in signalled
TurnsInv == FreshInv /\ AheadInv /\ WaitInv /\ SignalledInv /\ HandingInv /\ RunningInv /\ LinesInv
(* ... and beside the turns: of each item the stamp of the latest release    *)
(* recorded is kept; a single-flight key is taken while a check runs under   *)
(* it, and only one does; and the last search admitted for an item is the    *)
(* one that is not stale.                                                    *)
Recorded(r) == cmd[r].kind = "cancel" /\ cmd[r].pc # "stamped"
ReleasedInv ==
    /\ \A c \in Cmds : cmd[c].pc = "none" => cmd[c].kind = "none"
    /\ \A r \in Cmds : Recorded(r) => cmd[r].seq <= released[cmd[r].item]
    /\ \A i \in Items : released[i] # 0 =>
          \E r \in Cmds : Recorded(r) /\ cmd[r].item = i /\ cmd[r].seq = released[i]
Flies(c) == cmd[c].kind = "check" /\ cmd[c].pc \in {"admitted", "working", "settled"}
FlightsInv ==
    /\ \A c \in Cmds : Flies(c) => cmd[c].item \in flights
    /\ \A i \in flights : \E c \in Cmds : Flies(c) /\ cmd[c].item = i
    /\ \A c, d \in Cmds : Flies(c) /\ Flies(d) /\ cmd[c].item = cmd[d].item => c = d
SearchesInv ==
    /\ \A c \in Cmds : cmd[c].kind = "search" /\ ~Unadmitted(c) =>
          (c \notin stale <=> latest[cmd[c].item] = c)
    /\ \A i \in Items : latest[i] # NoCmd =>
          /\ ~Unadmitted(latest[i])
          /\ cmd[latest[i]].kind = "search" /\ cmd[latest[i]].item = i
    /\ \A c \in stale : ~Unadmitted(c)
OutcomeInv == ReleasedInv /\ FlightsInv /\ SearchesInv
LoopInv == TypeOK /\ ItemsInv /\ QueuesInv /\ ReadingInv /\ TurnsInv /\ OutcomeInv

=============================================================================
