--------------------------- MODULE CommandAdmission ---------------------------
(* Which commands may run beside which (runtime/command_policy.rs,          *)
(* CommandAdmission and Turn): single flight, serial turns, and reads of    *)
(* which only the latest is wanted. A command is admitted as it leaves its  *)
(* queue, before its task is spawned; its turn is held while it runs.       *)
EXTENDS Naturals

CONSTANTS
    Cmds,     \* the commands of a run, each dispatched at most once
    NoCmd,    \* no command
    Items     \* what commands act on: map folders, catalogues

ASSUME AdmissionAssumption == NoCmd \notin Cmds

SerialKeys == {"MapFiles", "GuidesVerdict"}

VARIABLES
    flights,    \* running: the single-flight keys in use
    tail,       \* tails: per serial key, whose end the next one waits for
    wait,       \* Turn.wait: per command, whose end its turn waits for
    signalled,  \* the commands whose Turn.done was sent
    handing,    \* dropped before their turn came: a task of their own hands it on
    latest,     \* per item, the search admitted last
    stale       \* the searches whose token was cancelled

admissionVars == <<flights, tail, wait, signalled, handing, latest, stale>>

AdmissionInit ==
    /\ flights = {}
    /\ tail = [k \in SerialKeys |-> NoCmd]
    /\ wait = [c \in Cmds |-> NoCmd]
    /\ signalled = {} /\ handing = {}
    /\ latest = [i \in Items |-> NoCmd]
    /\ stale = {}

AdmissionTypeOK ==
    /\ flights \subseteq Items
    /\ tail \in [SerialKeys -> Cmds \cup {NoCmd}]
    /\ wait \in [Cmds -> Cmds \cup {NoCmd}]
    /\ signalled \subseteq Cmds /\ handing \subseteq Cmds /\ stale \subseteq Cmds
    /\ latest \in [Items -> Cmds \cup {NoCmd}]

(* An operator named Faulty... brings a mistake back and no action uses it; *)
(* the properties of CommandLoop notice it.                                 *)

(* admit, SingleFlight: taken unless one of its kind runs.                  *)
FlightFree(i) == i \notin flights
TakeFlight(i) ==
    /\ flights' = flights \cup {i}
    /\ UNCHANGED <<tail, wait, signalled, handing, latest, stale>>

(* admit, Serial: behind the last one admitted under the key.               *)
JoinLine(c, k) ==
    /\ wait' = [wait EXCEPT ![c] = tail[k]]
    /\ tail' = [tail EXCEPT ![k] = c]
    /\ UNCHANGED <<flights, signalled, handing, latest, stale>>

(* admit, Latest: the one before is cancelled here, not when a task polls.  *)
(* Faulty: the new token is the one cancelled when the slot is occupied; or *)
(* the slot is taken to be always occupied.                                 *)
FaultyReplace(c, i) ==
    /\ stale' = IF latest[i] = NoCmd THEN stale ELSE stale \cup {c}
    /\ latest' = [latest EXCEPT ![i] = c]
FaultyCancelNone(c, i) ==
    /\ stale' = stale \cup {latest[i]}
    /\ latest' = [latest EXCEPT ![i] = c]
ReplaceLatest(c, i) ==
    /\ stale' = stale \cup ({latest[i]} \ {NoCmd})
    /\ latest' = [latest EXCEPT ![i] = c]
TakeLatest(c, i) ==
    ReplaceLatest(c, i) /\ UNCHANGED <<flights, tail, wait, signalled, handing>>

(* Turn::ready: everything admitted before it under its key is over.        *)
TurnReady(c) == wait[c] = NoCmd \/ wait[c] \in signalled

(* Turn::drop, Serial: a turn dropped while it waits is handed on only once *)
(* the one before it is over. Faulty: it is handed on at once; or never.    *)
FaultySignalAtOnce(c) == signalled' = signalled \cup {c} /\ UNCHANGED handing
FaultyForgetWaiter(c) == UNCHANGED <<signalled, handing>>
DropWaiting(c) == handing' = handing \cup {c} /\ UNCHANGED signalled

HandOn(c) ==
    /\ c \in handing /\ wait[c] \in signalled
    /\ handing' = handing \ {c}
    /\ signalled' = signalled \cup {c}
    /\ UNCHANGED <<flights, tail, wait, latest, stale>>

(* Turn::drop of a command that ran.                                        *)
SignalDone(c) ==
    /\ signalled' = signalled \cup {c}
    /\ wait' = [wait EXCEPT ![c] = NoCmd]
    /\ UNCHANGED <<flights, tail, handing, latest, stale>>

(* Turn::drop, SingleFlight. Faulty: the key stays taken.                   *)
FaultyKeepFlight(i) == UNCHANGED flights
FreeFlight(i) == flights' = flights \ {i}
LeaveFlight(i) == FreeFlight(i) /\ UNCHANGED <<tail, wait, signalled, handing, latest, stale>>
=============================================================================
