----------------------------- MODULE StateMirror -----------------------------
(***************************************************************************)
(* From the authoritative state to the webview: EventSink::emit and its    *)
(* two locks (faf-app runtime/mod.rs), the lossy broadcast channel, the    *)
(* shell's pump (src-tauri startup.rs), the messages to the window, and    *)
(* the mirror that App.tsx mounts (ui/src/ipc/revisionedMirror.ts).        *)
(*                                                                         *)
(* A reduction that panics changes the state, publishes nothing and leaves *)
(* the lock poisoned; the next one to take the lock reserves a revision    *)
(* for it.  Messages and snapshot answers are delivered independently.     *)
(***************************************************************************)
EXTENDS RevisionedMirror

CONSTANTS
    Capacity,       \* events the channel keeps for a slow receiver
    MaxChanges,     \* bound on the reductions
    MaxDropped,     \* bound: at as many withheld revisions no emit_to fails
    MaxMounts       \* bound on the mounts of App

ASSUME StreamAssumption ==
    /\ Capacity \in Nat \ {0} /\ MaxChanges \in Nat
    /\ MaxDropped \in Nat /\ MaxMounts \in Nat \ {0}

VARIABLES
    changes,        \* changes made to the authoritative state
    revision,       \* EventSink.revision
    poisoned,       \* the state's lock is poisoned
    sending,        \* deltas reduced and not yet broadcast
    channel,        \* the pump's receiver
    lagged,         \* the channel overran it
    wire,           \* messages on their way to the window
    mount,          \* which mount of App is active
    phase,          \* how far that mount's bootstrap got
    mirror,         \* its mirror
    store,          \* the page's store, shared by all mounts
    requests,       \* calls of the snapshot command
    skipped         \* history: revisions no message carried

backend == <<changes, revision, poisoned, sending>>
pump == <<channel, lagged>>
page == <<mount, phase, mirror, store>>
vars == <<backend, pump, wire, page, requests, skipped>>

Phases == {"mounting", "listening", "asked", "bootstrapped", "failed"}

Unanswered == [revision |-> 0, changes |-> 0]
Requests == [mount : 1..MaxMounts, for : {"bootstrap", "recovery"},
             answered : BOOLEAN, snapshot : Snapshots]
Messages == [kind : {"event"}, delta : Deltas]
            \cup [kind : {"snapshot"}, snapshot : Snapshots]

Init ==
    /\ changes = 0 /\ revision = 0 /\ poisoned = FALSE /\ sending = {}
    /\ channel = <<>> /\ lagged = FALSE
    /\ wire = <<>>
    /\ mount = 1 /\ phase = "mounting" /\ mirror = Fresh /\ store = <<>>
    /\ requests = {}
    /\ skipped = {}

-----------------------------------------------------------------------------
(* The sink *)

(* write_state: whoever takes a poisoned lock reserves one revision, which *)
(* is never published.                                                     *)
FaultyRecovered == revision
Recovered == IF poisoned THEN revision + 1 ELSE revision
Reserved == IF poisoned THEN {revision + 1} ELSE {}

\* send_order is held from before the reduction until after the broadcast.
FaultySendOrderFree == TRUE
SendOrderFree == sending = {}

Reduce ==
    /\ changes < MaxChanges /\ SendOrderFree
    /\ changes' = changes + 1
    /\ revision' = Recovered + 1
    /\ poisoned' = FALSE
    /\ sending' = sending \cup {[revision |-> revision', change |-> changes']}
    /\ skipped' = skipped \cup Reserved
    /\ UNCHANGED <<pump, wire, page, requests>>

\* The reducer panics after mutating: no revision, and nothing to broadcast.
Panic ==
    /\ changes < MaxChanges /\ SendOrderFree
    /\ changes' = changes + 1
    /\ revision' = Recovered
    /\ poisoned' = TRUE
    /\ skipped' = skipped \cup Reserved
    /\ UNCHANGED <<sending, pump, wire, page, requests>>

(* read_state by anyone: a poisoned lock is recovered first, under the     *)
(* write guard, and then read.                                             *)
Recover ==
    /\ poisoned
    /\ revision' = Recovered
    /\ poisoned' = FALSE
    /\ skipped' = skipped \cup Reserved
    /\ UNCHANGED <<changes, sending, pump, wire, page, requests>>

Snapshot == [revision |-> revision, changes |-> changes]

\* The receiver's oldest event gives way once the channel is full.
Broadcast(delta) ==
    /\ delta \in sending
    /\ sending' = sending \ {delta}
    /\ IF Len(channel) < Capacity
         THEN channel' = Append(channel, delta) /\ UNCHANGED lagged
         ELSE channel' = Append(Tail(channel), delta) /\ lagged' = TRUE
    /\ UNCHANGED <<changes, revision, poisoned, wire, page, requests, skipped>>

-----------------------------------------------------------------------------
(* The shell's pump *)

Forward ==
    /\ ~lagged /\ channel # <<>>
    /\ channel' = Tail(channel)
    /\ wire' = Append(wire, [kind |-> "event", delta |-> Head(channel)])
    /\ UNCHANGED <<backend, lagged, page, requests, skipped>>

\* emit_to failed, or the event had no update to send: both are let pass.
ForwardFails ==
    /\ ~lagged /\ channel # <<>>
    /\ Cardinality(skipped) < MaxDropped
    /\ channel' = Tail(channel)
    /\ skipped' = skipped \cup {Head(channel).revision}
    /\ UNCHANGED <<backend, lagged, wire, page, requests>>

\* subscribe_versioned_with_snapshot: one boundary for both.
Resubscribe ==
    /\ lagged /\ ~poisoned
    /\ channel' = <<>> /\ lagged' = FALSE
    /\ wire' = Append(wire, [kind |-> "snapshot", snapshot |-> Snapshot])
    /\ UNCHANGED <<backend, page, requests, skipped>>

(* emit_to failed for the snapshot: neither it nor what it stood for goes  *)
(* out, and the stream continues behind it.                                *)
ResubscribeFails ==
    /\ lagged /\ ~poisoned
    /\ Cardinality(skipped) < MaxDropped
    /\ channel' = <<>> /\ lagged' = FALSE
    /\ skipped' = skipped \cup {channel[i].revision : i \in 1..Len(channel)}
    /\ UNCHANGED <<backend, wire, page, requests>>

-----------------------------------------------------------------------------
(* The page *)

\* Before its listener is registered, messages to the page go nowhere.
Listens == phase # "mounting"

Deliver ==
    /\ wire # <<>>
    /\ wire' = Tail(wire)
    /\ LET message == Head(wire) IN
       \/ /\ ~Listens
          /\ UNCHANGED <<mirror, store>>
       \/ /\ Listens /\ message.kind = "event"
          /\ mirror' = Receive(mirror, message.delta)
          /\ store' = ReceiveStore(mirror, store, message.delta)
       \/ /\ Listens /\ message.kind = "snapshot"
          /\ mirror' = Replace(mirror, message.snapshot)
          /\ store' = ReplaceStore(mirror, store, message.snapshot)
    /\ UNCHANGED <<backend, pump, mount, phase, requests, skipped>>

Ask(purpose) ==
    requests' = requests \cup
        {[mount |-> mount, for |-> purpose, answered |-> FALSE,
          snapshot |-> Unanswered]}

\* bootstrap: the listener first, then the snapshot.
Listen ==
    /\ phase = "mounting"
    /\ phase' = "listening"
    /\ UNCHANGED <<backend, pump, wire, mount, mirror, store, requests, skipped>>

AskBootstrap ==
    /\ phase = "listening"
    /\ phase' = "asked"
    /\ Ask("bootstrap")
    /\ UNCHANGED <<backend, pump, wire, mount, mirror, store, skipped>>

TimerFires ==
    /\ mirror.recovery = "scheduled"
    /\ mirror' = Attempt(mirror)
    /\ IF HasRevisionGap(mirror) THEN Ask("recovery") ELSE UNCHANGED requests
    /\ UNCHANGED <<backend, pump, wire, mount, phase, store, skipped>>

\* The snapshot command runs in the backend, whenever it gets to it.
Answer(request) ==
    /\ request \in requests /\ ~request.answered /\ ~poisoned
    /\ requests' = (requests \ {request}) \cup
         {[request EXCEPT !.answered = TRUE, !.snapshot = Snapshot]}
    /\ UNCHANGED <<backend, pump, wire, page, skipped>>

(* A request of a mount that is gone lands nowhere: bootstrap looks at     *)
(* active, and the mirror at disposed.                                     *)
Lands(request) == request.mount = mount

Stored(request) ==
    store' = ReplaceStore(mirror, store, request.snapshot)

Bootstrapped(request) ==
    /\ request \in requests /\ request.answered /\ request.for = "bootstrap"
    /\ requests' = requests \ {request}
    /\ IF Lands(request)
         THEN /\ phase' = "bootstrapped"
              /\ mirror' = Replace(mirror, request.snapshot)
              /\ Stored(request)
         ELSE UNCHANGED <<phase, mirror, store>>
    /\ UNCHANGED <<backend, pump, wire, mount, skipped>>

BootstrapFails(request) ==
    /\ request \in requests /\ request.for = "bootstrap"
    /\ requests' = requests \ {request}
    /\ phase' = IF Lands(request) THEN "failed" ELSE phase
    /\ UNCHANGED <<backend, pump, wire, mount, mirror, store, skipped>>

RecoveryLands(request) ==
    /\ request \in requests /\ request.answered /\ request.for = "recovery"
    /\ requests' = requests \ {request}
    /\ IF Lands(request)
         THEN /\ mirror' = Settled(Replace(mirror, request.snapshot), TRUE)
              /\ Stored(request)
         ELSE UNCHANGED <<mirror, store>>
    /\ UNCHANGED <<backend, pump, wire, mount, phase, skipped>>

\* Refused, or past its deadline: an answer after that has nobody waiting.
RecoveryFails(request) ==
    /\ request \in requests /\ request.for = "recovery"
    /\ requests' = requests \ {request}
    /\ mirror' = IF Lands(request) THEN Settled(mirror, FALSE) ELSE mirror
    /\ UNCHANGED <<backend, pump, wire, mount, phase, store, skipped>>

(* App's effect is cleaned up and run again, as StrictMode does: the old   *)
(* mirror is disposed of with its timer, the store stays.                  *)
Remount ==
    /\ mount < MaxMounts
    /\ mount' = mount + 1
    /\ phase' = "mounting"
    /\ mirror' = Fresh
    /\ UNCHANGED <<backend, pump, wire, store, requests, skipped>>

-----------------------------------------------------------------------------
Settle(request) ==
    \/ Bootstrapped(request) \/ BootstrapFails(request)
    \/ RecoveryLands(request) \/ RecoveryFails(request)

Next ==
    \/ Reduce \/ Panic \/ Recover
    \/ \E delta \in sending : Broadcast(delta)
    \/ Forward \/ ForwardFails \/ Resubscribe \/ ResubscribeFails
    \/ Deliver \/ Listen \/ AskBootstrap \/ TimerFires
    \/ \E request \in requests : Answer(request) \/ Settle(request)
    \/ Remount

Spec == Init /\ [][Next]_vars

(* An emitter finishes its broadcast; the pump and the page keep taking    *)
(* what is there; timers fire; a request is answered or fails, and a       *)
(* reader that finds the lock poisoned recovers it.  No new change, panic, *)
(* failure or remount is ever owed.                                        *)
ReaderWaits == lagged \/ \E request \in requests : ~request.answered

Fairness ==
    /\ WF_vars(\E delta \in sending : Broadcast(delta))
    /\ WF_vars(Forward) /\ WF_vars(Resubscribe)
    /\ WF_vars(Recover /\ ReaderWaits)
    /\ WF_vars(Deliver) /\ WF_vars(Listen) /\ WF_vars(AskBootstrap)
    /\ WF_vars(TimerFires)
    /\ WF_vars(\E request \in requests : Answer(request))
    /\ WF_vars(\E request \in requests : request.answered /\ Settle(request))

FairSpec == Spec /\ Fairness

-----------------------------------------------------------------------------
TypeOK ==
    /\ changes \in Nat /\ revision \in Nat /\ poisoned \in BOOLEAN
    /\ sending \subseteq Deltas
    /\ channel \in Seq(Deltas) /\ Len(channel) <= Capacity
    /\ lagged \in BOOLEAN
    /\ wire \in Seq(Messages)
    /\ mount \in 1..MaxMounts /\ phase \in Phases
    /\ mirror \in Mirrors
    /\ IsFiniteSet(mirror.pending) /\ Cardinality(mirror.pending) <= MaxPending
    /\ store \in Seq(Nat)
    /\ requests \subseteq Requests
    /\ skipped \subseteq Nat

(* Once the mirror has a revision, the page shows exactly the state the    *)
(* backend had at it: no change is missing, doubled or early, not even one *)
(* of a reduction that panicked.                                           *)
MirrorIsTheState == mirror.revision # None => store = Upto(mirror.revision)

(* A mirror never goes back to an older state, whichever of the ordered    *)
(* stream and the requested snapshots comes first.                         *)
NeverRolledBack ==
    [][mount' = mount /\ mirror.revision # None
         => mirror'.revision >= mirror.revision]_vars

(* The mirror sees a gap, whose repair costs a whole state, only if a      *)
(* revision really was withheld or its own buffer overflowed: neither      *)
(* concurrent emitters nor lag open one by themselves.                     *)
GapsAreReal ==
    HasRevisionGap(mirror) => skipped # {} \/ mirror.lost # None

(* When changes stop, the page ends up with the newest state, or has said  *)
(* that it cannot: its retries ran out or its bootstrap failed.  The only  *)
(* exception is a newest change that no message carried.                   *)
CatchesUp ==
    <>[](\/ store = Upto(changes)
         \/ mirror.stalled \/ phase = "failed"
         \/ poisoned \/ revision \in skipped)
=============================================================================
