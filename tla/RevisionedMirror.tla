-------------------------- MODULE RevisionedMirror --------------------------
(***************************************************************************)
(* The webview's copy of the application state: the class RevisionedMirror *)
(* of ui/src/ipc/revisionedMirror.ts, as operators on one mirror.          *)
(*                                                                         *)
(* The state is counted in changes: change k is the k-th change ever made  *)
(* to it, and the store is the sequence of changes it holds, so an event   *)
(* applied twice, left out or applied too early shows.  A delta carries    *)
(* the revision it was published under and the change it brings, a         *)
(* snapshot the revision it was taken at and how many changes it contains. *)
(***************************************************************************)
EXTENDS Integers, Sequences, FiniteSets

CONSTANTS
    MaxPending,     \* MAX_PENDING_EVENTS
    MaxAttempts     \* RECOVERY_MAX_ATTEMPTS

ASSUME MirrorAssumption == MaxPending \in Nat /\ MaxAttempts \in Nat \ {0}

\* No revision yet, or nothing lost: null in the code.
None == -1
Revisions == {None} \cup Nat

Upto(n) == [k \in 1..n |-> k]

Deltas == [revision : Nat, change : Nat]
Snapshots == [revision : Nat, changes : Nat]

(* recovery: no attempt, one behind a timer, or one in flight.  stalled is *)
(* what onRecoveryError reported: the retries ran out, and only a new gap  *)
(* starts another attempt.                                                 *)
Mirrors == [revision : Revisions, pending : SUBSET Deltas, lost : Revisions,
            recovery : {"idle", "scheduled", "asking"}, failed : Nat,
            stalled : BOOLEAN]

Fresh == [revision |-> None, pending |-> {}, lost |-> None,
          recovery |-> "idle", failed |-> 0, stalled |-> FALSE]

-----------------------------------------------------------------------------
(* Gaps *)

Held(m, r) == \E d \in m.pending : d.revision = r

HasRevisionGap(m) ==
    /\ m.revision # None
    /\ \/ m.lost > m.revision
       \/ \E d \in m.pending : d.revision > m.revision + 1

(* requestRecovery: nothing while an attempt is behind a timer or in       *)
(* flight, since both look at the gap again when they settle.  An attempt  *)
(* the cooldown allows at once is one whose timer fires next.              *)
RequestRecovery(m) ==
    IF m.recovery = "idle" THEN [m EXCEPT !.recovery = "scheduled"] ELSE m

RecoverGap(m) == IF HasRevisionGap(m) THEN RequestRecovery(m) ELSE m

Newest(a, held) ==
    LET all == {a} \cup {d.revision : d \in held} IN
    CHOOSE n \in all : \A k \in all : k <= n

(* hold: past the ceiling every held event is let go, and only how far     *)
(* they reached is remembered.                                             *)
FaultyHold(m, delta) == [m EXCEPT !.pending = @ \cup {delta}]
Hold(m, delta) ==
    LET held == m.pending \cup {delta} IN
    IF Cardinality(held) <= MaxPending
      THEN [m EXCEPT !.pending = held]
      ELSE [m EXCEPT !.pending = {}, !.lost = Newest(m.lost, held)]

-----------------------------------------------------------------------------
(* Applying *)

(* drainPending goes on until a revision is not held.                      *)
FirstHole(m) ==
    CHOOSE h \in {m.revision + 1} \cup {d.revision + 1 : d \in m.pending} :
        /\ h > m.revision /\ ~Held(m, h)
        /\ \A r \in (m.revision + 1)..(h - 1) : Held(m, r)

Brought(m) ==
    [k \in 1..(FirstHole(m) - 1 - m.revision) |->
        (CHOOSE d \in m.pending : d.revision = m.revision + k).change]

Drain(m) ==
    RecoverGap([m EXCEPT
        !.revision = FirstHole(m) - 1,
        !.pending = {d \in @ : d.revision \notin
                        (m.revision + 1)..(FirstHole(m) - 1)}])

\* replace: a snapshot older than the mirror never rolls it back.
FaultyIsStale(m, snapshot) == FALSE
IsStale(m, snapshot) == m.revision # None /\ snapshot.revision < m.revision

Adopted(m, snapshot) ==
    [m EXCEPT !.revision = snapshot.revision,
              !.lost = IF @ <= snapshot.revision THEN None ELSE @,
              !.pending = {d \in @ : d.revision > snapshot.revision}]

Replace(m, snapshot) ==
    IF IsStale(m, snapshot) THEN RecoverGap(m)
    ELSE Drain(Adopted(m, snapshot))

ReplaceStore(m, store, snapshot) ==
    IF IsStale(m, snapshot) THEN store
    ELSE Upto(snapshot.changes) \o Brought(Adopted(m, snapshot))

\* receive, for an event.
Follows(m, delta) == m.revision # None /\ delta.revision = m.revision + 1
Known(m, delta) == m.revision # None /\ delta.revision <= m.revision
Stepped(m, delta) == [m EXCEPT !.revision = delta.revision]

Receive(m, delta) ==
    IF Known(m, delta) THEN m
    ELSE IF Follows(m, delta) THEN Drain(Stepped(m, delta))
    ELSE IF m.revision = None THEN Hold(m, delta)
    ELSE RequestRecovery(Hold(m, delta))

ReceiveStore(m, store, delta) ==
    IF Follows(m, delta)
      THEN Append(store, delta.change) \o Brought(Stepped(m, delta))
      ELSE store

-----------------------------------------------------------------------------
(* Recovery *)

(* startRecovery: the gap that asked for this may have closed since.       *)
Attempt(m) ==
    IF HasRevisionGap(m)
      THEN [m EXCEPT !.recovery = "asking", !.stalled = FALSE]
      ELSE [m EXCEPT !.recovery = "idle", !.failed = 0]

(* The attempt settled, with a snapshot or with a failure, and the gap is  *)
(* looked at again.                                                        *)
FaultySettled(m, ok) ==
    [m EXCEPT !.recovery = "idle", !.failed = IF ok THEN 0 ELSE @ + 1]
Settled(m, ok) ==
    IF ~HasRevisionGap(m)
      THEN [m EXCEPT !.recovery = "idle", !.failed = 0]
    ELSE IF ok
      THEN [m EXCEPT !.recovery = "scheduled", !.failed = 0]
    ELSE IF m.failed + 1 >= MaxAttempts
      THEN [m EXCEPT !.recovery = "idle", !.failed = 0, !.stalled = TRUE]
    ELSE [m EXCEPT !.recovery = "scheduled", !.failed = @ + 1]
=============================================================================
