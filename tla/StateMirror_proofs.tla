-------------------------- MODULE StateMirror_proofs --------------------------
(* Theorems about StateMirror for any capacity, any buffer of held events   *)
(* and any number of changes, dropped messages and mounts: the page shows   *)
(* the backend's state at the mirror's revision, and never an older one     *)
(* again.                                                                   *)
EXTENDS StateMirror, FiniteSetTheorems, SequenceTheorems,
        WellFoundedInduction, TLAPS

-----------------------------------------------------------------------------
(* The least element of a set of naturals; from it, that a bounded set has  *)
(* a greatest one.                                                          *)

LEMMA LeastExists ==
    ASSUME NEW S \in SUBSET Nat, S # {}
    PROVE  \E n \in S : \A k \in S : n <= k
<1>1. PICK n \in S : \A k \in S : ~(<<k, n>> \in OpToRel(<, Nat))
  BY NatLessThanWellFounded, WFMin, Zenon
<1>2. \A k \in S : ~(k < n)
  BY <1>1 DEF OpToRel
<1> QED BY <1>2

LEMMA GreatestExists ==
    ASSUME NEW S \in SUBSET Revisions, S # {}, NEW b \in Nat, \A k \in S : k <= b
    PROVE  \E n \in S : \A k \in S : k <= n
<1> DEFINE B == {n \in Nat : \A k \in S : k <= n - 1}
<1>1. b + 1 \in B
  BY DEF Revisions, None
<1>2. PICK n \in B : \A k \in B : n <= k
  <2> HIDE DEF B
  <2>1. B \in SUBSET Nat
    BY DEF B
  <2> QED BY <1>1, <2>1, LeastExists
<1>3. n - 1 \in S
  <2> SUFFICES ASSUME n - 1 \notin S PROVE FALSE
    OBVIOUS
  <2>1. \A k \in S : k <= n - 2
    BY <1>2 DEF Revisions, None
  <2>2. n # 0
    <3>1. PICK k \in S : TRUE
      OBVIOUS
    <3>2. k <= n - 2 /\ k >= -1 /\ k \in Int
      BY <2>1 DEF Revisions, None
    <3> QED BY <3>2, <1>2
  <2>3. n - 1 \in B
    BY <2>1, <2>2, <1>2
  <2> QED BY <2>3, <1>2
<1> QED BY <1>2, <1>3

-----------------------------------------------------------------------------
(* One mirror. b is the newest revision any event has been published under. *)

GoodDelta(d, b) == d \in Deltas /\ d.change = d.revision /\ d.revision <= b
GoodSnapshot(s) == s \in Snapshots /\ s.changes = s.revision

GoodMirror(m, b) ==
    /\ m \in Mirrors
    /\ IsFiniteSet(m.pending) /\ Cardinality(m.pending) <= MaxPending
    /\ \A d \in m.pending : GoodDelta(d, b)

Shows(m, s) == m.revision # None => s = Upto(m.revision)
GoodStore(m, s) == s \in Seq(Nat) /\ Shows(m, s)
Ahead(m, n) == m.revision # None => n.revision # None /\ n.revision >= m.revision

LEMMA UptoIsSeq ==
    ASSUME NEW n \in Nat
    PROVE  Upto(n) \in Seq(Nat) /\ Len(Upto(n)) = n
BY DEF Upto

LEMMA UptoGrows ==
    ASSUME NEW n \in Nat, NEW s \in Seq(Nat), \A k \in 1..Len(s) : s[k] = n + k
    PROVE  Upto(n) \o s = Upto(n + Len(s))
<1> DEFINE t == Upto(n) \o s
<1>1. t \in Seq(Nat) /\ Len(t) = n + Len(s)
  <2>1. Upto(n) \in Seq(Nat) /\ Len(Upto(n)) = n
    BY UptoIsSeq
  <2>2. t \in Seq(Nat) /\ Len(t) = Len(Upto(n)) + Len(s)
    BY <2>1, ConcatProperties, Zenon
  <2> HIDE DEF t
  <2> QED BY <2>1, <2>2
<1>2. Upto(n + Len(s)) \in Seq(Nat) /\ Len(Upto(n + Len(s))) = n + Len(s)
  BY UptoIsSeq
<1>3. ASSUME NEW k \in 1..Len(t) PROVE t[k] = Upto(n + Len(s))[k]
  <2>1. t[k] = IF k <= n THEN Upto(n)[k] ELSE s[k - n]
    <3>1. Upto(n) \in Seq(Nat) /\ Len(Upto(n)) = n
      BY UptoIsSeq
    <3>2. \A i \in 1..(Len(Upto(n)) + Len(s)) :
             t[i] = IF i <= Len(Upto(n)) THEN Upto(n)[i] ELSE s[i - Len(Upto(n))]
      BY <3>1, ConcatProperties
    <3>3. k \in 1..(Len(Upto(n)) + Len(s))
      BY <3>1, <1>1
    <3>4. t[k] = IF k <= Len(Upto(n)) THEN Upto(n)[k] ELSE s[k - Len(Upto(n))]
      BY <3>2, <3>3
    <3> HIDE DEF t
    <3> QED BY <3>1, <3>4
  <2>2. Upto(n + Len(s))[k] = k
    BY <1>1 DEF Upto
  <2>3. CASE k <= n
    BY <2>1, <2>2, <2>3 DEF Upto
  <2>4. CASE ~(k <= n)
    <3>1. k - n \in 1..Len(s)
      BY <2>4, <1>1
    <3>2. s[k - n] = k
      BY <3>1
    <3> QED BY <2>1, <2>2, <2>4, <3>2
  <2> QED BY <2>3, <2>4
<1> HIDE DEF t
<1>4. t = Upto(n + Len(s))
  BY <1>1, <1>2, <1>3, SeqEqual
<1> QED BY <1>4 DEF t

LEMMA UptoAppend ==
    ASSUME NEW n \in Nat
    PROVE  Append(Upto(n), n + 1) = Upto(n + 1)
<1>1. Append(Upto(n), n + 1) = Upto(n) \o <<n + 1>>
  BY SMTT(40), UptoIsSeq, AppendIsConcat
<1>2. <<n + 1>> \in Seq(Nat) /\ Len(<<n + 1>>) = 1 /\ <<n + 1>>[1] = n + 1
  OBVIOUS
<1>3. \A k \in 1..Len(<<n + 1>>) : <<n + 1>>[k] = n + k
  BY <1>2
<1>4. Upto(n) \o <<n + 1>> = Upto(n + Len(<<n + 1>>))
  BY <1>2, <1>3, UptoGrows
<1> QED BY <1>1, <1>2, <1>4

(* drainPending stops at a revision that is not held, and everything before *)
(* it is.                                                                   *)
LEMMA HoleFound ==
    ASSUME NEW b \in Nat, NEW m, GoodMirror(m, b), m.revision \in Nat
    PROVE  /\ FirstHole(m) \in Nat /\ FirstHole(m) > m.revision
           /\ ~Held(m, FirstHole(m))
           /\ \A r \in (m.revision + 1)..(FirstHole(m) - 1) : Held(m, r)
<1> DEFINE S == {k \in Nat : k > m.revision /\ ~Held(m, k)}
<1>1. \A d \in m.pending : d.revision \in Nat /\ d.revision <= b
  BY DEF GoodMirror, GoodDelta, Deltas
<1>2. b + m.revision + 1 \in S
  BY <1>1 DEF Held
<1>3. PICK h \in S : \A k \in S : h <= k
  <2> HIDE DEF S
  <2>1. S \in SUBSET Nat
    BY DEF S
  <2> QED BY <1>2, <2>1, LeastExists
<1>4. \A r \in (m.revision + 1)..(h - 1) : Held(m, r)
  <2> SUFFICES ASSUME NEW r \in (m.revision + 1)..(h - 1), ~Held(m, r) PROVE FALSE
    OBVIOUS
  <2>1. r \in S
    OBVIOUS
  <2> QED BY <2>1, <1>3
<1>5. h \in {m.revision + 1} \cup {d.revision + 1 : d \in m.pending}
  <2>1. CASE h = m.revision + 1
    BY <2>1
  <2>2. CASE h # m.revision + 1
    <3>1. Held(m, h - 1)
      BY <2>2, <1>4
    <3> QED BY <3>1, <1>1 DEF Held
  <2> QED BY <2>1, <2>2
<1>6. /\ h > m.revision /\ ~Held(m, h)
      /\ \A r \in (m.revision + 1)..(h - 1) : Held(m, r)
  BY <1>4
<1>7. /\ FirstHole(m) \in {m.revision + 1} \cup {d.revision + 1 : d \in m.pending}
      /\ FirstHole(m) > m.revision /\ ~Held(m, FirstHole(m))
      /\ \A r \in (m.revision + 1)..(FirstHole(m) - 1) : Held(m, r)
  BY <1>5, <1>6 DEF FirstHole
<1>8. FirstHole(m) \in Nat
  BY <1>7, <1>1
<1> QED BY <1>7, <1>8

LEMMA BroughtFits ==
    ASSUME NEW b \in Nat, NEW m, GoodMirror(m, b), m.revision \in Nat
    PROVE  /\ Brought(m) \in Seq(Nat)
           /\ Upto(m.revision) \o Brought(m) = Upto(FirstHole(m) - 1)
<1> DEFINE n == FirstHole(m) - 1 - m.revision
<1>1. n \in Nat /\ \A r \in (m.revision + 1)..(FirstHole(m) - 1) : Held(m, r)
  BY HoleFound
<1>2. ASSUME NEW k \in 1..n
      PROVE  (CHOOSE d \in m.pending : d.revision = m.revision + k).change = m.revision + k
  <2>1. m.revision + k \in (m.revision + 1)..(FirstHole(m) - 1)
    BY <1>1, HoleFound
  <2>2. \E d \in m.pending : d.revision = m.revision + k
    BY <2>1, <1>1 DEF Held
  <2>3. PICK e \in m.pending :
           e = (CHOOSE d \in m.pending : d.revision = m.revision + k)
           /\ e.revision = m.revision + k
    BY <2>2
  <2> QED BY <2>3 DEF GoodMirror, GoodDelta
<1>3. Brought(m) = [k \in 1..n |-> m.revision + k]
  BY <1>2 DEF Brought
<1>4. /\ Brought(m) \in Seq(Nat) /\ Len(Brought(m)) = n
      /\ \A k \in 1..Len(Brought(m)) : Brought(m)[k] = m.revision + k
  BY <1>1, <1>3
<1>5. Upto(m.revision) \o Brought(m) = Upto(m.revision + n)
  <2> HIDE DEF n
  <2> QED BY <1>1, <1>4, UptoGrows
<1>6. m.revision + n = FirstHole(m) - 1
  BY HoleFound
<1> QED BY <1>4, <1>5, <1>6

(* Fewer held events, a recovery under way: nothing else has to be shown.   *)
LEMMA FewerHeld ==
    ASSUME NEW b \in Nat, NEW m, GoodMirror(m, b), NEW n \in Mirrors,
           n.pending \in SUBSET m.pending
    PROVE  GoodMirror(n, b)
<1>1. /\ IsFiniteSet(n.pending)
      /\ Cardinality(n.pending) <= Cardinality(m.pending)
  BY FS_Subset DEF GoodMirror
<1>2. Cardinality(n.pending) \in Nat /\ Cardinality(m.pending) \in Nat
  BY <1>1, FS_CardinalityType DEF GoodMirror
<1> QED BY <1>1, <1>2, MirrorAssumption DEF GoodMirror

LEMMA RequestKeeps ==
    ASSUME NEW b \in Nat, NEW m, GoodMirror(m, b)
    PROVE  /\ GoodMirror(RequestRecovery(m), b) /\ GoodMirror(RecoverGap(m), b)
           /\ RequestRecovery(m).revision = m.revision
           /\ RecoverGap(m).revision = m.revision
BY DEF GoodMirror, RequestRecovery, RecoverGap, Mirrors

LEMMA DrainKeeps ==
    ASSUME NEW b \in Nat, NEW m, GoodMirror(m, b), m.revision \in Nat
    PROVE  /\ GoodMirror(Drain(m), b)
           /\ Drain(m).revision = FirstHole(m) - 1
           /\ Drain(m).revision \in Nat /\ Drain(m).revision >= m.revision
<1> DEFINE n == [m EXCEPT
                    !.revision = FirstHole(m) - 1,
                    !.pending = {d \in @ : d.revision \notin
                                    (m.revision + 1)..(FirstHole(m) - 1)}]
<1>1. FirstHole(m) - 1 \in Nat /\ FirstHole(m) - 1 >= m.revision
  BY HoleFound
<1>2. /\ n \in Mirrors /\ n.pending \in SUBSET m.pending
      /\ n.revision = FirstHole(m) - 1
  BY <1>1 DEF GoodMirror, Mirrors, Revisions
<1>3. Drain(m) = RecoverGap(n)
  BY DEF Drain
<1> HIDE DEF n
<1>4. GoodMirror(n, b)
  BY <1>2, FewerHeld
<1> QED BY <1>1, <1>2, <1>3, <1>4, RequestKeeps

LEMMA NewestTyped ==
    ASSUME NEW b \in Nat, NEW a \in Revisions, NEW held,
           \A d \in held : GoodDelta(d, b)
    PROVE  Newest(a, held) \in Revisions
<1> DEFINE all == {a} \cup {d.revision : d \in held}
           c == IF a <= b THEN b ELSE a
<1>1. all \in SUBSET Revisions /\ all # {} /\ c \in Nat /\ \A k \in all : k <= c
  BY DEF GoodDelta, Deltas, Revisions, None
<1>2. \E n \in all : \A k \in all : k <= n
  <2> HIDE DEF all, c
  <2> QED BY <1>1, GreatestExists
<1>3. Newest(a, held) \in all
  BY <1>2 DEF Newest
<1> QED BY <1>1, <1>3

LEMMA HoldKeeps ==
    ASSUME NEW b \in Nat, NEW m, GoodMirror(m, b), NEW d, GoodDelta(d, b)
    PROVE  GoodMirror(Hold(m, d), b) /\ Hold(m, d).revision = m.revision
<1> DEFINE held == m.pending \cup {d}
<1>1. IsFiniteSet(held) /\ \A e \in held : GoodDelta(e, b)
  BY FS_AddElement DEF GoodMirror
<1>2. m \in Mirrors /\ held \in SUBSET Deltas
  BY <1>1 DEF GoodMirror, GoodDelta
<1>3. CASE Cardinality(held) <= MaxPending
  <2>1. Hold(m, d) = [m EXCEPT !.pending = held]
    BY <1>3 DEF Hold
  <2> HIDE DEF held
  <2> QED BY <1>1, <1>2, <1>3, <2>1 DEF GoodMirror, Mirrors
<1>4. CASE ~(Cardinality(held) <= MaxPending)
  <2>1. Hold(m, d) = [m EXCEPT !.pending = {}, !.lost = Newest(m.lost, held)]
    BY <1>4 DEF Hold
  <2>2. Newest(m.lost, held) \in Revisions
    <3>1. m.lost \in Revisions
      BY <1>2 DEF Mirrors
    <3> HIDE DEF held
    <3> QED BY <3>1, <1>1, NewestTyped
  <2>3. IsFiniteSet({}) /\ Cardinality({}) = 0
    BY FS_EmptySet
  <2> HIDE DEF held
  <2>4. /\ Hold(m, d) \in Mirrors /\ Hold(m, d).pending = {}
        /\ Hold(m, d).revision = m.revision
    BY <1>2, <2>1, <2>2 DEF Mirrors
  <2> QED BY <2>3, <2>4, MirrorAssumption DEF GoodMirror
<1> QED BY <1>3, <1>4

(* Every event: a known one changes nothing, the next one is applied with   *)
(* all it unlocks, any other is held.                                       *)
LEMMA ReceiveKeeps ==
    ASSUME NEW b \in Nat, NEW m, GoodMirror(m, b), NEW d, GoodDelta(d, b),
           NEW s, GoodStore(m, s)
    PROVE  /\ GoodMirror(Receive(m, d), b)
           /\ GoodStore(Receive(m, d), ReceiveStore(m, s, d))
           /\ Ahead(m, Receive(m, d))
<1>0. m \in Mirrors /\ m.revision \in Revisions /\ d \in Deltas
  BY DEF GoodMirror, GoodDelta, Mirrors
<1>1. CASE Known(m, d)
  BY <1>1, <1>0 DEF Receive, ReceiveStore, Known, Follows, Ahead, GoodStore,
                    Deltas, Revisions, None
<1>2. CASE ~Known(m, d) /\ Follows(m, d)
  <2> DEFINE n == Stepped(m, d)
  <2>1. /\ n.revision = d.revision /\ n.pending \in SUBSET m.pending
        /\ n \in Mirrors
    BY <1>0 DEF Stepped, Mirrors, Deltas, Revisions
  <2>2. /\ m.revision \in Nat /\ d.revision = m.revision + 1
        /\ n.revision = m.revision + 1 /\ d.change = m.revision + 1
    BY <1>0, <1>2, <2>1 DEF Follows, Revisions, None, GoodDelta
  <2>3. GoodMirror(n, b) /\ n.revision \in Nat
    <3>1. n.revision \in Nat
      BY <2>1, <1>0 DEF Deltas
    <3> HIDE DEF n
    <3>2. GoodMirror(n, b)
      BY <2>1, FewerHeld
    <3> QED BY <3>1, <3>2
  <2>4. Receive(m, d) = Drain(n)
    BY <1>2 DEF Receive
  <2>5. ReceiveStore(m, s, d) = Upto(n.revision) \o Brought(n)
    <3>1. s = Upto(m.revision)
      BY <2>2 DEF GoodStore, Shows, None
    <3> QED BY <1>2, <2>2, <3>1, UptoAppend DEF ReceiveStore
  <2> HIDE DEF n
  <2>6. ReceiveStore(m, s, d) = Upto(FirstHole(n) - 1)
    BY <2>3, <2>5, BroughtFits
  <2>7. /\ GoodMirror(Drain(n), b) /\ Drain(n).revision = FirstHole(n) - 1
        /\ Drain(n).revision \in Nat /\ Drain(n).revision >= n.revision
    BY <2>3, DrainKeeps
  <2>8. GoodStore(Drain(n), ReceiveStore(m, s, d))
    BY <2>6, <2>7, UptoIsSeq DEF GoodStore, Shows
  <2>9. Ahead(m, Drain(n))
    BY <2>2, <2>7 DEF Ahead, None
  <2> QED BY <2>4, <2>7, <2>8, <2>9
<1>3. CASE ~Known(m, d) /\ ~Follows(m, d)
  <2>1. ReceiveStore(m, s, d) = s
    BY <1>3 DEF ReceiveStore
  <2>2. Receive(m, d) \in {Hold(m, d), RequestRecovery(Hold(m, d))}
    BY <1>3 DEF Receive
  <2>3. GoodMirror(Receive(m, d), b) /\ Receive(m, d).revision = m.revision
    BY <2>2, HoldKeeps, RequestKeeps
  <2> QED BY <1>0, <2>1, <2>3 DEF GoodStore, Shows, Ahead, Revisions, None
<1> QED BY <1>1, <1>2, <1>3

(* Every snapshot: an old one is turned away, any other replaces the store  *)
(* and is followed by the held events it lacks.                             *)
LEMMA ReplaceKeeps ==
    ASSUME NEW b \in Nat, NEW m, GoodMirror(m, b), NEW x, GoodSnapshot(x),
           NEW s, GoodStore(m, s)
    PROVE  /\ GoodMirror(Replace(m, x), b)
           /\ GoodStore(Replace(m, x), ReplaceStore(m, s, x))
           /\ Ahead(m, Replace(m, x))
<1>0. /\ m \in Mirrors /\ m.revision \in Revisions
      /\ x.revision \in Nat /\ x.changes = x.revision
  BY DEF GoodMirror, GoodSnapshot, Mirrors, Snapshots
<1>1. CASE IsStale(m, x)
  <2>1. ReplaceStore(m, s, x) = s /\ Replace(m, x) = RecoverGap(m)
    BY <1>1 DEF Replace, ReplaceStore
  <2>2. GoodMirror(Replace(m, x), b) /\ Replace(m, x).revision = m.revision
    BY <2>1, RequestKeeps
  <2> QED BY <1>0, <2>1, <2>2 DEF GoodStore, Shows, Ahead, Revisions, None
<1>2. CASE ~IsStale(m, x)
  <2> DEFINE n == Adopted(m, x)
  <2>1. /\ n.revision = x.revision /\ n.pending \in SUBSET m.pending
        /\ n \in Mirrors
    BY <1>0 DEF Adopted, Mirrors, Revisions
  <2>2. GoodMirror(n, b) /\ n.revision \in Nat
    BY <1>0, <2>1, FewerHeld
  <2>3. /\ Replace(m, x) = Drain(n)
        /\ ReplaceStore(m, s, x) = Upto(n.revision) \o Brought(n)
    BY <1>0, <1>2, <2>1 DEF Replace, ReplaceStore
  <2> HIDE DEF n
  <2>4. ReplaceStore(m, s, x) = Upto(FirstHole(n) - 1)
    BY <2>2, <2>3, BroughtFits
  <2>5. /\ GoodMirror(Drain(n), b) /\ Drain(n).revision = FirstHole(n) - 1
        /\ Drain(n).revision \in Nat /\ Drain(n).revision >= n.revision
    BY <2>2, DrainKeeps
  <2>6. GoodStore(Drain(n), ReplaceStore(m, s, x))
    BY <2>4, <2>5, UptoIsSeq DEF GoodStore, Shows
  <2>7. Ahead(m, Drain(n))
    BY <1>0, <1>2, <2>1, <2>5 DEF Ahead, IsStale, None, Revisions
  <2> QED BY <2>3, <2>5, <2>6, <2>7
<1> QED BY <1>1, <1>2

LEMMA RecoveryKeeps ==
    ASSUME NEW b \in Nat, NEW m, GoodMirror(m, b), NEW ok \in BOOLEAN
    PROVE  /\ GoodMirror(Attempt(m), b) /\ Attempt(m).revision = m.revision
           /\ GoodMirror(Settled(m, ok), b) /\ Settled(m, ok).revision = m.revision
<1>1. GoodMirror(Attempt(m), b) /\ Attempt(m).revision = m.revision
  BY DEF GoodMirror, Attempt, Mirrors
<1>2. GoodMirror(Settled(m, ok), b) /\ Settled(m, ok).revision = m.revision
  <2>1. /\ Settled(m, ok) \in Mirrors /\ Settled(m, ok).revision = m.revision
        /\ Settled(m, ok).pending = m.pending
    <3>1. CASE ~HasRevisionGap(m)
      BY <3>1 DEF GoodMirror, Settled, Mirrors
    <3>2. CASE HasRevisionGap(m) /\ ok
      BY <3>2 DEF GoodMirror, Settled, Mirrors
    <3>3. CASE HasRevisionGap(m) /\ ~ok
      <4>1. Settled(m, ok) = IF m.failed + 1 >= MaxAttempts
               THEN [m EXCEPT !.recovery = "idle", !.failed = 0, !.stalled = TRUE]
               ELSE [m EXCEPT !.recovery = "scheduled", !.failed = @ + 1]
        BY <3>3 DEF Settled
      <4>2. m \in Mirrors /\ m.failed + 1 \in Nat
        BY DEF GoodMirror, Mirrors
      <4>3. CASE m.failed + 1 >= MaxAttempts
        <5>1. Settled(m, ok) = [m EXCEPT !.recovery = "idle", !.failed = 0,
                                         !.stalled = TRUE]
          BY <4>1, <4>3, Zenon
        <5>2. Settled(m, ok) \in Mirrors
          <6>1. [m EXCEPT !.recovery = "idle", !.failed = 0, !.stalled = TRUE]
                  \in Mirrors
            BY <4>2 DEF Mirrors
          <6> QED BY <5>1, <6>1, Zenon
        <5>3. Settled(m, ok).revision = m.revision
          BY <4>2, <5>1 DEF Mirrors
        <5>4. Settled(m, ok).pending = m.pending
          BY <4>2, <5>1 DEF Mirrors
        <5> QED BY <5>2, <5>3, <5>4
      <4>4. CASE ~(m.failed + 1 >= MaxAttempts)
        BY <4>1, <4>2, <4>4 DEF Mirrors
      <4> QED BY <4>3, <4>4
    <3> QED BY <3>1, <3>2, <3>3
  <2> QED BY <2>1, FewerHeld
<1> QED BY <1>1, <1>2

-----------------------------------------------------------------------------
(* The whole: whatever is on its way was good when it left, and stays so.   *)

GoodMessage(e, b) ==
    /\ e \in Messages
    /\ e.kind = "event" => GoodDelta(e.delta, b)
    /\ e.kind = "snapshot" => GoodSnapshot(e.snapshot)

BackendInv ==
    /\ changes \in Nat /\ revision \in Nat /\ poisoned \in BOOLEAN
    /\ changes = IF poisoned THEN revision + 1 ELSE revision
    /\ \A d \in sending : GoodDelta(d, revision)
    /\ skipped \in SUBSET Nat

StreamInv ==
    /\ channel \in Seq(Deltas) /\ Len(channel) <= Capacity /\ lagged \in BOOLEAN
    /\ lagged => Len(channel) > 0
    /\ \A i \in 1..Len(channel) : GoodDelta(channel[i], revision)
    /\ wire \in Seq(Messages)
    /\ \A i \in 1..Len(wire) : GoodMessage(wire[i], revision)

RequestsInv ==
    \A r \in requests : r \in Requests /\ GoodSnapshot(r.snapshot)

PageInv ==
    /\ mount \in 1..MaxMounts /\ phase \in Phases
    /\ GoodMirror(mirror, revision) /\ GoodStore(mirror, store)

SyncInv == BackendInv /\ StreamInv /\ RequestsInv /\ PageInv

LEMMA InvIsTypeOK == SyncInv => TypeOK
<1> SUFFICES ASSUME SyncInv PROVE TypeOK
  OBVIOUS
<1>1. /\ changes \in Nat /\ revision \in Nat /\ poisoned \in BOOLEAN
      /\ sending \subseteq Deltas /\ skipped \subseteq Nat
  BY DEF SyncInv, BackendInv, GoodDelta
<1>2. /\ channel \in Seq(Deltas) /\ Len(channel) <= Capacity
      /\ lagged \in BOOLEAN /\ wire \in Seq(Messages)
  BY DEF SyncInv, StreamInv
<1>3. /\ mount \in 1..MaxMounts /\ phase \in Phases /\ mirror \in Mirrors
      /\ IsFiniteSet(mirror.pending) /\ Cardinality(mirror.pending) <= MaxPending
      /\ store \in Seq(Nat)
  BY DEF SyncInv, PageInv, GoodMirror, GoodStore
<1>4. requests \subseteq Requests
  BY DEF SyncInv, RequestsInv
<1> QED BY <1>1, <1>2, <1>3, <1>4 DEF TypeOK

LEMMA GoodGrows ==
    ASSUME NEW b \in Nat, NEW c \in Nat, b <= c
    PROVE  /\ \A d : GoodDelta(d, b) => GoodDelta(d, c)
           /\ \A e : GoodMessage(e, b) => GoodMessage(e, c)
           /\ \A m : GoodMirror(m, b) => GoodMirror(m, c)
<1>1. \A d : GoodDelta(d, b) => GoodDelta(d, c)
  BY DEF GoodDelta, Deltas
<1>2. \A e : GoodMessage(e, b) => GoodMessage(e, c)
  BY <1>1 DEF GoodMessage
<1>3. \A m : GoodMirror(m, b) => GoodMirror(m, c)
  BY <1>1 DEF GoodMirror
<1> QED BY <1>1, <1>2, <1>3

(* A newer revision spoils nothing that is on its way.                      *)
LEMMA StreamKept ==
    ASSUME SyncInv, revision' \in Nat, revision <= revision',
           UNCHANGED <<pump, wire>>
    PROVE  StreamInv'
<1>1. revision \in Nat
  BY DEF SyncInv, BackendInv
<1>2. \A i \in 1..Len(channel) : GoodDelta(channel[i], revision')
  BY <1>1, GoodGrows DEF SyncInv, StreamInv
<1>3. \A i \in 1..Len(wire) : GoodMessage(wire[i], revision')
  BY <1>1, GoodGrows DEF SyncInv, StreamInv
<1> QED BY <1>2, <1>3 DEF SyncInv, StreamInv, pump

LEMMA PageKept ==
    ASSUME SyncInv, revision' \in Nat, revision <= revision', UNCHANGED page
    PROVE  PageInv'
<1>1. GoodMirror(mirror, revision')
  BY GoodGrows DEF SyncInv, BackendInv, PageInv
<1> QED BY <1>1 DEF SyncInv, PageInv, page

-----------------------------------------------------------------------------
(* One lemma per part of the system: the sink, the pump, the page.          *)

LEMMA SinkKeeps ==
    ASSUME SyncInv, Reduce \/ Panic \/ Recover
    PROVE  SyncInv'
<1>1. /\ revision \in Nat /\ changes \in Nat /\ poisoned \in BOOLEAN
      /\ changes = IF poisoned THEN revision + 1 ELSE revision
      /\ skipped \in SUBSET Nat
  BY DEF SyncInv, BackendInv
<1>2. Reserved \in SUBSET Nat
  BY <1>1 DEF Reserved
<1>3. skipped' = skipped \cup Reserved
  BY DEF Reduce, Panic, Recover
<1>4. /\ changes' \in Nat /\ revision' \in Nat /\ revision <= revision'
      /\ poisoned' \in BOOLEAN
      /\ changes' = IF poisoned' THEN revision' + 1 ELSE revision'
  <2>1. /\ Recovered \in Nat /\ revision <= Recovered
        /\ Recovered = changes
    BY <1>1 DEF Recovered
  <2>2. CASE Reduce
    <3>1. changes' = changes + 1 /\ revision' = Recovered + 1 /\ poisoned' = FALSE
      BY <2>2 DEF Reduce
    <3>2. changes' = revision' /\ changes' \in Nat /\ revision <= revision'
      BY <2>1, <3>1, <1>1
    <3>3. changes' = IF poisoned' THEN revision' + 1 ELSE revision'
      BY <3>1, <3>2, Zenon
    <3> QED BY <3>1, <3>2, <3>3
  <2>3. CASE Panic
    BY <2>1, <2>3, <1>1 DEF Panic
  <2>4. CASE Recover
    BY <2>1, <2>4, <1>1 DEF Recover
  <2> QED BY <2>2, <2>3, <2>4
<1>5. \A d \in sending : GoodDelta(d, revision')
  BY <1>1, <1>4, GoodGrows DEF SyncInv, BackendInv
<1>6. \A d \in sending' : GoodDelta(d, revision')
  <2>1. CASE Reduce
    <3>1. revision' = changes' /\ revision' \in Nat
      BY <2>1, <1>1, <1>4 DEF Reduce
    <3>2. GoodDelta([revision |-> revision', change |-> changes'], revision')
      BY <3>1 DEF GoodDelta, Deltas
    <3> QED BY <2>1, <3>2, <1>5 DEF Reduce
  <2>2. CASE Panic \/ Recover
    BY <2>2, <1>5 DEF Panic, Recover
  <2> QED BY <2>1, <2>2
<1>7. BackendInv'
  BY <1>1, <1>2, <1>3, <1>4, <1>6 DEF BackendInv
<1>8. StreamInv' /\ PageInv'
  BY <1>4, StreamKept, PageKept DEF Reduce, Panic, Recover
<1>9. RequestsInv'
  BY DEF SyncInv, RequestsInv, Reduce, Panic, Recover
<1> QED BY <1>7, <1>8, <1>9 DEF SyncInv

LEMMA BackendFrame ==
    ASSUME BackendInv, UNCHANGED <<backend, skipped>>
    PROVE  BackendInv'
BY DEF BackendInv, backend

LEMMA PageFrame ==
    ASSUME PageInv, UNCHANGED <<revision, page>>
    PROVE  PageInv'
BY DEF PageInv, page

LEMMA SnapshotIsGood ==
    ASSUME SyncInv, ~poisoned
    PROVE  GoodSnapshot(Snapshot)
BY DEF SyncInv, BackendInv, GoodSnapshot, Snapshot, Snapshots

LEMMA WireGrows ==
    ASSUME SyncInv, UNCHANGED revision, NEW e, GoodMessage(e, revision),
           wire' = Append(wire, e)
    PROVE  (/\ wire \in Seq(Messages)
            /\ \A i \in 1..Len(wire) : GoodMessage(wire[i], revision))'
<1>1. wire \in Seq(Messages) /\ \A i \in 1..Len(wire) : GoodMessage(wire[i], revision)
  BY DEF SyncInv, StreamInv
<1>2. wire' \in Seq(Messages) /\ Len(wire') = Len(wire) + 1
  BY <1>1, AppendProperties DEF GoodMessage
<1>3. ASSUME NEW i \in 1..Len(wire') PROVE GoodMessage(wire'[i], revision)
  BY <1>1, <1>2, AppendProperties DEF GoodMessage
<1> QED BY <1>2, <1>3

LEMMA BroadcastKeeps ==
    ASSUME SyncInv, NEW d \in sending, Broadcast(d)
    PROVE  SyncInv'
<1>1. /\ channel \in Seq(Deltas) /\ Len(channel) <= Capacity /\ lagged \in BOOLEAN
      /\ \A i \in 1..Len(channel) : GoodDelta(channel[i], revision)
      /\ GoodDelta(d, revision) /\ d \in Deltas
  BY DEF SyncInv, StreamInv, BackendInv, GoodDelta
<1>2. /\ channel' \in Seq(Deltas) /\ Len(channel') <= Capacity
      /\ lagged' \in BOOLEAN
      /\ \A i \in 1..Len(channel') : GoodDelta(channel'[i], revision)
  <2>1. CASE Len(channel) < Capacity
    <3>1. channel' = Append(channel, d) /\ lagged' = lagged
      BY <2>1 DEF Broadcast
    <3> QED BY <2>1, <3>1, <1>1, StreamAssumption
  <2>2. CASE ~(Len(channel) < Capacity)
    <3>1. channel' = Append(Tail(channel), d) /\ lagged' = TRUE
      BY <2>2 DEF Broadcast
    <3>2. channel # <<>> /\ Len(channel) = Capacity
      BY <2>2, <1>1, StreamAssumption
    <3>3. /\ Tail(channel) \in Seq(Deltas) /\ Len(Tail(channel)) = Len(channel) - 1
          /\ \A i \in 1..Len(Tail(channel)) : Tail(channel)[i] = channel[i + 1]
      BY <3>2, <1>1, HeadTailProperties
    <3>4. \A i \in 1..Len(Tail(channel)) : GoodDelta(Tail(channel)[i], revision)
      BY <3>3, <1>1
    <3>5. /\ channel' \in Seq(Deltas) /\ Len(channel') = Len(Tail(channel)) + 1
          /\ \A i \in 1..Len(Tail(channel)) : channel'[i] = Tail(channel)[i]
          /\ channel'[Len(Tail(channel)) + 1] = d
      BY <3>1, <3>3, <1>1, AppendProperties
    <3> QED BY <3>1, <3>2, <3>3, <3>4, <3>5, <1>1, StreamAssumption
  <2> QED BY <2>1, <2>2
<1>3. StreamInv'
  BY <1>2 DEF Broadcast, SyncInv, StreamInv
<1>4. BackendInv'
  BY DEF Broadcast, SyncInv, BackendInv
<1>5. PageInv' /\ RequestsInv'
  BY PageFrame DEF Broadcast, SyncInv, RequestsInv
<1> QED BY <1>3, <1>4, <1>5 DEF SyncInv

LEMMA PumpKeeps ==
    ASSUME SyncInv, Forward \/ ForwardFails \/ Resubscribe \/ ResubscribeFails
    PROVE  SyncInv'
<1>1. /\ channel \in Seq(Deltas) /\ Len(channel) <= Capacity /\ revision \in Nat
      /\ \A i \in 1..Len(channel) : GoodDelta(channel[i], revision)
  BY DEF SyncInv, StreamInv, BackendInv
<1>2. UNCHANGED <<backend, page, requests>> /\ UNCHANGED revision
  BY DEF Forward, ForwardFails, Resubscribe, ResubscribeFails, backend
<1>3. PageInv' /\ RequestsInv'
  BY <1>2, PageFrame DEF SyncInv, RequestsInv
<1>4. ASSUME channel # <<>>, channel' = Tail(channel), lagged' = lagged
      PROVE  /\ channel' \in Seq(Deltas) /\ Len(channel') <= Capacity
             /\ lagged' \in BOOLEAN
             /\ \A i \in 1..Len(channel') : GoodDelta(channel'[i], revision)
             /\ GoodDelta(Head(channel), revision) /\ Head(channel) \in Deltas
  <2>1. /\ Tail(channel) \in Seq(Deltas) /\ Len(Tail(channel)) = Len(channel) - 1
        /\ \A i \in 1..Len(Tail(channel)) : Tail(channel)[i] = channel[i + 1]
        /\ Head(channel) = channel[1]
    BY <1>1, <1>4, HeadTailProperties
  <2>2. Len(channel) >= 1
    BY <1>1, <1>4
  <2> QED BY <2>1, <2>2, <1>1, <1>4, StreamAssumption DEF SyncInv, StreamInv, GoodDelta
<1>5. CASE Forward
  <2>1. GoodMessage([kind |-> "event", delta |-> Head(channel)], revision)
    BY <1>4, <1>5 DEF Forward, GoodMessage, Messages
  <2>2. StreamInv'
    BY <2>1, <1>2, <1>4, <1>5, WireGrows DEF Forward, StreamInv
  <2>3. BackendInv'
    BY <1>5, BackendFrame DEF Forward, SyncInv
  <2> QED BY <1>3, <2>2, <2>3 DEF SyncInv
<1>6. CASE ForwardFails
  <2>1. StreamInv'
    BY <1>2, <1>4, <1>6 DEF ForwardFails, SyncInv, StreamInv
  <2>2. BackendInv'
    BY <1>4, <1>6 DEF ForwardFails, SyncInv, BackendInv, backend, Deltas
  <2> QED BY <1>3, <2>1, <2>2 DEF SyncInv
<1>7. CASE Resubscribe
  <2>1. GoodMessage([kind |-> "snapshot", snapshot |-> Snapshot], revision)
    BY <1>7, SnapshotIsGood DEF Resubscribe, GoodMessage, GoodSnapshot, Messages
  <2>2. channel' = <<>> /\ lagged' = FALSE /\ <<>> \in Seq(Deltas) /\ Len(<<>>) = 0
    BY <1>7 DEF Resubscribe
  <2>3. (/\ wire \in Seq(Messages)
         /\ \A i \in 1..Len(wire) : GoodMessage(wire[i], revision))'
    BY <2>1, <1>2, <1>7, WireGrows DEF Resubscribe
  <2>4. (/\ channel \in Seq(Deltas) /\ Len(channel) <= Capacity
         /\ lagged \in BOOLEAN /\ (lagged => Len(channel) > 0)
         /\ \A i \in 1..Len(channel) : GoodDelta(channel[i], revision))'
    <3>1. Len(channel') = 0 /\ 0 <= Capacity
      BY <2>2, StreamAssumption
    <3>2. \A i \in 1..Len(channel') : GoodDelta(channel'[i], revision')
      BY <3>1
    <3>3. channel' \in Seq(Deltas) /\ lagged' \in BOOLEAN /\ ~lagged'
      BY <2>2
    <3> QED BY <3>1, <3>2, <3>3
  <2>5. StreamInv'
    BY <2>3, <2>4 DEF StreamInv
  <2>6. BackendInv'
    BY <1>7, BackendFrame DEF Resubscribe, SyncInv
  <2> QED BY <1>3, <2>5, <2>6 DEF SyncInv
<1>8. CASE ResubscribeFails
  <2>1. /\ channel' = <<>> /\ ~lagged' /\ <<>> \in Seq(Deltas) /\ Len(<<>>) = 0
        /\ wire' = wire /\ 0 <= Capacity
    BY <1>8, StreamAssumption DEF ResubscribeFails
  <2>2. Len(channel') = 0
    BY <2>1
  <2>3. \A i \in 1..Len(channel') : GoodDelta(channel'[i], revision')
    BY <2>2
  <2>4. channel' \in Seq(Deltas) /\ Len(channel') <= Capacity /\ lagged' \in BOOLEAN
    BY <1>8, <2>1, <2>2 DEF ResubscribeFails
  <2>5. StreamInv'
    BY <1>2, <2>1, <2>3, <2>4 DEF SyncInv, StreamInv
  <2>6. \A i \in 1..Len(channel) : channel[i].revision \in Nat
    BY <1>1 DEF GoodDelta, Deltas
  <2>7. skipped' \in SUBSET Nat
    BY <1>8, <2>6 DEF ResubscribeFails, SyncInv, BackendInv
  <2>8. BackendInv'
    BY <1>8, <2>7 DEF ResubscribeFails, SyncInv, BackendInv, backend
  <2> QED BY <1>3, <2>5, <2>8 DEF SyncInv
<1> QED BY <1>5, <1>6, <1>7, <1>8

(* What a step of the page leaves alone.                                    *)
LEMMA BehindPage ==
    ASSUME SyncInv, UNCHANGED <<backend, pump, wire, skipped>>
    PROVE  BackendInv' /\ StreamInv' /\ UNCHANGED revision
<1>1. BackendInv'
  BY BackendFrame DEF SyncInv
<1>2. UNCHANGED <<channel, lagged, wire, revision>>
  BY DEF pump, backend
<1>3. StreamInv'
  BY <1>2 DEF SyncInv, StreamInv
<1> QED BY <1>1, <1>2, <1>3

(* The mirror and its store move as one of the lemmas above says.           *)
MirrorMoves ==
    /\ GoodMirror(mirror', revision) /\ GoodStore(mirror', store')
    /\ Ahead(mirror, mirror')

LEMMA PageFacts ==
    ASSUME SyncInv
    PROVE  /\ revision \in Nat /\ mirror \in Mirrors /\ mount \in 1..MaxMounts
           /\ GoodMirror(mirror, revision) /\ GoodStore(mirror, store)
           /\ Ahead(mirror, mirror)
BY DEF SyncInv, BackendInv, PageInv, GoodMirror, Ahead, Mirrors, Revisions, None

LEMMA PageMoves ==
    ASSUME SyncInv, UNCHANGED revision, MirrorMoves,
           mount' \in 1..MaxMounts, phase' \in Phases
    PROVE  PageInv'
BY DEF MirrorMoves, PageInv

LEMMA SameMirrorMoves ==
    ASSUME SyncInv, UNCHANGED <<mirror, store>>
    PROVE  MirrorMoves
BY PageFacts DEF MirrorMoves

LEMMA DeliverKeeps ==
    ASSUME SyncInv, Deliver
    PROVE  SyncInv' /\ MirrorMoves
<1>1. /\ wire \in Seq(Messages) /\ wire # <<>>
      /\ \A i \in 1..Len(wire) : GoodMessage(wire[i], revision)
      /\ channel \in Seq(Deltas) /\ Len(channel) <= Capacity /\ lagged \in BOOLEAN
      /\ lagged => Len(channel) > 0
      /\ \A i \in 1..Len(channel) : GoodDelta(channel[i], revision)
  BY DEF SyncInv, StreamInv, Deliver
<1>2. UNCHANGED <<channel, lagged, revision, requests, mount, phase>>
  BY DEF Deliver, pump, backend
<1>3. /\ Tail(wire) \in Seq(Messages) /\ Len(Tail(wire)) = Len(wire) - 1
      /\ \A i \in 1..Len(Tail(wire)) : Tail(wire)[i] = wire[i + 1]
  BY <1>1, HeadTailProperties
<1>4. GoodMessage(Head(wire), revision)
  BY <1>1
<1>5. \A i \in 1..Len(Tail(wire)) : GoodMessage(Tail(wire)[i], revision)
  BY <1>1, <1>3
<1>6. StreamInv'
  BY <1>1, <1>2, <1>3, <1>5 DEF Deliver, StreamInv
<1>7. BackendInv' /\ RequestsInv'
  BY <1>2, BackendFrame DEF Deliver, SyncInv, RequestsInv
<1>8. MirrorMoves
  <2>1. CASE ~Listens
    BY <2>1, SameMirrorMoves DEF Deliver
  <2>2. CASE Listens /\ Head(wire).kind = "event"
    <3>1. /\ mirror' = Receive(mirror, Head(wire).delta)
          /\ store' = ReceiveStore(mirror, store, Head(wire).delta)
      BY <2>2 DEF Deliver
    <3>2. GoodDelta(Head(wire).delta, revision)
      BY <2>2, <1>4 DEF GoodMessage
    <3> QED BY <3>1, <3>2, PageFacts, ReceiveKeeps DEF MirrorMoves
  <2>3. CASE Listens /\ Head(wire).kind = "snapshot"
    <3>1. /\ mirror' = Replace(mirror, Head(wire).snapshot)
          /\ store' = ReplaceStore(mirror, store, Head(wire).snapshot)
      BY <2>3 DEF Deliver
    <3>2. GoodSnapshot(Head(wire).snapshot)
      BY <2>3, <1>4 DEF GoodMessage
    <3> QED BY <3>1, <3>2, PageFacts, ReplaceKeeps DEF MirrorMoves
  <2> QED BY <2>1, <2>2, <2>3 DEF Deliver
<1>9. PageInv'
  BY <1>2, <1>8, PageMoves DEF SyncInv, PageInv
<1> QED BY <1>6, <1>7, <1>8, <1>9 DEF SyncInv

LEMMA AskKeeps ==
    ASSUME SyncInv, NEW purpose \in {"bootstrap", "recovery"}, Ask(purpose)
    PROVE  RequestsInv'
<1> DEFINE r == [mount |-> mount, for |-> purpose, answered |-> FALSE,
                 snapshot |-> Unanswered]
<1>1. GoodSnapshot(Unanswered)
  BY DEF GoodSnapshot, Unanswered, Snapshots
<1>2. r \in Requests
  BY <1>1, PageFacts DEF Requests, GoodSnapshot
<1>3. GoodSnapshot(r.snapshot)
  BY <1>1
<1> QED BY <1>2, <1>3 DEF Ask, SyncInv, RequestsInv

(* Asking, waiting and starting over: the store stays as it is.             *)
LEMMA QuietPageKeeps ==
    ASSUME SyncInv, Listen \/ AskBootstrap \/ TimerFires \/ Remount
    PROVE  SyncInv' /\ (mount' = mount => MirrorMoves)
<1>1. UNCHANGED <<backend, pump, wire, skipped, store>>
  BY DEF Listen, AskBootstrap, TimerFires, Remount, page
<1>2. BackendInv' /\ StreamInv' /\ UNCHANGED revision
  BY <1>1, BehindPage
<1>3. RequestsInv'
  <2>1. CASE UNCHANGED requests
    BY <2>1 DEF SyncInv, RequestsInv
  <2>2. CASE Ask("bootstrap") \/ Ask("recovery")
    BY <2>2, AskKeeps
  <2> QED BY <2>1, <2>2 DEF Listen, AskBootstrap, TimerFires, Remount
<1>4. CASE Listen \/ AskBootstrap
  <2>1. UNCHANGED <<mirror, store, mount>> /\ phase' \in Phases
    BY <1>4 DEF Listen, AskBootstrap, Phases
  <2>2. MirrorMoves /\ PageInv'
    BY <2>1, <1>2, SameMirrorMoves, PageMoves, PageFacts
  <2> QED BY <2>2, <1>2, <1>3 DEF SyncInv
<1>5. CASE TimerFires
  <2>1. mirror' = Attempt(mirror) /\ UNCHANGED <<store, mount, phase>>
    BY <1>5 DEF TimerFires
  <2>2. GoodMirror(mirror', revision) /\ mirror'.revision = mirror.revision
    BY <2>1, PageFacts, RecoveryKeeps
  <2>3. MirrorMoves
    BY <2>1, <2>2, PageFacts DEF MirrorMoves, GoodStore, Shows, Ahead
  <2>4. PageInv'
    BY <2>1, <2>3, <1>2, PageMoves DEF SyncInv, PageInv
  <2> QED BY <2>3, <2>4, <1>2, <1>3 DEF SyncInv
<1>6. CASE Remount
  <2>1. /\ mirror' = Fresh /\ store' = store /\ phase' \in Phases
        /\ mount' = mount + 1 /\ mount < MaxMounts /\ mount \in 1..MaxMounts
    BY <1>6, PageFacts DEF Remount, Phases
  <2>2. /\ Fresh \in Mirrors /\ Fresh.revision = None
        /\ Fresh.pending = {}
    BY DEF Fresh, Mirrors, Revisions, None
  <2>3. GoodMirror(Fresh, revision)
    BY <2>2, FS_EmptySet, MirrorAssumption DEF GoodMirror
  <2>4. GoodStore(Fresh, store)
    BY <2>2, PageFacts DEF GoodStore, Shows
  <2>5. mount' \in 1..MaxMounts /\ mount' # mount
    BY <2>1, StreamAssumption
  <2>6. PageInv'
    BY <2>1, <2>3, <2>4, <2>5, <1>2 DEF PageInv
  <2> QED BY <2>5, <2>6, <1>2, <1>3 DEF SyncInv
<1> QED BY <1>4, <1>5, <1>6

LEMMA AnswerKeeps ==
    ASSUME SyncInv, NEW r \in requests, Answer(r)
    PROVE  SyncInv' /\ MirrorMoves
<1>1. UNCHANGED <<backend, pump, wire, page, skipped>> /\ ~poisoned
  BY DEF Answer
<1>2. BackendInv' /\ StreamInv' /\ UNCHANGED revision
  BY <1>1, BehindPage
<1>3. PageInv' /\ MirrorMoves
  BY <1>1, <1>2, PageFrame, SameMirrorMoves DEF SyncInv, page
<1>4. RequestsInv'
  <2> DEFINE a == [r EXCEPT !.answered = TRUE, !.snapshot = Snapshot]
  <2>1. r \in Requests /\ GoodSnapshot(Snapshot) /\ Snapshot \in Snapshots
    BY <1>1, SnapshotIsGood DEF SyncInv, RequestsInv, GoodSnapshot
  <2>2. a \in Requests
    BY <2>1 DEF Requests
  <2>3. a.snapshot = Snapshot
    BY <2>1 DEF Requests
  <2>4. requests' = (requests \ {r}) \cup {a}
    BY DEF Answer
  <2> HIDE DEF a
  <2> QED BY <2>1, <2>2, <2>3, <2>4 DEF SyncInv, RequestsInv
<1> QED BY <1>2, <1>3, <1>4 DEF SyncInv

LEMMA SettleKeeps ==
    ASSUME SyncInv, NEW r \in requests, Settle(r)
    PROVE  SyncInv' /\ MirrorMoves
<1>1. UNCHANGED <<backend, pump, wire, mount, skipped>>
  BY DEF Settle, Bootstrapped, BootstrapFails, RecoveryLands, RecoveryFails
<1>2. BackendInv' /\ StreamInv' /\ UNCHANGED revision
  BY <1>1, BehindPage
<1>3. requests' = requests \ {r}
  BY DEF Settle, Bootstrapped, BootstrapFails, RecoveryLands, RecoveryFails
<1>4. RequestsInv' /\ GoodSnapshot(r.snapshot)
  BY <1>3 DEF SyncInv, RequestsInv
<1>5. phase' \in Phases
  <2>1. phase' \in {phase, "bootstrapped", "failed"}
    BY DEF Settle, Bootstrapped, BootstrapFails, RecoveryLands, RecoveryFails
  <2> QED BY <2>1 DEF SyncInv, PageInv, Phases
<1>6. ASSUME UNCHANGED <<mirror, store>> PROVE MirrorMoves
  BY <1>6, SameMirrorMoves
<1>7. ASSUME mirror' = Replace(mirror, r.snapshot), Stored(r) PROVE MirrorMoves
  BY <1>7, <1>4, PageFacts, ReplaceKeeps DEF MirrorMoves, Stored
<1>8. ASSUME mirror' = Settled(Replace(mirror, r.snapshot), TRUE), Stored(r)
      PROVE  MirrorMoves
  <2> DEFINE n == Replace(mirror, r.snapshot)
  <2>1. GoodMirror(n, revision) /\ GoodStore(n, store') /\ Ahead(mirror, n)
    BY <1>8, <1>4, PageFacts, ReplaceKeeps DEF Stored
  <2> HIDE DEF n
  <2>2. GoodMirror(Settled(n, TRUE), revision) /\ Settled(n, TRUE).revision = n.revision
    BY <2>1, PageFacts, RecoveryKeeps
  <2>3. mirror' = Settled(n, TRUE)
    BY <1>8 DEF n
  <2> QED BY <2>1, <2>2, <2>3 DEF MirrorMoves, GoodStore, Shows, Ahead
<1>9. ASSUME mirror' = Settled(mirror, FALSE), UNCHANGED store PROVE MirrorMoves
  <2>1. GoodMirror(mirror', revision) /\ mirror'.revision = mirror.revision
    BY <1>9, PageFacts, RecoveryKeeps
  <2> QED BY <1>9, <2>1, PageFacts DEF MirrorMoves, GoodStore, Shows, Ahead
<1>10. MirrorMoves
  <2>1. CASE Bootstrapped(r)
    BY <2>1, <1>6, <1>7 DEF Bootstrapped
  <2>2. CASE BootstrapFails(r)
    BY <2>2, <1>6 DEF BootstrapFails
  <2>3. CASE RecoveryLands(r)
    BY <2>3, <1>6, <1>8 DEF RecoveryLands
  <2>4. CASE RecoveryFails(r)
    BY <2>4, <1>6, <1>9 DEF RecoveryFails
  <2> QED BY <2>1, <2>2, <2>3, <2>4 DEF Settle
<1>11. PageInv'
  BY <1>1, <1>2, <1>5, <1>10, PageMoves DEF SyncInv, PageInv
<1> QED BY <1>2, <1>4, <1>10, <1>11 DEF SyncInv

-----------------------------------------------------------------------------
LEMMA InitSync == Init => SyncInv
<1> SUFFICES ASSUME Init PROVE SyncInv
  OBVIOUS
<1>1. BackendInv
  BY DEF Init, BackendInv
<1>2. StreamInv
  <2>1. channel = <<>> /\ wire = <<>> /\ lagged = FALSE
    BY DEF Init
  <2>2. channel \in Seq(Deltas) /\ wire \in Seq(Messages)
    BY <2>1
  <2>3. Len(channel) = 0 /\ Len(wire) = 0
    BY <2>1
  <2>4. Len(channel) <= Capacity /\ lagged \in BOOLEAN
    <3>1. Len(channel) <= Capacity
      BY <2>3, StreamAssumption
    <3>2. lagged \in BOOLEAN
      BY <2>1
    <3> QED BY <3>1, <3>2
  <2>5. \A i \in 1..Len(channel) : GoodDelta(channel[i], revision)
    BY <2>3
  <2>6. \A i \in 1..Len(wire) : GoodMessage(wire[i], revision)
    BY <2>3
  <2> QED BY <2>1, <2>2, <2>4, <2>5, <2>6 DEF StreamInv
<1>3. RequestsInv
  BY DEF Init, RequestsInv
<1>4. PageInv
  <2>1. /\ Fresh \in Mirrors /\ Fresh.revision = None
        /\ Fresh.pending = {}
    BY DEF Fresh, Mirrors, Revisions, None
  <2>2. GoodMirror(Fresh, 0) /\ GoodStore(Fresh, <<>>)
    BY <2>1, FS_EmptySet, MirrorAssumption DEF GoodMirror, GoodStore, Shows
  <2>3. mount \in 1..MaxMounts /\ phase \in Phases
    BY StreamAssumption DEF Init, Phases
  <2> QED BY <2>2, <2>3 DEF Init, PageInv
<1> QED BY <1>1, <1>2, <1>3, <1>4 DEF SyncInv

LEMMA NextSync ==
    ASSUME SyncInv, [Next]_vars
    PROVE  SyncInv' /\ (mount' = mount => Ahead(mirror, mirror'))
<1>1. CASE Reduce \/ Panic \/ Recover
  BY <1>1, SinkKeeps, PageFacts DEF Reduce, Panic, Recover, page
<1>2. CASE \E delta \in sending : Broadcast(delta)
  BY <1>2, BroadcastKeeps, PageFacts DEF Broadcast, page
<1>3. CASE Forward \/ ForwardFails \/ Resubscribe \/ ResubscribeFails
  BY <1>3, PumpKeeps, PageFacts DEF Forward, ForwardFails, Resubscribe, ResubscribeFails, page
<1>4. CASE Deliver
  BY <1>4, DeliverKeeps DEF MirrorMoves
<1>5. CASE Listen \/ AskBootstrap \/ TimerFires \/ Remount
  BY <1>5, QuietPageKeeps DEF MirrorMoves
<1>6. CASE \E request \in requests : Answer(request) \/ Settle(request)
  BY <1>6, AnswerKeeps, SettleKeeps DEF MirrorMoves
<1>7. CASE UNCHANGED vars
  <2>1. UNCHANGED <<backend, pump, wire, page, requests, skipped>>
    BY <1>7 DEF vars
  <2>2. BackendInv' /\ StreamInv' /\ UNCHANGED revision
    BY <2>1, BehindPage
  <2>3. PageInv' /\ RequestsInv'
    BY <2>1, <2>2, PageFrame DEF SyncInv, RequestsInv
  <2>4. Ahead(mirror, mirror')
    BY <2>1, PageFacts DEF page
  <2> QED BY <2>2, <2>3, <2>4 DEF SyncInv
<1> QED BY <1>1, <1>2, <1>3, <1>4, <1>5, <1>6, <1>7 DEF Next

(* Every delta and every snapshot on its way between the sink and the page  *)
(* names the revision whose changes it brings, and the page shows the       *)
(* mirror's revision: the inductive invariant of the state stream.          *)
THEOREM StreamInvariant == Spec => []SyncInv
<1>1. Init => SyncInv
  BY InitSync
<1>2. SyncInv /\ [Next]_vars => SyncInv'
  BY NextSync
<1> QED BY <1>1, <1>2, PTL DEF Spec

(* The variables of StateMirror keep their types, the buffer of held events *)
(* its ceiling and the channel its capacity.                                *)
THEOREM StreamTypes == Spec => []TypeOK
<1>1. SyncInv => TypeOK
  BY InvIsTypeOK
<1> QED BY <1>1, StreamInvariant, PTL

(* What the page shows is the backend's state at the mirror's revision,     *)
(* whatever was lost, held back, overrun, asked twice or interrupted by a   *)
(* panicking reducer.                                                       *)
THEOREM PageShowsTheState == Spec => []MirrorIsTheState
<1>1. SyncInv => MirrorIsTheState
  BY DEF SyncInv, PageInv, GoodStore, Shows, MirrorIsTheState
<1> QED BY <1>1, StreamInvariant, PTL

(* No message and no snapshot takes a mirror back to an older revision.     *)
THEOREM NoRollback == Spec => NeverRolledBack
<1>1. SyncInv /\ [Next]_vars =>
        [mount' = mount /\ mirror.revision # None
           => mirror'.revision >= mirror.revision]_vars
  BY NextSync DEF Ahead
<1> QED BY <1>1, StreamInvariant, PTL DEF Spec, NeverRolledBack

-----------------------------------------------------------------------------
(* Gaps.  As long as no revision was withheld, the wire and what the pump   *)
(* has still to forward lead on from what the page was last sent, one       *)
(* revision at a time; only a snapshot leaps.                               *)

Mark(e) == IF e.kind = "event" THEN e.delta.revision ELSE e.snapshot.revision

WireLeads(f, w) ==
    \A i \in 1..Len(w) :
        LET p == IF i = 1 THEN f ELSE Mark(w[i - 1]) IN
        p <= Mark(w[i]) /\ (w[i].kind = "event" => Mark(w[i]) <= p + 1)
WireEnd(f, w) == IF w = <<>> THEN f ELSE Mark(w[Len(w)])

ChannelLeads(f, c) ==
    \A i \in 1..Len(c) :
        LET p == IF i = 1 THEN f ELSE c[i - 1].revision IN
        p <= c[i].revision /\ c[i].revision <= p + 1
ChannelEnd(f, c) == IF c = <<>> THEN f ELSE c[Len(c)].revision

(* The stream leads on from f.  A pump that lags will start over from a     *)
(* snapshot, which is newer than all it sent.                               *)
Flow(f) ==
    /\ f <= revision /\ \A i \in 1..Len(wire) : Mark(wire[i]) <= revision
    /\ WireLeads(f, wire)
    /\ \A d \in sending : d.revision = revision
    /\ ~lagged => LET w == WireEnd(f, wire) IN
                  /\ ChannelLeads(w, channel)
                  /\ \/ ChannelEnd(w, channel) = revision
                     \/ sending # {} /\ ChannelEnd(w, channel) = revision - 1

(* Of the revisions after a, up to f, m holds all that its buffer did not   *)
(* have to let go.                                                          *)
Covers(m, a, f) == \A r \in Nat : a < r /\ m.lost < r /\ r <= f => Held(m, r)

NothingAfter(m, f) == \A d \in m.pending : d.revision <= f

Kept(m, f) ==
    /\ NothingAfter(m, f)
    /\ m.revision # None => Covers(m, m.revision, f) /\ ~Held(m, m.revision + 1)

(* A mirror that listens holds what it was sent since the revision it has,  *)
(* or since the one its bootstrap brings.                                   *)
Covered(f) ==
    Listens =>
        /\ Kept(mirror, f)
        /\ mirror.revision = None =>
              \A q \in requests : q.answered /\ q.mount = mount
                                      => Covers(mirror, q.snapshot.revision, f)

(* A mount that does not listen yet has nothing and has asked for nothing.  *)
MountInv ==
    /\ \A q \in requests : q.mount <= mount
    /\ phase = "mounting" => mirror = Fresh /\ \A q \in requests : q.mount # mount

GapInv == skipped = {} => \E f \in Nat : Flow(f) /\ Covered(f)

(* The mirror.                                                              *)

LEMMA SameHeld ==
    ASSUME NEW b \in Nat, NEW m, GoodMirror(m, b), NEW ok \in BOOLEAN,
           NEW n \in {RequestRecovery(m), RecoverGap(m), Attempt(m), Settled(m, ok)}
    PROVE  n.revision = m.revision /\ n.pending = m.pending /\ n.lost = m.lost
<1> USE DEF GoodMirror, Mirrors
<1>1. CASE n = RequestRecovery(m) \/ n = RecoverGap(m)
  BY <1>1 DEF RequestRecovery, RecoverGap
<1>2. CASE n = Attempt(m)
  BY <1>2 DEF Attempt
<1>3. CASE n = Settled(m, ok)
  <2>1. \/ n = [m EXCEPT !.recovery = "idle", !.failed = 0]
        \/ n = [m EXCEPT !.recovery = "scheduled", !.failed = 0]
        \/ n = [m EXCEPT !.recovery = "idle", !.failed = 0, !.stalled = TRUE]
        \/ n = [m EXCEPT !.recovery = "scheduled", !.failed = @ + 1]
    BY <1>3, Zenon DEF Settled
  <2> QED BY <2>1
<1> QED BY <1>1, <1>2, <1>3

LEMMA KeptAlike ==
    ASSUME NEW m, NEW n, NEW f,
           n.revision = m.revision /\ n.pending = m.pending /\ n.lost = m.lost
    PROVE  /\ Kept(m, f) <=> Kept(n, f)
           /\ \A a : Covers(m, a, f) <=> Covers(n, a, f)
BY DEF Kept, NothingAfter, Covers, Held

LEMMA DrainKept ==
    ASSUME NEW b \in Nat, NEW m, GoodMirror(m, b), m.revision \in Nat, NEW f \in Nat,
           NothingAfter(m, f), Covers(m, m.revision, f)
    PROVE  Kept(Drain(m), f)
<1> DEFINE n == [m EXCEPT
                    !.revision = FirstHole(m) - 1,
                    !.pending = {d \in @ : d.revision \notin
                                    (m.revision + 1)..(FirstHole(m) - 1)}]
<1>1. FirstHole(m) \in Nat /\ FirstHole(m) > m.revision /\ ~Held(m, FirstHole(m))
  BY HoleFound
<1>2. /\ n \in Mirrors /\ n.pending \in SUBSET m.pending
      /\ n.revision = FirstHole(m) - 1 /\ n.lost = m.lost
      /\ \A r \in Nat : r >= FirstHole(m) => (Held(n, r) <=> Held(m, r))
  <2>1. /\ n \in Mirrors /\ n.revision = FirstHole(m) - 1 /\ n.lost = m.lost
        /\ n.pending = {d \in m.pending :
                           d.revision \notin (m.revision + 1)..(FirstHole(m) - 1)}
    <3> DEFINE rest == {d \in m.pending :
                           d.revision \notin (m.revision + 1)..(FirstHole(m) - 1)}
    <3>1. m \in Mirrors /\ rest \in SUBSET m.pending /\ FirstHole(m) - 1 \in Revisions
      BY <1>1 DEF GoodMirror, Revisions
    <3>2. n = [m EXCEPT !.revision = FirstHole(m) - 1, !.pending = rest]
      OBVIOUS
    <3> HIDE DEF n, rest
    <3>3. /\ n \in Mirrors /\ n.revision = FirstHole(m) - 1 /\ n.lost = m.lost
          /\ n.pending = rest
      BY <3>1, <3>2 DEF Mirrors
    <3> QED BY <3>3 DEF rest
  <2> HIDE DEF n
  <2>2. \A r \in Nat : r >= FirstHole(m) => r \notin (m.revision + 1)..(FirstHole(m) - 1)
    BY <1>1
  <2> QED BY <2>1, <2>2 DEF Held
<1>3. Drain(m) = RecoverGap(n)
  BY DEF Drain
<1> HIDE DEF n
<1>4. GoodMirror(n, b)
  BY <1>2, FewerHeld
<1>5. Kept(n, f)
  BY <1>1, <1>2 DEF Kept, NothingAfter, Covers
<1> QED BY <1>3, <1>4, <1>5, SameHeld, KeptAlike

LEMMA NewestIsNewest ==
    ASSUME NEW b \in Nat, NEW a \in Revisions, NEW held,
           \A d \in held : GoodDelta(d, b)
    PROVE  Newest(a, held) >= a /\ \A d \in held : Newest(a, held) >= d.revision
<1> DEFINE all == {a} \cup {d.revision : d \in held}
           c == IF a <= b THEN b ELSE a
<1>1. all \in SUBSET Revisions /\ all # {} /\ c \in Nat /\ \A k \in all : k <= c
  BY DEF GoodDelta, Deltas, Revisions, None
<1>2. \E n \in all : \A k \in all : k <= n
  <2> HIDE DEF all, c
  <2> QED BY <1>1, GreatestExists
<1>3. Newest(a, held) \in all /\ \A k \in all : k <= Newest(a, held)
  BY <1>2 DEF Newest
<1> QED BY <1>1, <1>3

(* Holding one more event: what had to be let go, lost remembers.           *)
LEMMA HoldCovers ==
    ASSUME NEW b \in Nat, NEW m, GoodMirror(m, b), NEW d, GoodDelta(d, b),
           NEW f \in Nat, NothingAfter(m, f), f <= d.revision, d.revision <= f + 1
    PROVE  /\ NothingAfter(Hold(m, d), d.revision)
           /\ \A a \in Revisions : Covers(m, a, f) => Covers(Hold(m, d), a, d.revision)
           /\ \A r \in Nat : r # d.revision /\ ~Held(m, r) => ~Held(Hold(m, d), r)
<1> DEFINE held == m.pending \cup {d}
<1>1. /\ m \in Mirrors /\ m.lost \in Revisions /\ d.revision \in Nat
      /\ \A e \in held : GoodDelta(e, b) /\ e.revision \in Nat /\ e.revision <= d.revision
  BY DEF GoodMirror, GoodDelta, Deltas, Mirrors, NothingAfter
<1>2. CASE Cardinality(held) <= MaxPending
  <2>1. Hold(m, d) = [m EXCEPT !.pending = held]
    BY <1>2 DEF Hold
  <2>2. Hold(m, d).pending = held /\ Hold(m, d).lost = m.lost
    BY <1>1, <2>1 DEF Mirrors
  <2> QED BY <1>1, <2>2 DEF NothingAfter, Covers, Held
<1>3. CASE ~(Cardinality(held) <= MaxPending)
  <2>1. Hold(m, d) = [m EXCEPT !.pending = {}, !.lost = Newest(m.lost, held)]
    BY <1>3 DEF Hold
  <2>2. Hold(m, d).pending = {} /\ Hold(m, d).lost = Newest(m.lost, held)
    BY <1>1, <2>1 DEF Mirrors
  <2>3. Newest(m.lost, held) \in Revisions /\ Newest(m.lost, held) >= d.revision
    <3>1. d \in held
      OBVIOUS
    <3> HIDE DEF held
    <3> QED BY <1>1, <3>1, NewestTyped, NewestIsNewest
  <2> QED BY <1>1, <2>2, <2>3 DEF NothingAfter, Covers, Held, Revisions, None
<1> QED BY <1>2, <1>3

(* The next event of the stream: known, applied with all it unlocks, or     *)
(* held.                                                                    *)
LEMMA ReceiveKept ==
    ASSUME NEW b \in Nat, NEW m, GoodMirror(m, b), NEW d, GoodDelta(d, b),
           NEW f \in Nat, Kept(m, f), f <= d.revision, d.revision <= f + 1
    PROVE  /\ Kept(Receive(m, d), d.revision)
           /\ m.revision = None =>
                 \A a \in Nat : Covers(m, a, f) => Covers(Receive(m, d), a, d.revision)
<1>0. m \in Mirrors /\ m.revision \in Revisions /\ d.revision \in Nat /\ NothingAfter(m, f)
  BY DEF GoodMirror, GoodDelta, Mirrors, Deltas, Kept
<1>1. CASE Known(m, d)
  <2>1. Receive(m, d) = m /\ m.revision # None /\ m.revision \in Nat /\ d.revision <= m.revision
    BY <1>0, <1>1 DEF Receive, Known, Revisions
  <2>2. NothingAfter(m, d.revision)
    BY <1>0 DEF NothingAfter, GoodMirror, GoodDelta, Deltas
  <2>3. Covers(m, m.revision, d.revision)
    BY <1>0, <2>1 DEF Covers
  <2> QED BY <2>1, <2>2, <2>3 DEF Kept
<1>2. CASE ~Known(m, d) /\ Follows(m, d)
  <2> DEFINE n == Stepped(m, d)
  <2>1. /\ n.revision = d.revision /\ n.pending = m.pending /\ n \in Mirrors
    BY <1>0 DEF Stepped, Mirrors, Revisions
  <2>2. Receive(m, d) = Drain(n) /\ m.revision # None
    BY <1>2 DEF Receive, Follows
  <2> HIDE DEF n
  <2>3. GoodMirror(n, b)
    BY <2>1, FewerHeld
  <2>4. NothingAfter(n, d.revision) /\ Covers(n, n.revision, d.revision)
    BY <1>0, <2>1, <2>3 DEF NothingAfter, Covers, GoodMirror, GoodDelta, Deltas
  <2> QED BY <1>0, <2>1, <2>2, <2>3, <2>4, DrainKept
<1>3. CASE ~Known(m, d) /\ ~Follows(m, d) /\ m.revision = None
  <2>1. Receive(m, d) = Hold(m, d) /\ Hold(m, d).revision = None
    BY <1>3, HoldKeeps DEF Receive
  <2> QED BY <1>0, <1>3, <2>1, HoldCovers DEF Kept, Revisions
<1>4. CASE ~Known(m, d) /\ ~Follows(m, d) /\ m.revision # None
  <2> DEFINE n == Hold(m, d)
  <2>1. Receive(m, d) = RequestRecovery(n)
    BY <1>4 DEF Receive
  <2>2. GoodMirror(n, b) /\ n.revision = m.revision
    BY HoldKeeps
  <2>3. m.revision + 1 \in Nat /\ m.revision + 1 # d.revision
    BY <1>0, <1>4 DEF Follows, Revisions, None
  <2>4. /\ NothingAfter(n, d.revision) /\ Covers(n, m.revision, d.revision)
        /\ ~Held(n, m.revision + 1)
    BY <1>0, <1>4, <2>3, HoldCovers DEF Kept
  <2> HIDE DEF n
  <2>5. Kept(n, d.revision)
    BY <2>2, <2>4 DEF Kept
  <2> QED BY ZenonT(40), <1>4, <2>1, <2>2, <2>5, SameHeld, KeptAlike
<1> QED BY <1>1, <1>2, <1>3, <1>4

(* A snapshot that covers what is missing, or that is turned away as old.   *)
LEMMA ReplaceKept ==
    ASSUME NEW b \in Nat, NEW m, GoodMirror(m, b), NEW x, GoodSnapshot(x), NEW f \in Nat,
           NothingAfter(m, f), m.revision # None => ~Held(m, m.revision + 1),
           IF IsStale(m, x) THEN Covers(m, m.revision, f) ELSE Covers(m, x.revision, f)
    PROVE  Kept(Replace(m, x), f) /\ Replace(m, x).revision # None
<1>0. /\ m \in Mirrors /\ m.revision \in Revisions /\ m.lost \in Revisions
      /\ x.revision \in Nat /\ \A d \in m.pending : d.revision \in Nat
  BY DEF GoodMirror, GoodSnapshot, GoodDelta, Deltas, Mirrors, Snapshots
<1>1. CASE IsStale(m, x)
  <2>1. Replace(m, x) = RecoverGap(m) /\ m.revision # None
    BY <1>1 DEF Replace, IsStale
  <2>2. Kept(m, f)
    BY <1>1 DEF Kept
  <2>3. /\ RecoverGap(m).revision = m.revision /\ RecoverGap(m).pending = m.pending
        /\ RecoverGap(m).lost = m.lost
    BY SameHeld
  <2> QED BY <2>1, <2>2, <2>3, KeptAlike
<1>2. CASE ~IsStale(m, x)
  <2> DEFINE n == Adopted(m, x)
  <2>1. /\ n.revision = x.revision /\ n.pending = {d \in m.pending : d.revision > x.revision}
        /\ n.lost = (IF m.lost <= x.revision THEN None ELSE m.lost)
        /\ n \in Mirrors
    BY <1>0 DEF Adopted, Mirrors, Revisions
  <2>2. Replace(m, x) = Drain(n)
    BY <1>2 DEF Replace
  <2> HIDE DEF n
  <2>3. GoodMirror(n, b) /\ n.revision \in Nat
    BY <1>0, <2>1, FewerHeld
  <2>4. NothingAfter(n, f)
    BY <2>1 DEF NothingAfter
  <2>5. Covers(n, n.revision, f)
    BY <1>0, <1>2, <2>1 DEF Covers, Held, Revisions, None
  <2>6. Drain(n).revision \in Nat
    BY <2>3, DrainKeeps
  <2> QED BY <2>2, <2>3, <2>4, <2>5, <2>6, DrainKept DEF None
<1> QED BY <1>1, <1>2

-----------------------------------------------------------------------------
(* The stream.                                                              *)

LEMMA WireTail ==
    ASSUME NEW f, NEW w \in Seq(Messages), w # <<>>, WireLeads(f, w)
    PROVE  /\ f <= Mark(Head(w))
           /\ Head(w).kind = "event" => Mark(Head(w)) <= f + 1
           /\ WireLeads(Mark(Head(w)), Tail(w))
           /\ WireEnd(Mark(Head(w)), Tail(w)) = WireEnd(f, w)
<1> DEFINE t == Tail(w)
<1>1. /\ t \in Seq(Messages) /\ Len(t) = Len(w) - 1 /\ Head(w) = w[1]
      /\ \A i \in 1..Len(t) : t[i] = w[i + 1]
      /\ Len(w) \in Nat /\ Len(w) >= 1
  BY HeadTailProperties
<1>2. f <= Mark(w[1]) /\ (w[1].kind = "event" => Mark(w[1]) <= f + 1)
  BY <1>1 DEF WireLeads
<1> HIDE DEF t
<1>3. WireLeads(Mark(Head(w)), t)
  <2> SUFFICES ASSUME NEW i \in 1..Len(t)
               PROVE  LET p == IF i = 1 THEN Mark(Head(w)) ELSE Mark(t[i - 1]) IN
                      p <= Mark(t[i]) /\ (t[i].kind = "event" => Mark(t[i]) <= p + 1)
    BY DEF WireLeads
  <2>1. i + 1 \in 1..Len(w) /\ i + 1 # 1 /\ (i + 1) - 1 = i
    BY <1>1
  <2>2. Mark(w[i]) <= Mark(w[i + 1]) /\ (w[i + 1].kind = "event" => Mark(w[i + 1]) <= Mark(w[i]) + 1)
    BY <2>1 DEF WireLeads
  <2>3. i # 1 => t[i - 1] = w[i]
    <3>1. i # 1 => i - 1 \in 1..Len(t) /\ (i - 1) + 1 = i
      BY <1>1
    <3> QED BY <1>1, <3>1
  <2> QED BY <1>1, <2>2, <2>3
<1>4. WireEnd(Mark(Head(w)), t) = WireEnd(f, w)
  <2>1. CASE t = <<>>
    <3>1. Len(w) = 1
      BY <1>1, <2>1
    <3> QED BY <1>1, <2>1, <3>1 DEF WireEnd
  <2>2. CASE t # <<>>
    <3>1. Len(t) \in 1..Len(t)
      BY <1>1, <2>2, EmptySeq
    <3>2. t[Len(t)] = w[Len(w)]
      BY <1>1, <3>1
    <3> QED BY <2>2, <3>2 DEF WireEnd
  <2> QED BY <2>1, <2>2
<1> QED BY <1>1, <1>2, <1>3, <1>4 DEF t

LEMMA WireAppend ==
    ASSUME NEW f, NEW w \in Seq(Messages), WireLeads(f, w), NEW e \in Messages,
           WireEnd(f, w) <= Mark(e), e.kind = "event" => Mark(e) <= WireEnd(f, w) + 1
    PROVE  WireLeads(f, Append(w, e)) /\ WireEnd(f, Append(w, e)) = Mark(e)
<1> DEFINE v == Append(w, e)
<1>1. /\ v \in Seq(Messages) /\ Len(v) = Len(w) + 1 /\ v[Len(w) + 1] = e
      /\ \A i \in 1..Len(w) : v[i] = w[i]
      /\ Len(w) \in Nat
  BY AppendProperties
<1> HIDE DEF v
<1>2. ASSUME NEW i \in 1..Len(v)
      PROVE  LET p == IF i = 1 THEN f ELSE Mark(v[i - 1]) IN
             p <= Mark(v[i]) /\ (v[i].kind = "event" => Mark(v[i]) <= p + 1)
  <2>1. CASE i \in 1..Len(w)
    <3>1. i # 1 => i - 1 \in 1..Len(w)
      BY <1>1, <2>1
    <3> QED BY <1>1, <2>1, <3>1 DEF WireLeads
  <2>2. CASE i = Len(w) + 1
    <3>1. WireEnd(f, w) = IF i = 1 THEN f ELSE Mark(v[i - 1])
      <4>1. CASE w = <<>>
        BY <2>2, <4>1 DEF WireEnd
      <4>2. CASE w # <<>>
        <5>1. Len(w) \in 1..Len(w) /\ i - 1 = Len(w) /\ i # 1
          BY <1>1, <2>2, <4>2, EmptySeq
        <5> QED BY <1>1, <4>2, <5>1 DEF WireEnd
      <4> QED BY <4>1, <4>2
    <3> QED BY <1>1, <2>2, <3>1
  <2> QED BY <1>1, <2>1, <2>2
<1>3. v # <<>> /\ v[Len(v)] = e
  BY <1>1
<1> QED BY <1>2, <1>3 DEF WireLeads, WireEnd, v

LEMMA ChannelTail ==
    ASSUME NEW f, NEW c \in Seq(Deltas), c # <<>>, ChannelLeads(f, c)
    PROVE  /\ f <= Head(c).revision /\ Head(c).revision <= f + 1
           /\ ChannelLeads(Head(c).revision, Tail(c))
           /\ ChannelEnd(Head(c).revision, Tail(c)) = ChannelEnd(f, c)
<1> DEFINE t == Tail(c)
<1>1. /\ t \in Seq(Deltas) /\ Len(t) = Len(c) - 1 /\ Head(c) = c[1]
      /\ \A i \in 1..Len(t) : t[i] = c[i + 1]
      /\ Len(c) \in Nat /\ Len(c) >= 1
  BY HeadTailProperties
<1>2. f <= c[1].revision /\ c[1].revision <= f + 1
  BY <1>1 DEF ChannelLeads
<1> HIDE DEF t
<1>3. ChannelLeads(Head(c).revision, t)
  <2> SUFFICES ASSUME NEW i \in 1..Len(t)
               PROVE  LET p == IF i = 1 THEN Head(c).revision ELSE t[i - 1].revision IN
                      p <= t[i].revision /\ t[i].revision <= p + 1
    BY DEF ChannelLeads
  <2>1. i + 1 \in 1..Len(c) /\ i + 1 # 1 /\ (i + 1) - 1 = i
    BY <1>1
  <2>2. c[i].revision <= c[i + 1].revision /\ c[i + 1].revision <= c[i].revision + 1
    BY <2>1 DEF ChannelLeads
  <2>3. i # 1 => t[i - 1] = c[i]
    <3>1. i # 1 => i - 1 \in 1..Len(t) /\ (i - 1) + 1 = i
      BY <1>1
    <3> QED BY <1>1, <3>1
  <2> QED BY <1>1, <2>2, <2>3
<1>4. ChannelEnd(Head(c).revision, t) = ChannelEnd(f, c)
  <2>1. CASE t = <<>>
    <3>1. Len(c) = 1
      BY <1>1, <2>1
    <3> QED BY <1>1, <2>1, <3>1 DEF ChannelEnd
  <2>2. CASE t # <<>>
    <3>1. Len(t) \in 1..Len(t)
      BY <1>1, <2>2, EmptySeq
    <3>2. t[Len(t)] = c[Len(c)]
      BY <1>1, <3>1
    <3> QED BY <2>2, <3>2 DEF ChannelEnd
  <2> QED BY <2>1, <2>2
<1> QED BY <1>1, <1>2, <1>3, <1>4 DEF t

LEMMA ChannelAppend ==
    ASSUME NEW f, NEW c \in Seq(Deltas), ChannelLeads(f, c), NEW d \in Deltas,
           ChannelEnd(f, c) <= d.revision, d.revision <= ChannelEnd(f, c) + 1
    PROVE  ChannelLeads(f, Append(c, d)) /\ ChannelEnd(f, Append(c, d)) = d.revision
<1> DEFINE v == Append(c, d)
<1>1. /\ v \in Seq(Deltas) /\ Len(v) = Len(c) + 1 /\ v[Len(c) + 1] = d
      /\ \A i \in 1..Len(c) : v[i] = c[i]
      /\ Len(c) \in Nat
  BY AppendProperties
<1> HIDE DEF v
<1>2. ASSUME NEW i \in 1..Len(v)
      PROVE  LET p == IF i = 1 THEN f ELSE v[i - 1].revision IN
             p <= v[i].revision /\ v[i].revision <= p + 1
  <2>1. CASE i \in 1..Len(c)
    <3>1. i # 1 => i - 1 \in 1..Len(c)
      BY <1>1, <2>1
    <3> QED BY <1>1, <2>1, <3>1 DEF ChannelLeads
  <2>2. CASE i = Len(c) + 1
    <3>1. ChannelEnd(f, c) = IF i = 1 THEN f ELSE v[i - 1].revision
      <4>1. CASE c = <<>>
        BY <2>2, <4>1 DEF ChannelEnd
      <4>2. CASE c # <<>>
        <5>1. Len(c) \in 1..Len(c) /\ i - 1 = Len(c) /\ i # 1
          BY <1>1, <2>2, <4>2, EmptySeq
        <5> QED BY <1>1, <4>2, <5>1 DEF ChannelEnd
      <4> QED BY <4>1, <4>2
    <3> QED BY <1>1, <2>2, <3>1
  <2> QED BY <1>1, <2>1, <2>2
<1>3. v # <<>> /\ v[Len(v)] = d
  BY <1>1
<1> QED BY <1>2, <1>3 DEF ChannelLeads, ChannelEnd, v

-----------------------------------------------------------------------------
(* Every step keeps both.                                                   *)

LEMMA FlowTypes ==
    ASSUME SyncInv
    PROVE  /\ revision \in Nat /\ channel \in Seq(Deltas) /\ wire \in Seq(Messages)
           /\ \A i \in 1..Len(channel) : GoodDelta(channel[i], revision)
           /\ \A i \in 1..Len(wire) : GoodMessage(wire[i], revision)
           /\ \A d \in sending : GoodDelta(d, revision) /\ d \in Deltas
BY DEF SyncInv, BackendInv, StreamInv, GoodDelta

LEMMA MarkIsNat ==
    ASSUME NEW b, NEW e, GoodMessage(e, b)
    PROVE  Mark(e) \in Nat
BY DEF GoodMessage, Mark, Messages, Deltas, Snapshots, GoodDelta, GoodSnapshot

LEMMA FlowEnds ==
    ASSUME SyncInv, NEW f \in Nat, Flow(f)
    PROVE  WireEnd(f, wire) \in Nat /\ WireEnd(f, wire) <= revision
<1>1. CASE wire = <<>>
  BY <1>1, FlowTypes DEF WireEnd, Flow
<1>2. CASE wire # <<>>
  <2>1. Len(wire) \in 1..Len(wire)
    BY <1>2, FlowTypes, EmptySeq
  <2> QED BY <1>2, <2>1, FlowTypes, MarkIsNat DEF WireEnd, Flow
<1> QED BY <1>1, <1>2

LEMMA FlowSink ==
    ASSUME SyncInv, NEW f \in Nat, Flow(f), Reduce \/ Panic \/ Recover, skipped' = {}
    PROVE  Flow(f)'
<1>1. ~poisoned
  BY DEF Reduce, Panic, Recover, Reserved
<1>2. Recovered = revision /\ revision \in Nat
  BY <1>1, FlowTypes DEF Recovered
<1>3. UNCHANGED <<channel, lagged, wire>>
  BY DEF Reduce, Panic, Recover, pump
<1>4. CASE Reduce
  <2>1. revision' = revision + 1 /\ sending = {}
        /\ sending' = {[revision |-> revision', change |-> changes']}
    BY <1>2, <1>4 DEF Reduce, SendOrderFree
  <2>2. \A d \in sending' : d.revision = revision'
    BY <2>1
  <2> QED BY <1>2, <1>3, <2>1, <2>2, FlowTypes, MarkIsNat DEF Flow
<1>5. CASE Panic
  BY <1>2, <1>3, <1>5 DEF Panic, Flow
<1>6. CASE Recover
  BY <1>1, <1>6 DEF Recover
<1> QED BY <1>4, <1>5, <1>6

LEMMA FlowBroadcast ==
    ASSUME SyncInv, NEW f \in Nat, Flow(f), NEW d \in sending, Broadcast(d)
    PROVE  Flow(f)'
<1>1. UNCHANGED <<wire, revision>> /\ sending' \in SUBSET sending
  BY DEF Broadcast
<1>2. CASE ~lagged /\ Len(channel) < Capacity
  <2> DEFINE w == WireEnd(f, wire)
  <2>1. channel' = Append(channel, d) /\ lagged' = lagged
    BY <1>2 DEF Broadcast
  <2>2. d \in Deltas /\ d.revision = revision /\ revision \in Nat /\ channel \in Seq(Deltas)
    BY FlowTypes DEF Flow
  <2>3. ChannelLeads(w, channel) /\ ChannelEnd(w, channel) \in {revision, revision - 1}
    BY <1>2 DEF Flow
  <2> HIDE DEF w
  <2>4. ChannelLeads(w, channel') /\ ChannelEnd(w, channel') = revision
    BY <2>1, <2>2, <2>3, ChannelAppend
  <2> QED BY <1>1, <2>4 DEF Flow, w
<1>3. CASE lagged \/ ~(Len(channel) < Capacity)
  <2>1. lagged'
    BY <1>3 DEF Broadcast
  <2> QED BY <1>1, <2>1 DEF Flow
<1> QED BY <1>2, <1>3

LEMMA FlowForward ==
    ASSUME SyncInv, NEW f \in Nat, Flow(f), Forward
    PROVE  Flow(f)'
<1> DEFINE w == WireEnd(f, wire)
           e == [kind |-> "event", delta |-> Head(channel)]
<1>1. /\ UNCHANGED <<revision, sending, lagged>> /\ ~lagged /\ channel # <<>>
      /\ channel' = Tail(channel) /\ wire' = Append(wire, e)
  BY DEF Forward, backend
<1>2. channel \in Seq(Deltas) /\ wire \in Seq(Messages) /\ revision \in Nat
  BY FlowTypes
<1>3. Head(channel) \in Deltas /\ GoodDelta(Head(channel), revision)
  BY <1>1, <1>2, FlowTypes DEF GoodDelta
<1>4. e \in Messages /\ e.kind = "event" /\ Mark(e) = Head(channel).revision
  BY <1>3 DEF Messages, Mark
<1>5. ChannelLeads(w, channel) /\ WireLeads(f, wire)
  BY <1>1 DEF Flow
<1> HIDE DEF w, e
<1>6. /\ w <= Mark(e) /\ Mark(e) <= w + 1
      /\ ChannelLeads(Mark(e), channel') /\ ChannelEnd(Mark(e), channel') = ChannelEnd(w, channel)
  BY <1>1, <1>2, <1>4, <1>5, ChannelTail
<1>7. WireLeads(f, wire') /\ WireEnd(f, wire') = Mark(e)
  BY <1>1, <1>2, <1>4, <1>5, <1>6, WireAppend DEF w
<1>8. ASSUME NEW i \in 1..Len(wire') PROVE Mark(wire'[i]) <= revision
  <2>1. Mark(e) <= revision
    BY <1>3, <1>4 DEF GoodDelta
  <2>2. Len(wire') = Len(wire) + 1 /\ wire'[Len(wire) + 1] = e
        /\ \A j \in 1..Len(wire) : wire'[j] = wire[j]
    BY <1>1, <1>2, <1>4, AppendProperties
  <2> QED BY <1>2, <2>1, <2>2 DEF Flow
<1> QED BY <1>1, <1>6, <1>7, <1>8 DEF Flow, w

LEMMA FlowResubscribe ==
    ASSUME SyncInv, NEW f \in Nat, Flow(f), Resubscribe
    PROVE  Flow(f)'
<1> DEFINE e == [kind |-> "snapshot", snapshot |-> Snapshot]
<1>1. /\ UNCHANGED <<revision, sending>> /\ channel' = <<>> /\ lagged' = FALSE
      /\ wire' = Append(wire, e) /\ ~poisoned
  BY DEF Resubscribe, backend
<1>2. wire \in Seq(Messages) /\ revision \in Nat
  BY FlowTypes
<1>3. e \in Messages /\ e.kind = "snapshot" /\ Mark(e) = revision
  <2>1. Snapshot \in Snapshots /\ Snapshot.revision = revision
    BY <1>1, SnapshotIsGood DEF GoodSnapshot, Snapshot
  <2> QED BY <2>1 DEF Messages, Mark
<1> HIDE DEF e
<1>4. WireLeads(f, wire') /\ WireEnd(f, wire') = revision
  BY <1>1, <1>2, <1>3, FlowEnds, WireAppend DEF Flow
<1>5. ASSUME NEW i \in 1..Len(wire') PROVE Mark(wire'[i]) <= revision
  <2>1. Len(wire') = Len(wire) + 1 /\ wire'[Len(wire) + 1] = e
        /\ \A j \in 1..Len(wire) : wire'[j] = wire[j]
    BY <1>1, <1>2, <1>3, AppendProperties
  <2> QED BY <1>2, <1>3, <2>1 DEF Flow
<1>6. ChannelLeads(revision, <<>>) /\ ChannelEnd(revision, <<>>) = revision
  BY DEF ChannelLeads, ChannelEnd
<1> QED BY <1>1, <1>4, <1>5, <1>6 DEF Flow

LEMMA FlowDeliver ==
    ASSUME SyncInv, NEW f \in Nat, Flow(f), Deliver
    PROVE  /\ Mark(Head(wire)) \in Nat /\ f <= Mark(Head(wire))
           /\ Head(wire).kind = "event" => Mark(Head(wire)) <= f + 1
           /\ GoodMessage(Head(wire), revision)
           /\ \A g : g = Mark(Head(wire)) => Flow(g)'
<1> DEFINE g == Mark(Head(wire))
<1>1. /\ UNCHANGED <<revision, sending, channel, lagged>> /\ wire # <<>> /\ wire' = Tail(wire)
  BY DEF Deliver, backend, pump
<1>2. wire \in Seq(Messages) /\ revision \in Nat
  BY FlowTypes
<1>3. /\ Len(wire) >= 1 /\ Head(wire) = wire[1] /\ Len(Tail(wire)) = Len(wire) - 1
      /\ \A i \in 1..Len(Tail(wire)) : Tail(wire)[i] = wire[i + 1]
  BY <1>1, <1>2, HeadTailProperties
<1>4. g \in Nat /\ g <= revision /\ GoodMessage(Head(wire), revision)
  BY <1>2, <1>3, FlowTypes, MarkIsNat DEF Flow
<1>5. /\ f <= g /\ (Head(wire).kind = "event" => g <= f + 1)
      /\ WireLeads(g, wire') /\ WireEnd(g, wire') = WireEnd(f, wire)
  BY <1>1, <1>2, WireTail DEF Flow
<1>6. \A i \in 1..Len(wire') : Mark(wire'[i]) <= revision
  BY <1>1, <1>2, <1>3 DEF Flow
<1> HIDE DEF g
<1>7. \A x : x = g => Flow(x)'
  BY <1>1, <1>4, <1>5, <1>6 DEF Flow
<1> QED BY <1>4, <1>5, <1>7 DEF g

LEMMA FlowFrame ==
    ASSUME NEW f, Flow(f), UNCHANGED <<backend, pump, wire>>
    PROVE  Flow(f)'
BY DEF Flow, backend, pump

LEMMA MountNext ==
    ASSUME SyncInv, MountInv, [Next]_vars
    PROVE  MountInv'
<1> USE DEF MountInv
<1>0. mount \in Nat
  BY DEF SyncInv, PageInv
<1>1. CASE UNCHANGED <<page, requests>>
  BY <1>1 DEF page
<1>2. CASE Deliver
  BY <1>2 DEF Deliver, Listens
<1>3. CASE Listen
  BY <1>3 DEF Listen
<1>4. ASSUME NEW purpose, Ask(purpose), UNCHANGED mount, phase' # "mounting" PROVE MountInv'
  BY <1>0, <1>4 DEF Ask
<1>5. CASE AskBootstrap
  BY <1>4, <1>5 DEF AskBootstrap
<1>6. CASE TimerFires
  <2>1. phase # "mounting" /\ phase' = phase /\ mount' = mount
    BY <1>6 DEF TimerFires, Fresh
  <2> QED BY <1>4, <1>6, <2>1 DEF TimerFires
<1>7. CASE Remount
  <2>1. \A q \in requests : q.mount \in Nat
    BY DEF SyncInv, RequestsInv, Requests
  <2> QED BY <1>0, <1>7, <2>1 DEF Remount
<1>8. ASSUME NEW q \in requests, Answer(q) PROVE MountInv'
  <2>1. UNCHANGED page
        /\ requests' = (requests \ {q}) \cup {[q EXCEPT !.answered = TRUE, !.snapshot = Snapshot]}
    BY <1>8 DEF Answer
  <2>2. [q EXCEPT !.answered = TRUE, !.snapshot = Snapshot].mount = q.mount
    BY DEF SyncInv, RequestsInv, Requests
  <2> QED BY <2>1, <2>2 DEF page
<1>9. ASSUME NEW q \in requests, Settle(q) PROVE MountInv'
  <2>1. requests' \in SUBSET requests /\ UNCHANGED mount
    BY <1>9 DEF Settle, Bootstrapped, BootstrapFails, RecoveryLands, RecoveryFails
  <2>2. phase' = "mounting" => phase = "mounting"
    BY <1>9 DEF Settle, Bootstrapped, BootstrapFails, RecoveryLands, RecoveryFails
  <2>3. ~Lands(q) => UNCHANGED mirror
    BY <1>9 DEF Settle, Bootstrapped, BootstrapFails, RecoveryLands, RecoveryFails
  <2> QED BY <2>1, <2>2, <2>3 DEF Lands
<1> QED BY <1>1, <1>2, <1>3, <1>5, <1>6, <1>7, <1>8, <1>9
        DEF Next, vars, Reduce, Panic, Recover, Broadcast, Forward, ForwardFails, Resubscribe,
            ResubscribeFails

LEMMA CoveredFrame ==
    ASSUME NEW f, Covered(f), UNCHANGED <<phase, mount>>, requests' \in SUBSET requests,
           UNCHANGED mirror
    PROVE  Covered(f)'
BY DEF Covered, Listens

LEMMA CoveredDeliver ==
    ASSUME SyncInv, NEW f \in Nat, Flow(f), Covered(f), Deliver,
           NEW g, g = Mark(Head(wire))
    PROVE  Covered(g)'
<1>1. /\ g \in Nat /\ f <= g /\ (Head(wire).kind = "event" => g <= f + 1)
      /\ GoodMessage(Head(wire), revision)
  BY FlowDeliver
<1>2. UNCHANGED <<phase, mount, requests>> /\ GoodMirror(mirror, revision) /\ revision \in Nat
  BY PageFacts DEF Deliver
<1>3. CASE ~Listens
  BY <1>2, <1>3 DEF Covered, Listens
<1>4. CASE Listens /\ Head(wire).kind = "event"
  <2> DEFINE d == Head(wire).delta
  <2>1. g = d.revision /\ GoodDelta(d, revision) /\ mirror' = Receive(mirror, d)
    BY <1>1, <1>4 DEF Mark, GoodMessage, Deliver
  <2>2. Kept(mirror, f)
    BY <1>4 DEF Covered
  <2> HIDE DEF d
  <2>3. /\ Kept(mirror', g)
        /\ mirror.revision = None =>
              \A a \in Nat : Covers(mirror, a, f) => Covers(mirror', a, g)
    BY <1>1, <1>2, <1>4, <2>1, <2>2, ReceiveKept
  <2>4. mirror'.revision = None => mirror.revision = None
    <3>1. GoodStore(mirror, store)
      BY PageFacts
    <3> QED BY <1>2, <2>1, <3>1, ReceiveKeeps DEF Ahead
  <2>5. \A q \in requests : q.snapshot.revision \in Nat
    BY DEF SyncInv, RequestsInv, GoodSnapshot, Snapshots
  <2> QED BY <1>2, <1>4, <2>3, <2>4, <2>5 DEF Covered, Listens
<1>5. CASE Listens /\ Head(wire).kind = "snapshot"
  <2> DEFINE x == Head(wire).snapshot
  <2>1. g = x.revision /\ GoodSnapshot(x) /\ mirror' = Replace(mirror, x)
    BY <1>1, <1>5 DEF Mark, GoodMessage, Deliver
  <2>2. Kept(mirror, f) /\ x.revision \in Nat
    BY <1>1, <1>5, <2>1 DEF Covered
  <2> HIDE DEF x
  <2>3. NothingAfter(mirror, g)
    BY <1>1, <1>2, <2>2 DEF Kept, NothingAfter, GoodMirror, GoodDelta, Deltas
  <2>4. IF IsStale(mirror, x) THEN Covers(mirror, mirror.revision, g)
                              ELSE Covers(mirror, x.revision, g)
    BY <1>2, <2>1, <2>2 DEF Covers, IsStale, GoodMirror, Mirrors, Revisions
  <2>5. Kept(mirror', g) /\ mirror'.revision # None
    BY <1>1, <1>2, <2>1, <2>2, <2>3, <2>4, ReplaceKept DEF Kept
  <2> QED BY <2>5 DEF Covered
<1> QED BY <1>3, <1>4, <1>5 DEF Deliver

LEMMA CoveredReplace ==
    ASSUME SyncInv, NEW f \in Nat, Covered(f), Listens, NEW q \in requests, q.answered,
           q.mount = mount
    PROVE  /\ Kept(Replace(mirror, q.snapshot), f)
           /\ Replace(mirror, q.snapshot).revision # None
           /\ GoodMirror(Replace(mirror, q.snapshot), revision)
<1> DEFINE x == q.snapshot
<1>1. GoodMirror(mirror, revision) /\ GoodStore(mirror, store) /\ revision \in Nat
  BY PageFacts
<1>2. GoodSnapshot(x) /\ x.revision \in Nat
  BY DEF SyncInv, RequestsInv, GoodSnapshot, Snapshots
<1>3. /\ NothingAfter(mirror, f)
      /\ mirror.revision # None => /\ Covers(mirror, mirror.revision, f)
                                   /\ ~Held(mirror, mirror.revision + 1)
      /\ mirror.revision = None => Covers(mirror, x.revision, f)
  BY DEF Covered, Kept
<1> HIDE DEF x
<1>4. IF IsStale(mirror, x) THEN Covers(mirror, mirror.revision, f)
                            ELSE Covers(mirror, x.revision, f)
  BY <1>1, <1>2, <1>3 DEF IsStale, Covers, GoodMirror, Mirrors, Revisions
<1>5. GoodMirror(Replace(mirror, x), revision)
  BY <1>1, <1>2, ReplaceKeeps
<1>6. Kept(Replace(mirror, x), f) /\ Replace(mirror, x).revision # None
  BY <1>1, <1>2, <1>3, <1>4, ReplaceKept
<1> QED BY <1>5, <1>6 DEF x

LEMMA CoveredPage ==
    ASSUME SyncInv, MountInv, NEW f \in Nat, Flow(f), Covered(f),
           \/ Listen \/ AskBootstrap \/ TimerFires \/ Remount
           \/ \E q \in requests : Answer(q) \/ Settle(q)
    PROVE  Covered(f)'
<1>0. GoodMirror(mirror, revision) /\ revision \in Nat /\ f <= revision
  BY PageFacts DEF Flow
<1>1. CASE Listen
  <2>1. mirror' = Fresh /\ UNCHANGED <<mount, requests>> /\ \A q \in requests : q.mount # mount
    BY <1>1 DEF Listen, MountInv
  <2> QED BY <2>1 DEF Covered, Kept, NothingAfter, Fresh
<1>2. ASSUME NEW purpose, Ask(purpose), UNCHANGED mount, Listens' => Listens,
             mirror'.revision = mirror.revision /\ mirror'.pending = mirror.pending
             /\ mirror'.lost = mirror.lost
      PROVE  Covered(f)'
  <2>1. \A q \in requests' : q.answered => q \in requests
    BY <1>2 DEF Ask
  <2>2. Kept(mirror, f) <=> Kept(mirror', f)
    BY <1>2, KeptAlike
  <2>3. \A a : Covers(mirror, a, f) <=> Covers(mirror', a, f)
    BY <1>2, KeptAlike
  <2> QED BY <1>2, <2>1, <2>2, <2>3 DEF Covered
<1>3. CASE AskBootstrap
  <2>1. Listens /\ UNCHANGED <<mount, mirror>> /\ Ask("bootstrap")
    BY <1>3 DEF AskBootstrap, Listens
  <2> QED BY <1>2, <2>1
<1>4. CASE TimerFires
  <2>1. mirror' = Attempt(mirror) /\ UNCHANGED <<mount, phase>>
    BY <1>4 DEF TimerFires
  <2>2. /\ mirror'.revision = mirror.revision /\ mirror'.pending = mirror.pending
        /\ mirror'.lost = mirror.lost
    BY <1>0, <2>1, SameHeld
  <2>3. CASE Ask("recovery")
    BY <1>2, <2>1, <2>2, <2>3 DEF Listens
  <2>4. CASE UNCHANGED requests
    <3>1. Kept(mirror, f) <=> Kept(mirror', f)
      BY <2>2, KeptAlike
    <3>2. \A a : Covers(mirror, a, f) <=> Covers(mirror', a, f)
      BY <2>2, KeptAlike
    <3> QED BY <2>1, <2>2, <2>4, <3>1, <3>2 DEF Covered, Listens
  <2> QED BY <1>4, <2>3, <2>4 DEF TimerFires
<1>5. CASE Remount
  BY <1>5 DEF Remount, Covered, Listens
<1>6. ASSUME NEW q \in requests, Answer(q) PROVE Covered(f)'
  <2> DEFINE a == [q EXCEPT !.answered = TRUE, !.snapshot = Snapshot]
  <2>1. UNCHANGED <<mount, phase, mirror>> /\ requests' = (requests \ {q}) \cup {a}
    BY <1>6 DEF Answer, page
  <2>2. a.snapshot.revision = revision
    BY DEF SyncInv, RequestsInv, Requests, Snapshot
  <2> HIDE DEF a
  <2>3. Covers(mirror, a.snapshot.revision, f)
    BY <1>0, <2>2 DEF Covers
  <2> QED BY <2>1, <2>3 DEF Covered, Listens
<1>7. ASSUME NEW q \in requests, Settle(q) PROVE Covered(f)'
  <2>1. UNCHANGED mount /\ requests' \in SUBSET requests
    BY <1>7 DEF Settle, Bootstrapped, BootstrapFails, RecoveryLands, RecoveryFails
  <2>2. Lands(q) => Listens
    BY DEF MountInv, Lands, Listens
  <2>3. Listens' => Listens
    BY <1>7, <2>2 DEF Settle, Bootstrapped, BootstrapFails, RecoveryLands, RecoveryFails, Listens
  <2>4. CASE UNCHANGED mirror
    BY <2>1, <2>3, <2>4 DEF Covered
  <2>5. CASE Lands(q) /\ mirror' = Settled(mirror, FALSE)
    <3>1. /\ mirror'.revision = mirror.revision /\ mirror'.pending = mirror.pending
          /\ mirror'.lost = mirror.lost
      BY <1>0, <2>5, SameHeld
    <3>2. Kept(mirror, f) <=> Kept(mirror', f)
      BY <3>1, KeptAlike
    <3>3. \A a : Covers(mirror, a, f) <=> Covers(mirror', a, f)
      BY <3>1, KeptAlike
    <3> QED BY <2>1, <2>3, <3>1, <3>2, <3>3 DEF Covered
  <2>6. CASE Lands(q) /\ q.answered
             /\ mirror' \in {Replace(mirror, q.snapshot),
                             Settled(Replace(mirror, q.snapshot), TRUE)}
    <3> DEFINE n == Replace(mirror, q.snapshot)
    <3>1. Kept(n, f) /\ n.revision # None /\ GoodMirror(n, revision)
      BY <2>2, <2>6, CoveredReplace DEF Lands
    <3>2. mirror' \in {n, Settled(n, TRUE)}
      BY <2>6
    <3> HIDE DEF n
    <3>3. mirror'.revision = n.revision /\ mirror'.pending = n.pending /\ mirror'.lost = n.lost
      BY ZenonT(40), <1>0, <3>1, <3>2, SameHeld
    <3>4. Kept(mirror', f)
      BY <3>1, <3>3, KeptAlike
    <3> QED BY <3>1, <3>3, <3>4 DEF Covered
  <2> QED BY <1>7, <2>4, <2>5, <2>6
          DEF Settle, Bootstrapped, BootstrapFails, RecoveryLands, RecoveryFails
<1> QED BY <1>1, <1>3, <1>4, <1>5, <1>6, <1>7

LEMMA GapNext ==
    ASSUME SyncInv, MountInv, GapInv, [Next]_vars
    PROVE  GapInv'
<1> SUFFICES ASSUME skipped' = {} PROVE \E f \in Nat : Flow(f)' /\ Covered(f)'
  BY SMTT(40) DEF GapInv
<1>0. ResubscribeFails => 1 \in 1..Len(channel) /\ channel[1].revision \in skipped'
  <2>1. lagged => Len(channel) > 0 /\ Len(channel) \in Nat
    BY DEF SyncInv, StreamInv
  <2>2. lagged => 1 \in 1..Len(channel)
    BY <2>1
  <2>3. ResubscribeFails => /\ lagged
                            /\ \A i \in 1..Len(channel) : channel[i].revision \in skipped'
    BY Zenon DEF ResubscribeFails
  <2> QED BY <2>2, <2>3
<1>1. skipped = {} /\ ~ForwardFails /\ ~ResubscribeFails
  BY ZenonT(40), <1>0
     DEF Next, vars, Reduce, Panic, Recover, Broadcast, Forward, ForwardFails, Resubscribe,
         ResubscribeFails,
         Deliver, Listen, AskBootstrap, TimerFires, Answer, Settle, Bootstrapped, BootstrapFails,
         RecoveryLands, RecoveryFails, Remount
<1>2. PICK f \in Nat : Flow(f) /\ Covered(f)
  BY <1>1 DEF GapInv
<1>3. CASE UNCHANGED <<page, requests>>
  <2>1. Covered(f)'
    BY <1>2, <1>3, CoveredFrame DEF page
  <2>2. CASE Reduce \/ Panic \/ Recover
    BY <1>2, <2>1, <2>2, FlowSink
  <2>3. CASE \E d \in sending : Broadcast(d)
    BY <1>2, <2>1, <2>3, FlowBroadcast
  <2>4. CASE Forward
    BY <1>2, <2>1, <2>4, FlowForward
  <2>5. CASE Resubscribe
    BY <1>2, <2>1, <2>5, FlowResubscribe
  <2>6. CASE UNCHANGED <<backend, pump, wire>>
    BY <1>2, <2>1, <2>6, FlowFrame
  <2>7. CASE Deliver
    BY <1>2, <2>7, FlowDeliver, CoveredDeliver
  <2> QED BY <1>1, <2>2, <2>3, <2>4, <2>5, <2>6, <2>7
          DEF Next, vars, Listen, AskBootstrap, TimerFires, Answer, Settle, Bootstrapped,
              BootstrapFails, RecoveryLands, RecoveryFails, Remount
<1>4. CASE Deliver
  BY <1>2, <1>4, FlowDeliver, CoveredDeliver
<1>5. CASE \/ Listen \/ AskBootstrap \/ TimerFires \/ Remount
           \/ \E q \in requests : Answer(q) \/ Settle(q)
  <2>1. UNCHANGED <<backend, pump, wire>>
    BY <1>5 DEF Listen, AskBootstrap, TimerFires, Remount, Answer, Settle, Bootstrapped,
                BootstrapFails, RecoveryLands, RecoveryFails
  <2> QED BY SMTT(40), <1>2, <1>5, <2>1, FlowFrame, CoveredPage
<1> QED BY <1>1, <1>3, <1>4, <1>5
        DEF Next, vars, Reduce, Panic, Recover, Broadcast, Forward, Resubscribe

LEMMA InitGap == Init => MountInv /\ GapInv
<1> SUFFICES ASSUME Init PROVE MountInv /\ GapInv
  OBVIOUS
<1>1. MountInv
  BY DEF Init, MountInv
<1>2. Flow(0)
  <2>1. wire = <<>> /\ channel = <<>> /\ sending = {} /\ revision = 0
    BY DEF Init
  <2>2. WireLeads(0, <<>>) /\ WireEnd(0, <<>>) = 0
    BY DEF WireLeads, WireEnd
  <2>3. ChannelLeads(0, <<>>) /\ ChannelEnd(0, <<>>) = 0
    BY DEF ChannelLeads, ChannelEnd
  <2> QED BY <2>1, <2>2, <2>3 DEF Flow
<1>3. Covered(0)
  BY DEF Init, Covered, Listens
<1> QED BY <1>1, <1>2, <1>3 DEF GapInv

(* A gap costs a whole state only when a revision really was withheld: what *)
(* the sink sends under its order and the pump resumes from one boundary    *)
(* reaches a mirror without a hole, however many requests, overruns and     *)
(* remounts come between.                                                   *)
THEOREM GapsAreNeverInvented == Spec => []GapsAreReal
<1>1. SyncInv /\ MountInv /\ GapInv => GapsAreReal
  <2> SUFFICES ASSUME SyncInv, MountInv, GapInv, HasRevisionGap(mirror), skipped = {},
                      mirror.lost = None
               PROVE  FALSE
    BY DEF GapsAreReal
  <2>1. mirror.revision \in Nat
    BY PageFacts DEF HasRevisionGap, Mirrors, Revisions
  <2>2. PICK f \in Nat : Covered(f)
    BY DEF GapInv
  <2>3. Listens
    BY <2>1 DEF MountInv, Listens, Fresh, None
  <2>4. /\ NothingAfter(mirror, f) /\ Covers(mirror, mirror.revision, f)
        /\ ~Held(mirror, mirror.revision + 1)
    BY <2>1, <2>2, <2>3 DEF Covered, Kept, None
  <2>5. PICK d \in mirror.pending : d.revision > mirror.revision + 1
    BY <2>1 DEF HasRevisionGap, None
  <2>6. d.revision \in Nat
    BY PageFacts DEF GoodMirror, GoodDelta, Deltas
  <2> QED BY <2>1, <2>4, <2>5, <2>6 DEF NothingAfter, Covers, None
<1> QED BY <1>1, InitGap, MountNext, GapNext, StreamInvariant, PTL DEF Spec

=============================================================================
