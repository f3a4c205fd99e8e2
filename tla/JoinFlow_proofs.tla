--------------------------- MODULE JoinFlow_proofs ---------------------------
(* Theorems about JoinFlow for any set of games and any number of           *)
(* operations. The type invariant is proved, for any events, with the two   *)
(* facts it needs (FlowInv): ids are handed out in order, and only joins,   *)
(* which name a game, are owed an answer. The second half is about the      *)
(* answers: given-up ones are told apart (GivenInv), and whoever waits for  *)
(* one has it coming (CountInv, WaitInv).                                   *)
EXTENDS JoinFlow, FiniteSetTheorems, SequenceTheorems, TLAPS

-----------------------------------------------------------------------------
(* What most steps have in common.                                          *)

SameNames == \A o \in Ops : flow'[o].kind = flow[o].kind /\ flow'[o].game = flow[o].game
SlotKept == slot' \in {slot, NoClaim, [slot EXCEPT !.sent = TRUE]}
Starting(q) == Len(q) \in Nat /\ \A i \in 1..Len(q) : i \in 1..Len(owed) /\ q[i] = owed[i]
OwedKept == \/ owed' = owed \/ owed' = <<>>
            \/ Starting(owed')
            \/ owed # <<>> /\ owed' = Tail(owed)

(* What is owed still, and the oldest of it.                                *)
LEMMA OldestAre ==
    ASSUME LinkTypeOK
    PROVE  /\ Starting(owed) /\ Starting(<<>>) /\ Len(owed) \in Nat
           /\ \A n \in 0..Len(owed) : /\ Starting(SubSeq(owed, 1, n))
                                      /\ SubSeq(owed, 1, n) \in Seq(Ops)
           /\ SubSeq(owed, 1, 0) = <<>> /\ SubSeq(owed, 1, Len(owed)) = owed
<1>1. owed \in Seq(Ops) /\ Len(owed) \in Nat
  BY DEF LinkTypeOK
<1>2. Starting(owed) /\ Starting(<<>>)
  BY <1>1 DEF Starting
<1>3. ASSUME NEW n \in 0..Len(owed)
      PROVE  /\ SubSeq(owed, 1, n) \in Seq(Ops) /\ Len(SubSeq(owed, 1, n)) = n
             /\ \A i \in 1..n : SubSeq(owed, 1, n)[i] = owed[i]
  <2>1. n \in Int /\ 1 \in Int /\ n - 1 + 1 = n /\ (~(1 <= n) => n = 0) /\ n \in Nat
    BY <1>1
  <2>2. \A i \in 1..n : owed[i] \in Ops
    BY <1>1
  <2>3. /\ SubSeq(owed, 1, n) \in Seq(Ops)
        /\ Len(SubSeq(owed, 1, n)) = IF 1 <= n THEN n - 1 + 1 ELSE 0
        /\ \A i \in 1 .. n - 1 + 1 : SubSeq(owed, 1, n)[i] = owed[1 + i - 1]
    BY <2>1, <2>2, SubSeqProperties
  <2>4. \A i \in 1..n : 1 + i - 1 = i
    BY <2>1
  <2> QED BY <2>1, <2>3, <2>4
<1>4. \A n \in 0..Len(owed) : Starting(SubSeq(owed, 1, n)) /\ SubSeq(owed, 1, n) \in Seq(Ops)
  BY <1>1, <1>3 DEF Starting
<1>5. 0 \in 0..Len(owed) /\ Len(owed) \in 0..Len(owed)
  BY <1>1
<1>6. SubSeq(owed, 1, 0) = <<>>
  BY SubSeqEmpty
<1>7. SubSeq(owed, 1, Len(owed)) = owed
  BY <1>1, <1>3, <1>5, SeqEqual
<1> QED BY <1>1, <1>2, <1>4, <1>6, <1>7

LEMMA OwedStays == LinkTypeOK /\ owed' \in {owed, <<>>} => OwedKept
BY OldestAre DEF OwedKept

LEMMA OpsFrame == OperationsTypeOK /\ UNCHANGED opVars => OperationsTypeOK'
BY DEF OperationsTypeOK, opVars

LEMMA LoopFrame == LoopTypeOK /\ UNCHANGED loopVars => LoopTypeOK'
BY DEF LoopTypeOK, loopVars

LEMMA LinkFrame == LinkTypeOK /\ UNCHANGED linkVars => LinkTypeOK'
BY DEF LinkTypeOK, linkVars

LEMMA FlowFrame == FlowTypeOK /\ UNCHANGED flowVars => FlowTypeOK' /\ SameNames
BY DEF FlowTypeOK, flowVars, SameNames

(* A flow that only moves on keeps its kind and its game.                   *)
LEMMA GotoTypes ==
    ASSUME FlowTypeOK, NEW op \in Ops, NEW pc \in FlowPcs, Goto(op, pc), UNCHANGED click
    PROVE  FlowTypeOK' /\ SameNames
BY DEF FlowTypeOK, Goto, SameNames

LEMMA IdsKept ==
    ASSUME IdsInOrder, OperationsTypeOK, LoopTypeOK, SameNames, SlotKept,
           current'.op <= issued, UNCHANGED <<issued, launch>>
    PROVE  IdsInOrder'
<1> USE DEF OperationsTypeOK, LoopTypeOK, IdsInOrder, SameNames, Ops, NoOp
<1>1. (\A o \in Ops : flow[o].kind = "none" <=> o > issued)'
  OBVIOUS
<1>2. (current.op <= issued)'
  OBVIOUS
<1>3. (launch # NoOp => flow[launch].kind = "launch")'
  OBVIOUS
<1>4. (slot.op # NoOp => flow[slot.op].kind = "join" /\ flow[slot.op].game = slot.game)'
  BY DEF SlotKept, NoClaim, Claims
<1> QED BY <1>1, <1>2, <1>3, <1>4

LEMMA JoinsKept ==
    ASSUME JoinsNameGames, LinkTypeOK, SameNames, OwedKept
    PROVE  JoinsNameGames'
<1> USE DEF LinkTypeOK, JoinsNameGames, SameNames
<1>1. CASE Starting(owed')
  BY <1>1 DEF Starting
<1>2. CASE owed # <<>> /\ owed' = Tail(owed)
  BY <1>2
<1>3. CASE owed' = owed
  BY <1>3
<1>4. CASE owed' = <<>>
  BY <1>4
<1> QED BY <1>1, <1>2, <1>3, <1>4 DEF OwedKept

(* Put together: a step that starts no flow and issues no id keeps FlowInv  *)
(* as soon as its variables keep their types.                               *)
LEMMA PlainStep ==
    ASSUME FlowInv, SameNames, SlotKept, OwedKept, UNCHANGED <<issued, launch>>,
           current'.op <= issued,
           OperationsTypeOK', FlowTypeOK', LoopTypeOK', LinkTypeOK',
           user' \in UserStates, running' \in 0..MaxOps, screen' \in Screens,
           gaveUp' \subseteq Ops, muddled' \subseteq Games
    PROVE  FlowInv'
BY IdsKept, JoinsKept DEF FlowInv, TypeOK

LEMMA MarkedClaim ==
    ASSUME slot \in Claims, slot.op # NoOp
    PROVE  [slot EXCEPT !.sent = TRUE] \in Claims
<1>1. slot # NoClaim
  BY DEF NoClaim
<1>2. slot \in [op : Ops, game : Games, sent : BOOLEAN]
  BY <1>1 DEF Claims
<1>3. [slot EXCEPT !.sent = TRUE] \in [op : Ops, game : Games, sent : BOOLEAN]
  BY <1>2
<1> QED BY <1>3 DEF Claims

(* A step of one flow that leaves the shared record, the loop and the link  *)
(* alone.                                                                   *)
LEMMA GotoOnly ==
    ASSUME FlowInv, NEW op \in Ops, NEW pc \in FlowPcs, Goto(op, pc),
           UNCHANGED <<opVars, click, user, loopVars, linkVars, history>>,
           running' \in 0..MaxOps, screen' \in Screens
    PROVE  FlowInv'
<1>1. OperationsTypeOK' /\ LoopTypeOK' /\ LinkTypeOK'
  BY OpsFrame, LoopFrame, LinkFrame DEF FlowInv, TypeOK
<1>2. FlowTypeOK' /\ SameNames
  BY GotoTypes DEF FlowInv, TypeOK
<1>3. SlotKept /\ OwedKept /\ UNCHANGED <<issued, launch>> /\ current'.op <= issued
  BY DEF SlotKept, OwedKept, opVars, linkVars, loopVars, FlowInv, IdsInOrder
<1>4. user' \in UserStates /\ gaveUp' \subseteq Ops /\ muddled' \subseteq Games
  BY DEF FlowInv, TypeOK, history
<1> QED BY <1>1, <1>2, <1>3, <1>4, PlainStep

(* A step that leaves the flows and the shared record alone.                *)
LEMMA QuietStep ==
    ASSUME FlowInv, UNCHANGED <<opVars, flowVars, launch>>, LoopTypeOK', LinkTypeOK', OwedKept,
           user' \in UserStates, running' \in 0..MaxOps, screen' \in Screens,
           gaveUp' \subseteq Ops, muddled' \subseteq Games
    PROVE  FlowInv'
<1>1. OperationsTypeOK' /\ FlowTypeOK' /\ SameNames
  BY OpsFrame, FlowFrame DEF FlowInv, TypeOK
<1>2. SlotKept /\ UNCHANGED issued /\ current'.op <= issued
  BY DEF SlotKept, opVars, FlowInv, IdsInOrder
<1> QED BY <1>1, <1>2, PlainStep

(* cancel and release_any_join on the shared record.                        *)
LEMMA CancelStep ==
    ASSUME FlowInv, Cancel, UNCHANGED <<issued, slot, calledOff>>
    PROVE  OperationsTypeOK' /\ current'.op <= issued /\ SlotKept
BY DEF FlowInv, TypeOK, OperationsTypeOK, Cancel, IdsInOrder, SlotKept

LEMMA ForgetStep ==
    ASSUME FlowInv, ReleaseAnyJoin, UNCHANGED <<issued, current>>
    PROVE  OperationsTypeOK' /\ current'.op <= issued /\ SlotKept
BY DEF FlowInv, TypeOK, OperationsTypeOK, ReleaseAnyJoin, IdsInOrder, SlotKept, Claims

LEMMA OldestIsKept ==
    ASSUME FlowInv, CloseWire
    PROVE  /\ Starting(owed') /\ owed' \in Seq(Ops)
           /\ ~wire => owed' = owed
           /\ gaveUp' = gaveUp \ (Requests(owed) \ Requests(owed'))
<1>1. LinkTypeOK
  BY DEF FlowInv, TypeOK
<1>2. PICK n \in Unread : KeepFirst(n)
  BY DEF CloseWire
<1>3. n \in 0..Len(owed) /\ (~wire => n = Len(owed))
  BY <1>1, OldestAre DEF Unread, LinkTypeOK
<1> QED BY <1>1, <1>2, <1>3, OldestAre DEF KeepFirst

LEMMA ClosedWire ==
    ASSUME FlowInv, CloseWire
    PROVE  LinkTypeOK' /\ OwedKept /\ gaveUp' \subseteq Ops /\ muddled' \subseteq Games
<1>1. wire' \in BOOLEAN
  BY DEF CloseWire
<1>2. status' = status /\ muddled' = muddled /\ gaveUp' \subseteq gaveUp
  BY DEF CloseWire, KeepFirst
<1>3. Starting(owed') /\ owed' \in Seq(Ops)
  BY OldestIsKept
<1>4. LinkTypeOK'
  BY <1>1, <1>2, <1>3 DEF FlowInv, TypeOK, LinkTypeOK
<1> QED BY <1>2, <1>3, <1>4 DEF FlowInv, TypeOK, OwedKept

(* Only games can be muddled.                                               *)
LEMMA OrphansNameGames ==
    ASSUME LinkTypeOK, JoinsNameGames, NEW q, q = owed \/ (owed # <<>> /\ q = Tail(owed)),
           NEW claim, NEW given
    PROVE  Orphans(q, claim, given) \subseteq Games
<1>1. \A i \in 1..Len(q) : flow[q[i]].game \in Games
  <2>1. \A i \in 1..Len(owed) : owed[i] \in Ops /\ flow[owed[i]].game \in Games
    BY DEF LinkTypeOK, JoinsNameGames
  <2>2. CASE owed # <<>> /\ q = Tail(owed)
    BY <2>1, <2>2 DEF LinkTypeOK
  <2> QED BY <2>1, <2>2
<1> QED BY <1>1 DEF Orphans, Requests

LEMMA ScreenTypes ==
    ASSUME NEW at \in {"Idle", "Joining", "Launched", "Preparing", "InGame",
                       "NeedsMods", "Failed", "LaunchFailed"},
           NEW g \in Games \cup {NoGame}, NEW prepared \in BOOLEAN
    PROVE  Screen(at, g, prepared) \in Screens
BY DEF Screen, Screens

LEMMA IdleScreen == Idle \in Screens
BY ScreenTypes DEF Idle

LEMMA InitInv == Init => FlowInv
<1> SUFFICES ASSUME Init PROVE FlowInv
  OBVIOUS
<1> USE DEF Init, OperationsInit, Ops, NoOp, NoOrder, NoFlow
<1>1. OperationsTypeOK
  BY OperationsAssumption DEF OperationsTypeOK, NoClaim, Claims
<1>2. FlowTypeOK
  BY DEF FlowTypeOK, FlowPcs
<1>3. LoopTypeOK
  <2>1. order \in [game : Games \cup {NoGame}, prepared : BOOLEAN]
    OBVIOUS
  <2>2. launchOff \in BOOLEAN
    OBVIOUS
  <2>3. launch \in 0..MaxOps
    BY OperationsAssumption
  <2>4. loop = "off" /\ term = "no"
    OBVIOUS
  <2>5. /\ loop \in {"off", "reading", "taken", "announced", "issued", "begun",
                      "refused", "ending", "closing", "closed"}
        /\ term \in {"no", "kill", "release", "emit"}
    BY <2>4
  <2> QED BY <2>1, <2>2, <2>3, <2>5, Zenon DEF LoopTypeOK
<1>4. LinkTypeOK
  <2>1. wire \in BOOLEAN
    OBVIOUS
  <2>2. status \in {"Disconnected", "Connecting", "Connected"} /\ owed \in Seq(Ops)
    OBVIOUS
  <2> QED BY <2>1, <2>2, Zenon DEF LinkTypeOK
<1>5. screen \in Screens
  BY ScreenTypes DEF Idle
<1>6. running \in 0..MaxOps
  BY OperationsAssumption
<1>7. IdsInOrder
  BY OperationsAssumption DEF IdsInOrder, NoClaim
<1>8. JoinsNameGames
  BY DEF JoinsNameGames
<1> QED BY <1>1, <1>2, <1>3, <1>4, <1>5, <1>6, <1>7, <1>8 DEF FlowInv, TypeOK, UserStates

-----------------------------------------------------------------------------
(* The steps of a flow, one by one.                                         *)

(* An operation becomes current.                                            *)
LEMMA BecomesCurrent ==
    ASSUME FlowInv, NEW op \in Ops, flow[op].kind # "none", MakeCurrent(op),
           NEW pc \in FlowPcs, Goto(op, pc),
           UNCHANGED <<issued, slot, calledOff, click, user, loopVars, running, linkVars,
                       screen, history>>
    PROVE  FlowInv'
<1>1. current'.op <= issued /\ OperationsTypeOK' /\ SlotKept
  BY DEF FlowInv, TypeOK, IdsInOrder, OperationsTypeOK, MakeCurrent, Ops, SlotKept
<1>2. LoopTypeOK' /\ LinkTypeOK' /\ OwedKept
  BY LoopFrame, LinkFrame DEF FlowInv, TypeOK, OwedKept, linkVars
<1>3. FlowTypeOK' /\ SameNames
  BY GotoTypes DEF FlowInv, TypeOK
<1> QED BY <1>1, <1>2, <1>3, PlainStep DEF FlowInv, TypeOK, loopVars, history

(* A flow moves on and frees or marks its claim.                            *)
LEMMA ClaimStep ==
    ASSUME FlowInv, NEW op \in Ops, NEW pc \in FlowPcs, Goto(op, pc),
           slot' \in {slot, NoClaim} \/ MarkSent(op),
           UNCHANGED <<issued, current, calledOff, click, user, loopVars, running, linkVars,
                       screen, history>>
    PROVE  FlowInv'
<1>1. slot' \in Claims /\ SlotKept
  <2>1. CASE slot' \in {slot, NoClaim}
    BY <2>1 DEF FlowInv, TypeOK, OperationsTypeOK, Claims, SlotKept
  <2>2. CASE MarkSent(op)
    BY <2>2, MarkedClaim
       DEF FlowInv, TypeOK, OperationsTypeOK, MarkSent, MayMarkSent, Ops, NoOp, SlotKept
  <2> QED BY <2>1, <2>2
<1>2. OperationsTypeOK' /\ current'.op <= issued
  BY <1>1 DEF FlowInv, TypeOK, OperationsTypeOK, IdsInOrder
<1>3. LoopTypeOK' /\ LinkTypeOK' /\ OwedKept
  BY LoopFrame, LinkFrame DEF FlowInv, TypeOK, OwedKept, linkVars
<1>4. FlowTypeOK' /\ SameNames
  BY GotoTypes DEF FlowInv, TypeOK
<1> QED BY <1>1, <1>2, <1>3, <1>4, PlainStep DEF FlowInv, TypeOK, loopVars, history

LEMMA SendJoinInv ==
    ASSUME FlowInv, NEW op \in Ops, SendJoin(op)
    PROVE  FlowInv'
<1>1. \E pc \in FlowPcs : Goto(op, pc)
  BY DEF SendJoin, FlowPcs
<1>2. FlowTypeOK' /\ SameNames
  BY <1>1, GotoTypes DEF FlowInv, TypeOK, SendJoin
<1>3. OperationsTypeOK' /\ LoopTypeOK'
  BY OpsFrame, LoopFrame DEF FlowInv, TypeOK, SendJoin
<1>4. /\ IdsInOrder'
      /\ \A o \in Ops : flow'[o].kind = "join" => flow'[o].game \in Games
  <2>1. SlotKept /\ current'.op <= issued /\ UNCHANGED <<issued, launch>>
    BY DEF FlowInv, IdsInOrder, SlotKept, opVars, loopVars, SendJoin
  <2>2. IdsInOrder'
    BY <1>2, <2>1, IdsKept DEF FlowInv, TypeOK
  <2> QED BY <1>2, <2>2 DEF FlowInv, JoinsNameGames, SameNames
<1>5. UNCHANGED <<wire, status>> /\ (owed' = owed \/ owed' = Append(owed, op))
      /\ muddled' \subseteq muddled \cup {flow[op].game}
  BY DEF SendJoin
<1>6. flow[op].kind = "join" /\ flow[op].game \in Games
  BY DEF SendJoin, At, FlowInv, JoinsNameGames
<1>7. LinkTypeOK' /\ \A i \in 1..Len(owed') : flow'[owed'[i]].kind = "join"
  <2>1. owed' \in Seq(Ops)
    BY <1>5 DEF FlowInv, TypeOK, LinkTypeOK
  <2>2. \A i \in 1..Len(owed') : flow[owed'[i]].kind = "join"
    BY <1>5, <1>6 DEF FlowInv, TypeOK, LinkTypeOK, JoinsNameGames
  <2> QED BY <1>2, <1>5, <2>1, <2>2 DEF FlowInv, TypeOK, LinkTypeOK, SameNames
<1>8. muddled' \subseteq Games
  BY <1>5, <1>6 DEF FlowInv, TypeOK
<1> QED BY <1>2, <1>3, <1>4, <1>7, <1>8 DEF FlowInv, TypeOK, JoinsNameGames, SendJoin

LEMMA JoinInv ==
    ASSUME FlowInv, NEW op \in Ops, JoinStep(op)
    PROVE  FlowInv'
<1> USE DEF FlowPcs
<1>0. flow[op].game \in Games \cup {NoGame} /\ running \in 0..MaxOps /\ screen \in Screens
  BY DEF FlowInv, TypeOK, FlowTypeOK
<1>1. CASE JoinBecomesCurrent(op)
  BY <1>1, BecomesCurrent DEF JoinBecomesCurrent, At
<1>2. CASE RefuseJoin(op)
  BY <1>0, <1>2, GotoOnly DEF RefuseJoin
<1>3. CASE ShowJoining(op)
  BY <1>0, <1>3, GotoOnly, ScreenTypes DEF ShowJoining, Joining
<1>4. CASE ShowPrepared(op)
  BY <1>0, <1>4, GotoOnly, ScreenTypes DEF ShowPrepared, Joining
<1>5. CASE Mark(op)
  BY <1>5, ClaimStep DEF Mark, ReleaseJoin
<1>6. CASE SendJoin(op)
  BY <1>6, SendJoinInv
<1>7. CASE Release(op)
  BY <1>7, ClaimStep DEF Release, ReleaseJoin
<1>8. CASE Report(op)
  BY <1>0, <1>8, GotoOnly, ScreenTypes DEF Report
<1> QED BY <1>1, <1>2, <1>3, <1>4, <1>5, <1>6, <1>7, <1>8 DEF JoinStep

LEMMA PreparationInv ==
    ASSUME FlowInv, NEW op \in Ops, PreparationStep(op)
    PROVE  FlowInv'
<1> USE DEF FlowPcs
<1>0. running \in 0..MaxOps /\ screen \in Screens
  BY DEF FlowInv, TypeOK
<1>1. CASE CheckNarration(op)
  BY <1>0, <1>1, GotoOnly DEF CheckNarration
<1>2. CASE Narrate(op)
  BY <1>0, <1>2, GotoOnly, ScreenTypes DEF Narrate
<1>3. CASE PreparationEnds(op)
  <2>1. \E pc \in FlowPcs : Goto(op, pc)
    BY <1>3 DEF PreparationEnds, AfterPreparation
  <2> QED BY <1>3, <2>1, ClaimStep DEF PreparationEnds, ReleaseJoin
<1> QED BY <1>1, <1>2, <1>3 DEF PreparationStep

LEMMA HostInv ==
    ASSUME FlowInv, NEW op \in Ops, HostStep(op)
    PROVE  FlowInv'
<1> USE DEF FlowPcs
<1>0. running \in 0..MaxOps /\ screen \in Screens
  BY DEF FlowInv, TypeOK
<1>1. CASE HostBecomesCurrent(op)
  BY <1>1, BecomesCurrent DEF HostBecomesCurrent, At
<1>2. CASE HostUpdated(op)
  BY <1>0, <1>2, GotoOnly DEF HostUpdated
<1>3. CASE SendHost(op)
  BY <1>0, <1>3, GotoOnly, ScreenTypes DEF SendHost
<1> QED BY <1>1, <1>2, <1>3 DEF HostStep

LEMMA AbandonedScreen ==
    ASSUME screen \in Screens, NEW g \in Games \cup {NoGame}
    PROVE  OnAbandoned(screen, g) \in Screens
BY ScreenTypes DEF OnAbandoned, Idle

LEMMA LinkLostScreen == screen \in Screens => OnLinkLost(screen) \in Screens
BY ScreenTypes DEF OnLinkLost, Idle

LEMMA CancelledScreen == screen \in Screens => OnJoinCancelled(screen) \in Screens
BY ScreenTypes DEF OnJoinCancelled, Idle

(* The launch is over: background.launch is empty again.                    *)
LEMMA LaunchReportsInv ==
    ASSUME FlowInv, NEW op \in Ops, LaunchReports(op)
    PROVE  FlowInv'
<1>1. FlowTypeOK' /\ SameNames
  BY GotoTypes DEF FlowInv, TypeOK, LaunchReports, FlowPcs
<1>2. OperationsTypeOK' /\ LinkTypeOK'
  BY OpsFrame, LinkFrame DEF FlowInv, TypeOK, LaunchReports
<1>3. launch' = NoOp /\ launchOff' = FALSE /\ term' \in {term, "kill"} /\ UNCHANGED <<loop, order>>
  BY DEF LaunchReports
<1>4. LoopTypeOK'
  <2>1. launchOff' \in BOOLEAN
    BY <1>3
  <2>2. launch' \in 0..MaxOps /\ term' \in {"no", "kill", "release", "emit"}
    BY <1>3, OperationsAssumption DEF FlowInv, TypeOK, LoopTypeOK, NoOp
  <2> QED BY <1>3, <2>1, <2>2 DEF FlowInv, TypeOK, LoopTypeOK
<1>5. screen' \in Screens
  <2>1. flow[op].game \in Games \cup {NoGame} /\ screen \in Screens
    BY DEF FlowInv, TypeOK, FlowTypeOK
  <2> QED BY <2>1, AbandonedScreen, ScreenTypes DEF LaunchReports
<1>6. IdsInOrder'
  <2>1. \A o \in Ops : flow'[o].kind = "none" <=> o > issued'
    BY <1>1 DEF FlowInv, IdsInOrder, SameNames, LaunchReports, opVars
  <2>2. slot'.op # NoOp => flow'[slot'.op].kind = "join" /\ flow'[slot'.op].game = slot'.game
    BY <1>1, <1>2 DEF FlowInv, TypeOK, OperationsTypeOK, Claims, NoClaim, IdsInOrder, SameNames,
                      LaunchReports, opVars
  <2> QED BY <1>3, <2>1, <2>2 DEF FlowInv, IdsInOrder, LaunchReports, opVars
<1>7. JoinsNameGames'
  BY <1>1, JoinsKept DEF FlowInv, TypeOK, OwedKept, LaunchReports, linkVars
<1> QED BY <1>1, <1>2, <1>4, <1>5, <1>6, <1>7 DEF FlowInv, TypeOK, LaunchReports, history

LEMMA LaunchFlows ==
    ASSUME FlowInv, NEW op \in Ops, LaunchStep(op)
    PROVE  FlowInv'
<1> USE DEF FlowPcs
<1>0. running \in 0..MaxOps /\ screen \in Screens /\ op \in 0..MaxOps
  BY DEF FlowInv, TypeOK, Ops
<1>1. CASE StartLaunch(op)
  BY <1>0, <1>1, GotoOnly DEF StartLaunch
<1>2. CASE AdapterStarted(op)
  BY <1>0, <1>2, GotoOnly DEF AdapterStarted
<1>3. CASE GameSpawned(op)
  BY <1>0, <1>3, GotoOnly DEF GameSpawned
<1>4. CASE LaunchReports(op)
  BY <1>4, LaunchReportsInv
<1> QED BY <1>1, <1>2, <1>3, <1>4 DEF LaunchStep

-----------------------------------------------------------------------------
(* A flow starts.                                                           *)

LEMMA NewFlow ==
    ASSUME FlowInv, NEW op, NEW kind \in {"join", "host"}, NEW g \in Games \cup {NoGame},
           NEW pc \in FlowPcs, Issue(op), StartFlow(op, kind, g, pc), kind = "join" => g \in Games,
           \/ UNCHANGED slot
           \/ kind = "join" /\ slot' = [op |-> op, game |-> g, sent |-> FALSE],
           click' \in Games \cup {NoGame},
           UNCHANGED <<current, calledOff, user, loopVars, running, linkVars, screen, history>>
    PROVE  FlowInv'
<1>1. op \in Ops /\ op = issued + 1 /\ issued' = op
  BY DEF Issue
<1>2. /\ flow'[op] = [kind |-> kind, game |-> g, pc |-> pc]
      /\ \A o \in Ops \ {op} : flow'[o] = flow[o]
      /\ FlowTypeOK'
  BY <1>1 DEF FlowInv, TypeOK, FlowTypeOK, StartFlow
<1>3. flow[op].kind = "none"
  BY <1>1 DEF FlowInv, TypeOK, OperationsTypeOK, IdsInOrder, Ops
<1>4. slot' \in Claims
  <2>1. CASE UNCHANGED slot
    BY <2>1 DEF FlowInv, TypeOK, OperationsTypeOK
  <2>2. CASE kind = "join" /\ slot' = [op |-> op, game |-> g, sent |-> FALSE]
    BY <1>1, <2>2 DEF Claims
  <2> QED BY <2>1, <2>2
<1>5. OperationsTypeOK' /\ LoopTypeOK' /\ LinkTypeOK'
  BY <1>1, <1>4, LoopFrame, LinkFrame DEF FlowInv, TypeOK, OperationsTypeOK, Ops
<1>6. IdsInOrder'
  <2>1. \A o \in Ops : flow'[o].kind = "none" <=> o > issued'
    BY <1>1, <1>2, <1>3 DEF FlowInv, TypeOK, OperationsTypeOK, IdsInOrder, Ops
  <2>2. current'.op <= issued'
    BY <1>1 DEF FlowInv, TypeOK, OperationsTypeOK, IdsInOrder
  <2>3. launch' # NoOp => flow'[launch'].kind = "launch"
    BY <1>2, <1>3 DEF FlowInv, TypeOK, LoopTypeOK, IdsInOrder, loopVars, Ops, NoOp
  <2>4. slot'.op # NoOp => flow'[slot'.op].kind = "join" /\ flow'[slot'.op].game = slot'.game
    BY <1>2, <1>3 DEF FlowInv, TypeOK, OperationsTypeOK, Claims, NoClaim, IdsInOrder
  <2> QED BY <2>1, <2>2, <2>3, <2>4 DEF IdsInOrder
<1>7. JoinsNameGames'
  BY <1>2, <1>3 DEF FlowInv, TypeOK, LinkTypeOK, JoinsNameGames, linkVars
<1> QED BY <1>2, <1>5, <1>6, <1>7 DEF FlowInv, TypeOK, history

LEMMA BeginJoinInv ==
    ASSUME FlowInv, NEW op \in Ops, BeginJoin(op)
    PROVE  FlowInv'
<1>1. click \in Games /\ click' \in Games \cup {NoGame}
  BY DEF BeginJoin, FlowInv, TypeOK, FlowTypeOK
<1> QED BY <1>1, NewFlow DEF BeginJoin, TakeSlot, FlowPcs

LEMMA BeginHostInv ==
    ASSUME FlowInv, NEW op \in Ops, BeginHost(op)
    PROVE  FlowInv'
<1>1. click' \in Games \cup {NoGame}
  BY DEF BeginHost, FlowInv, TypeOK, FlowTypeOK
<1> QED BY <1>1, NewFlow DEF BeginHost, FlowPcs

LEMMA IssueLaunchInv ==
    ASSUME FlowInv, NEW op \in Ops, IssueLaunch(op)
    PROVE  FlowInv'
<1>1. op = issued + 1 /\ issued' = op /\ launch' = op /\ launchOff' = FALSE /\ loop' = "issued"
      /\ UNCHANGED <<order, term>>
  BY DEF IssueLaunch, Issue
<1>2. PICK pc \in LaunchEntry :
        flow' = [o \in Ops |->
            IF o = op THEN [kind |-> "launch", game |-> order.game, pc |-> pc]
            ELSE IF o = launch THEN [flow[o] EXCEPT !.pc = "done"] ELSE flow[o]]
  BY DEF IssueLaunch
<1>3. pc \in FlowPcs /\ order.game \in Games \cup {NoGame}
  BY DEF LaunchEntry, FlowPcs, FlowInv, TypeOK, LoopTypeOK
<1>4. /\ flow'[op].kind = "launch"
      /\ \A o \in Ops \ {op} : flow'[o].kind = flow[o].kind /\ flow'[o].game = flow[o].game
  BY <1>2 DEF FlowInv, TypeOK, FlowTypeOK
<1>5. FlowTypeOK'
  BY <1>2, <1>3 DEF FlowInv, TypeOK, FlowTypeOK, FlowPcs, IssueLaunch
<1>6. flow[op].kind = "none"
  BY <1>1 DEF FlowInv, TypeOK, OperationsTypeOK, IdsInOrder, Ops
<1>7. OperationsTypeOK' /\ LinkTypeOK'
  BY <1>1, LinkFrame DEF FlowInv, TypeOK, OperationsTypeOK, Ops, IssueLaunch
<1>8. LoopTypeOK'
  <2>1. launchOff' \in BOOLEAN
    BY <1>1
  <2>2. launch' \in 0..MaxOps
    BY <1>1 DEF Ops
  <2>3. loop' \in {"off", "reading", "taken", "announced", "issued", "begun",
                   "refused", "ending", "closing", "closed"}
    BY <1>1
  <2> QED BY <1>1, <2>1, <2>2, <2>3, Zenon DEF FlowInv, TypeOK, LoopTypeOK
<1>9. IdsInOrder'
  <2>1. \A o \in Ops : flow'[o].kind = "none" <=> o > issued'
    BY <1>1, <1>4, <1>6 DEF FlowInv, TypeOK, OperationsTypeOK, IdsInOrder, Ops
  <2>2. current'.op <= issued'
    BY <1>1 DEF FlowInv, TypeOK, OperationsTypeOK, IdsInOrder, IssueLaunch
  <2>3. slot'.op # NoOp => flow'[slot'.op].kind = "join" /\ flow'[slot'.op].game = slot'.game
    BY <1>4, <1>6 DEF FlowInv, TypeOK, OperationsTypeOK, Claims, NoClaim, IdsInOrder, IssueLaunch
  <2> QED BY <1>1, <1>4, <2>1, <2>2, <2>3 DEF IdsInOrder
<1>10. JoinsNameGames'
  BY <1>4, <1>6 DEF FlowInv, TypeOK, LinkTypeOK, JoinsNameGames, linkVars, IssueLaunch
<1> QED BY <1>5, <1>7, <1>8, <1>9, <1>10 DEF FlowInv, TypeOK, IssueLaunch, history

-----------------------------------------------------------------------------
(* The user's commands and terminate_game.                                  *)

LEMMA UserInv ==
    ASSUME FlowInv, UserStep
    PROVE  FlowInv'
<1> USE DEF UserStates
<1>0. /\ running \in 0..MaxOps /\ NoOp \in 0..MaxOps /\ screen \in Screens
      /\ gaveUp \subseteq Ops /\ muddled \subseteq Games
  BY OperationsAssumption DEF FlowInv, TypeOK, NoOp
<1>1. CASE CancelFlags \/ UserKills \/ HangUpFlags
  <2>1. Cancel /\ UNCHANGED <<issued, slot, calledOff, flowVars, loopVars, linkVars, screen, history>>
        /\ user' \in UserStates /\ running' \in {running, NoOp}
    BY <1>1 DEF CancelFlags, UserKills, HangUpFlags, TerminateKills
  <2>2. OperationsTypeOK' /\ current'.op <= issued /\ SlotKept
    BY <2>1, CancelStep
  <2>3. FlowTypeOK' /\ SameNames /\ LoopTypeOK' /\ LinkTypeOK' /\ OwedKept
    BY <2>1, FlowFrame, LoopFrame, LinkFrame DEF FlowInv, TypeOK, OwedKept, linkVars
  <2> QED BY <1>0, <2>1, <2>2, <2>3, PlainStep DEF FlowInv, TypeOK, loopVars, history
<1>2. CASE CancelFrees
  <2>1. slot' = NoClaim /\ calledOff' \in [Games -> Nat]
    BY <1>2 DEF CancelFrees, CallOffJoin, FlowInv, TypeOK, OperationsTypeOK, Claims, NoClaim
  <2>2. OperationsTypeOK' /\ current'.op <= issued /\ SlotKept
    BY <1>2, <2>1 DEF CancelFrees, FlowInv, TypeOK, OperationsTypeOK, Claims, IdsInOrder, SlotKept
  <2>3. gaveUp' \subseteq Ops
    <3>1. CASE slot = NoClaim
      BY <1>0, <1>2, <3>1 DEF CancelFrees, NoClaim
    <3>2. CASE slot.op \in Ops
      BY <1>0, <1>2, <3>2 DEF CancelFrees
    <3> QED BY <3>1, <3>2 DEF FlowInv, TypeOK, OperationsTypeOK, Claims
  <2>4. FlowTypeOK' /\ SameNames /\ LoopTypeOK' /\ LinkTypeOK' /\ OwedKept
    BY <1>2, FlowFrame, LoopFrame, LinkFrame DEF CancelFrees, FlowInv, TypeOK, OwedKept, linkVars
  <2> QED BY <1>0, <1>2, <2>2, <2>3, <2>4, PlainStep DEF CancelFrees, loopVars
<1>3. CASE UserForgets \/ HangUpForgets
  <2>1. ForgetJoins /\ UNCHANGED <<issued, current, flowVars, loopVars, running, linkVars, screen>>
        /\ user' \in UserStates
    BY <1>3 DEF UserForgets, HangUpForgets
  <2>2. gaveUp' \subseteq Ops /\ muddled' \subseteq Games
    BY <1>0, <2>1, OrphansNameGames DEF ForgetJoins, FlowInv, TypeOK
  <2>3. OperationsTypeOK' /\ current'.op <= issued /\ SlotKept
    BY <2>1, ForgetStep DEF ForgetJoins
  <2>4. FlowTypeOK' /\ SameNames /\ LoopTypeOK' /\ LinkTypeOK' /\ OwedKept
    BY <2>1, FlowFrame, LoopFrame, LinkFrame DEF FlowInv, TypeOK, OwedKept, linkVars
  <2> QED BY <1>0, <2>1, <2>2, <2>3, <2>4, PlainStep DEF loopVars
<1>4. CASE CancelShows
  BY <1>0, <1>4, CancelledScreen, LoopFrame, LinkFrame, QuietStep
     DEF CancelShows, FlowInv, TypeOK, OwedKept, linkVars, loopVars, history
<1>5. CASE UserTerminated
  BY <1>0, <1>5, IdleScreen, LoopFrame, LinkFrame, QuietStep
     DEF UserTerminated, FlowInv, TypeOK, OwedKept, linkVars, loopVars, history
<1>6. CASE HangUpCloses
  BY <1>0, <1>6, ClosedWire, LoopFrame, QuietStep DEF HangUpCloses, FlowInv, TypeOK, loopVars
<1> QED BY <1>1, <1>2, <1>3, <1>4, <1>5, <1>6 DEF UserStep

-----------------------------------------------------------------------------
(* The update loop and the server's answers.                                *)

LEMMA LoopInv ==
    ASSUME FlowInv, LoopStep
    PROVE  FlowInv'
<1>0. /\ running \in 0..MaxOps /\ NoOp \in 0..MaxOps /\ screen \in Screens /\ user \in UserStates
      /\ gaveUp \subseteq Ops /\ muddled \subseteq Games
      /\ order.game \in Games \cup {NoGame}
  BY OperationsAssumption DEF FlowInv, TypeOK, LoopTypeOK, NoOp
<1>00. NoOrder \in [game : Games \cup {NoGame}, prepared : BOOLEAN]
  BY DEF NoOrder
<1>1. CASE LoopKills \/ TeardownFlags
  <2>1. Cancel /\ UNCHANGED <<issued, slot, calledOff, flowVars, user, order, launch, launchOff,
                             linkVars, screen, history>>
        /\ running' \in {running, NoOp}
    BY <1>1 DEF LoopKills, TeardownFlags, TerminateKills
  <2>2. OperationsTypeOK' /\ current'.op <= issued /\ SlotKept
    BY <2>1, CancelStep
  <2>3. LoopTypeOK'
    BY <1>1, <2>1 DEF FlowInv, TypeOK, LoopTypeOK, LoopKills, TeardownFlags
  <2>4. FlowTypeOK' /\ SameNames /\ LinkTypeOK' /\ OwedKept
    BY <2>1, FlowFrame, LinkFrame DEF FlowInv, TypeOK, OwedKept, linkVars
  <2> QED BY <1>0, <2>1, <2>2, <2>3, <2>4, PlainStep DEF history
<1>2. CASE LoopForgets \/ TeardownForgets
  <2>1. ForgetJoins /\ UNCHANGED <<issued, current, flowVars, user, order, launch, launchOff, running,
                                  linkVars, screen>>
    BY <1>2 DEF LoopForgets, TeardownForgets
  <2>2. gaveUp' \subseteq Ops /\ muddled' \subseteq Games
    BY <1>0, <2>1, OrphansNameGames DEF ForgetJoins, FlowInv, TypeOK
  <2>3. OperationsTypeOK' /\ current'.op <= issued /\ SlotKept
    BY <2>1, ForgetStep DEF ForgetJoins
  <2>4. LoopTypeOK'
    BY <1>2, <2>1 DEF FlowInv, TypeOK, LoopTypeOK, LoopForgets, TeardownForgets
  <2>5. FlowTypeOK' /\ SameNames /\ LinkTypeOK' /\ OwedKept
    BY <2>1, FlowFrame, LinkFrame DEF FlowInv, TypeOK, OwedKept, linkVars
  <2> QED BY <1>0, <2>1, <2>2, <2>3, <2>4, <2>5, PlainStep
<1>3. CASE LoopTerminated
  <2>1. LoopTypeOK'
    BY <1>3 DEF FlowInv, TypeOK, LoopTypeOK, LoopTerminated
  <2> QED BY <1>0, <1>3, <2>1, IdleScreen, LinkFrame, QuietStep
          DEF LoopTerminated, FlowInv, TypeOK, OwedKept, linkVars, history
<1>4. CASE ShowRefusal
  <2>1. LoopTypeOK'
    BY <1>00, <1>4 DEF FlowInv, TypeOK, LoopTypeOK, ShowRefusal
  <2> QED BY <1>0, <1>4, <2>1, ScreenTypes, LinkFrame, QuietStep
          DEF ShowRefusal, FlowInv, TypeOK, OwedKept, linkVars, history
<1>5. CASE AnnounceLaunch
  <2>1. (screen = Joining(order.game, TRUE)) \in BOOLEAN
    OBVIOUS
  <2>2. order' \in [game : Games \cup {NoGame}, prepared : BOOLEAN]
    BY <1>5, <2>1 DEF FlowInv, TypeOK, LoopTypeOK, AnnounceLaunch
  <2>3. LoopTypeOK'
    BY <1>5, <2>2 DEF FlowInv, TypeOK, LoopTypeOK, AnnounceLaunch
  <2> QED BY <1>0, <1>5, <2>3, ScreenTypes, LinkFrame, QuietStep
          DEF AnnounceLaunch, FlowInv, TypeOK, OwedKept, linkVars, history
<1>6. CASE \E op \in Ops : IssueLaunch(op)
  BY <1>6, IssueLaunchInv
<1>7. CASE LaunchBecomesCurrent
  <2>1. OperationsTypeOK' /\ current'.op <= issued /\ SlotKept
    BY <1>7 DEF LaunchBecomesCurrent, MakeCurrent, FlowInv, TypeOK, OperationsTypeOK, LoopTypeOK,
                IdsInOrder, SlotKept, Ops, NoOp
  <2>2. LoopTypeOK'
    BY <1>7 DEF FlowInv, TypeOK, LoopTypeOK, LaunchBecomesCurrent
  <2>3. FlowTypeOK' /\ SameNames /\ LinkTypeOK' /\ OwedKept
    BY <1>7, FlowFrame, LinkFrame DEF LaunchBecomesCurrent, FlowInv, TypeOK, OwedKept, linkVars
  <2> QED BY <1>0, <1>7, <2>1, <2>2, <2>3, PlainStep DEF LaunchBecomesCurrent, history
<1>8. CASE LaunchFreesSlot
  <2>1. OperationsTypeOK' /\ current'.op <= issued /\ SlotKept
    BY <1>8 DEF LaunchFreesSlot, ReleaseLaunched, FlowInv, TypeOK, OperationsTypeOK, IdsInOrder,
                SlotKept, Claims
  <2>2. LoopTypeOK'
    BY <1>00, <1>8 DEF FlowInv, TypeOK, LoopTypeOK, LaunchFreesSlot
  <2>3. FlowTypeOK' /\ SameNames /\ LinkTypeOK' /\ OwedKept
    BY <1>8, FlowFrame, LinkFrame DEF LaunchFreesSlot, FlowInv, TypeOK, OwedKept, linkVars
  <2>4. muddled' \subseteq Games
    BY <1>0, <1>8, OrphansNameGames DEF LaunchFreesSlot, FlowInv, TypeOK
  <2> QED BY <1>0, <1>8, <2>1, <2>2, <2>3, <2>4, PlainStep DEF LaunchFreesSlot
<1>9. CASE LoopEnds
  <2>1. LoopTypeOK'
    BY <1>9 DEF FlowInv, TypeOK, LoopTypeOK, LoopEnds
  <2> QED BY <1>0, <1>9, <2>1, LinkFrame, QuietStep
          DEF LoopEnds, FlowInv, TypeOK, OwedKept, linkVars
<1>10. CASE TeardownShows
  <2>1. LoopTypeOK'
    BY <1>10 DEF FlowInv, TypeOK, LoopTypeOK, TeardownShows
  <2>2. LinkTypeOK' /\ OwedKept
    BY <1>10 DEF FlowInv, TypeOK, LinkTypeOK, TeardownShows, OwedKept
  <2> QED BY <1>0, <1>10, <2>1, <2>2, LinkLostScreen, QuietStep DEF TeardownShows, history
<1> QED BY <1>1, <1>2, <1>3, <1>4, <1>5, <1>6, <1>7, <1>8, <1>9, <1>10 DEF LoopStep

LEMMA RecordTypes ==
    ASSUME FlowInv, NEW g, (DropRecord(g) /\ Remembered(g)) \/ UNCHANGED calledOff
    PROVE  calledOff' \in [Games -> Nat]
BY DEF FlowInv, TypeOK, OperationsTypeOK, DropRecord, Remembered

LEMMA RefusalInv ==
    ASSUME FlowInv, NEW g \in Games \cup {NoGame}, Refusal(g)
    PROVE  FlowInv'
<1>1. slot' \in {slot, NoClaim} /\ calledOff' \in [Games -> Nat]
  BY RecordTypes DEF Refusal, RefusalOf
<1>2. OperationsTypeOK' /\ current'.op <= issued /\ SlotKept
  BY <1>1 DEF Refusal, FlowInv, TypeOK, OperationsTypeOK, IdsInOrder, SlotKept, Claims
<1>3. owed # <<>> /\ owed' = Tail(owed) /\ OwedKept
  BY DEF Refusal, OwedKept
<1>4. LinkTypeOK'
  BY <1>3 DEF Refusal, FlowInv, TypeOK, LinkTypeOK
<1>5. LoopTypeOK'
  <2>1. order' \in [game : Games \cup {NoGame}, prepared : BOOLEAN]
    BY DEF Refusal, NoOrder
  <2>2. loop' \in {loop, "refused"}
    BY DEF Refusal
  <2> QED BY <2>1, <2>2 DEF Refusal, FlowInv, TypeOK, LoopTypeOK
<1>6. muddled' \subseteq Games /\ gaveUp' \subseteq Ops
  BY <1>3, OrphansNameGames DEF Refusal, FlowInv, TypeOK
<1>7. FlowTypeOK' /\ SameNames
  BY FlowFrame DEF Refusal, FlowInv, TypeOK
<1> QED BY <1>2, <1>3, <1>4, <1>5, <1>6, <1>7, PlainStep DEF Refusal, FlowInv, TypeOK

LEMMA LaunchOrderInv ==
    ASSUME FlowInv, NEW g \in Games \cup {NoGame}, LaunchOrder(g)
    PROVE  FlowInv'
<1>1. slot' = slot /\ calledOff' \in [Games -> Nat]
  BY RecordTypes DEF LaunchOrder, TakeRecord
<1>2. OperationsTypeOK' /\ current'.op <= issued /\ SlotKept
  BY <1>1 DEF LaunchOrder, FlowInv, TypeOK, OperationsTypeOK, IdsInOrder, SlotKept
<1>3. OwedKept /\ UNCHANGED <<wire, status>> /\ gaveUp' \subseteq gaveUp
  BY DEF LaunchOrder, OwedKept
<1>4. LinkTypeOK'
  <2>1. CASE owed' = owed
    BY <1>3, <2>1 DEF FlowInv, TypeOK, LinkTypeOK
  <2>2. CASE owed # <<>> /\ owed' = Tail(owed)
    BY <1>3, <2>2 DEF FlowInv, TypeOK, LinkTypeOK
  <2> QED BY <2>1, <2>2 DEF LaunchOrder
<1>5. LoopTypeOK'
  <2>1. order' \in [game : Games \cup {NoGame}, prepared : BOOLEAN]
    <3>1. CASE order' = order
      BY <3>1 DEF FlowInv, TypeOK, LoopTypeOK
    <3>2. CASE order' = [game |-> g, prepared |-> FALSE]
      BY <3>2
    <3> QED BY <3>1, <3>2 DEF LaunchOrder
  <2>2. loop' \in {loop, "taken"}
    BY DEF LaunchOrder
  <2> QED BY <2>1, <2>2 DEF LaunchOrder, FlowInv, TypeOK, LoopTypeOK
<1>6. FlowTypeOK' /\ SameNames
  BY FlowFrame DEF LaunchOrder, FlowInv, TypeOK
<1> QED BY <1>2, <1>3, <1>4, <1>5, <1>6, PlainStep DEF LaunchOrder, FlowInv, TypeOK

-----------------------------------------------------------------------------
(* The user, the server's notices and the socket.                           *)

LEMMA EnvironmentInv ==
    ASSUME FlowInv, Environment
    PROVE  FlowInv'
<1>0. /\ running \in 0..MaxOps /\ NoOp \in 0..MaxOps /\ screen \in Screens /\ user \in UserStates
      /\ gaveUp \subseteq Ops /\ muddled \subseteq Games
  BY OperationsAssumption DEF FlowInv, TypeOK, NoOp
<1>1. CASE (\E g \in Games : CheckJoin(g)) \/ RefuseDuplicate
  <2>1. /\ UNCHANGED <<opVars, flow, user, loopVars, running, linkVars, history>>
        /\ click' \in Games \cup {NoGame} /\ screen' \in Screens
    BY <1>0, <1>1, ScreenTypes
       DEF CheckJoin, RefuseDuplicate, FlowInv, TypeOK, FlowTypeOK
  <2>2. OperationsTypeOK' /\ LoopTypeOK' /\ LinkTypeOK'
    BY <2>1, OpsFrame, LoopFrame, LinkFrame DEF FlowInv, TypeOK
  <2>3. FlowTypeOK' /\ SameNames
    BY <2>1 DEF FlowInv, TypeOK, FlowTypeOK, SameNames
  <2>4. SlotKept /\ OwedKept /\ UNCHANGED <<issued, launch>> /\ current'.op <= issued
    BY <2>1 DEF SlotKept, OwedKept, opVars, linkVars, loopVars, FlowInv, IdsInOrder
  <2> QED BY <1>0, <2>1, <2>2, <2>3, <2>4, PlainStep DEF history
<1>2. CASE RefuseHost
  BY <1>0, <1>2, ScreenTypes, LoopFrame, LinkFrame, QuietStep
     DEF RefuseHost, FlowInv, TypeOK, OwedKept, linkVars, loopVars, history
<1>3. CASE \E op \in Ops : BeginJoin(op) \/ BeginHost(op)
  BY <1>3, BeginJoinInv, BeginHostInv
<1>4. CASE UserCommand
  BY <1>0, <1>4, LoopFrame, LinkFrame, QuietStep
     DEF UserCommand, UserStates, FlowInv, TypeOK, OwedKept, linkVars, loopVars, history
<1>5. CASE HangUp
  BY <1>0, <1>5, CancelledScreen, LoopFrame, LinkFrame, QuietStep
     DEF HangUp, UserStates, FlowInv, TypeOK, OwedKept, linkVars, loopVars, history
<1>6. CASE GameExits
  BY <1>0, <1>6, IdleScreen, LoopFrame, LinkFrame, QuietStep
     DEF GameExits, FlowInv, TypeOK, OwedKept, linkVars, loopVars, history
<1>7. CASE KillNotice
  <2>1. launchOff' \in BOOLEAN
    BY <1>7 DEF KillNotice, FlowInv, TypeOK, LoopTypeOK
  <2>2. LoopTypeOK'
    BY <1>7, <2>1 DEF KillNotice, FlowInv, TypeOK, LoopTypeOK
  <2> QED BY <1>0, <1>7, <2>2, LinkFrame, QuietStep
          DEF KillNotice, FlowInv, TypeOK, OwedKept, linkVars, history
<1>8. CASE MatchCancelled
  <2>1. launchOff' \in BOOLEAN
    BY <1>8 DEF MatchCancelled
  <2>2. LoopTypeOK'
    BY <1>8, <2>1 DEF MatchCancelled, FlowInv, TypeOK, LoopTypeOK
  <2>3. OperationsTypeOK' /\ current'.op <= issued /\ SlotKept
    BY <1>8, CancelStep DEF MatchCancelled
  <2>4. FlowTypeOK' /\ SameNames /\ LinkTypeOK' /\ OwedKept
    BY <1>8, FlowFrame, LinkFrame DEF MatchCancelled, FlowInv, TypeOK, OwedKept, linkVars
  <2> QED BY <1>0, <1>8, <2>2, <2>3, <2>4, PlainStep DEF MatchCancelled, history
<1>9. CASE Connect
  <2>1. wire' \in BOOLEAN
    BY <1>9 DEF Connect
  <2>2. LinkTypeOK' /\ OwedKept
    BY <1>9, <2>1 DEF Connect, FlowInv, TypeOK, LinkTypeOK, OwedKept
  <2>3. LoopTypeOK'
    BY <1>9 DEF Connect, FlowInv, TypeOK, LoopTypeOK
  <2> QED BY <1>0, <1>9, <2>2, <2>3, LinkLostScreen, QuietStep DEF Connect, history
<1>10. CASE Authenticated
  <2>1. LinkTypeOK' /\ OwedKept
    BY <1>10 DEF Authenticated, FlowInv, TypeOK, LinkTypeOK, OwedKept
  <2> QED BY <1>0, <1>10, <2>1, LoopFrame, QuietStep
          DEF Authenticated, FlowInv, TypeOK, loopVars, history
<1>11. CASE Reconnecting
  <2>1. owed' = <<>> /\ gaveUp' \subseteq gaveUp
    BY <1>11, OldestAre DEF Reconnecting, KeepFirst, FlowInv, TypeOK
  <2>2. LinkTypeOK' /\ OwedKept
    BY <1>11, <2>1, OwedStays DEF Reconnecting, FlowInv, TypeOK, LinkTypeOK
  <2> QED BY <1>0, <1>11, <2>1, <2>2, LinkLostScreen, LoopFrame, QuietStep
          DEF Reconnecting, FlowInv, TypeOK, loopVars
<1>12. CASE StreamEnds
  BY <1>0, <1>12, ClosedWire, LoopFrame, QuietStep DEF StreamEnds, FlowInv, TypeOK, loopVars
<1> QED BY <1>1, <1>2, <1>3, <1>4, <1>5, <1>6, <1>7, <1>8, <1>9, <1>10, <1>11, <1>12
        DEF Environment

-----------------------------------------------------------------------------
(* The theorems.                                                            *)

LEMMA NextInv == FlowInv /\ [Next]_vars => FlowInv'
<1> SUFFICES ASSUME FlowInv, [Next]_vars PROVE FlowInv'
  OBVIOUS
<1>1. CASE \E op \in Ops : FlowStep(op)
  BY <1>1, JoinInv, PreparationInv, HostInv, LaunchFlows DEF FlowStep
<1>2. CASE UserStep
  BY <1>2, UserInv
<1>3. CASE LoopStep
  BY <1>3, LoopInv
<1>4. CASE ServerAnswer
  BY <1>4, RefusalInv, LaunchOrderInv DEF ServerAnswer
<1>5. CASE Environment
  BY <1>5, EnvironmentInv
<1>6. CASE UNCHANGED vars
  BY <1>6, LoopFrame, LinkFrame, QuietStep
     DEF vars, FlowInv, TypeOK, OwedKept, linkVars, loopVars, history
<1> QED BY <1>1, <1>2, <1>3, <1>4, <1>5, <1>6 DEF Next

(* Every state of the join flow has the types it should have, ids are       *)
(* handed out in order and only joins are owed an answer: however many      *)
(* games and operations there are and whichever events happen.              *)
THEOREM FlowInvariant == Spec => []FlowInv
<1>1. Init => FlowInv
  BY InitInv
<1>2. FlowInv /\ [Next]_vars => FlowInv'
  BY NextInv
<1> QED BY <1>1, <1>2, PTL DEF Spec

THEOREM TypeCorrect == Spec => []TypeOK
<1>1. FlowInv => TypeOK
  BY DEF FlowInv
<1> QED BY <1>1, FlowInvariant, PTL

(* Who can become current: an operation that was not current before.        *)
LEMMA CurrentChanges ==
    ASSUME Next
    PROVE  \/ current' = current \/ Cancel
           \/ \E o \in Ops : MakeCurrent(o) /\ flow[o].pc \in {"claiming", "issued"}
           \/ MakeCurrent(launch) /\ loop = "issued"
<1> USE DEF opVars
<1>1. CASE \E op \in Ops : FlowStep(op)
  <2> PICK op \in Ops : FlowStep(op)
    BY <1>1
  <2>1. CASE JoinStep(op)
    BY <2>1 DEF JoinStep, JoinBecomesCurrent, RefuseJoin, ShowJoining, ShowPrepared, Mark, SendJoin,
                Release, Report, At
  <2>2. CASE PreparationStep(op)
    BY <2>2 DEF PreparationStep, CheckNarration, Narrate, PreparationEnds
  <2>3. CASE HostStep(op)
    BY <2>3 DEF HostStep, HostBecomesCurrent, HostUpdated, SendHost, At
  <2>4. CASE LaunchStep(op)
    BY <2>4 DEF LaunchStep, StartLaunch, AdapterStarted, GameSpawned, LaunchReports
  <2> QED BY <2>1, <2>2, <2>3, <2>4 DEF FlowStep
<1>2. CASE UserStep
  BY <1>2 DEF UserStep, CancelFlags, CancelFrees, CancelShows, UserKills, UserForgets, UserTerminated,
              HangUpCloses, HangUpFlags, HangUpForgets, TerminateKills
<1>3. CASE LoopStep
  BY <1>3 DEF LoopStep, LoopKills, LoopForgets, LoopTerminated, ShowRefusal, AnnounceLaunch,
              IssueLaunch, LaunchBecomesCurrent, LaunchFreesSlot, LoopEnds, TeardownFlags,
              TeardownForgets, TeardownShows, TerminateKills
<1>4. CASE ServerAnswer
  BY <1>4 DEF ServerAnswer, Refusal, LaunchOrder
<1>5. CASE Environment
  BY <1>5 DEF Environment, CheckJoin, RefuseDuplicate, RefuseHost, BeginJoin, BeginHost, UserCommand,
              HangUp, GameExits, KillNotice, MatchCancelled, Connect, Authenticated, Reconnecting,
              StreamEnds
<1> QED BY <1>1, <1>2, <1>3, <1>4, <1>5 DEF Next

(* An operation that was current and was called off or superseded is never  *)
(* live again, so no stage of an abandoned preparation can pass for the     *)
(* operation the user has begun since.                                      *)
THEOREM NoRevivalHolds == Spec => NoRevival
<1>1. FlowInv /\ [Next]_vars
        => [\A op \in Ops : WasCurrent(op) /\ ~IsLive(op) => ~IsLive(op)']_vars
  <2> SUFFICES ASSUME FlowInv, Next, NEW op \in Ops, WasCurrent(op), ~IsLive(op), IsLive(op)'
               PROVE  FALSE
    BY DEF vars
  <2>1. current' # current
    BY DEF IsLive
  <2>2. ~Cancel
    BY DEF Cancel, IsLive, FlowInv, TypeOK, OperationsTypeOK
  <2>3. ~MakeCurrent(op)
    BY <2>1, <2>2, CurrentChanges DEF MakeCurrent, WasCurrent
  <2> QED BY <2>1, <2>2, <2>3, CurrentChanges DEF MakeCurrent, IsLive
<1> QED BY <1>1, FlowInvariant, PTL DEF Spec, NoRevival

(* A late cleanup of one flow leaves the slot alone while another join      *)
(* holds it.                                                                *)
THEOREM OwnSlotOnlyHolds == Spec => OwnSlotOnly
<1>1. FlowInv /\ [Next]_vars
        => [\A op \in Ops :
              flow'[op] # flow[op] /\ slot.op \notin {op, NoOp} => slot' = slot]_vars
  <2> SUFFICES ASSUME FlowInv, Next, NEW op \in Ops, flow'[op] # flow[op], slot.op \notin {op, NoOp}
               PROVE  slot' = slot
    BY DEF vars
  <2>0. ASSUME NEW o \in Ops, NEW pc, Goto(o, pc)
        PROVE  o = op
    BY <2>0 DEF Goto, FlowInv, TypeOK, FlowTypeOK
  <2> USE DEF opVars
  <2>1. CASE \E o \in Ops : FlowStep(o)
    <3> PICK o \in Ops : FlowStep(o)
      BY <2>1
    <3>1. CASE JoinStep(o)
      BY <2>0, <3>1 DEF JoinStep, JoinBecomesCurrent, RefuseJoin, ShowJoining, ShowPrepared, Mark,
                  SendJoin, Release, Report, ReleaseJoin, MarkSent, MayMarkSent
    <3>2. CASE PreparationStep(o)
      BY <2>0, <3>2 DEF PreparationStep, CheckNarration, Narrate, PreparationEnds, ReleaseJoin
    <3>3. CASE HostStep(o)
      BY <3>3 DEF HostStep, HostBecomesCurrent, HostUpdated, SendHost
    <3>4. CASE LaunchStep(o)
      BY <3>4 DEF LaunchStep, StartLaunch, AdapterStarted, GameSpawned, LaunchReports
    <3> QED BY <3>1, <3>2, <3>3, <3>4 DEF FlowStep
  <2>2. CASE UserStep
    BY <2>2 DEF UserStep, CancelFlags, CancelFrees, CancelShows, UserKills, UserForgets,
                UserTerminated, HangUpCloses, HangUpFlags, HangUpForgets, flowVars
  <2>3. CASE LoopStep
    BY <2>3 DEF LoopStep, LoopKills, LoopForgets, LoopTerminated, ShowRefusal, AnnounceLaunch,
                IssueLaunch, LaunchBecomesCurrent, LaunchFreesSlot, LoopEnds, TeardownFlags,
                TeardownForgets, TeardownShows, flowVars
  <2>4. CASE ServerAnswer
    BY <2>4 DEF ServerAnswer, Refusal, LaunchOrder, flowVars
  <2>5. CASE Environment
    <3>1. slot # NoClaim
      BY DEF NoClaim
    <3> QED BY <2>5, <3>1
            DEF Environment, CheckJoin, RefuseDuplicate, RefuseHost, BeginJoin, BeginHost, TakeSlot,
                UserCommand, HangUp, GameExits, KillNotice, MatchCancelled, Connect, Authenticated,
                Reconnecting, StreamEnds, flowVars
  <2> QED BY <2>1, <2>2, <2>3, <2>4, <2>5 DEF Next
<1> QED BY <1>1, FlowInvariant, PTL DEF Spec, OwnSlotOnly

-----------------------------------------------------------------------------
(* Requests and their answers.  What the four properties of the answers     *)
(* rest on is kept by kinds of steps, not by each action alone.             *)

OutPcs == {"marked", "refusing", "refused", "done"}
FreePcs == {"refused", "conflicted", "failed", "launching", "launchready"}
Early == {"claiming", "begun", "refusing", "refused", "done"}
Down == {"off", "ending", "closing", "closed"}
Shut == {"off", "closed"}

(* A request that is owed an answer is owed one only, and its code is done; *)
(* a claim is marked sent when its request is, and one called off had been  *)
(* marked; and no join reports its end with the slot still in its hands.    *)
OwedOnce ==
    /\ \A i \in 1..Len(owed) : flow[owed[i]].pc = "done"
    /\ \A i, j \in 1..Len(owed) : owed[i] = owed[j] => i = j
SentIsOut ==
    /\ slot.sent => flow[slot.op].pc \in OutPcs
    /\ slot.op # NoOp /\ flow[slot.op].pc \in {"marked", "done"} => slot.sent
    /\ \A o \in gaveUp : flow[o].kind = "join" /\ flow[o].pc \in OutPcs
FreedFirst == slot.op # NoOp => flow[slot.op].pc \notin FreePcs
RequestInv == OwedOnce /\ SentIsOut /\ FreedFirst

(* Nothing is owed once the loop is over, and an open wire has a loop.      *)
DownIsEmpty == loop \in Down => owed = <<>> /\ muddled = {}
UpIsRead == wire => loop \notin Down

(* What a step keeps of the update loop: whether it handles an order, and   *)
(* which, and whether it is past the teardown.                              *)
LoopKept ==
    /\ (loop \in Down)' <=> loop \in Down
    /\ (loop \in Shut)' <=> loop \in Shut
    /\ loop = "off" /\ ~wire => loop' = "off" /\ status' = status
    /\ HandlingOrder' <=> HandlingOrder
    /\ HandlingOrder => order'.game = order.game

(* A flow moves on without sending anything; it may free its own slot.      *)
MovesOn(op) ==
    /\ UNCHANGED <<calledOff, owed, gaveUp, muddled, wire, status, loop, order, user>>
    /\ slot' = slot \/ (slot.op = op /\ slot' = NoClaim)
    /\ \E pc \in FlowPcs :
          /\ Goto(op, pc)
          /\ flow[op].pc \notin {"marked", "done"} /\ pc # "marked"
          /\ flow[op].pc \in OutPcs => pc \in OutPcs
          /\ slot'.op = op => pc \notin FreePcs \cup {"done"}
          /\ flow[op].kind = "join" /\ flow[op].pc \in Early /\ status # "Connected" => pc \in Early

(* try_mark_join_sent lets the request through.                             *)
Marks(op) ==
    /\ At(op, "join", "asking") /\ MarkSent(op) /\ Goto(op, "marked")
    /\ UNCHANGED <<calledOff, owed, gaveUp, muddled, wire, status, loop, order, user>>

(* A flow starts, a launch under way is dropped for it.                     *)
Starts(op) ==
    /\ UNCHANGED <<calledOff, owed, gaveUp, muddled, wire, status, user>> /\ LoopKept
    /\ flow[op].kind = "none"
    /\ \A o \in Ops \ {op} : \/ flow'[o] = flow[o]
                             \/ flow[o].kind = "launch" /\ flow'[o].kind = "launch"
    /\ flow'[op].kind = "join" => flow'[op].pc = "claiming"
    /\ \/ slot' = slot
       \/ slot.op = NoOp /\ slot'.op = op /\ ~slot'.sent /\ flow'[op].pc = "claiming"

(* Neither a request nor a record is touched.                               *)
Rests ==
    /\ UNCHANGED <<slot, calledOff, flow, owed, gaveUp, muddled, wire>> /\ LoopKept
    /\ "hangup" \notin Events /\ user \notin {"hanging", "hung", "dropping"}
          => user' \notin {"hanging", "hung", "dropping"}
    /\ "cancel" \notin Events /\ user \notin {"calling", "flagged", "freed"}
          => user' \notin {"calling", "flagged", "freed"}

(* release_any_join.                                                        *)
Forgets ==
    /\ ForgetJoins /\ UNCHANGED <<flow, owed, wire, status>>
    /\ user' \in {user, "cleared", "idle"}
    /\ LoopKept \/ (loop = "closing" /\ loop' = "closed" /\ UNCHANGED order)

(* The socket is closed.                                                    *)
Closes ==
    /\ CloseWire /\ UNCHANGED <<slot, calledOff, flow, loop, order>>
    /\ \/ "end" \in Events /\ wire /\ UNCHANGED user
       \/ user = "hanging" /\ user' = "hung"

LEMMA FlowMoves ==
    ASSUME FlowInv, RequestInv, NEW op \in Ops, FlowStep(op)
    PROVE  MovesOn(op) \/ Marks(op) \/ SendJoin(op)
<1> USE DEF OutPcs, Early, FlowPcs, FreePcs, At, opVars, loopVars, linkVars, history
<1>0. /\ slot.op = op => flow[op].kind = "join" /\ flow[op].pc \notin FreePcs
      /\ NoClaim.op # op
  BY DEF FlowInv, IdsInOrder, RequestInv, FreedFirst, Ops, NoOp, NoClaim
<1>1. CASE JoinStep(op)
  <2>1. CASE JoinBecomesCurrent(op)
    BY <2>1 DEF JoinBecomesCurrent, MovesOn
  <2>2. CASE RefuseJoin(op)
    BY <2>2 DEF RefuseJoin, MovesOn
  <2>3. CASE ShowJoining(op)
    BY <2>3 DEF ShowJoining, MovesOn
  <2>4. CASE ShowPrepared(op)
    BY <2>4 DEF ShowPrepared, MovesOn
  <2>5. CASE Mark(op)
    BY <1>0, <2>5 DEF Mark, Marks, MovesOn, ReleaseJoin
  <2>6. CASE SendJoin(op)
    BY <2>6
  <2>7. CASE Release(op)
    BY <1>0, <2>7 DEF Release, MovesOn, ReleaseJoin
  <2>8. CASE Report(op)
    BY <1>0, <2>8 DEF Report, MovesOn
  <2> QED BY <1>1, <2>1, <2>2, <2>3, <2>4, <2>5, <2>6, <2>7, <2>8 DEF JoinStep
<1>2. CASE PreparationStep(op)
  <2>1. CASE CheckNarration(op)
    BY <2>1 DEF CheckNarration, MovesOn
  <2>2. CASE Narrate(op)
    BY <2>2 DEF Narrate, MovesOn
  <2>3. CASE PreparationEnds(op)
    BY <1>0, <2>3 DEF PreparationEnds, AfterPreparation, MovesOn, ReleaseJoin
  <2> QED BY <1>2, <2>1, <2>2, <2>3 DEF PreparationStep
<1>3. CASE HostStep(op)
  BY <1>0, <1>3 DEF HostStep, HostBecomesCurrent, HostUpdated, SendHost, MovesOn
<1>4. CASE LaunchStep(op)
  <2>1. CASE StartLaunch(op)
    BY <1>0, <2>1 DEF StartLaunch, MovesOn
  <2>2. CASE AdapterStarted(op)
    BY <1>0, <2>2 DEF AdapterStarted, MovesOn
  <2>3. CASE GameSpawned(op)
    BY <1>0, <2>3 DEF GameSpawned, MovesOn
  <2>4. CASE LaunchReports(op)
    BY <1>0, <2>4 DEF LaunchReports, MovesOn
  <2> QED BY <1>4, <2>1, <2>2, <2>3, <2>4 DEF LaunchStep
<1> QED BY <1>1, <1>2, <1>3, <1>4 DEF FlowStep

LEMMA StepKinds ==
    ASSUME FlowInv, RequestInv, UpIsRead, [Next]_vars
    PROVE  \/ \E op \in Ops : MovesOn(op) \/ Marks(op) \/ SendJoin(op) \/ Starts(op)
           \/ Rests \/ Connect \/ CancelFrees \/ Forgets \/ Closes \/ LoopEnds \/ LaunchFreesSlot
           \/ Reconnecting \/ \E g \in Games \cup {NoGame} : Refusal(g) \/ LaunchOrder(g)
<1> USE DEF opVars, flowVars, loopVars, linkVars, history, Down, Shut, HandlingOrder
<1>1. CASE \E op \in Ops : FlowStep(op)
  BY <1>1, FlowMoves
<1>2. CASE UserStep
  <2>1. CASE CancelFlags \/ CancelShows \/ UserKills \/ UserTerminated \/ HangUpFlags
    BY <2>1 DEF CancelFlags, CancelShows, UserKills, UserTerminated, HangUpFlags, TerminateKills,
                Rests, LoopKept
  <2>2. CASE UserForgets \/ HangUpForgets
    BY <2>2 DEF UserForgets, HangUpForgets, Forgets, LoopKept
  <2>3. CASE HangUpCloses
    BY <2>3 DEF HangUpCloses, Closes
  <2> QED BY <1>2, <2>1, <2>2, <2>3 DEF UserStep
<1>3. CASE LoopStep
  <2>1. CASE \E op \in Ops : IssueLaunch(op)
    <3> PICK op \in Ops : IssueLaunch(op)
      BY <2>1
    <3>1. flow[op].kind = "none"
      BY DEF IssueLaunch, Issue, FlowInv, TypeOK, OperationsTypeOK, IdsInOrder, Ops
    <3>2. /\ flow'[op].kind = "launch"
          /\ \A o \in Ops \ {op} : \/ flow'[o] = flow[o]
                                   \/ flow[o].kind = "launch" /\ flow'[o].kind = "launch"
      BY DEF IssueLaunch, FlowInv, TypeOK, FlowTypeOK, LoopTypeOK, IdsInOrder, Ops, NoOp
    <3>3. UNCHANGED <<slot, calledOff, owed, gaveUp, muddled, wire, status, user>> /\ LoopKept
      BY DEF IssueLaunch, LoopKept
    <3> QED BY <3>1, <3>2, <3>3 DEF Starts
  <2>2. CASE LoopForgets \/ TeardownForgets
    BY <2>2 DEF LoopForgets, TeardownForgets, Forgets, LoopKept
  <2>3. CASE LoopKills \/ LoopTerminated \/ ShowRefusal \/ LaunchBecomesCurrent
    BY <2>3 DEF LoopKills, LoopTerminated, ShowRefusal, LaunchBecomesCurrent, TerminateKills,
                Rests, LoopKept
  <2>4. CASE TeardownFlags \/ TeardownShows
    BY <2>4 DEF TeardownFlags, TeardownShows, Rests, LoopKept
  <2>5. CASE AnnounceLaunch
    <3>1. order'.game = order.game /\ loop' \in {"announced", "begun"}
      BY <2>5 DEF AnnounceLaunch, FlowInv, TypeOK, LoopTypeOK
    <3> QED BY <2>5, <3>1 DEF AnnounceLaunch, Rests, LoopKept
  <2> QED BY <1>3, <2>1, <2>2, <2>3, <2>4, <2>5 DEF LoopStep
<1>4. CASE ServerAnswer
  BY <1>4 DEF ServerAnswer
<1>5. CASE Environment
  <2>1. CASE \E op \in Ops : BeginJoin(op) \/ BeginHost(op)
    <3> PICK op \in Ops : BeginJoin(op) \/ BeginHost(op)
      BY <2>1
    <3>1. flow[op].kind = "none"
      BY DEF BeginJoin, BeginHost, TakeSlot, Issue, FlowInv, TypeOK, OperationsTypeOK, IdsInOrder, Ops
    <3>2. /\ \A o \in Ops \ {op} : flow'[o] = flow[o]
          /\ flow'[op].kind = "join" => flow'[op].pc = "claiming"
          /\ \/ slot' = slot
             \/ slot.op = NoOp /\ slot'.op = op /\ ~slot'.sent /\ flow'[op].pc = "claiming"
      BY DEF BeginJoin, BeginHost, TakeSlot, NoClaim, StartFlow, FlowInv, TypeOK, FlowTypeOK
    <3>3. UNCHANGED <<calledOff, owed, gaveUp, muddled, wire, status, user>> /\ LoopKept
      BY DEF BeginJoin, BeginHost, LoopKept
    <3> QED BY <3>1, <3>2, <3>3 DEF Starts
  <2>2. CASE (\E g \in Games : CheckJoin(g)) \/ RefuseDuplicate \/ RefuseHost \/ UserCommand
             \/ HangUp \/ GameExits
    BY <2>2 DEF CheckJoin, RefuseDuplicate, RefuseHost, UserCommand, HangUp, GameExits, Rests, LoopKept
  <2>3. CASE KillNotice \/ MatchCancelled \/ Authenticated
    BY <2>3 DEF KillNotice, MatchCancelled, Authenticated, Rests, LoopKept
  <2>4. CASE StreamEnds
    BY <2>4 DEF StreamEnds, Closes
  <2> QED BY <1>5, <2>1, <2>2, <2>3, <2>4 DEF Environment
<1>6. CASE UNCHANGED vars
  BY <1>6 DEF vars, Rests, LoopKept
<1> QED BY <1>1, <1>2, <1>3, <1>4, <1>5, <1>6 DEF Next

LEMMA GotoMoves ==
    ASSUME FlowInv, NEW op \in Ops, NEW pc, Goto(op, pc)
    PROVE  /\ flow'[op].pc = pc /\ flow'[op].kind = flow[op].kind /\ flow'[op].game = flow[op].game
           /\ \A o \in Ops \ {op} : flow'[o] = flow[o]
BY DEF FlowInv, TypeOK, FlowTypeOK, Goto

LEMMA NothingOwed ==
    /\ Requests(<<>>) = {}
    /\ \A claim, given : Orphans(<<>>, claim, given) = {}
BY DEF Requests, Orphans

LEMMA OwedAre ==
    ASSUME FlowInv
    PROVE  /\ owed \in Seq(Ops) /\ Len(owed) \in Nat /\ DOMAIN owed = 1..Len(owed)
           /\ \A i \in 1..Len(owed) : owed[i] \in Ops /\ flow[owed[i]].kind = "join"
BY DEF FlowInv, TypeOK, LinkTypeOK, JoinsNameGames

(* The claim on the slot: nobody's, or a join's that was issued.            *)
LEMMA ClaimIs ==
    ASSUME FlowInv
    PROVE  /\ slot.op \in Ops \cup {NoOp} /\ NoOp \notin Ops
           /\ slot.op = NoOp => slot = NoClaim
           /\ slot.op # NoOp => /\ slot.game \in Games /\ slot.sent \in BOOLEAN
                                /\ flow[slot.op].kind = "join" /\ flow[slot.op].game = slot.game
           /\ slot = NoClaim => ~slot.sent
BY DEF FlowInv, TypeOK, OperationsTypeOK, Claims, NoClaim, IdsInOrder, Ops, NoOp

LEMMA AnswerTakesHead ==
    ASSUME FlowInv, NEW q, Starting(q) \/ (owed # <<>> /\ q = Tail(owed))
    PROVE  /\ Len(q) \in Nat
           /\ \E k \in {0, 1} : \A i \in 1..Len(q) : i + k \in 1..Len(owed) /\ q[i] = owed[i + k]
<1>1. CASE Starting(q)
  BY <1>1, OwedAre DEF Starting
<1>3. CASE owed # <<>> /\ q = Tail(owed)
  <2>0. owed \in Seq(Ops)
    BY OwedAre
  <2>1. Len(q) = Len(owed) - 1 /\ \A i \in 1..Len(q) : i + 1 \in 1..Len(owed) /\ q[i] = owed[i + 1]
    BY <1>3, <2>0
  <2> QED BY <2>1, OwedAre
<1> QED BY <1>1, <1>3

(* Whatever answers, forgets or gives up requests.                          *)
LEMMA RequestsLessen ==
    ASSUME FlowInv, RequestInv, UNCHANGED flow, slot' \in {slot, NoClaim},
           OwedKept,
           \A o \in gaveUp' : o \in gaveUp \/ (slot.sent /\ o = slot.op)
    PROVE  RequestInv'
<1>1. PICK k \in {0, 1} : \A i \in 1..Len(owed') : i + k \in 1..Len(owed) /\ owed'[i] = owed[i + k]
  BY AnswerTakesHead DEF OwedKept
<1>2. Len(owed') \in Nat
  BY AnswerTakesHead DEF OwedKept
<1>3. OwedOnce'
  <2>1. \A i \in 1..Len(owed') : flow'[owed'[i]].pc = "done"
    BY <1>1 DEF RequestInv, OwedOnce
  <2>2. \A i, j \in 1..Len(owed') : owed'[i] = owed'[j] => i = j
    <3> SUFFICES ASSUME NEW i \in 1..Len(owed'), NEW j \in 1..Len(owed'), owed'[i] = owed'[j]
                 PROVE  i = j
      OBVIOUS
    <3>1. i + k = j + k
      BY <1>1 DEF RequestInv, OwedOnce
    <3> QED BY <1>2, <3>1
  <2> QED BY <2>1, <2>2 DEF OwedOnce
<1>4. SentIsOut'
  BY ClaimIs DEF RequestInv, SentIsOut, NoClaim
<1>5. FreedFirst'
  BY DEF RequestInv, FreedFirst, NoClaim
<1> QED BY <1>3, <1>4, <1>5 DEF RequestInv

LEMMA RequestsKept ==
    ASSUME FlowInv, RequestInv, DownIsEmpty, UpIsRead, [Next]_vars
    PROVE  RequestInv' /\ DownIsEmpty' /\ UpIsRead'
<1> USE DEF RequestInv, Down
<1>00. LinkTypeOK
  BY DEF FlowInv, TypeOK
<1>0. /\ \A i \in 1..Len(owed) : owed[i] \in Ops /\ flow[owed[i]].kind = "join"
      /\ slot.op \in Ops \cup {NoOp} /\ NoOp \notin Ops /\ NoClaim.op = NoOp /\ ~NoClaim.sent
      /\ gaveUp \subseteq Ops /\ (slot.sent => slot.op # NoOp)
  BY OwedAre, ClaimIs DEF NoClaim, FlowInv, TypeOK
<1>1. ASSUME NEW op \in Ops, MovesOn(op)
      PROVE  RequestInv' /\ DownIsEmpty' /\ UpIsRead'
  <2>1. PICK pc \in FlowPcs :
          /\ Goto(op, pc)
          /\ flow[op].pc \notin {"marked", "done"} /\ pc # "marked"
          /\ flow[op].pc \in OutPcs => pc \in OutPcs
          /\ slot'.op = op => pc \notin FreePcs \cup {"done"}
    BY <1>1 DEF MovesOn
  <2>2. /\ flow'[op].pc = pc /\ flow'[op].kind = flow[op].kind
        /\ \A o \in Ops \ {op} : flow'[o] = flow[o]
    BY <2>1, GotoMoves
  <2>3. OwedOnce'
    BY <1>0, <1>1, <2>1, <2>2 DEF MovesOn, OwedOnce
  <2>4. SentIsOut'
    BY <1>0, <1>1, <2>1, <2>2 DEF MovesOn, SentIsOut
  <2>5. FreedFirst'
    BY <1>0, <1>1, <2>1, <2>2 DEF MovesOn, FreedFirst
  <2> QED BY <1>1, <2>3, <2>4, <2>5 DEF MovesOn, DownIsEmpty, UpIsRead
<1>2. ASSUME NEW op \in Ops, Marks(op)
      PROVE  RequestInv' /\ DownIsEmpty' /\ UpIsRead'
  <2>1. /\ flow'[op].pc = "marked" /\ flow'[op].kind = flow[op].kind
        /\ \A o \in Ops \ {op} : flow'[o] = flow[o]
    BY <1>2, GotoMoves DEF Marks
  <2>2. slot'.op = op /\ slot'.sent /\ flow[op].pc = "asking"
    BY <1>2, ClaimIs DEF Marks, At, MarkSent, MayMarkSent, FlowInv, TypeOK, OperationsTypeOK, Claims, NoClaim
  <2>3. OwedOnce'
    BY <1>0, <1>2, <2>1, <2>2 DEF Marks, OwedOnce
  <2>4. SentIsOut'
    BY <1>0, <1>2, <2>1, <2>2 DEF Marks, SentIsOut, OutPcs
  <2>5. FreedFirst'
    BY <2>1, <2>2 DEF FreedFirst, FreePcs
  <2> QED BY <1>2, <2>3, <2>4, <2>5 DEF Marks, DownIsEmpty, UpIsRead
<1>3. ASSUME NEW op \in Ops, SendJoin(op)
      PROVE  RequestInv' /\ DownIsEmpty' /\ UpIsRead'
  <2>1. /\ flow'[op].pc \in {"done", "refusing"} /\ flow'[op].kind = flow[op].kind
        /\ \A o \in Ops \ {op} : flow'[o] = flow[o]
        /\ flow[op].pc = "marked" /\ slot' = slot /\ gaveUp' = gaveUp
    BY <1>3, GotoMoves DEF SendJoin, At, opVars
  <2>2. \A i \in 1..Len(owed) : owed[i] # op
    BY <2>1 DEF OwedOnce
  <2>3. ASSUME flow'[op].pc = "done", owed' = Append(owed, op)
        PROVE  OwedOnce'
    <3>1. owed \in Seq(Ops)
      BY OwedAre
    <3>2. /\ Len(owed') = Len(owed) + 1 /\ Len(owed) \in Nat /\ owed'[Len(owed) + 1] = op
          /\ \A i \in 1..Len(owed) : owed'[i] = owed[i]
      BY <2>3, <3>1
    <3>3. \A i \in 1..Len(owed') : i \in 1..Len(owed) \/ i = Len(owed) + 1
      BY <3>2
    <3>4. \A i \in 1..Len(owed') : flow'[owed'[i]].pc = "done"
      BY <1>0, <2>1, <2>2, <2>3, <3>2, <3>3 DEF OwedOnce
    <3>5. \A i, j \in 1..Len(owed') : owed'[i] = owed'[j] => i = j
      BY <2>2, <3>2, <3>3 DEF OwedOnce
    <3> QED BY <3>4, <3>5 DEF OwedOnce
  <2>4. ASSUME owed' = owed
        PROVE  OwedOnce'
    BY <1>0, <2>1, <2>2, <2>4 DEF OwedOnce
  <2>5. OwedOnce'
    BY <1>3, <2>3, <2>4, GotoMoves DEF SendJoin
  <2>6. SentIsOut'
    BY <1>0, <2>1 DEF SentIsOut, OutPcs
  <2>7. FreedFirst'
    BY <1>0, <2>1 DEF FreedFirst, FreePcs
  <2> QED BY <1>3, <2>5, <2>6, <2>7 DEF SendJoin, DownIsEmpty, UpIsRead, loopVars
<1>4. ASSUME NEW op \in Ops, Starts(op)
      PROVE  RequestInv' /\ DownIsEmpty' /\ UpIsRead'
  <2>1. \A o \in Ops : flow[o].kind = "join" => o # op /\ flow'[o] = flow[o]
    BY <1>4 DEF Starts
  <2>2. OwedOnce'
    BY <1>0, <1>4, <2>1 DEF Starts, OwedOnce
  <2>3. SentIsOut'
    BY <1>0, <1>4, <2>1, ClaimIs DEF Starts, SentIsOut
  <2>4. FreedFirst'
    BY <1>0, <1>4, <2>1, ClaimIs DEF Starts, FreedFirst, FreePcs
  <2> QED BY <1>4, <2>2, <2>3, <2>4 DEF Starts, LoopKept, DownIsEmpty, UpIsRead
<1>5. CASE Rests
  BY <1>5 DEF Rests, LoopKept, OwedOnce, SentIsOut, FreedFirst, DownIsEmpty, UpIsRead
<1>6. CASE Connect
  BY <1>6 DEF Connect, opVars, flowVars, history, OwedOnce, SentIsOut, FreedFirst, DownIsEmpty,
              UpIsRead
<1>7. CASE CancelFrees \/ Forgets
  <2>1. RequestInv'
    BY <1>7, <1>00, RequestsLessen, OwedStays
    DEF CancelFrees, CallOffJoin, Forgets, ForgetJoins, ReleaseAnyJoin, flowVars, linkVars
  <2>2. loop \in Down => Orphans(owed, NoClaim, {}) = {}
    BY NothingOwed DEF DownIsEmpty
  <2> QED BY <1>7, <2>1, <2>2 DEF CancelFrees, Forgets, ForgetJoins, LoopKept, flowVars, linkVars,
                                  loopVars, DownIsEmpty, UpIsRead
<1>8. CASE Closes
  <2>1. Starting(owed') /\ (~wire => owed' = owed) /\ gaveUp' \subseteq gaveUp
    BY <1>8, OldestIsKept DEF Closes
  <2>2. RequestInv'
    BY <1>8, <2>1, RequestsLessen DEF Closes, OwedKept
  <2> QED BY <1>8, <2>1, <2>2 DEF Closes, CloseWire, DownIsEmpty, UpIsRead
<1>9. CASE LaunchFreesSlot
  <2>1. RequestInv'
    BY <1>9, <1>00, RequestsLessen, OwedStays DEF LaunchFreesSlot, ReleaseLaunched, flowVars, linkVars
  <2> QED BY <1>9, <2>1 DEF LaunchFreesSlot, linkVars, DownIsEmpty, UpIsRead
<1>10. CASE Reconnecting
  <2>1. owed' = <<>> /\ gaveUp' \subseteq gaveUp
    BY <1>00, <1>10, OldestAre DEF Reconnecting, KeepFirst
  <2>2. RequestInv'
    BY <1>00, <1>10, <2>1, RequestsLessen, OwedStays DEF Reconnecting, opVars, flowVars
  <2> QED BY <1>10, <2>1, <2>2 DEF Reconnecting, loopVars, DownIsEmpty, UpIsRead
<1>11. ASSUME NEW g \in Games \cup {NoGame}, Refusal(g) \/ LaunchOrder(g)
       PROVE  RequestInv' /\ DownIsEmpty' /\ UpIsRead'
  <2>1. OwedKept
    BY <1>00, <1>11, OwedStays DEF Refusal, LaunchOrder, OwedKept
  <2>2. RequestInv'
    BY <1>11, <2>1, RequestsLessen DEF Refusal, RefusalOf, LaunchOrder, flowVars
  <2> QED BY <1>11, <2>2 DEF Refusal, LaunchOrder, Reading, DownIsEmpty, UpIsRead
<1>12. CASE LoopEnds
  <2>1. RequestInv'
    BY <1>00, <1>12, RequestsLessen, OwedStays DEF LoopEnds, opVars, flowVars, linkVars
  <2> QED BY <1>12, <2>1 DEF LoopEnds, linkVars, DownIsEmpty, UpIsRead
<1> QED BY StepKinds, <1>1, <1>2, <1>3, <1>4, <1>5, <1>6, <1>7, <1>8, <1>9, <1>10, <1>11, <1>12

LineInv == RequestInv /\ DownIsEmpty /\ UpIsRead

LEMMA LineInvariant == Spec => [](FlowInv /\ LineInv)
<1>1. Init => LineInv
  BY DEF Init, OperationsInit, NoClaim, NoOp, LineInv, RequestInv, OwedOnce, SentIsOut, FreedFirst,
         DownIsEmpty, UpIsRead
<1>2. FlowInv /\ LineInv /\ [Next]_vars => LineInv'
  BY RequestsKept DEF LineInv
<1> QED BY InitInv, NextInv, <1>1, <1>2, PTL DEF Spec

(* How each kind of step moves the requests on the way.                     *)
LEMMA WaysFinite ==
    ASSUME FlowInv, NEW g
    PROVE  OnWay(g) \subseteq Ops /\ IsFiniteSet(OnWay(g)) /\ Cardinality(OnWay(g)) \in Nat
<1>1. IsFiniteSet(Ops)
  BY FS_Interval, OperationsAssumption DEF Ops
<1>2. OnWay(g) \subseteq Ops
  BY DEF OnWay
<1> QED BY <1>1, <1>2, FS_Subset, FS_CardinalityType

LEMMA QuietWays ==
    ASSUME FlowInv, NEW g \in Games,
           (\E op \in Ops : MovesOn(op) \/ Starts(op)) \/ UNCHANGED <<flow, owed>>
    PROVE  OnWay(g)' = OnWay(g)
<1>1. CASE UNCHANGED <<flow, owed>>
  BY <1>1 DEF OnWay, At
<1>2. ASSUME NEW op \in Ops, MovesOn(op)
      PROVE  OnWay(g)' = OnWay(g)
  BY <1>2, GotoMoves DEF MovesOn, OnWay, At
<1>3. ASSUME NEW op \in Ops, Starts(op)
      PROVE  OnWay(g)' = OnWay(g)
  <2>1. \A o \in Ops : flow[o].kind = "join" => flow'[o] = flow[o]
    BY <1>3 DEF Starts
  <2>2. \A o \in Ops : (At(o, "join", "marked"))' => At(o, "join", "marked")
    BY <1>3 DEF Starts, At
  <2>3. \A o \in Requests(owed) : flow[o].kind = "join"
    BY OwedAre DEF Requests
  <2>4. owed' = owed
    BY <1>3 DEF Starts
  <2> QED BY <2>1, <2>2, <2>3, <2>4 DEF OnWay, At
<1> QED BY <1>1, <1>2, <1>3

LEMMA MarkWays ==
    ASSUME FlowInv, LineInv, NEW op \in Ops, Marks(op), NEW g \in Games
    PROVE  /\ OnWay(g)' = IF flow[op].game = g THEN OnWay(g) \cup {op} ELSE OnWay(g)
           /\ op \notin OnWay(g)
<1>1. /\ flow'[op].pc = "marked" /\ flow'[op].kind = flow[op].kind /\ flow'[op].game = flow[op].game
      /\ \A o \in Ops \ {op} : flow'[o] = flow[o]
      /\ owed' = owed /\ At(op, "join", "asking")
  BY GotoMoves DEF Marks
<1>2. op \notin Requests(owed)
  BY <1>1 DEF LineInv, RequestInv, OwedOnce, Requests, At
<1> QED BY <1>1, <1>2 DEF OnWay, At

LEMMA SendWays ==
    ASSUME FlowInv, LineInv, NEW op \in Ops, SendJoin(op), NEW g \in Games
    PROVE  /\ owed' = Append(owed, op) => OnWay(g)' = OnWay(g)
           /\ owed' = owed => OnWay(g)' = OnWay(g) \ {op}
<1>1. /\ flow'[op].pc # "marked" /\ flow'[op].kind = flow[op].kind /\ flow'[op].game = flow[op].game
      /\ \A o \in Ops \ {op} : flow'[o] = flow[o]
      /\ At(op, "join", "marked")
  BY GotoMoves DEF SendJoin
<1>2. op \notin Requests(owed)
  BY <1>1 DEF LineInv, RequestInv, OwedOnce, Requests, At
<1>3. owed' = Append(owed, op) => Requests(owed') = Requests(owed) \cup {op}
  <2> owed \in Seq(Ops) /\ Len(owed) \in Nat
    BY OwedAre
  <2>1. ASSUME owed' = Append(owed, op)
        PROVE  /\ Len(owed') = Len(owed) + 1 /\ owed'[Len(owed) + 1] = op
               /\ \A i \in 1..Len(owed) : owed'[i] = owed[i]
    BY <2>1
  <2>2. \A i \in 1..Len(owed) + 1 : i \in 1..Len(owed) \/ i = Len(owed) + 1
    OBVIOUS
  <2>3. 1..Len(owed) \subseteq 1..Len(owed) + 1 /\ Len(owed) + 1 \in 1..Len(owed) + 1
    OBVIOUS
  <2> QED BY <2>1, <2>2, <2>3 DEF Requests
<1>4. ASSUME owed' = Append(owed, op)
      PROVE  OnWay(g)' = OnWay(g)
  BY <1>1, <1>2, <1>3, <1>4 DEF OnWay, At
<1>5. ASSUME owed' = owed
      PROVE  OnWay(g)' = OnWay(g) \ {op}
  BY <1>1, <1>2, <1>5 DEF OnWay, At
<1> QED BY <1>4, <1>5

LEMMA AnswerWays ==
    ASSUME FlowInv, LineInv, owed # <<>>, owed' = Tail(owed), UNCHANGED flow, NEW g \in Games
    PROVE  /\ OnWay(g)' = OnWay(g) \ {Head(owed)}
           /\ Head(owed) \in Ops /\ flow[Head(owed)].game \in Games
           /\ Head(owed) \in OnWay(g) <=> flow[Head(owed)].game = g
           /\ 1 \in 1..Len(owed) /\ owed[1] = Head(owed)
           /\ Len(owed') = Len(owed) - 1
           /\ \A i \in 1..Len(owed') : owed'[i] = owed[i + 1] /\ i + 1 \in 1..Len(owed)
                                       /\ owed'[i] # Head(owed)
<1>1. owed \in Seq(Ops) /\ Len(owed) \in Nat
  BY OwedAre
<1>2. /\ 1 \in 1..Len(owed) /\ owed[1] = Head(owed) /\ Len(owed') = Len(owed) - 1
      /\ \A i \in 1..Len(owed') : owed'[i] = owed[i + 1] /\ i + 1 \in 1..Len(owed)
  BY <1>1
<1>3. \A i \in 1..Len(owed') : owed'[i] # Head(owed)
  <2> SUFFICES ASSUME NEW i \in 1..Len(owed'), owed'[i] = Head(owed)
               PROVE  FALSE
    OBVIOUS
  <2>1. i + 1 = 1
    BY <1>2 DEF LineInv, RequestInv, OwedOnce
  <2> QED BY <1>1, <1>2, <2>1
<1>4. \A i \in 1..Len(owed) : i = 1 \/ (i - 1 \in 1..Len(owed') /\ owed'[i - 1] = owed[i])
  BY <1>1, <1>2
<1>5. Requests(owed') = Requests(owed) \ {Head(owed)}
  <2>1. ASSUME NEW r \in Requests(owed')
        PROVE  r \in Requests(owed) \ {Head(owed)}
    <3>1. PICK i \in 1..Len(owed') : r = owed'[i]
      BY DEF Requests
    <3> QED BY <1>2, <1>3, <3>1 DEF Requests
  <2>2. ASSUME NEW r \in Requests(owed) \ {Head(owed)}
        PROVE  r \in Requests(owed')
    <3>1. PICK i \in 1..Len(owed) : r = owed[i]
      BY DEF Requests
    <3>2. i # 1
      BY <1>2, <3>1
    <3> QED BY <1>4, <3>1, <3>2 DEF Requests
  <2> QED BY <2>1, <2>2
<1>6. /\ Head(owed) \in Ops /\ flow[Head(owed)].game \in Games /\ flow[Head(owed)].pc = "done"
      /\ Head(owed) \in Requests(owed)
  BY <1>2, OwedAre DEF Requests, FlowInv, JoinsNameGames, LineInv, RequestInv, OwedOnce
<1>7. OnWay(g)' = OnWay(g) \ {Head(owed)}
  BY <1>5, <1>6 DEF OnWay, At
<1> QED BY <1>2, <1>3, <1>6, <1>7 DEF OnWay

-----------------------------------------------------------------------------
(* Given-up requests.  Outside a teardown every request of a game that was  *)
(* given up is on record; a request that is owed an answer is the slot's or *)
(* was given up; and those given up were sent before the one that waits.    *)
LineKept == wire \/ loop \in Shut
Tracked == loop \notin Down \ Shut
GivenUp(g) == gaveUp \cap OnWay(g)
GivenUpRecorded ==
    Tracked => \A g \in Games \ muddled : Cardinality(GivenUp(g)) <= calledOff[g]
NoOrphans ==
    \A i \in 1..Len(owed) : flow[owed[i]].game \notin muddled => owed[i] \in gaveUp \cup {slot.op}
GivenUpFirst ==
    \A i \in 1..Len(owed) : owed[i] = slot.op /\ slot.game \notin muddled =>
        \A r \in GivenUp(slot.game) : \E j \in 1..i : owed[j] = r
GivenInv == GivenUpRecorded /\ NoOrphans /\ GivenUpFirst

LEMMA OpsCounts ==
    ASSUME NEW S \in SUBSET Ops
    PROVE  /\ Cardinality(S) \in Nat
           /\ Cardinality(S) = 0 <=> S = {}
           /\ \A T \in SUBSET S : Cardinality(T) <= Cardinality(S)
           /\ \A x \in S : Cardinality(S \ {x}) = Cardinality(S) - 1
           /\ \A x : x \notin S => Cardinality(S \cup {x}) = Cardinality(S) + 1
<1>1. IsFiniteSet(Ops)
  BY FS_Interval, OperationsAssumption DEF Ops
<1>2. IsFiniteSet(S)
  BY <1>1, FS_Subset
<1>3. /\ Cardinality(S) \in Nat
      /\ Cardinality(S) = 0 <=> S = {}
  BY <1>2, FS_CardinalityType, FS_EmptySet
<1>4. \A T \in SUBSET S : Cardinality(T) <= Cardinality(S)
  BY <1>2, FS_Subset
<1>5. /\ \A x \in S : Cardinality(S \ {x}) = Cardinality(S) - 1
      /\ \A x : x \notin S => Cardinality(S \cup {x}) = Cardinality(S) + 1
  BY <1>2, FS_AddElement, FS_RemoveElement
<1> QED BY <1>3, <1>4, <1>5

(* A step that sends, answers and gives up nothing.                         *)
LEMMA GivenStays ==
    ASSUME FlowInv, GivenInv, UNCHANGED <<calledOff, owed, gaveUp, muddled>>, Tracked' => Tracked,
           \A g \in Games : OnWay(g)' \cap gaveUp \subseteq GivenUp(g),
           \A i \in 1..Len(owed) : /\ flow'[owed[i]].game = flow[owed[i]].game
                                   /\ owed[i] = slot'.op => slot' = slot
                                   /\ owed[i] = slot.op => slot'.op = slot.op \/ owed[i] \in gaveUp
                                         \/ flow[owed[i]].game \in muddled
    PROVE  GivenInv'
<1>0. \A g \in Games : GivenUp(g)' \subseteq GivenUp(g)
  BY DEF GivenUp
<1>1. GivenUpRecorded'
  <2> SUFFICES ASSUME Tracked', NEW g \in Games \ muddled
               PROVE  Cardinality(GivenUp(g)') <= calledOff[g]
    BY DEF GivenUpRecorded
  <2>1. GivenUp(g) \in SUBSET Ops
    BY WaysFinite DEF GivenUp
  <2>2. /\ Cardinality(GivenUp(g)') <= Cardinality(GivenUp(g))
        /\ Cardinality(GivenUp(g)) \in Nat
    BY <1>0, <2>1, OpsCounts
  <2>3. Cardinality(GivenUp(g)') \in Nat /\ calledOff[g] \in Nat
    BY <1>0, <2>1, OpsCounts DEF FlowInv, TypeOK, OperationsTypeOK
  <2>4. Cardinality(GivenUp(g)) <= calledOff[g]
    BY DEF GivenInv, GivenUpRecorded
  <2> QED BY <2>2, <2>3, <2>4
<1>2. NoOrphans'
  BY DEF GivenInv, NoOrphans
<1>3. GivenUpFirst'
  <2> SUFFICES ASSUME NEW i \in 1..Len(owed), owed[i] = slot'.op, slot'.game \notin muddled,
                      NEW r \in GivenUp(slot.game)'
               PROVE  \E j \in 1..i : owed[j] = r
    BY DEF GivenUpFirst
  <2>1. slot' = slot /\ slot.op # NoOp
    BY OwedAre, ClaimIs
  <2>2. r \in GivenUp(slot.game)
    BY <1>0, <2>1, ClaimIs DEF GivenUp, OnWay, At
  <2> QED BY <2>1, <2>2 DEF GivenInv, GivenUpFirst
<1> QED BY <1>1, <1>2, <1>3 DEF GivenInv

(* An answer takes the oldest request: if that one was not given up, no     *)
(* given-up request for its game is before it, so no record is one short.   *)
LEMMA GivenAnswered ==
    ASSUME FlowInv, LineInv, GivenInv, Tracked, owed # <<>>, owed' = Tail(owed), UNCHANGED flow,
           NEW g \in {flow[Head(owed)].game, NoGame}, TakeRecord(g), gaveUp' = gaveUp \ {Head(owed)},
           muddled \subseteq muddled', slot' \in {slot, NoClaim},
           slot' # slot => Orphans(owed', slot', gaveUp) \subseteq muddled'
    PROVE  GivenInv'
<1> DEFINE h == Head(owed)
<1>1. /\ h \in Ops /\ flow[h].game \in Games /\ 1 \in 1..Len(owed) /\ owed[1] = h
      /\ \A i \in 1..Len(owed') : owed'[i] = owed[i + 1] /\ i + 1 \in 1..Len(owed) /\ owed'[i] # h
      /\ Len(owed') = Len(owed) - 1
  <2> PICK x \in Games : TRUE
    BY OwedAre DEF FlowInv, JoinsNameGames
  <2> QED BY AnswerWays
<1>2. \A x \in Games : /\ OnWay(x)' = OnWay(x) \ {h}
                       /\ h \in OnWay(x) <=> flow[h].game = x
  BY AnswerWays
<1>3. \A x \in Games : GivenUp(x)' = GivenUp(x) \ {h} /\ GivenUp(x) \in SUBSET Ops
  BY <1>2, WaysFinite DEF GivenUp
<1>4. GivenUpRecorded'
  <2> SUFFICES ASSUME NEW x \in Games \ muddled
               PROVE  Cardinality(GivenUp(x)') <= calledOff'[x]
    BY DEF GivenUpRecorded
  <2>1. Cardinality(GivenUp(x)) <= calledOff[x]
    BY DEF GivenInv, GivenUpRecorded, Tracked
  <2>2. /\ Cardinality(GivenUp(x)') <= Cardinality(GivenUp(x))
        /\ h \in GivenUp(x) => Cardinality(GivenUp(x)') = Cardinality(GivenUp(x)) - 1
        /\ Cardinality(GivenUp(x)) \in Nat /\ Cardinality(GivenUp(x)') \in Nat
    <3>1. GivenUp(x)' \in SUBSET GivenUp(x) /\ GivenUp(x)' \in SUBSET Ops
      BY <1>3
    <3> QED BY <1>3, <3>1, OpsCounts
  <2>3. calledOff[x] \in Nat /\ calledOff \in [Games -> Nat]
    BY DEF FlowInv, TypeOK, OperationsTypeOK
  <2>4. CASE Remembered(g) /\ g = x
    <3>1. calledOff'[x] = calledOff[x] - 1 /\ calledOff[x] > 0 /\ flow[h].game = x
      BY <2>3, <2>4, OperationsAssumption DEF TakeRecord, DropRecord, Remembered
    <3>2. CASE h \in gaveUp
      BY <1>2, <2>1, <2>2, <2>3, <3>1, <3>2 DEF GivenUp
    <3>3. CASE h \notin gaveUp
      <4>1. slot.op = h /\ slot.game = x
        BY <1>1, <3>1, <3>3, ClaimIs DEF GivenInv, NoOrphans
      <4>2. \A r \in GivenUp(x) : \E j \in 1..1 : owed[j] = r
        BY <1>1, <4>1 DEF GivenInv, GivenUpFirst
      <4>3. GivenUp(x)' = {}
        BY <1>1, <1>3, <4>2
      <4> QED BY <2>3, <3>1, <4>3, OpsCounts
    <3> QED BY <3>2, <3>3
  <2>5. CASE ~(Remembered(g) /\ g = x)
    <3>1. calledOff'[x] = calledOff[x]
      BY <2>3, <2>5 DEF TakeRecord, DropRecord
    <3> QED BY <2>1, <2>2, <2>3, <3>1
  <2> QED BY <2>4, <2>5
<1>5. NoOrphans'
  <2> SUFFICES ASSUME NEW i \in 1..Len(owed'), flow[owed'[i]].game \notin muddled'
               PROVE  owed'[i] \in gaveUp' \cup {slot'.op}
    BY DEF NoOrphans
  <2>1. CASE slot' = slot
    BY <1>1, <2>1 DEF GivenInv, NoOrphans
  <2>2. CASE slot' # slot
    <3>1. owed'[i] \in Requests(owed') /\ owed'[i] \in Ops
      BY <1>1, OwedAre DEF Requests
    <3>2. owed'[i] = slot'.op \/ owed'[i] \in gaveUp
      BY <2>2, <3>1 DEF Orphans
    <3> QED BY <1>1, <3>2
  <2> QED BY <2>1, <2>2
<1>6. GivenUpFirst'
  <2> SUFFICES ASSUME NEW i \in 1..Len(owed'), owed'[i] = slot'.op, slot'.game \notin muddled',
                      NEW r \in GivenUp(slot.game)'
               PROVE  \E j \in 1..i : owed'[j] = r
    <3>1. \A i \in 1..Len(owed') : owed'[i] = slot'.op => slot' = slot
      BY <1>1, OwedAre DEF NoClaim, NoOp, Ops
    <3> QED BY <3>1 DEF GivenUpFirst, GivenUp, OnWay, At
  <2>1. slot' = slot /\ slot.op # NoOp /\ slot.game \in Games
    BY <1>1, OwedAre, ClaimIs DEF NoClaim
  <2>2. r \in GivenUp(slot.game) /\ r # h
    BY <1>3, <2>1 
  <2>3. PICK j \in 1..(i + 1) : owed[j] = r
    BY <1>1, <2>1, <2>2 DEF GivenInv, GivenUpFirst
  <2>4. j # 1 /\ Len(owed) \in Nat
    BY <1>1, <2>2, <2>3, OwedAre
  <2>5. j - 1 \in 1..i /\ j - 1 \in 1..Len(owed')
    BY <1>1, <2>3, <2>4
  <2>6. owed'[j - 1] = owed[(j - 1) + 1]
    BY <1>1, <2>5
  <2> QED BY <2>3, <2>5, <2>6
<1> QED BY <1>4, <1>5, <1>6 DEF GivenInv

LEMMA GivenSent ==
    ASSUME FlowInv, LineInv, GivenInv, NEW op \in Ops, SendJoin(op)
    PROVE  GivenInv'
<1>1. /\ At(op, "join", "marked") /\ flow'[op].pc # "marked"
      /\ \A o \in Ops : flow'[o].game = flow[o].game
      /\ \A o \in Ops \ {op} : flow'[o] = flow[o]
      /\ UNCHANGED <<slot, calledOff, wire, gaveUp, loop>>
  BY GotoMoves DEF SendJoin, opVars, loopVars
<1>2. \A i \in 1..Len(owed) : owed[i] # op
  BY <1>1 DEF LineInv, RequestInv, OwedOnce, At
<1>3. Tracked' <=> Tracked
  BY <1>1 DEF Tracked
<1>4. ASSUME UNCHANGED <<owed, muddled>>
      PROVE  GivenInv'
  <2>1. \A g \in Games : OnWay(g)' \cap gaveUp \subseteq GivenUp(g)
    BY <1>4, SendWays DEF GivenUp
  <2> QED BY <1>1, <1>3, <1>4, <2>1, OwedAre, GivenStays
<1>5. ASSUME owed' = Append(owed, op),
             muddled' = IF \/ op \notin gaveUp /\ slot.op # op
                           \/ \E r \in gaveUp \ {op} : Crosses(r, op)
                        THEN muddled \cup {flow[op].game} ELSE muddled
      PROVE  GivenInv'
  <2>1. \A g \in Games : (GivenUp(g))' = GivenUp(g)
    BY <1>1, <1>5, SendWays DEF GivenUp
  <2>2. muddled \subseteq muddled'
    BY <1>5
  <2>3. /\ owed \in Seq(Ops) /\ Len(owed) \in Nat
    BY OwedAre
  <2>4. /\ Len(owed') = Len(owed) + 1 /\ owed'[Len(owed) + 1] = op
        /\ \A i \in 1..Len(owed) : owed'[i] = owed[i]
        /\ \A i \in 1..Len(owed') : i \in 1..Len(owed) \/ i = Len(owed) + 1
    BY <1>5, <2>3
  <2>5. GivenUpRecorded'
    BY <1>1, <1>3, <2>1, <2>2 DEF GivenInv, GivenUpRecorded
  <2>6. NoOrphans'
    <3> SUFFICES ASSUME NEW i \in 1..Len(owed'), flow'[owed'[i]].game \notin muddled'
                 PROVE  owed'[i] \in gaveUp \cup {slot.op}
      BY <1>1 DEF NoOrphans
    <3>1. CASE i \in 1..Len(owed)
      BY <1>1, <2>2, <2>4, <3>1, OwedAre DEF GivenInv, NoOrphans
    <3>2. CASE i = Len(owed) + 1
      BY <1>1, <1>5, <2>4, <3>2
    <3> QED BY <2>4, <3>1, <3>2
  <2>7. GivenUpFirst'
    <3> SUFFICES ASSUME NEW i \in 1..Len(owed'), owed'[i] = slot.op, slot.game \notin muddled',
                        NEW r \in GivenUp(slot.game)
                 PROVE  \E j \in 1..i : owed'[j] = r
      <4>1. \A i \in 1..Len(owed') : owed'[i] = slot.op => slot.game \in Games
        BY <1>2, <2>4, OwedAre, ClaimIs
      <4> QED BY <1>1, <2>1, <4>1 DEF GivenUpFirst, GivenUp, OnWay, At
    <3>1. CASE i \in 1..Len(owed)
      <4>1. PICK j \in 1..i : owed[j] = r
        BY <2>2, <2>4, <3>1 DEF GivenInv, GivenUpFirst
      <4> QED BY <2>3, <2>4, <3>1, <4>1
    <3>2. CASE i = Len(owed) + 1
      <4>1. slot.op = op /\ slot.game = flow[op].game
        BY <2>4, <3>2, ClaimIs
      <4>2. r = op \/ r \in Requests(owed)
        BY <1>5, <4>1 DEF GivenUp, OnWay, Crosses
      <4>3. PICK j \in 1..Len(owed) + 1 : owed'[j] = r
        BY <2>3, <2>4, <4>2 DEF Requests
      <4> QED BY <3>2, <4>3
    <3> QED BY <2>4, <3>1, <3>2
  <2> QED BY <2>5, <2>6, <2>7 DEF GivenInv
<1> QED BY <1>1, <1>4, <1>5 DEF SendJoin

LEMMA GivenKept ==
    ASSUME FlowInv, LineInv, GivenInv, "drop" \notin Events, [Next]_vars
    PROVE  GivenInv'
<1>0. /\ \A i \in 1..Len(owed) : owed[i] \in Ops /\ flow[owed[i]].kind = "join" /\ owed[i] # NoOp
      /\ calledOff \in [Games -> Nat]
      /\ NoClaim.op = NoOp
      /\ \A i \in 1..Len(owed) : flow[owed[i]].pc = "done"
  BY OwedAre, ClaimIs DEF FlowInv, TypeOK, OperationsTypeOK, NoClaim, LineInv, RequestInv, OwedOnce
<1>1. ASSUME NEW op \in Ops, MovesOn(op)
      PROVE  GivenInv'
  <2>1. \A o \in Ops : flow'[o].game = flow[o].game
    BY <1>1, GotoMoves DEF MovesOn
  <2>2. /\ UNCHANGED <<calledOff, owed, gaveUp, muddled>> /\ (Tracked' => Tracked)
        /\ \A g \in Games : OnWay(g)' \cap gaveUp \subseteq GivenUp(g)
    BY <1>1, QuietWays DEF MovesOn, Tracked, GivenUp
  <2>3. slot' = slot \/ (slot.op = op /\ slot' = NoClaim /\ flow[op].pc # "done")
    BY <1>1 DEF MovesOn
  <2> QED BY <1>0, <2>1, <2>2, <2>3, GivenStays
<1>2. ASSUME NEW op \in Ops, Marks(op)
      PROVE  GivenInv'
  <2>1. \A o \in Ops : flow'[o].game = flow[o].game
    BY <1>2, GotoMoves DEF Marks
  <2>2. op \notin gaveUp /\ flow[op].pc # "done" /\ slot.op = op /\ slot'.op = op
    BY <1>2, ClaimIs DEF Marks, At, LineInv, RequestInv, SentIsOut, OutPcs, MarkSent, MayMarkSent,
                         FlowInv, TypeOK, OperationsTypeOK, Claims, NoClaim
  <2>3. /\ UNCHANGED <<calledOff, owed, gaveUp, muddled>> /\ (Tracked' => Tracked)
        /\ \A g \in Games : OnWay(g)' \cap gaveUp \subseteq GivenUp(g)
    BY <1>2, <2>2, MarkWays DEF Marks, Tracked, GivenUp
  <2> QED BY <1>0, <2>1, <2>2, <2>3, GivenStays
<1>3. ASSUME NEW op \in Ops, Starts(op)
      PROVE  GivenInv'
  <2>1. \A o \in Ops : flow[o].kind = "join" => flow'[o] = flow[o] /\ o # op
    BY <1>3 DEF Starts
  <2>2. /\ UNCHANGED <<calledOff, owed, gaveUp, muddled>> /\ (Tracked' => Tracked)
        /\ \A g \in Games : OnWay(g)' \cap gaveUp \subseteq GivenUp(g)
    BY <1>3, QuietWays DEF Starts, LoopKept, Tracked, GivenUp
  <2>3. slot' = slot \/ (slot.op = NoOp /\ slot'.op = op)
    BY <1>3 DEF Starts
  <2> QED BY <1>0, <2>1, <2>2, <2>3, GivenStays
<1>4. CASE Rests \/ Connect
  <2>1. UNCHANGED <<slot, calledOff, flow, owed, gaveUp, muddled>> /\ (Tracked' => Tracked)
    BY <1>4 DEF Rests, Connect, LoopKept, Tracked, Shut, Down, opVars, flowVars, history
  <2>2. \A g \in Games : OnWay(g)' \cap gaveUp \subseteq GivenUp(g)
    BY <2>1, QuietWays DEF GivenUp
  <2> QED BY <2>1, <2>2, GivenStays
<1>5. CASE CancelFrees
  <2>1. /\ UNCHANGED <<flow, owed, muddled, wire, loop>> /\ CallOffJoin
        /\ gaveUp' = IF slot.sent THEN gaveUp \cup {slot.op} ELSE gaveUp
    BY <1>5 DEF CancelFrees, flowVars, linkVars, loopVars
  <2>2. \A g \in Games : OnWay(g)' = OnWay(g)
    BY <2>1, QuietWays
  <2>3. GivenUpRecorded'
    <3> SUFFICES ASSUME Tracked', NEW g \in Games \ muddled
                 PROVE  Cardinality(GivenUp(g)') <= calledOff'[g]
      BY <2>1 DEF GivenUpRecorded
    <3>1. Cardinality(GivenUp(g)) <= calledOff[g] /\ calledOff[g] \in Nat
      BY <1>0, <2>1 DEF GivenInv, GivenUpRecorded, Tracked
    <3>2. GivenUp(g) \in SUBSET Ops
      BY WaysFinite DEF GivenUp
    <3>3. CASE slot.sent /\ slot.game = g
      <4>1. calledOff'[g] = calledOff[g] + 1
        BY <1>0, <2>1, <3>3 DEF CallOffJoin
      <4>2. GivenUp(g)' \in SUBSET (GivenUp(g) \cup {slot.op}) /\ GivenUp(g) \cup {slot.op} \in SUBSET Ops
        BY <2>1, <2>2, <3>2, <3>3, ClaimIs DEF GivenUp
      <4>3. /\ Cardinality(GivenUp(g) \cup {slot.op}) <= Cardinality(GivenUp(g)) + 1
            /\ Cardinality(GivenUp(g) \cup {slot.op}) \in Nat
            /\ Cardinality(GivenUp(g)) \in Nat
        <5>1. CASE slot.op \in GivenUp(g)
          <6>1. GivenUp(g) \cup {slot.op} = GivenUp(g)
            BY <5>1
          <6> QED BY <3>2, <6>1, OpsCounts
        <5>2. CASE slot.op \notin GivenUp(g)
          BY <3>2, <5>2, OpsCounts
        <5> QED BY <5>1, <5>2
      <4>4. /\ Cardinality(GivenUp(g)') <= Cardinality(GivenUp(g) \cup {slot.op})
            /\ Cardinality(GivenUp(g)') \in Nat
        BY <4>2, OpsCounts
      <4> QED BY <3>1, <4>1, <4>3, <4>4
    <3>4. CASE ~(slot.sent /\ slot.game = g)
      <4>1. calledOff'[g] = calledOff[g]
        BY <1>0, <2>1, <3>4 DEF CallOffJoin
      <4>2. GivenUp(g)' = GivenUp(g)
        BY <2>1, <2>2, <3>4, ClaimIs DEF GivenUp, OnWay
      <4> QED BY <3>1, <4>1, <4>2
    <3> QED BY <3>3, <3>4
  <2>4. NoOrphans'
    BY <1>0, <2>1 DEF CallOffJoin, GivenInv, NoOrphans, LineInv, RequestInv, SentIsOut
  <2>5. GivenUpFirst'
    BY <1>0, <2>1 DEF CallOffJoin, GivenUpFirst
  <2> QED BY <2>3, <2>4, <2>5 DEF GivenInv
<1>6. CASE Forgets
  <2>1. /\ gaveUp' = {} /\ slot'.op = NoOp /\ UNCHANGED <<flow, owed>>
        /\ muddled' = muddled \cup Orphans(owed, NoClaim, {})
        /\ calledOff' = [g \in Games |-> 0]
    BY <1>0, <1>6 DEF Forgets, ForgetJoins, ReleaseAnyJoin
  <2>2. GivenUpRecorded'
    <3>1. \A g : GivenUp(g)' = {}
      BY <2>1 DEF GivenUp
    <3> QED BY <2>1, <3>1, FS_EmptySet DEF GivenUpRecorded
  <2>3. NoOrphans'
    BY <1>0, <2>1 DEF NoOrphans, Orphans, Requests
  <2>4. GivenUpFirst'
    BY <1>0, <2>1 DEF GivenUpFirst
  <2> QED BY <2>2, <2>3, <2>4 DEF GivenInv
<1>7. CASE Closes
  <2>1. /\ UNCHANGED <<slot, calledOff, flow, loop, muddled>> /\ Starting(owed')
        /\ gaveUp' = gaveUp \ (Requests(owed) \ Requests(owed'))
    BY <1>7, OldestIsKept DEF Closes, CloseWire
  <2>2. Requests(owed') \subseteq Requests(owed) /\ gaveUp' \subseteq gaveUp
    BY <2>1 DEF Starting, Requests
  <2>3. \A g \in Games : GivenUp(g)' \subseteq GivenUp(g) /\ GivenUp(g) \in SUBSET Ops
    BY <2>1, <2>2, WaysFinite DEF GivenUp, OnWay, At
  <2>4. GivenUpRecorded'
    <3> SUFFICES ASSUME Tracked, NEW g \in Games \ muddled
                 PROVE  Cardinality(GivenUp(g)') <= calledOff[g]
      BY <2>1 DEF GivenUpRecorded, Tracked
    <3>1. /\ Cardinality(GivenUp(g)') <= Cardinality(GivenUp(g))
          /\ Cardinality(GivenUp(g)') \in Nat /\ Cardinality(GivenUp(g)) \in Nat
      BY <2>3, OpsCounts
    <3>2. Cardinality(GivenUp(g)) <= calledOff[g] /\ calledOff[g] \in Nat
      BY <1>0 DEF GivenInv, GivenUpRecorded
    <3> QED BY <3>1, <3>2
  <2>5. NoOrphans'
    <3> SUFFICES ASSUME NEW i \in 1..Len(owed'), flow[owed'[i]].game \notin muddled
                 PROVE  owed'[i] \in gaveUp' \cup {slot.op}
      BY <2>1 DEF NoOrphans
    <3>1. i \in 1..Len(owed) /\ owed'[i] = owed[i] /\ owed'[i] \in Requests(owed')
      BY <2>1 DEF Starting, Requests
    <3> QED BY <2>1, <3>1 DEF GivenInv, NoOrphans
  <2>6. GivenUpFirst'
    <3> SUFFICES ASSUME NEW i \in 1..Len(owed'), owed'[i] = slot.op, slot.game \notin muddled,
                        NEW r \in GivenUp(slot.game)'
                 PROVE  \E j \in 1..i : owed'[j] = r
      BY <2>1 DEF GivenUpFirst, GivenUp, OnWay, At
    <3>1. i \in 1..Len(owed) /\ owed[i] = slot.op /\ Len(owed') \in Nat
      BY <2>1 DEF Starting
    <3>2. slot.game \in Games
      BY <1>0, <3>1, OwedAre, ClaimIs
    <3>4. r \in GivenUp(slot.game)
      BY <2>1, <2>3, <3>2
    <3>3. PICK j \in 1..i : owed[j] = r
      BY <3>1, <3>4 DEF GivenInv, GivenUpFirst
    <3> QED BY <2>1, <3>1, <3>3 DEF Starting
  <2> QED BY <2>4, <2>5, <2>6 DEF GivenInv
<1>8. CASE LaunchFreesSlot
  <2>1. /\ UNCHANGED <<flow, owed, wire, gaveUp, calledOff>> /\ slot' \in {slot, NoClaim}
        /\ muddled' = muddled \cup Orphans(owed, slot', gaveUp) /\ loop' = "reading"
    BY <1>8 DEF LaunchFreesSlot, ReleaseLaunched, flowVars, linkVars
  <2>2. \A g \in Games : GivenUp(g)' = GivenUp(g)
    BY <2>1, QuietWays DEF GivenUp
  <2>3. GivenUpRecorded'
    BY <1>8, <2>1, <2>2 DEF LaunchFreesSlot, GivenInv, GivenUpRecorded, Tracked, Shut, Down
  <2>4. NoOrphans'
    BY <1>0, <2>1 DEF NoOrphans, Orphans, Requests
  <2>5. GivenUpFirst'
    <3>1. \A i \in 1..Len(owed) : owed[i] = slot'.op => slot' = slot /\ slot.game \in Games
      BY <1>0, <2>1, ClaimIs
    <3> QED BY <2>1, <2>2, <3>1 DEF GivenInv, GivenUpFirst, GivenUp, OnWay, At
  <2> QED BY <2>3, <2>4, <2>5 DEF GivenInv
<1>9. ~Reconnecting
  BY DEF Reconnecting
<1>10. ASSUME NEW g \in Games \cup {NoGame}, Refusal(g)
       PROVE  GivenInv'
  <2>1. /\ Tracked /\ owed # <<>> /\ owed' = Tail(owed) /\ UNCHANGED flow
        /\ g \in {flow[Head(owed)].game, NoGame} /\ TakeRecord(g)
        /\ gaveUp' = gaveUp \ {Head(owed)} /\ slot' \in {slot, NoClaim}
        /\ muddled' = muddled \cup Orphans(owed', slot', gaveUp)
    BY <1>10 DEF Refusal, Reading, RefusalOf, TakeRecord, flowVars, Tracked, Down
  <2> QED BY <2>1, GivenAnswered
<1>11. ASSUME NEW g \in Games \cup {NoGame}, LaunchOrder(g)
       PROVE  GivenInv'
  <2>1. /\ Tracked /\ UNCHANGED <<flow, slot, muddled>> /\ TakeRecord(g)
    BY <1>11 DEF LaunchOrder, Reading, flowVars, Tracked, Down
  <2>2. CASE owed # <<>> /\ g = flow[Head(owed)].game /\ owed' = Tail(owed)
             /\ gaveUp' = gaveUp \ {Head(owed)}
    BY <2>1, <2>2, GivenAnswered
  <2>3. CASE g = NoGame /\ UNCHANGED <<owed, gaveUp>>
    <3>1. UNCHANGED calledOff
      BY <2>1, <2>3, OperationsAssumption DEF TakeRecord, Remembered
    <3>2. \A x \in Games : OnWay(x)' \cap gaveUp \subseteq GivenUp(x)
      BY <2>1, <2>3, QuietWays DEF GivenUp
    <3>3. Tracked' => Tracked
      BY <2>1 DEF Tracked
    <3> QED BY <1>0, <2>1, <2>3, <3>1, <3>2, <3>3, GivenStays
  <2> QED BY <1>11, <2>2, <2>3 DEF LaunchOrder
<1>12. CASE LoopEnds
  <2>1. /\ owed = <<>> /\ UNCHANGED owed /\ loop' = "ending"
    BY <1>12 DEF LoopEnds, linkVars
  <2> QED BY <2>1 DEF GivenInv, GivenUpRecorded, NoOrphans, GivenUpFirst, Tracked, Down, Shut
<1> QED
  BY StepKinds, <1>1, <1>2, <1>3, <1>4, <1>5, <1>6, <1>7, <1>8, <1>9, <1>10, <1>11, <1>12, GivenSent
  DEF LineInv

(* Only the server's answers take the loop away from its reading so.        *)
LEMMA LoopTakesOne ==
    ASSUME Next, loop = "reading"
    PROVE  /\ loop' = "taken" => \E g \in Games \cup {NoGame} : LaunchOrder(g)
           /\ loop' = "refused" => \E g \in Games \cup {NoGame} : Refusal(g)
<1> USE DEF loopVars
<1>1. ASSUME NEW op \in Ops, FlowStep(op)
      PROVE  loop' = loop
  BY <1>1 DEF FlowStep, JoinStep, JoinBecomesCurrent, RefuseJoin, ShowJoining, ShowPrepared, Mark,
              SendJoin, Release, Report, PreparationStep, CheckNarration, Narrate, PreparationEnds,
              HostStep, HostBecomesCurrent, HostUpdated, SendHost, LaunchStep, StartLaunch,
              AdapterStarted, GameSpawned, LaunchReports
<1>2. UserStep => loop' = loop
  BY DEF UserStep, CancelFlags, CancelFrees, CancelShows, UserKills, UserForgets, UserTerminated,
         HangUpCloses, HangUpFlags, HangUpForgets
<1>3. LoopStep => loop' \notin {"taken", "refused"}
  BY DEF LoopStep, LoopKills, LoopForgets, LoopTerminated, ShowRefusal, AnnounceLaunch,
         IssueLaunch, LaunchBecomesCurrent, LaunchFreesSlot, LoopEnds, TeardownFlags,
         TeardownForgets, TeardownShows
<1>4. Environment => loop' \notin {"taken", "refused"}
  BY DEF Environment, CheckJoin, RefuseDuplicate, RefuseHost, BeginJoin, BeginHost, UserCommand,
         HangUp, GameExits, KillNotice, MatchCancelled, Connect, Authenticated, Reconnecting,
         StreamEnds
<1>5. ASSUME NEW g, Refusal(g)
      PROVE  loop' # "taken"
  BY <1>5 DEF Refusal
<1>6. ASSUME NEW g, LaunchOrder(g)
      PROVE  loop' # "refused"
  BY <1>6 DEF LaunchOrder
<1> QED BY <1>1, <1>2, <1>3, <1>4, <1>5, <1>6 DEF Next, ServerAnswer

LEMMA GivenInvariant ==
    ASSUME "drop" \notin Events
    PROVE  Spec => [](FlowInv /\ LineInv /\ GivenInv)
<1>1. Init => GivenInv
  <2> SUFFICES ASSUME Init
               PROVE  GivenInv
    OBVIOUS
  <2>1. \A g : GivenUp(g) = {}
    BY DEF Init, GivenUp
  <2>2. calledOff = [g \in Games |-> 0] /\ owed = <<>>
    BY DEF Init, OperationsInit
  <2>3. GivenUpRecorded
    <3> SUFFICES ASSUME NEW g \in Games
                 PROVE  Cardinality(GivenUp(g)) <= calledOff[g]
      BY DEF GivenUpRecorded
    <3>1. Cardinality(GivenUp(g)) = 0 /\ calledOff[g] = 0
      BY <2>1, <2>2, FS_EmptySet
    <3> QED BY <3>1
  <2> QED BY <2>2, <2>3 DEF GivenInv, NoOrphans, GivenUpFirst
<1>2. FlowInv /\ LineInv /\ GivenInv /\ [Next]_vars => GivenInv'
  BY GivenKept
<1> QED BY LineInvariant, <1>1, <1>2, PTL DEF Spec

LEMMA GivenUpIsKnown ==
    ASSUME FlowInv, LineInv, GivenInv, Tracked, owed # <<>>, Head(owed) \in gaveUp,
           flow[Head(owed)].game \notin muddled
    PROVE  flow[Head(owed)].game \in Games /\ Remembered(flow[Head(owed)].game)
<1> DEFINE g == flow[Head(owed)].game
<1>1. Head(owed) = owed[1] /\ 1 \in 1..Len(owed)
  BY OwedAre
<1>2. g \in Games
  BY <1>1, OwedAre DEF FlowInv, JoinsNameGames
<1>3. Head(owed) \in GivenUp(g) /\ GivenUp(g) \in SUBSET Ops
  BY <1>1, OwedAre, WaysFinite DEF GivenUp, OnWay, Requests
<1>4. Cardinality(GivenUp(g)) \in Nat /\ Cardinality(GivenUp(g)) # 0
  BY <1>3, OpsCounts
<1>5. Cardinality(GivenUp(g)) <= calledOff[g] /\ calledOff[g] \in Nat
  BY <1>2 DEF GivenInv, GivenUpRecorded, Tracked, FlowInv, TypeOK, OperationsTypeOK
<1> QED BY <1>2, <1>4, <1>5 DEF Remembered

(* Without a reconnect, a launch order that answers a request the user gave *)
(* up is turned away, unless the same game is being joined again: its       *)
(* record was kept from the call-off to the answer.                         *)
THEOREM GivenUpIsTurnedAwayHolds ==
    ASSUME "drop" \notin Events
    PROVE  Spec => GivenUpIsTurnedAway
<1>1. ASSUME FlowInv, LineInv, GivenInv, [Next]_vars, ~UNCHANGED vars
      PROVE  AcceptsGivenUp /\ flow[Head(owed)].game \notin muddled
                => slot.game = flow[Head(owed)].game
  <2> SUFFICES ASSUME AcceptsGivenUp, flow[Head(owed)].game \notin muddled
               PROVE  slot.game = flow[Head(owed)].game
    OBVIOUS
  <2>1. PICK g \in Games \cup {NoGame} : LaunchOrder(g)
    BY <1>1, LoopTakesOne DEF AcceptsGivenUp
  <2>2. Tracked /\ owed # <<>> /\ g = flow[Head(owed)].game
    BY <2>1 DEF LaunchOrder, Reading, AcceptsGivenUp, Tracked, Down
  <2>3. Remembered(g)
    BY <1>1, <2>2, GivenUpIsKnown DEF AcceptsGivenUp
  <2>4. ~LaunchUnwanted(g)
    BY <2>1 DEF LaunchOrder, AcceptsGivenUp
  <2> QED BY <2>2, <2>3, <2>4 DEF LaunchUnwanted
<1>2. FlowInv /\ LineInv /\ GivenInv /\ [Next]_vars =>
      [AcceptsGivenUp /\ flow[Head(owed)].game \notin muddled => slot.game = flow[Head(owed)].game]_vars
  BY <1>1
<1> QED BY GivenInvariant, <1>2, PTL DEF Spec, GivenUpIsTurnedAway

(* Without a reconnect, a refusal of a request the user gave up never ends  *)
(* the join begun since, not even a retry of the same game.                 *)
THEOREM RefusalSparesRetryHolds ==
    ASSUME "drop" \notin Events
    PROVE  Spec => RefusalSparesRetry
<1>1. ASSUME FlowInv, LineInv, GivenInv, [Next]_vars, ~UNCHANGED vars
      PROVE  loop = "reading" /\ loop' = "refused" /\ order'.game # NoGame /\ Head(owed) \in gaveUp
                => flow[Head(owed)].game \in muddled
  <2> SUFFICES ASSUME loop = "reading", loop' = "refused", order'.game # NoGame, Head(owed) \in gaveUp,
                      flow[Head(owed)].game \notin muddled
               PROVE  FALSE
    OBVIOUS
  <2>1. PICK g \in Games \cup {NoGame} : Refusal(g)
    BY <1>1, LoopTakesOne
  <2>2. Tracked /\ owed # <<>> /\ g = flow[Head(owed)].game /\ RefusalIsOurs(g)
    BY <2>1 DEF Refusal, Reading, Tracked, Down
  <2> QED BY <1>1, <2>2, GivenUpIsKnown DEF RefusalIsOurs
<1>2. FlowInv /\ LineInv /\ GivenInv /\ [Next]_vars =>
      [loop = "reading" /\ loop' = "refused" /\ order'.game # NoGame /\ Head(owed) \in gaveUp
          => flow[Head(owed)].game \in muddled]_vars
  BY <1>1
<1> QED BY GivenInvariant, <1>2, PTL DEF Spec, RefusalSparesRetry

-----------------------------------------------------------------------------
(* A join that waits.  The slot waits for the answers to a game's requests  *)
(* from the request until the launch order that answers it is taken.        *)
SlotWaits(g) ==
    /\ slot.op # NoOp /\ slot.game = g /\ flow[slot.op].pc \in {"marked", "done"}
    /\ ~(HandlingOrder /\ order.game = g)
ClosingUser == {"hanging", "hung", "dropping"}
CancelUser == {"calling", "flagged", "freed"}

(* With a user who calls joins off, over a connection that stays: there is  *)
(* a request on the way for every record, and one more for a slot that      *)
(* waits.                                                                   *)
WaysCounted ==
    \A g \in Games : /\ calledOff[g] <= Cardinality(OnWay(g))
                     /\ SlotWaits(g) => calledOff[g] < Cardinality(OnWay(g))
SentWaits == slot.sent => flow[slot.op].pc \in {"marked", "done"}
NothingBefore ==
    ~wire => /\ loop = "off" /\ status = "Disconnected" /\ owed = <<>>
             /\ \A o \in Ops : flow[o].kind = "join" => flow[o].pc \in Early
CountInv == WaysCounted /\ SentWaits /\ NothingBefore /\ user \notin ClosingUser

(* With a user who calls nothing off, over a connection that may close: the *)
(* request a waiting slot is for is on the way itself.                      *)
WaitInv ==
    /\ \A g \in Games : calledOff[g] = 0
    /\ gaveUp = {} /\ user \notin CancelUser
    /\ LineKept => \A g \in Games : SlotWaits(g) => slot.op \in OnWay(g)

CalledOffOnly == "cancel" \in Events /\ Events \cap {"hangup", "end", "drop", "busy", "unnamed", "race"} = {}
NeverCalledOff == "cancel" \notin Events /\ "drop" \notin Events

(* What keeps the slot from waiting any more than it did.                   *)
LEMMA WaitsStays ==
    ASSUME FlowInv, LineInv, NEW g \in Games, SlotWaits(g)',
           \/ \E op \in Ops : MovesOn(op) \/ Starts(op)
           \/ Rests \/ Connect \/ LaunchFreesSlot
           \/ \E op \in Ops : SendJoin(op)
    PROVE  SlotWaits(g) /\ slot' = slot
<1>0. NoClaim.op = NoOp /\ slot.op \in Ops \cup {NoOp}
  BY ClaimIs DEF NoClaim
<1>1. CASE \E op \in Ops : MovesOn(op)
  <2> PICK op \in Ops : MovesOn(op)
    BY <1>1
  <2>1. PICK pc \in FlowPcs : Goto(op, pc) /\ (slot'.op = op => pc # "done") /\ pc # "marked"
    BY DEF MovesOn
  <2>2. slot' = slot
    BY <1>0 DEF MovesOn, SlotWaits
  <2> QED BY <1>0, <2>1, <2>2, GotoMoves DEF MovesOn, SlotWaits, HandlingOrder
<1>2. CASE \E op \in Ops : Starts(op)
  BY <1>0, <1>2, ClaimIs DEF Starts, SlotWaits, LoopKept
<1>3. CASE Rests
  BY <1>3 DEF Rests, SlotWaits, LoopKept
<1>4. CASE Connect
  BY <1>4 DEF Connect, SlotWaits, HandlingOrder, opVars, flowVars
<1>5. CASE LaunchFreesSlot
  BY <1>0, <1>5 DEF LaunchFreesSlot, ReleaseLaunched, SlotWaits, HandlingOrder, flowVars
<1>6. CASE \E op \in Ops : SendJoin(op)
  <2> PICK op \in Ops : SendJoin(op)
    BY <1>6
  <2> QED BY <1>0, GotoMoves DEF SendJoin, SlotWaits, HandlingOrder, At, opVars, loopVars
<1> QED BY <1>1, <1>2, <1>3, <1>4, <1>5, <1>6

(* An answer leaves the slot waiting only for another game's requests.      *)
LEMMA WaitsAnswered ==
    ASSUME FlowInv, LineInv, NEW x \in Games, SlotWaits(x)', NEW g \in Games \cup {NoGame},
           Refusal(g) \/ LaunchOrder(g)
    PROVE  /\ SlotWaits(x) /\ slot' = slot
           /\ (g = x => Remembered(g))
<1>0. NoClaim.op = NoOp
  BY DEF NoClaim
<1>1. CASE Refusal(g)
  BY <1>0, <1>1 DEF Refusal, RefusalOf, RefusalIsOurs, Reading, SlotWaits, HandlingOrder, flowVars
<1>2. CASE LaunchOrder(g)
  BY <1>2 DEF LaunchOrder, LaunchUnwanted, Reading, SlotWaits, HandlingOrder, flowVars
<1> QED BY <1>1, <1>2

LEMMA CountKept ==
    ASSUME FlowInv, LineInv, CountInv, CalledOffOnly, [Next]_vars
    PROVE  CountInv'
<1>0. /\ calledOff \in [Games -> Nat] /\ wire \in BOOLEAN /\ NoClaim.op = NoOp /\ ~NoClaim.sent
      /\ \A g \in Games : Cardinality(OnWay(g)) \in Nat /\ OnWay(g) \in SUBSET Ops
      /\ wire => loop # "off"
      /\ slot.sent => slot.op # NoOp
  BY WaysFinite, ClaimIs DEF FlowInv, TypeOK, OperationsTypeOK, LinkTypeOK, NoClaim, LineInv, UpIsRead, Down
<1>1. ASSUME NEW op \in Ops, MovesOn(op)
      PROVE  CountInv'
  <2>1. PICK pc \in FlowPcs :
          /\ Goto(op, pc) /\ flow[op].pc \notin {"marked", "done"}
          /\ flow[op].kind = "join" /\ flow[op].pc \in Early /\ status # "Connected" => pc \in Early
    BY <1>1 DEF MovesOn
  <2>2. /\ flow'[op].pc = pc /\ flow'[op].kind = flow[op].kind
        /\ \A o \in Ops \ {op} : flow'[o] = flow[o]
    BY <2>1, GotoMoves
  <2>3. WaysCounted'
    BY <1>1, QuietWays, WaitsStays DEF MovesOn, CountInv, WaysCounted
  <2>4. SentWaits'
    BY <1>0, <1>1, <2>1, <2>2, ClaimIs DEF MovesOn, CountInv, SentWaits
  <2>5. NothingBefore'
    BY <1>1, <2>1, <2>2 DEF MovesOn, CountInv, NothingBefore
  <2> QED BY <1>1, <2>3, <2>4, <2>5 DEF MovesOn, CountInv
<1>2. ASSUME NEW op \in Ops, Marks(op)
      PROVE  CountInv'
  <2>1. /\ flow'[op].pc = "marked" /\ At(op, "join", "asking") /\ slot.op = op /\ slot'.op = op
        /\ slot'.game = slot.game /\ flow[op].game = slot.game /\ slot.game \in Games
    BY <1>2, GotoMoves, ClaimIs DEF Marks, MarkSent, MayMarkSent, FlowInv, TypeOK, OperationsTypeOK,
                                    Claims, NoClaim
  <2>2. wire
    BY <2>1 DEF CountInv, NothingBefore, At, Early
  <2>3. WaysCounted'
    <3> SUFFICES ASSUME NEW g \in Games
                 PROVE  /\ calledOff[g] <= Cardinality(OnWay(g)')
                        /\ SlotWaits(g)' => calledOff[g] < Cardinality(OnWay(g)')
      BY <1>2 DEF Marks, WaysCounted
    <3>1. calledOff[g] <= Cardinality(OnWay(g))
      BY DEF CountInv, WaysCounted
    <3>2. CASE g = slot.game
      BY <1>0, <1>2, <2>1, <3>1, <3>2, MarkWays, OpsCounts
    <3>3. CASE g # slot.game
      BY <1>2, <2>1, <3>1, <3>3, MarkWays DEF SlotWaits
    <3> QED BY <3>2, <3>3
  <2> QED BY <1>2, <2>1, <2>2, <2>3 DEF Marks, CountInv, SentWaits, NothingBefore
<1>3. ASSUME NEW op \in Ops, SendJoin(op)
      PROVE  CountInv'
  <2>1. wire
    BY <1>3 DEF SendJoin, CountInv, NothingBefore, At, Early
  <2>2. /\ owed' = Append(owed, op) /\ Goto(op, "done")
        /\ UNCHANGED <<slot, calledOff, wire, user>>
    BY <1>3, <2>1 DEF SendJoin, CalledOffOnly, opVars
  <2>3. WaysCounted'
    BY <1>3, <2>2, SendWays, WaitsStays DEF CountInv, WaysCounted
  <2>4. SentWaits'
    BY <1>0, <2>2, GotoMoves, ClaimIs DEF CountInv, SentWaits
  <2> QED BY <2>1, <2>2, <2>3, <2>4 DEF CountInv, NothingBefore
<1>4. ASSUME NEW op \in Ops, Starts(op)
      PROVE  CountInv'
  <2>1. \A o \in Ops : flow[o].kind = "join" => flow'[o] = flow[o]
    BY <1>4 DEF Starts
  <2>2. \A o \in Ops : flow'[o].kind = "join" => flow'[o] = flow[o] \/ flow'[o].pc = "claiming"
    BY <1>4 DEF Starts
  <2>3. WaysCounted'
    BY <1>4, QuietWays, WaitsStays DEF Starts, CountInv, WaysCounted
  <2>4. SentWaits'
    BY <1>0, <1>4, <2>1, ClaimIs DEF Starts, CountInv, SentWaits
  <2>5. NothingBefore'
    BY <1>4, <2>2 DEF Starts, LoopKept, CountInv, NothingBefore, Early
  <2> QED BY <1>4, <2>3, <2>4, <2>5 DEF Starts, CountInv
<1>5. CASE Rests
  <2>1. WaysCounted'
    BY <1>5, QuietWays, WaitsStays DEF Rests, CountInv, WaysCounted
  <2> QED BY <1>5, <2>1 DEF Rests, LoopKept, CountInv, SentWaits, NothingBefore, CalledOffOnly,
                            ClosingUser
<1>6. CASE Connect
  <2>1. UNCHANGED <<slot, calledOff, flow, owed, user>> /\ wire'
    BY <1>6 DEF Connect, opVars, flowVars
  <2>2. WaysCounted'
    BY <1>6, <2>1, QuietWays, WaitsStays DEF CountInv, WaysCounted
  <2> QED BY <2>1, <2>2 DEF CountInv, SentWaits, NothingBefore
<1>7. CASE CancelFrees
  <2>1. /\ UNCHANGED <<flow, owed, wire, loop, status>> /\ CallOffJoin /\ ~HandlingOrder
        /\ user' = "freed"
    BY <1>7 DEF CancelFrees, CalledOffOnly, flowVars, linkVars, loopVars
  <2>2. WaysCounted'
    <3> SUFFICES ASSUME NEW g \in Games
                 PROVE  calledOff'[g] <= Cardinality(OnWay(g)') /\ ~SlotWaits(g)'
      BY DEF WaysCounted
    <3>1. ~SlotWaits(g)'
      BY <1>0, <2>1 DEF SlotWaits, CallOffJoin
    <3>2. OnWay(g)' = OnWay(g)
      BY <2>1, QuietWays
    <3>3. CASE slot.sent /\ slot.game = g
      <4>1. SlotWaits(g)
        BY <1>0, <2>1, <3>3 DEF SlotWaits, CountInv, SentWaits
      <4>2. calledOff'[g] = calledOff[g] + 1
        BY <1>0, <2>1, <3>3 DEF CallOffJoin
      <4> QED BY <1>0, <3>1, <3>2, <4>1, <4>2 DEF CountInv, WaysCounted
    <3>4. CASE ~(slot.sent /\ slot.game = g)
      <4>1. calledOff'[g] = calledOff[g]
        BY <1>0, <2>1, <3>4 DEF CallOffJoin
      <4> QED BY <3>1, <3>2, <4>1 DEF CountInv, WaysCounted
    <3> QED BY <3>3, <3>4
  <2> QED BY <1>0, <2>1, <2>2 DEF CallOffJoin, CountInv, SentWaits, NothingBefore, ClosingUser
<1>8. CASE Forgets
  <2>1. /\ slot' = NoClaim /\ calledOff' = [g \in Games |-> 0] /\ UNCHANGED <<flow, owed, wire, status>>
        /\ user' \in {user, "cleared", "idle"}
        /\ ~wire => loop' = "off"
    BY <1>8 DEF Forgets, ForgetJoins, ReleaseAnyJoin, LoopKept, CountInv, NothingBefore
  <2>2. WaysCounted'
    <3>1. \A g \in Games : ~SlotWaits(g)' /\ calledOff'[g] = 0
      BY <1>0, <2>1 DEF SlotWaits
    <3>2. \A g \in Games : OnWay(g)' = OnWay(g)
      BY <2>1, QuietWays
    <3> QED BY <1>0, <3>1, <3>2 DEF WaysCounted
  <2> QED BY <1>0, <2>1, <2>2 DEF CountInv, SentWaits, NothingBefore, ClosingUser
<1>9. ~Closes /\ ~Reconnecting /\ ~LoopEnds
  BY DEF Closes, Reconnecting, LoopEnds, CalledOffOnly, CountInv, ClosingUser, NothingBefore
<1>10. CASE LaunchFreesSlot
  <2>1. /\ UNCHANGED <<flow, owed, wire, calledOff, user>> /\ slot' \in {slot, NoClaim}
        /\ loop = "begun"
    BY <1>10 DEF LaunchFreesSlot, ReleaseLaunched, flowVars, linkVars
  <2>2. WaysCounted'
    BY <1>10, <2>1, QuietWays, WaitsStays DEF CountInv, WaysCounted
  <2> QED BY <1>0, <2>1, <2>2 DEF CountInv, SentWaits, NothingBefore
<1>11. ASSUME NEW g \in Games \cup {NoGame}, Refusal(g) \/ LaunchOrder(g)
       PROVE  CountInv'
  <2>1. /\ wire /\ wire' = wire /\ UNCHANGED <<flow, user>> /\ slot' \in {slot, NoClaim} /\ TakeRecord(g)
        /\ \/ owed # <<>> /\ owed' = Tail(owed) /\ g = flow[Head(owed)].game
           \/ owed' = owed /\ g = NoGame
    BY <1>11 DEF Refusal, LaunchOrder, Reading, RefusalOf, TakeRecord, CalledOffOnly, CountInv,
                 NothingBefore, flowVars
  <2>2. WaysCounted'
    <3> SUFFICES ASSUME NEW x \in Games
                 PROVE  /\ calledOff'[x] <= Cardinality(OnWay(x)')
                        /\ SlotWaits(x)' => calledOff'[x] < Cardinality(OnWay(x)')
      BY DEF WaysCounted
    <3>1. /\ calledOff[x] <= Cardinality(OnWay(x))
          /\ SlotWaits(x)' => calledOff[x] < Cardinality(OnWay(x)) /\ (g = x => Remembered(g))
      BY <1>11, WaitsAnswered DEF CountInv, WaysCounted
    <3>2. CASE g = x
      <4>1. Cardinality(OnWay(x)') = Cardinality(OnWay(x)) - 1
        BY SMTT(40), <1>0, <2>1, <3>2, AnswerWays, OpsCounts, OperationsAssumption
      <4>2. calledOff'[x] = IF Remembered(g) THEN calledOff[x] - 1 ELSE 0
        BY <1>0, <2>1, <3>2 DEF TakeRecord, DropRecord, Remembered
      <4>3. Cardinality(OnWay(x)') \in Nat
        BY <2>1, <3>2, AnswerWays, <1>0, OpsCounts, OperationsAssumption
      <4> QED BY <1>0, <3>1, <3>2, <4>1, <4>2, <4>3
    <3>3. CASE g # x
      <4>1. OnWay(x)' = OnWay(x)
        BY ZenonT(40), <2>1, <3>3, AnswerWays, QuietWays
      <4>2. calledOff'[x] = calledOff[x]
        BY <1>0, <2>1, <3>3 DEF TakeRecord, DropRecord
      <4> QED BY <3>1, <4>1, <4>2
    <3> QED BY <3>2, <3>3
  <2> QED BY <1>0, <2>1, <2>2 DEF CountInv, SentWaits, NothingBefore
<1> QED BY StepKinds, <1>1, <1>2, <1>3, <1>4, <1>5, <1>6, <1>7, <1>8, <1>9, <1>10, <1>11 DEF LineInv

LEMMA WaitKept ==
    ASSUME FlowInv, LineInv, WaitInv, NeverCalledOff, [Next]_vars
    PROVE  WaitInv'
<1>0. /\ calledOff \in [Games -> Nat] /\ NoClaim.op = NoOp
      /\ \A g : ~Remembered(g)
  BY DEF FlowInv, TypeOK, OperationsTypeOK, NoClaim, WaitInv, Remembered
<1>1. CASE (\E op \in Ops : MovesOn(op) \/ Starts(op)) \/ Rests \/ Connect \/ LaunchFreesSlot
  <2>1. UNCHANGED <<calledOff, gaveUp>> /\ user' \notin CancelUser
    BY <1>1 DEF MovesOn, Starts, Rests, Connect, LaunchFreesSlot, ReleaseLaunched, NeverCalledOff,
                WaitInv, CancelUser, opVars, history
  <2>2. LineKept' => LineKept
    BY <1>1 DEF MovesOn, Starts, Rests, Connect, LaunchFreesSlot, LoopKept, LineKept, Shut, linkVars
  <2>3. \A g \in Games : OnWay(g)' = OnWay(g)
    BY <1>1, QuietWays DEF Rests, Connect, LaunchFreesSlot, flowVars, linkVars
  <2>4. \A g \in Games : SlotWaits(g)' => SlotWaits(g) /\ slot' = slot
    BY <1>1, WaitsStays
  <2> QED BY <2>1, <2>2, <2>3, <2>4 DEF WaitInv
<1>2. ASSUME NEW op \in Ops, Marks(op)
      PROVE  WaitInv'
  <2>1. /\ slot'.op = op /\ slot'.game = slot.game /\ flow[op].game = slot.game
        /\ UNCHANGED <<calledOff, gaveUp, user>>
    BY <1>2, ClaimIs DEF Marks, MarkSent, MayMarkSent, FlowInv, TypeOK, OperationsTypeOK, Claims, NoClaim
  <2>2. \A g \in Games : SlotWaits(g)' => op \in OnWay(g)'
    BY <1>2, <2>1, MarkWays DEF SlotWaits
  <2> QED BY <2>1, <2>2 DEF WaitInv
<1>3. ASSUME NEW op \in Ops, SendJoin(op)
      PROVE  WaitInv'
  <2>1. /\ UNCHANGED <<slot, calledOff, gaveUp, user>> /\ (LineKept' => LineKept)
        /\ At(op, "join", "marked")
    BY <1>3 DEF SendJoin, opVars, loopVars, LineKept
  <2>2. ASSUME NEW g \in Games, SlotWaits(g)', slot.op \in OnWay(g)
        PROVE  slot.op \in OnWay(g)'
    <3>1. CASE owed' = Append(owed, op)
      BY <1>3, <2>2, <3>1, SendWays
    <3>2. CASE owed' = owed /\ Goto(op, "refusing")
      <4>1. slot.op # op
        BY <2>1, <2>2, <3>2, GotoMoves DEF SlotWaits
      <4> QED BY <1>3, <2>2, <3>2, <4>1, SendWays
    <3> QED BY <1>3, <3>1, <3>2 DEF SendJoin
  <2>3. \A g \in Games : SlotWaits(g)' => SlotWaits(g)
    BY <1>3, WaitsStays
  <2> QED BY <2>1, <2>2, <2>3 DEF WaitInv
<1>4. ~CancelFrees /\ ~Reconnecting
  BY DEF CancelFrees, Reconnecting, NeverCalledOff, WaitInv, CancelUser
<1>5. CASE Forgets
  <2>1. /\ slot'.op = NoOp /\ calledOff' = [g \in Games |-> 0] /\ gaveUp' = {}
        /\ user' \in {user, "cleared", "idle"}
    BY <1>0, <1>5 DEF Forgets, ForgetJoins, ReleaseAnyJoin
  <2> QED BY <2>1 DEF WaitInv, SlotWaits, CancelUser
<1>6. CASE Closes
  <2>1. /\ UNCHANGED <<slot, calledOff, flow, loop, order>> /\ wire' = FALSE
        /\ (~wire => owed' = owed) /\ gaveUp' = {} /\ user' \notin CancelUser
    BY <1>6, OldestIsKept DEF Closes, CloseWire, WaitInv, CancelUser
  <2>2. ASSUME LineKept'
        PROVE  LineKept /\ owed' = owed
    BY <2>1, <2>2 DEF LineKept, Shut, Down, LineInv, UpIsRead
  <2>3. \A g \in Games : SlotWaits(g)' => SlotWaits(g)
    BY <2>1 DEF SlotWaits, HandlingOrder
  <2>4. LineKept' => \A g \in Games : OnWay(g)' = OnWay(g)
    BY <2>1, <2>2, QuietWays
  <2> QED BY <2>1, <2>2, <2>3, <2>4 DEF WaitInv
<1>7. ASSUME NEW g \in Games \cup {NoGame}, Refusal(g) \/ LaunchOrder(g)
      PROVE  WaitInv'
  <2>1. /\ UNCHANGED <<flow, user, wire>> /\ TakeRecord(g) /\ gaveUp' \subseteq gaveUp
        /\ (LineKept' => LineKept)
        /\ ((owed # <<>> /\ owed' = Tail(owed)) \/ owed' = owed)
        /\ owed' = owed \/ g = flow[Head(owed)].game \/ slot'.op = NoOp
    BY <1>0, <1>7 DEF Refusal, LaunchOrder, Reading, RefusalOf, RefusalIsOurs, TakeRecord, LineKept,
                      Shut, flowVars
  <2>2. UNCHANGED calledOff
    BY <1>0, <2>1 DEF TakeRecord
  <2>3. ASSUME LineKept', NEW x \in Games, SlotWaits(x)'
        PROVE  slot'.op \in OnWay(x)'
    <3>1. SlotWaits(x) /\ slot' = slot /\ g # x
      BY <1>0, <1>7, <2>3, WaitsAnswered
    <3>0. LineKept
      BY <2>1, <2>3
    <3>2. slot.op \in OnWay(x)
      BY <3>0, <3>1, <2>3 DEF WaitInv
    <3>3. CASE owed' = owed
      BY <2>1, <3>1, <3>2, <3>3, QuietWays
    <3>4. CASE owed' # owed
      <4>1. slot.op # NoOp /\ slot.game = x
        BY <3>1 DEF SlotWaits
      <4>2. Head(owed) # slot.op
        BY <2>1, <3>1, <3>4, <4>1, ClaimIs
      <4> QED BY <2>1, <3>1, <3>2, <3>4, <4>2, AnswerWays
    <3> QED BY <2>1, <3>3, <3>4
  <2> QED BY <2>1, <2>2, <2>3 DEF WaitInv
<1>8. CASE LoopEnds
  <2>1. UNCHANGED <<calledOff, gaveUp, user>> /\ ~wire' /\ loop' = "ending"
    BY <1>8 DEF LoopEnds, linkVars, opVars
  <2> QED BY <2>1 DEF WaitInv, LineKept, Shut
<1> QED BY StepKinds, <1>1, <1>2, <1>3, <1>4, <1>5, <1>6, <1>7, <1>8 DEF LineInv

-----------------------------------------------------------------------------
LEMMA CountInvariant ==
    ASSUME CalledOffOnly
    PROVE  Spec => [](FlowInv /\ LineInv /\ CountInv)
<1>1. Init => CountInv
  <2> SUFFICES ASSUME Init
               PROVE  CountInv
    OBVIOUS
  <2>1. \A g \in Games : Cardinality(OnWay(g)) \in Nat
    BY InitInv, WaysFinite
  <2> QED BY <2>1 DEF Init, OperationsInit, NoClaim, NoFlow, CountInv, WaysCounted, SlotWaits, SentWaits,
                      NothingBefore, ClosingUser
<1>2. FlowInv /\ LineInv /\ CountInv /\ [Next]_vars => CountInv'
  BY CountKept
<1> QED BY LineInvariant, <1>1, <1>2, PTL DEF Spec

LEMMA WaitInvariant ==
    ASSUME NeverCalledOff
    PROVE  Spec => [](FlowInv /\ LineInv /\ WaitInv)
<1>1. Init => WaitInv
  BY DEF Init, OperationsInit, NoClaim, WaitInv, SlotWaits, CancelUser
<1>2. FlowInv /\ LineInv /\ WaitInv /\ [Next]_vars => WaitInv'
  BY WaitKept
<1> QED BY LineInvariant, <1>1, <1>2, PTL DEF Spec

(* A held slot is on its way to its request, or an answer that frees it is  *)
(* still to come or in hand, or the connection is down: no answer is taken  *)
(* for another's so that a join waits for ever. Outside the two cases that  *)
(* is false, as TLC shows: a request that never leaves, an unnamed refusal  *)
(* or a socket lost behind a call-off takes a record or an answer with it.  *)
THEOREM SlotAnswerableHolds ==
    ASSUME CalledOffOnly \/ NeverCalledOff
    PROVE  Spec => []SlotAnswerable
<1>1. FlowInv /\ CountInv => SlotAnswerable
  <2> SUFFICES ASSUME FlowInv, CountInv, slot.op # NoOp, OnWay(slot.game) = {}
               PROVE  ~SlotWaits(slot.game)
    BY DEF SlotAnswerable, SlotWaits
  <2>1. Cardinality(OnWay(slot.game)) = 0 /\ slot.game \in Games
    BY FS_EmptySet, ClaimIs
  <2>2. calledOff[slot.game] \in Nat
    BY <2>1 DEF FlowInv, TypeOK, OperationsTypeOK
  <2>3. SlotWaits(slot.game) => calledOff[slot.game] < Cardinality(OnWay(slot.game))
    BY <2>1 DEF CountInv, WaysCounted
  <2> QED BY <2>1, <2>2, <2>3
<1>2. FlowInv /\ WaitInv => SlotAnswerable
  BY ClaimIs DEF WaitInv, LineKept, SlotWaits, SlotAnswerable
<1>3. CASE CalledOffOnly
  BY <1>1, <1>3, CountInvariant, PTL
<1>4. CASE NeverCalledOff
  BY <1>2, <1>4, WaitInvariant, PTL
<1> QED BY <1>3, <1>4

(* Every record of a called-off request has its answer still coming, so no  *)
(* record is left to turn away the launch of a later join.                  *)
THEOREM RecordedAnswersAreComingHolds ==
    ASSUME CalledOffOnly \/ NeverCalledOff
    PROVE  Spec => []RecordedAnswersAreComing
<1>1. CountInv => RecordedAnswersAreComing
  BY DEF CountInv, WaysCounted, RecordedAnswersAreComing
<1>2. FlowInv /\ WaitInv => RecordedAnswersAreComing
  <2> SUFFICES ASSUME FlowInv, WaitInv, NEW g \in Games
               PROVE  calledOff[g] <= Cardinality(OnWay(g))
    BY DEF RecordedAnswersAreComing
  <2> QED BY WaysFinite DEF WaitInv
<1>3. CASE CalledOffOnly
  BY <1>1, <1>3, CountInvariant, PTL
<1>4. CASE NeverCalledOff
  BY <1>2, <1>4, WaitInvariant, PTL
<1> QED BY <1>3, <1>4

=============================================================================
