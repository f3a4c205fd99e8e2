-------------------------- MODULE CommandLoop_proofs --------------------------
(* Theorems about CommandLoop for any set of commands, any items, any mix    *)
(* of kinds, any queue length and any number of slots: its types, which      *)
(* starts a release calls off, that checks are single and only the latest    *)
(* search answers, and that the turns of a serial key implement SerialTurns. *)
EXTENDS CommandLoop, TLAPS

-----------------------------------------------------------------------------
(* Types.                                                                    *)

Dispatched(c) == cmd[c].pc # "none"

LEMMA GotoTypes ==
    ASSUME CmdTypeOK, ItemsInv, NEW c \in Cmds, NEW pc \in Pcs, Goto(c, pc), Dispatched(c)
    PROVE  CmdTypeOK' /\ ItemsInv'
BY DEF CmdTypeOK, ItemsInv, Goto, Dispatched

LEMMA PcsListed ==
    {"stamped", "sending", "queued", "dropped", "refused", "admitted", "working",
     "reading", "settled", "done", "abandoned"} \subseteq Pcs
BY DEF Pcs

(* A queue that gives up its first command or takes one more.                *)
LEMMA HeadOfQueue ==
    ASSUME QueueTypeOK, NEW l \in Lanes, queue[l] # <<>>
    PROVE  Head(queue[l]) \in Cmds /\ 1 \in 1..Len(queue[l]) /\ Head(queue[l]) = queue[l][1]
<1>1. queue[l] \in Seq(Cmds)
  BY DEF QueueTypeOK
<1> QED BY <1>1

LEMMA TakenTypes ==
    ASSUME QueueTypeOK, NEW l \in Lanes, queue[l] # <<>>, TakenFrom(l), UNCHANGED <<next, released>>
    PROVE  QueueTypeOK'
<1>1. queue \in [Lanes -> Seq(Cmds)] /\ Tail(queue[l]) \in Seq(Cmds)
  BY DEF QueueTypeOK
<1> QED BY <1>1 DEF QueueTypeOK, TakenFrom

LEMMA AdmitTypes ==
    ASSUME TypeOK, ItemsInv, NEW c \in Cmds, AdmitAndSpawn(c), Dispatched(c)
    PROVE  AdmissionTypeOK' /\ CmdTypeOK' /\ ItemsInv' /\ ahead' \in [Cmds -> SUBSET Cmds]
<1> USE DEF TypeOK
<1>1. CmdTypeOK' /\ ItemsInv'
  BY GotoTypes, PcsListed DEF AdmitAndSpawn
<1>2. cmd[c].item \in Items
  BY DEF ItemsInv, Dispatched
<1>3. CASE UNCHANGED <<admissionVars, ahead>>
  BY <1>1, <1>3 DEF AdmissionTypeOK, admissionVars
<1>4. CASE TakeFlight(cmd[c].item) /\ UNCHANGED ahead
  BY <1>1, <1>2, <1>4 DEF AdmissionTypeOK, TakeFlight
<1>5. CASE JoinLine(c, KeyOf(cmd[c].kind))
           /\ ahead' = [ahead EXCEPT ![c] = Line(KeyOf(cmd[c].kind))]
  <2>1. KeyOf(cmd[c].kind) \in SerialKeys
    BY DEF KeyOf, SerialKeys
  <2>2. Line(KeyOf(cmd[c].kind)) \subseteq Cmds
    BY DEF Line
  <2>3. AdmissionTypeOK'
    BY <1>5, <2>1 DEF AdmissionTypeOK, JoinLine
  <2> QED BY <1>1, <1>5, <2>2, <2>3
<1>6. CASE TakeLatest(c, cmd[c].item) /\ UNCHANGED ahead
  BY <1>1, <1>2, <1>6 DEF AdmissionTypeOK, TakeLatest, ReplaceLatest
<1> QED BY <1>3, <1>4, <1>5, <1>6 DEF AdmitAndSpawn

LEMMA SignalTypes ==
    ASSUME AdmissionTypeOK, NEW c \in Cmds, SignalDone(c)
    PROVE  AdmissionTypeOK'
BY DEF AdmissionTypeOK, SignalDone

LEMMA AdmissionFrame == AdmissionTypeOK /\ UNCHANGED admissionVars => AdmissionTypeOK'
BY DEF AdmissionTypeOK, admissionVars
LEMMA QueueFrame == QueueTypeOK /\ UNCHANGED loopVars => QueueTypeOK'
BY DEF QueueTypeOK, loopVars
LEMMA BodyFrame == BodyTypeOK /\ UNCHANGED bodyVars => BodyTypeOK'
BY DEF BodyTypeOK, bodyVars

(* Where a lane's next command stands.                                       *)
LEMMA HeadIsQueued ==
    ASSUME QueueTypeOK, QueuesInv, NEW l \in Lanes, queue[l] # <<>>
    PROVE  /\ cmd[Head(queue[l])].pc = "queued"
           /\ Lane(cmd[Head(queue[l])].kind) = l
BY HeadOfQueue DEF QueuesInv

LEMMA InitTypes == Init => TypeOK /\ ItemsInv /\ QueuesInv
<1> SUFFICES ASSUME Init PROVE TypeOK /\ ItemsInv /\ QueuesInv
  OBVIOUS
<1>1. AdmissionTypeOK
  BY DEF Init, AdmissionInit, AdmissionTypeOK
<1>2. CmdTypeOK /\ ItemsInv
  BY DEF Init, NoPlace, CmdTypeOK, ItemsInv, Pcs
<1>3. QueueTypeOK /\ QueuesInv
  BY DEF Init, QueueTypeOK, QueuesInv
<1> QED BY <1>1, <1>2, <1>3 DEF Init, TypeOK, BodyTypeOK

Typed == TypeOK /\ ItemsInv

LEMMA NextTypes ==
    ASSUME Typed, QueuesInv, [Next]_vars PROVE Typed'
<1> USE DEF Typed, TypeOK
<1>1. ASSUME NEW c \in Cmds, NEW kind \in Kinds, NEW i \in Items, Stamp(c, kind, i) PROVE Typed'
  <2>1. CmdTypeOK' /\ ItemsInv'
    BY <1>1 DEF CmdTypeOK, ItemsInv, Stamp, Pcs, QueueTypeOK
  <2>2. QueueTypeOK'
    BY <1>1 DEF QueueTypeOK, Stamp
  <2> QED BY <1>1, <2>1, <2>2, AdmissionFrame, BodyFrame DEF Stamp
<1>2. ASSUME NEW c \in Cmds, RecordRelease(c) PROVE Typed'
  <2>1. CmdTypeOK' /\ ItemsInv'
    BY <1>2, GotoTypes, PcsListed DEF RecordRelease, At, Dispatched
  <2>2. QueueTypeOK'
    <3>1. cmd[c].item \in Items /\ cmd[c].seq \in Nat
      BY <1>2 DEF RecordRelease, At, ItemsInv, CmdTypeOK
    <3> QED BY <1>2, <3>1 DEF QueueTypeOK, RecordRelease, Latest
  <2> QED BY <1>2, <2>1, <2>2, AdmissionFrame, BodyFrame DEF RecordRelease
<1>3. ASSUME NEW c \in Cmds, Send(c) PROVE Typed'
  <2>1. CmdTypeOK' /\ ItemsInv'
    BY <1>3, GotoTypes, PcsListed DEF Send, Dispatched
  <2>2. QueueTypeOK'
    BY <1>3 DEF QueueTypeOK, Send, Lane, Lanes
  <2> QED BY <1>3, <2>1, <2>2, AdmissionFrame, BodyFrame DEF Send
<1>4. ASSUME TakePriority PROVE Typed'
  <2> DEFINE c == Head(queue["priority"])
  <2>1. c \in Cmds /\ cmd[c].pc = "queued" /\ QueueTypeOK'
    BY <1>4, HeadOfQueue, HeadIsQueued, TakenTypes DEF TakePriority, Lanes
  <2>2. AdmissionTypeOK' /\ CmdTypeOK' /\ ItemsInv' /\ ahead' \in [Cmds -> SUBSET Cmds]
    BY <1>4, <2>1, AdmitTypes DEF TakePriority, Dispatched
  <2> QED BY <1>4, <2>1, <2>2, BodyFrame DEF TakePriority
<1>5. ASSUME NEW c \in Cmds, DropSuperseded(c) PROVE Typed'
  <2>1. cmd[c].pc = "queued" /\ QueueTypeOK'
    BY <1>5, HeadOfQueue, HeadIsQueued, TakenTypes DEF DropSuperseded, LooksAtOrdinary, Lanes
  <2>2. CmdTypeOK' /\ ItemsInv'
    BY <1>5, <2>1, GotoTypes, PcsListed DEF DropSuperseded, Dispatched
  <2> QED BY <1>5, <2>1, <2>2, AdmissionFrame, BodyFrame DEF DropSuperseded
<1>6. ASSUME NEW c \in Cmds, Admit(c) PROVE Typed'
  <2>1. cmd[c].pc = "queued" /\ QueueTypeOK'
    BY <1>6, HeadOfQueue, HeadIsQueued, TakenTypes DEF Admit, LooksAtOrdinary, Lanes
  <2>2. AdmissionTypeOK' /\ CmdTypeOK' /\ ItemsInv' /\ ahead' \in [Cmds -> SUBSET Cmds]
    BY <1>6, <2>1, AdmitTypes DEF Admit, Dispatched
  <2> QED BY <1>6, <2>1, <2>2, BodyFrame DEF Admit
<1>7. ASSUME NEW c \in Cmds, Start(c) PROVE Typed'
  <2>1. \E pc \in Pcs : Goto(c, pc)
    BY <1>7, PcsListed DEF Start, BeginInstall
  <2>2. CmdTypeOK' /\ ItemsInv'
    BY <1>7, <2>1, GotoTypes DEF Start, Dispatched
  <2>3. BodyTypeOK'
    BY <1>7 DEF Start, BeginInstall, BodyTypeOK
  <2>4. AdmissionTypeOK'
    BY <1>7 DEF Start, AdmissionTypeOK
  <2> QED BY <1>7, <2>2, <2>3, <2>4, QueueFrame DEF Start
<1>8. ASSUME NEW c \in Cmds, Settle(c) PROVE Typed'
  <2>1. CmdTypeOK' /\ ItemsInv'
    BY <1>8, GotoTypes, PcsListed DEF Settle, Dispatched
  <2>2. BodyTypeOK'
    BY <1>8 DEF Settle, BodyTypeOK, ItemsInv
  <2> QED BY <1>8, <2>1, <2>2, QueueFrame, AdmissionFrame DEF Settle
<1>9. ASSUME NEW c \in Cmds, EndTurn(c) PROVE Typed'
  <2>1. CmdTypeOK' /\ ItemsInv'
    BY <1>9, GotoTypes, PcsListed DEF EndTurn, At, Dispatched
  <2> QED BY <1>9, <2>1, QueueFrame, BodyFrame, SignalTypes DEF EndTurn
<1>10. ASSUME NEW c \in Cmds, Finish(c) PROVE Typed'
  <2>1. CmdTypeOK' /\ ItemsInv'
    BY <1>10, GotoTypes, PcsListed DEF Finish, Dispatched
  <2>2. LeaveFlight(cmd[c].item) => AdmissionTypeOK'
    BY DEF LeaveFlight, FreeFlight, AdmissionTypeOK
  <2>3. AdmissionTypeOK'
    BY <1>10, <2>2, SignalTypes, AdmissionFrame DEF Finish
  <2> QED BY <1>10, <2>1, <2>3, QueueFrame, BodyFrame DEF Finish
<1>11. ASSUME NEW c \in Cmds, Abandon(c) PROVE Typed'
  <2>1. CmdTypeOK' /\ ItemsInv'
    BY <1>11, GotoTypes, PcsListed DEF Abandon, Dispatched
  <2>2. AdmissionTypeOK'
    BY <1>11, SignalTypes DEF Abandon, DropWaiting, AdmissionTypeOK
  <2> QED BY <1>11, <2>1, <2>2, QueueFrame, BodyFrame DEF Abandon
<1>12. ASSUME NEW c \in Cmds, PassOn(c) PROVE Typed'
  <2>1. AdmissionTypeOK'
    BY <1>12 DEF PassOn, HandOn, AdmissionTypeOK
  <2>2. CmdTypeOK' /\ ItemsInv'
    BY <1>12 DEF PassOn, CmdTypeOK, ItemsInv
  <2> QED BY <1>12, <2>1, <2>2, QueueFrame, BodyFrame DEF PassOn
<1>13. CASE UNCHANGED vars
  <2>1. CmdTypeOK' /\ ItemsInv'
    BY <1>13 DEF vars, CmdTypeOK, ItemsInv
  <2> QED BY <1>13, <2>1, AdmissionFrame, QueueFrame, BodyFrame DEF vars
<1> QED BY <1>1, <1>2, <1>3, <1>4, <1>5, <1>6, <1>7, <1>8, <1>9, <1>10, <1>11, <1>12, <1>13
        DEF Next, TakeOrdinary, TaskStep, Done

-----------------------------------------------------------------------------
(* The queues: who waits there is there once.                                *)

LEMMA QueuesKept ==
    ASSUME QueueTypeOK, QueuesInv, UNCHANGED queue,
           \A d \in Cmds : cmd[d].pc = "queued" => cmd'[d] = cmd[d]
    PROVE  QueuesInv'
<1>1. \A l \in Lanes : \A i \in 1..Len(queue[l]) : queue[l][i] \in Cmds
  BY DEF QueueTypeOK
<1> QED BY <1>1 DEF QueuesInv

LEMMA QueuesTaken ==
    ASSUME QueueTypeOK, QueuesInv, NEW l \in Lanes, queue[l] # <<>>, TakenFrom(l),
           \A d \in Cmds \ {Head(queue[l])} : cmd'[d] = cmd[d]
    PROVE  QueuesInv'
<1> DEFINE c == Head(queue[l])
<1>1. queue \in [Lanes -> Seq(Cmds)]
  BY DEF QueueTypeOK
<1>2. ASSUME NEW m \in Lanes, NEW i \in 1..Len(queue'[m])
      PROVE  \E n \in 1..Len(queue[m]) : /\ queue'[m][i] = queue[m][n]
                                         /\ m = l => n = i + 1
                                         /\ m # l => n = i
  <2>1. CASE m = l
    <3>1. queue'[l] = Tail(queue[l])
      BY <1>1 DEF TakenFrom
    <3>2. i \in 1..(Len(queue[l]) - 1) /\ queue'[m][i] = queue[l][i + 1]
      BY <1>1, <1>2, <2>1, <3>1
    <3> QED BY <1>1, <2>1, <3>2
  <2>2. CASE m # l
    BY <1>1, <1>2, <2>2 DEF TakenFrom
  <2> QED BY <2>1, <2>2
<1>3. ASSUME NEW m \in Lanes, NEW n \in 1..Len(queue[m]), m = l => n > 1
      PROVE  queue[m][n] \in Cmds \ {c}
  <2>1. queue[m][n] \in Cmds /\ c = queue[l][1] /\ 1 \in 1..Len(queue[l])
    BY <1>1, HeadOfQueue
  <2>2. CASE m = l
    <3>1. n # 1
      BY <1>3, <2>2
    <3> QED BY <2>1, <2>2, <3>1 DEF QueuesInv
  <2>3. CASE m # l
    BY <2>1, <2>3 DEF QueuesInv
  <2> QED BY <2>2, <2>3
<1>4. ASSUME NEW m \in Lanes, NEW i \in 1..Len(queue'[m])
      PROVE  cmd'[queue'[m][i]].pc = "queued" /\ Lane(cmd'[queue'[m][i]].kind) = m
  <2>1. PICK n \in 1..Len(queue[m]) : queue'[m][i] = queue[m][n] /\ (m = l => n = i + 1)
    BY <1>2
  <2>2. m = l => n > 1
    <3>1. Len(queue'[m]) \in Nat
      BY <1>1 DEF TakenFrom
    <3> QED BY <2>1, <3>1
  <2>3. cmd'[queue[m][n]] = cmd[queue[m][n]]
    BY <1>3, <2>2
  <2> QED BY <2>1, <2>3 DEF QueuesInv
<1>5. ASSUME NEW m \in Lanes, NEW i \in 1..Len(queue'[m]), NEW j \in 1..Len(queue'[m]),
             queue'[m][i] = queue'[m][j]
      PROVE  i = j
  <2>1. PICK a \in 1..Len(queue[m]) : queue'[m][i] = queue[m][a]
            /\ (m = l => a = i + 1) /\ (m # l => a = i)
    BY <1>2
  <2>2. PICK b \in 1..Len(queue[m]) : queue'[m][j] = queue[m][b]
            /\ (m = l => b = j + 1) /\ (m # l => b = j)
    BY <1>2
  <2>3. a = b
    BY ZenonT(40), <1>5, <2>1, <2>2 DEF QueuesInv
  <2>4. i \in Nat /\ j \in Nat
    <3>1. Len(queue'[m]) \in Nat
      BY <1>1 DEF TakenFrom
    <3> QED BY <3>1
  <2> QED BY <2>1, <2>2, <2>3, <2>4
<1> QED BY <1>4, <1>5 DEF QueuesInv

LEMMA QueuesSent ==
    ASSUME QueueTypeOK, QueuesInv, CmdTypeOK, NEW c \in Cmds, Send(c)
    PROVE  QueuesInv'
<1> DEFINE l == Lane(cmd[c].kind)
<1>1. l \in Lanes /\ queue \in [Lanes -> Seq(Cmds)] /\ queue[l] \in Seq(Cmds)
  BY DEF Lane, Lanes, QueueTypeOK
<1>2. \A d \in Cmds \ {c} : cmd'[d] = cmd[d]
  BY DEF Send, Goto, CmdTypeOK
<1>3. cmd'[c].pc = "queued" /\ cmd'[c].kind = cmd[c].kind
  BY DEF Send, Goto, CmdTypeOK
<1>4. \A m \in Lanes : \A n \in 1..Len(queue[m]) : queue[m][n] \in Cmds \ {c}
  BY <1>1 DEF QueuesInv, Send
<1>5. queue'[l] = Append(queue[l], c) /\ \A m \in Lanes \ {l} : queue'[m] = queue[m]
  BY <1>1 DEF Send
<1>6. ASSUME NEW m \in Lanes, m # l
      PROVE  \A i, j \in 1..Len(queue'[m]) :
                /\ cmd'[queue'[m][i]].pc = "queued" /\ Lane(cmd'[queue'[m][i]].kind) = m
                /\ queue'[m][i] = queue'[m][j] => i = j
  <2>1. queue'[m] = queue[m]
    BY <1>5, <1>6
  <2>2. \A i \in 1..Len(queue[m]) : cmd'[queue[m][i]] = cmd[queue[m][i]]
    BY <1>2, <1>4
  <2> QED BY <2>1, <2>2 DEF QueuesInv
<1>7. Len(queue'[l]) = Len(queue[l]) + 1 /\ Len(queue[l]) \in Nat
      /\ queue'[l][Len(queue[l]) + 1] = c
      /\ \A i \in 1..Len(queue[l]) : queue'[l][i] = queue[l][i]
  BY <1>1, <1>5
<1>8. ASSUME NEW i \in 1..Len(queue'[l])
      PROVE  cmd'[queue'[l][i]].pc = "queued" /\ Lane(cmd'[queue'[l][i]].kind) = l
  <2>1. CASE i = Len(queue[l]) + 1
    BY <1>3, <1>7, <2>1
  <2>2. CASE i \in 1..Len(queue[l])
    BY <1>1, <1>2, <1>4, <1>7, <2>2 DEF QueuesInv
  <2> QED BY <1>7, <1>8, <2>1, <2>2
<1>9. ASSUME NEW i \in 1..Len(queue'[l]), NEW j \in 1..Len(queue'[l]), queue'[l][i] = queue'[l][j]
      PROVE  i = j
  <2>1. CASE i \in 1..Len(queue[l]) /\ j \in 1..Len(queue[l])
    BY <1>1, <1>7, <1>9, <2>1 DEF QueuesInv
  <2>2. CASE i \in 1..Len(queue[l]) /\ j = Len(queue[l]) + 1
    BY <1>1, <1>4, <1>7, <1>9, <2>2
  <2>3. CASE j \in 1..Len(queue[l]) /\ i = Len(queue[l]) + 1
    BY <1>1, <1>4, <1>7, <1>9, <2>3
  <2> QED BY <1>7, <2>1, <2>2, <2>3
<1> QED BY <1>6, <1>8, <1>9 DEF QueuesInv

LEMMA NextQueues ==
    ASSUME Typed, QueuesInv, [Next]_vars PROVE QueuesInv'
<1>1. QueueTypeOK /\ CmdTypeOK
  BY DEF Typed, TypeOK
<1>2. ASSUME NEW c \in Cmds, \A d \in Cmds \ {c} : cmd'[d] = cmd[d],
             cmd[c].pc # "queued", UNCHANGED queue
      PROVE  QueuesInv'
  BY <1>1, <1>2, QueuesKept
<1>3. \A c \in Cmds, pc \in Pcs : Goto(c, pc) => \A d \in Cmds \ {c} : cmd'[d] = cmd[d]
  BY <1>1 DEF Goto, CmdTypeOK
<1>4. ASSUME NEW c \in Cmds, NEW kind \in Kinds, NEW i \in Items, Stamp(c, kind, i) PROVE QueuesInv'
  BY <1>1, <1>2, <1>4 DEF Stamp, CmdTypeOK
<1>5. ASSUME NEW c \in Cmds, RecordRelease(c) PROVE QueuesInv'
  BY <1>2, <1>3, <1>5, PcsListed DEF RecordRelease, At
<1>6. ASSUME NEW c \in Cmds, Send(c) PROVE QueuesInv'
  BY <1>1, <1>6, QueuesSent
<1>7. ASSUME NEW c \in Cmds, NEW l \in Lanes, queue[l] # <<>>, c = Head(queue[l]), TakenFrom(l),
             \E pc \in Pcs : Goto(c, pc)
      PROVE  QueuesInv'
  BY <1>1, <1>3, <1>7, QueuesTaken
<1>8. \A c \in Cmds : AdmitAndSpawn(c) => \E pc \in Pcs : Goto(c, pc)
  BY PcsListed DEF AdmitAndSpawn
<1>9. ASSUME TakePriority PROVE QueuesInv'
  BY <1>1, <1>7, <1>8, <1>9, HeadOfQueue DEF TakePriority, Lanes
<1>10. ASSUME NEW c \in Cmds, DropSuperseded(c) PROVE QueuesInv'
  BY <1>7, <1>10, PcsListed DEF DropSuperseded, LooksAtOrdinary, Lanes
<1>11. ASSUME NEW c \in Cmds, Admit(c) PROVE QueuesInv'
  BY <1>7, <1>8, <1>11 DEF Admit, LooksAtOrdinary, Lanes
<1>12. ASSUME NEW c \in Cmds, Start(c) PROVE QueuesInv'
  <2>1. \E pc \in Pcs : Goto(c, pc)
    BY <1>12, PcsListed DEF Start, BeginInstall
  <2> QED BY <1>2, <1>3, <1>12, <2>1 DEF Start, loopVars
<1>13. ASSUME NEW c \in Cmds, Settle(c) PROVE QueuesInv'
  BY <1>2, <1>3, <1>13, PcsListed DEF Settle, loopVars
<1>14. ASSUME NEW c \in Cmds, EndTurn(c) PROVE QueuesInv'
  BY <1>2, <1>3, <1>14, PcsListed DEF EndTurn, At, loopVars
<1>15. ASSUME NEW c \in Cmds, Finish(c) PROVE QueuesInv'
  BY <1>2, <1>3, <1>15, PcsListed DEF Finish, loopVars
<1>16. ASSUME NEW c \in Cmds, Abandon(c) PROVE QueuesInv'
  BY <1>2, <1>3, <1>16, PcsListed DEF Abandon, loopVars
<1>17. ASSUME UNCHANGED <<cmd, queue>> PROVE QueuesInv'
  BY <1>17 DEF QueuesInv
<1> QED BY <1>4, <1>5, <1>6, <1>9, <1>10, <1>11, <1>12, <1>13, <1>14, <1>15, <1>16, <1>17
        DEF Next, TakeOrdinary, TaskStep, PassOn, Done, vars, loopVars

-----------------------------------------------------------------------------
(* Turns. A step after which no new command stands in a line keeps the       *)
(* invariant, as long as those it signals and those it lets run have nobody  *)
(* ahead.                                                                    *)

LEMMA HoldersAreAdmitted == \A c \in Cmds : HoldsTurn(c) => ~Unadmitted(c)
BY DEF HoldsTurn, Unadmitted

LEMMA LinesShrink ==
    ASSUME TypeOK, TurnsInv, CmdTypeOK',
           UNCHANGED <<tail, ahead>>, HandingInv',
           wait' \in [Cmds -> Cmds \cup {NoCmd}], signalled' \subseteq Cmds,
           \A d \in Cmds : Unadmitted(d)' => Unadmitted(d) /\ d \notin signalled',
           \A d \in Cmds : ~Unadmitted(d) => cmd'[d].kind = cmd[d].kind,
           \A d \in Cmds : wait'[d] \in {wait[d], NoCmd},
           \A d \in Cmds : Serial(cmd'[d].kind) /\ HoldsTurn(d)' => HoldsTurn(d),
           \A d \in Cmds : Serial(cmd'[d].kind) /\ HoldsTurn(d)'
                           /\ (cmd'[d].pc # "admitted" \/ wait'[d] = NoCmd) => Clear(d),
           \A d \in signalled' : Serial(cmd'[d].kind) /\ ~HoldsTurn(d)' /\ Clear(d)
    PROVE  TurnsInv'
<1> USE DEF TypeOK, AdmissionTypeOK
<1>1. \A d \in Cmds : ~Unadmitted(d) => ~Unadmitted(d)'
  OBVIOUS
<1>2. \A c, d \in Cmds : SameKey(c, d) /\ ~Unadmitted(c) /\ ~Unadmitted(d) => SameKey(c, d)'
  BY DEF SameKey
<1>3. \A c \in Cmds : ahead[c] # {} => ~Unadmitted(c)
  BY DEF TurnsInv, FreshInv
<1>4. \A c \in Cmds : \A d \in ahead[c] : d \in Cmds /\ SameKey(c, d)' /\ ~Unadmitted(d)'
  BY <1>1, <1>2, <1>3 DEF TurnsInv, AheadInv
<1>5. \A c \in Cmds : Clear(c) => Clear(c)'
  <2>1. ASSUME NEW c \in Cmds, Clear(c), NEW d \in ahead[c] PROVE ~HoldsTurn(d)'
    <3>1. d \in Cmds /\ Serial(cmd'[d].kind)
      BY <1>4 DEF SameKey
    <3>2. ~HoldsTurn(d)
      BY <2>1 DEF Clear
    <3> QED BY <3>1, <3>2
  <2> QED BY <2>1 DEF Clear
<1>6. FreshInv'
  BY DEF TurnsInv, FreshInv
<1>7. AheadInv'
  BY <1>4 DEF AheadInv
<1>8. WaitInv'
  <2>1. ASSUME NEW c \in Cmds, wait'[c] # NoCmd
        PROVE  /\ (SameKey(c, wait[c]) /\ ~Unadmitted(wait[c]))'
               /\ ahead'[c] \subseteq ahead'[wait'[c]] \cup {wait'[c]}
    <3>1. wait'[c] = wait[c] /\ wait[c] \in Cmds /\ ~Unadmitted(c)
      BY <2>1 DEF TurnsInv, FreshInv
    <3>2. SameKey(c, wait[c]) /\ ~Unadmitted(wait[c]) /\ ahead[c] \subseteq ahead[wait[c]] \cup {wait[c]}
      BY <2>1, <3>1 DEF TurnsInv, WaitInv
    <3>3. SameKey(c, wait[c])' /\ ~Unadmitted(wait[c])'
      <4>1. \A w \in Cmds : SameKey(c, w) /\ ~Unadmitted(w) => SameKey(c, w)' /\ ~Unadmitted(w)'
        BY <1>1, <1>2, <3>1
      <4>2. (SameKey(c, wait[c]) /\ ~Unadmitted(wait[c]))'
        BY <3>1, <3>2, <4>1 DEF SameKey, Unadmitted
      <4> QED BY <4>2
    <3> QED BY <3>1, <3>2, <3>3
  <2> QED BY <2>1 DEF WaitInv
<1>9. SignalledInv'
  BY <1>5 DEF SignalledInv
<1>10. RunningInv'
  BY <1>5 DEF RunningInv
<1>11. \A k \in SerialKeys : Line(k)' \subseteq Line(k)
  <2>1. ASSUME NEW c \in Cmds, NEW k, UnderKey(c, k)', HoldsTurn(c)'
        PROVE  UnderKey(c, k) /\ HoldsTurn(c)
    <3>1. HoldsTurn(c) /\ ~Unadmitted(c)
      BY <2>1, HoldersAreAdmitted DEF UnderKey
    <3> QED BY <2>1, <3>1 DEF UnderKey
  <2> QED BY <2>1 DEF Line
<1>12. LinesInv'
  <2>1. ASSUME NEW k \in SerialKeys
        PROVE  /\ \A c, d \in Line(k)' : c # d => d \in ahead'[c] \/ c \in ahead'[d]
               /\ tail'[k] = NoCmd => Line(k)' = {}
    BY <1>11 DEF TurnsInv, LinesInv
  <2>2. ASSUME NEW k \in SerialKeys, tail'[k] # NoCmd
        PROVE  /\ (UnderKey(tail[k], k) /\ ~Unadmitted(tail[k]))'
               /\ Line(k)' \subseteq ahead'[tail'[k]] \cup {tail'[k]}
    <3>1. tail[k] \in Cmds /\ UnderKey(tail[k], k) /\ ~Unadmitted(tail[k])
          /\ Line(k) \subseteq ahead[tail[k]] \cup {tail[k]}
      BY <2>2 DEF TurnsInv, LinesInv
    <3>2. (UnderKey(tail[k], k) /\ ~Unadmitted(tail[k]))'
      <4>1. \A t \in Cmds : UnderKey(t, k) /\ ~Unadmitted(t) => (UnderKey(t, k) /\ ~Unadmitted(t))'
        BY <1>1 DEF UnderKey
      <4> QED BY <3>1, <4>1
    <3> QED BY <1>11, <3>1, <3>2
  <2> QED BY <2>1, <2>2 DEF LinesInv
<1> QED BY <1>6, <1>7, <1>8, <1>9, <1>10, <1>12 DEF TurnsInv

(* A step that changes nothing of the turns but moves a command on.          *)
LEMMA MoveKeepsTurns ==
    ASSUME TypeOK, TurnsInv, CmdTypeOK', NEW c \in Cmds,
           UNCHANGED <<tail, wait, signalled, handing, ahead>>,
           \A d \in Cmds \ {c} : cmd'[d] = cmd[d],
           cmd[c].pc # "abandoned", cmd[c].pc # "none" => cmd'[c].kind = cmd[c].kind,
           Unadmitted(c)' => Unadmitted(c),
           Serial(cmd'[c].kind) /\ HoldsTurn(c)' => HoldsTurn(c) /\ cmd[c].pc # "admitted"
    PROVE  TurnsInv'
<1> USE DEF TypeOK, AdmissionTypeOK
<1>1. \A d \in Cmds \ {c} : /\ Unadmitted(d)' <=> Unadmitted(d)
                            /\ HoldsTurn(d)' <=> HoldsTurn(d)
  BY DEF Unadmitted, HoldsTurn
<1>2. ~Unadmitted(c) => cmd'[c].kind = cmd[c].kind
  BY DEF Unadmitted
<1>3. HoldsTurn(c) => ~Unadmitted(c)
  BY HoldersAreAdmitted
<1>4. HandingInv'
  BY DEF TurnsInv, HandingInv
<1>5. \A d \in Cmds : Unadmitted(d)' => Unadmitted(d) /\ d \notin signalled'
  BY <1>1 DEF TurnsInv, FreshInv
<1>6. \A d \in Cmds : Serial(cmd'[d].kind) /\ HoldsTurn(d)' => HoldsTurn(d)
  BY <1>1
<1>7. \A d \in Cmds : Serial(cmd'[d].kind) /\ HoldsTurn(d)'
                     /\ (cmd'[d].pc # "admitted" \/ wait'[d] = NoCmd) => Clear(d)
  <2>1. ASSUME NEW d \in Cmds \ {c}, Serial(cmd'[d].kind), HoldsTurn(d)',
               cmd'[d].pc # "admitted" \/ wait'[d] = NoCmd
        PROVE  Clear(d)
    BY <1>1, <2>1 DEF TurnsInv, RunningInv
  <2>2. ASSUME Serial(cmd'[c].kind), HoldsTurn(c)' PROVE Clear(c)
    BY <1>2, <1>3, <2>2 DEF TurnsInv, RunningInv
  <2> QED BY <2>1, <2>2
<1>8. \A d \in signalled' : Serial(cmd'[d].kind) /\ ~HoldsTurn(d)' /\ Clear(d)
  <2>1. \A d \in signalled : d \in Cmds /\ Serial(cmd[d].kind) /\ ~HoldsTurn(d) /\ Clear(d)
                           /\ ~Unadmitted(d)
    BY DEF TurnsInv, SignalledInv, FreshInv
  <2> QED BY <1>1, <1>2, <2>1
<1>9. \A d \in Cmds : ~Unadmitted(d) => cmd'[d].kind = cmd[d].kind
  BY <1>2
<1>10. wait' \in [Cmds -> Cmds \cup {NoCmd}] /\ signalled' \subseteq Cmds
       /\ \A d \in Cmds : wait'[d] \in {wait[d], NoCmd}
  OBVIOUS
<1> QED BY <1>4, <1>5, <1>6, <1>7, <1>8, <1>9, <1>10, LinesShrink

(* A turn that ends: its command ran, or was dropped with nobody ahead.      *)
LEMMA SignalKeepsTurns ==
    ASSUME TypeOK, TurnsInv, CmdTypeOK', NEW c \in Cmds, SignalDone(c), UNCHANGED ahead,
           \A d \in Cmds \ {c} : cmd'[d] = cmd[d],
           cmd[c].pc # "abandoned", cmd'[c].kind = cmd[c].kind, Serial(cmd[c].kind),
           ~Unadmitted(c), ~Unadmitted(c)', ~HoldsTurn(c)', Clear(c)
    PROVE  TurnsInv'
<1> USE DEF TypeOK, AdmissionTypeOK
<1>0. signalled' = signalled \cup {c} /\ handing' = handing /\ tail' = tail
      /\ wait' = [wait EXCEPT ![c] = NoCmd]
  BY DEF SignalDone
<1>1. \A d \in Cmds \ {c} : /\ Unadmitted(d)' <=> Unadmitted(d)
                            /\ HoldsTurn(d)' <=> HoldsTurn(d)
  BY <1>0 DEF Unadmitted, HoldsTurn
<1>2. HandingInv'
  BY <1>0 DEF TurnsInv, HandingInv
<1>3. \A d \in Cmds : Unadmitted(d)' => Unadmitted(d) /\ d \notin signalled'
  BY <1>0, <1>1 DEF TurnsInv, FreshInv
<1>4. \A d \in Cmds : Serial(cmd'[d].kind) /\ HoldsTurn(d)'
                     /\ (cmd'[d].pc # "admitted" \/ wait'[d] = NoCmd) => Clear(d)
  BY <1>0, <1>1 DEF TurnsInv, RunningInv
<1>5. \A d \in signalled' : Serial(cmd'[d].kind) /\ ~HoldsTurn(d)' /\ Clear(d)
  BY <1>0, <1>1 DEF TurnsInv, SignalledInv
<1>6. \A d \in Cmds : Serial(cmd'[d].kind) /\ HoldsTurn(d)' => HoldsTurn(d)
  BY <1>1
<1>7. wait' \in [Cmds -> Cmds \cup {NoCmd}] /\ signalled' \subseteq Cmds
      /\ \A d \in Cmds : wait'[d] \in {wait[d], NoCmd}
  BY <1>0
<1> QED BY <1>0, <1>2, <1>3, <1>4, <1>5, <1>6, <1>7, LinesShrink

(* Whoever finds its turn ready has nobody ahead.                            *)
LEMMA ReadyIsClear ==
    ASSUME TypeOK, TurnsInv, NEW c \in Cmds, wait[c] # NoCmd, wait[c] \in signalled
    PROVE  Clear(c)
<1>1. ahead[c] \subseteq ahead[wait[c]] \cup {wait[c]}
  BY DEF TurnsInv, WaitInv
<1>2. ~HoldsTurn(wait[c]) /\ Clear(wait[c])
  BY DEF TurnsInv, SignalledInv
<1> QED BY <1>1, <1>2 DEF Clear

LEMMA StartKeepsTurns ==
    ASSUME TypeOK, TurnsInv, CmdTypeOK', NEW c \in Cmds, Start(c)
    PROVE  TurnsInv'
<1> USE DEF TypeOK, AdmissionTypeOK
<1>0. wait' = [wait EXCEPT ![c] = NoCmd] /\ UNCHANGED <<signalled, handing, tail, ahead>>
  BY DEF Start
<1>a. \E pc \in {"settled", "working"} : cmd' = [cmd EXCEPT ![c].pc = pc]
  BY DEF Start, BeginInstall, Goto
<1>b. (\A d \in Cmds \ {c} : cmd'[d] = cmd[d]) /\ cmd'[c].kind = cmd[c].kind
      /\ cmd'[c].pc \in {"settled", "working"} /\ cmd[c].pc = "admitted"
  BY <1>a DEF CmdTypeOK, Start
<1>1. \A d \in Cmds \ {c} : /\ Unadmitted(d)' <=> Unadmitted(d)
                            /\ HoldsTurn(d)' <=> HoldsTurn(d)
  BY <1>0, <1>b DEF Unadmitted, HoldsTurn
<1>2. ~Unadmitted(c) /\ ~Unadmitted(c)' /\ HoldsTurn(c)
  BY <1>b DEF Unadmitted, HoldsTurn
<1>3. Serial(cmd[c].kind) => Clear(c)
  <2>1. CASE wait[c] = NoCmd
    BY <1>2, <2>1 DEF TurnsInv, RunningInv
  <2>2. CASE wait[c] # NoCmd
    BY <2>2, ReadyIsClear DEF Start, TurnReady
  <2> QED BY <2>1, <2>2
<1>4. HandingInv'
  <2>1. c \notin handing
    BY <1>b DEF TurnsInv, HandingInv
  <2> QED BY <1>0, <1>b, <2>1 DEF TurnsInv, HandingInv
<1>5. \A d \in Cmds : Unadmitted(d)' => Unadmitted(d) /\ d \notin signalled'
  BY <1>0, <1>1, <1>2 DEF TurnsInv, FreshInv
<1>6. \A d \in Cmds : Serial(cmd'[d].kind) /\ HoldsTurn(d)'
                     /\ (cmd'[d].pc # "admitted" \/ wait'[d] = NoCmd) => Clear(d)
  BY <1>0, <1>1, <1>b, <1>3 DEF TurnsInv, RunningInv
<1>7. \A d \in signalled' : Serial(cmd'[d].kind) /\ ~HoldsTurn(d)' /\ Clear(d)
  <2>1. c \notin signalled \/ ~Serial(cmd[c].kind)
    BY <1>2 DEF TurnsInv, SignalledInv
  <2> QED BY <1>0, <1>1, <1>b, <2>1 DEF TurnsInv, SignalledInv
<1>8. \A d \in Cmds : Serial(cmd'[d].kind) /\ HoldsTurn(d)' => HoldsTurn(d)
  BY <1>1, <1>2
<1>9. wait' \in [Cmds -> Cmds \cup {NoCmd}] /\ signalled' \subseteq Cmds
      /\ \A d \in Cmds : wait'[d] \in {wait[d], NoCmd}
  BY <1>0
<1> QED BY <1>0, <1>b, <1>4, <1>5, <1>6, <1>7, <1>8, <1>9, LinesShrink

LEMMA PassOnKeepsTurns ==
    ASSUME TypeOK, TurnsInv, CmdTypeOK', NEW c \in Cmds, PassOn(c)
    PROVE  TurnsInv'
<1> USE DEF TypeOK, AdmissionTypeOK
<1>0. signalled' = signalled \cup {c} /\ handing' = handing \ {c}
      /\ UNCHANGED <<cmd, wait, tail, ahead>>
  BY DEF PassOn, HandOn
<1>1. cmd[c].pc = "abandoned" /\ Serial(cmd[c].kind) /\ wait[c] # NoCmd /\ Clear(c)
  BY ReadyIsClear DEF PassOn, HandOn, TurnsInv, HandingInv
<1>2. ~HoldsTurn(c)' /\ ~Unadmitted(c)
  BY <1>0, <1>1 DEF HoldsTurn, Unadmitted
<1>3. \A d \in Cmds : Unadmitted(d)' <=> Unadmitted(d)
  BY <1>0 DEF Unadmitted
<1>4. \A d \in Cmds : HoldsTurn(d)' => HoldsTurn(d)
  BY <1>0 DEF HoldsTurn
<1>5. HandingInv'
  BY <1>0 DEF TurnsInv, HandingInv
<1>6. \A d \in Cmds : Unadmitted(d)' => Unadmitted(d) /\ d \notin signalled'
  BY <1>0, <1>2, <1>3 DEF TurnsInv, FreshInv
<1>7. \A d \in Cmds : Serial(cmd'[d].kind) /\ HoldsTurn(d)'
                     /\ (cmd'[d].pc # "admitted" \/ wait'[d] = NoCmd) => Clear(d)
  BY <1>0, <1>4 DEF TurnsInv, RunningInv
<1>8. \A d \in signalled' : Serial(cmd'[d].kind) /\ ~HoldsTurn(d)' /\ Clear(d)
  BY <1>0, <1>1, <1>2, <1>4 DEF TurnsInv, SignalledInv
<1> QED BY <1>0, <1>4, <1>5, <1>6, <1>7, <1>8, LinesShrink

(* One more in its line, behind everybody there.                             *)
LEMMA JoinKeepsTurns ==
    ASSUME TypeOK, TurnsInv, CmdTypeOK', NEW c \in Cmds,
           cmd[c].pc = "queued", Serial(cmd[c].kind), JoinLine(c, KeyOf(cmd[c].kind)),
           ahead' = [ahead EXCEPT ![c] = Line(KeyOf(cmd[c].kind))], Goto(c, "admitted")
    PROVE  TurnsInv'
<1> USE DEF TypeOK, AdmissionTypeOK
<1>k. PICK k \in SerialKeys : k = KeyOf(cmd[c].kind)
  BY DEF KeyOf, SerialKeys
<1>0. k \in SerialKeys /\ Line(k) \subseteq Cmds /\ tail[k] \in Cmds \cup {NoCmd}
  BY DEF Line
<1>1. /\ \A d \in Cmds \ {c} : cmd'[d] = cmd[d] /\ wait'[d] = wait[d] /\ ahead'[d] = ahead[d]
      /\ cmd'[c].kind = cmd[c].kind /\ cmd'[c].pc = "admitted"
      /\ wait'[c] = tail[k] /\ ahead'[c] = Line(k)
      /\ \A j \in SerialKeys : tail'[j] = IF j = k THEN c ELSE tail[j]
      /\ UNCHANGED <<signalled, handing>>
  BY <1>0, <1>k DEF JoinLine, Goto, CmdTypeOK
<1>2. Unadmitted(c) /\ ~HoldsTurn(c) /\ ~Unadmitted(c)' /\ HoldsTurn(c)'
  BY <1>1 DEF Unadmitted, HoldsTurn
<1>3. \A d \in Cmds \ {c} : /\ Unadmitted(d)' <=> Unadmitted(d)
                            /\ HoldsTurn(d)' <=> HoldsTurn(d)
  BY <1>1 DEF Unadmitted, HoldsTurn
<1>4. \A d, e \in Cmds : SameKey(d, e)' <=> SameKey(d, e)
  BY <1>1 DEF SameKey
<1>5. \A d \in Cmds : c \notin ahead[d]
  BY <1>2 DEF TurnsInv, AheadInv
<1>6. \A d \in Cmds \ {c} : Clear(d) => Clear(d)'
  BY <1>1, <1>3, <1>5 DEF Clear
<1>7. \A d \in Line(k) : d \in Cmds \ {c} /\ SameKey(c, d) /\ ~Unadmitted(d)
  BY <1>2, <1>k, HoldersAreAdmitted DEF Line, UnderKey, SameKey
<1>8. tail[k] # NoCmd => /\ tail[k] \in Cmds \ {c} /\ SameKey(c, tail[k]) /\ ~Unadmitted(tail[k])
                         /\ Line(k) \subseteq ahead[tail[k]] \cup {tail[k]}
  BY <1>0, <1>2, <1>k DEF TurnsInv, LinesInv, UnderKey, SameKey
<1>9. FreshInv'
  BY <1>1, <1>2, <1>3 DEF TurnsInv, FreshInv
<1>10. AheadInv'
  <2>1. ASSUME NEW d \in Cmds \ {c}, NEW e \in ahead'[d] PROVE SameKey(d, e)' /\ ~Unadmitted(e)'
    <3>1. e \in Cmds \ {c} /\ SameKey(d, e) /\ ~Unadmitted(e)
      BY <1>1, <1>2, <2>1 DEF TurnsInv, AheadInv
    <3> QED BY <1>3, <1>4, <3>1
  <2>2. ASSUME NEW e \in ahead'[c] PROVE SameKey(c, e)' /\ ~Unadmitted(e)'
    <3>1. e \in Cmds \ {c} /\ SameKey(c, e) /\ ~Unadmitted(e)
      BY <1>1, <1>7, <2>2
    <3> QED BY <1>3, <1>4, <3>1
  <2> QED BY <2>1, <2>2 DEF AheadInv
<1>11. WaitInv'
  <2>1. ASSUME NEW d \in Cmds, NEW w \in Cmds \ {c}, w = wait'[d], SameKey(d, w), ~Unadmitted(w),
               ahead'[d] \subseteq ahead[w] \cup {w}
        PROVE  /\ (SameKey(d, w) /\ ~Unadmitted(w))'
               /\ ahead'[d] \subseteq ahead'[w] \cup {w}
    BY <1>1, <1>3, <1>4, <2>1
  <2>2. ASSUME NEW d \in Cmds, wait'[d] # NoCmd
        PROVE  \E w \in Cmds \ {c} : /\ w = wait'[d] /\ SameKey(d, w) /\ ~Unadmitted(w)
                                     /\ ahead'[d] \subseteq ahead[w] \cup {w}
    <3>1. CASE d = c
      BY <1>1, <1>8, <2>2, <3>1
    <3>2. CASE d # c
      <4>1. wait'[d] = wait[d] /\ ahead'[d] = ahead[d] /\ wait[d] \in Cmds
        BY <1>1, <2>2, <3>2
      <4>2. SameKey(d, wait[d]) /\ ~Unadmitted(wait[d]) /\ ahead[d] \subseteq ahead[wait[d]] \cup {wait[d]}
        BY <2>2, <4>1 DEF TurnsInv, WaitInv
      <4>3. wait[d] # c
        BY <1>2, <4>2
      <4> QED BY <4>1, <4>2, <4>3
    <3> QED BY <3>1, <3>2
  <2>3. ASSUME NEW d \in Cmds, wait'[d] # NoCmd
        PROVE  /\ \E w \in Cmds : w = wait'[d] /\ (SameKey(d, w) /\ ~Unadmitted(w))'
               /\ ahead'[d] \subseteq ahead'[wait'[d]] \cup {wait'[d]}
    BY <2>1, <2>2, <2>3
  <2> QED BY <2>3 DEF WaitInv, SameKey, Unadmitted
<1>12. SignalledInv'
  <2>1. c \notin signalled
    BY <1>2 DEF TurnsInv, FreshInv
  <2> QED BY <1>1, <1>3, <1>6, <2>1 DEF TurnsInv, SignalledInv
<1>13. HandingInv'
  BY <1>1 DEF TurnsInv, HandingInv
<1>14. RunningInv'
  <2>1. tail[k] = NoCmd => Clear(c)'
    <3>1. tail[k] = NoCmd => Line(k) = {}
      BY <1>0 DEF TurnsInv, LinesInv
    <3> QED BY <1>1, <3>1 DEF Clear
  <2> QED BY <1>1, <1>3, <1>6, <2>1 DEF TurnsInv, RunningInv
<1>15. \A j \in SerialKeys : Line(j)' = IF j = k THEN Line(j) \cup {c} ELSE Line(j)
  BY <1>1, <1>2, <1>3, <1>k DEF Line, UnderKey
<1>16. LinesInv'
  <2>1. ASSUME NEW j \in SerialKeys, NEW d \in Line(j)', NEW e \in Line(j)', d # e
        PROVE  e \in ahead'[d] \/ d \in ahead'[e]
    <3>1. ASSUME NEW a \in Line(j), NEW b \in Line(j), a # b
          PROVE  b \in ahead'[a] \/ a \in ahead'[b]
      BY <1>1, <1>2, <3>1 DEF TurnsInv, LinesInv, Line
    <3> QED BY <1>1, <1>15, <2>1, <3>1
  <2>2. ASSUME NEW j \in SerialKeys, j # k
        PROVE  IF tail'[j] = NoCmd THEN Line(j)' = {}
               ELSE /\ (UnderKey(tail[j], j) /\ ~Unadmitted(tail[j]))'
                    /\ Line(j)' \subseteq ahead'[tail'[j]] \cup {tail'[j]}
    <3>1. tail'[j] = tail[j] /\ Line(j)' = Line(j) /\ tail[j] \in Cmds \cup {NoCmd}
      BY <1>1, <1>15, <2>2
    <3>2. CASE tail[j] = NoCmd
      BY <3>1, <3>2 DEF TurnsInv, LinesInv
    <3>3. CASE tail[j] # NoCmd
      <4>1. UnderKey(tail[j], j) /\ ~Unadmitted(tail[j]) /\ Line(j) \subseteq ahead[tail[j]] \cup {tail[j]}
        BY <3>3 DEF TurnsInv, LinesInv
      <4>2. tail[j] \in Cmds \ {c}
        BY <1>2, <3>1, <3>3, <4>1
      <4>3. \A t \in Cmds \ {c} : UnderKey(t, j) /\ ~Unadmitted(t) => (UnderKey(t, j) /\ ~Unadmitted(t))'
        BY <1>1 DEF UnderKey, Unadmitted
      <4>4. (UnderKey(tail[j], j) /\ ~Unadmitted(tail[j]))'
        BY <3>1, <4>1, <4>2, <4>3 DEF UnderKey, Unadmitted
      <4> QED BY <1>1, <3>1, <3>3, <4>1, <4>2, <4>4
    <3> QED BY <3>2, <3>3
  <2>3. tail'[k] = c /\ c # NoCmd /\ (UnderKey(c, k) /\ ~Unadmitted(c))'
        /\ Line(k)' = ahead'[c] \cup {c}
    BY <1>0, <1>1, <1>2, <1>15, <1>k, AdmissionAssumption DEF UnderKey
  <2>4. ASSUME NEW j \in SerialKeys, j = k PROVE (UnderKey(tail[j], j) /\ ~Unadmitted(tail[j]))'
    BY <2>3, <2>4 DEF UnderKey, Unadmitted
  <2>5. ASSUME NEW j \in SerialKeys
        PROVE  IF tail'[j] = NoCmd THEN Line(j)' = {}
               ELSE /\ (UnderKey(tail[j], j) /\ ~Unadmitted(tail[j]))'
                    /\ Line(j)' \subseteq ahead'[tail'[j]] \cup {tail'[j]}
    BY <2>2, <2>3, <2>4
  <2> QED BY <2>1, <2>5 DEF LinesInv
<1> QED BY <1>9, <1>10, <1>11, <1>12, <1>13, <1>14, <1>16 DEF TurnsInv

LEMMA InitTurns == Init => TurnsInv /\ ReadingInv
<1> SUFFICES ASSUME Init PROVE TurnsInv /\ ReadingInv
  OBVIOUS
<1>1. \A c \in Cmds : cmd[c].pc = "none" /\ cmd[c].kind = "none" /\ ahead[c] = {} /\ wait[c] = NoCmd
  BY DEF Init, NoPlace, AdmissionInit
<1>2. signalled = {} /\ handing = {} /\ \A k \in SerialKeys : tail[k] = NoCmd
  BY DEF Init, AdmissionInit
<1>3. ~Serial("none")
  BY DEF Serial
<1> QED BY <1>1, <1>2, <1>3
        DEF TurnsInv, ReadingInv, FreshInv, AheadInv, WaitInv, SignalledInv, HandingInv, RunningInv,
            LinesInv, Line, UnderKey

(* The steps of admission.                                                   *)
LEMMA AdmitKeepsTurns ==
    ASSUME TypeOK, TurnsInv, CmdTypeOK', NEW c \in Cmds, AdmitAndSpawn(c), cmd[c].pc = "queued"
    PROVE  TurnsInv'
<1>1. CASE Serial(cmd[c].kind) /\ JoinLine(c, KeyOf(cmd[c].kind)) /\ Goto(c, "admitted")
           /\ ahead' = [ahead EXCEPT ![c] = Line(KeyOf(cmd[c].kind))]
  BY <1>1, JoinKeepsTurns
<1>2. CASE /\ ~Serial(cmd[c].kind)
           /\ Goto(c, "refused") \/ Goto(c, "admitted")
           /\ UNCHANGED <<tail, wait, signalled, handing, ahead>>
  <2>1. (\A d \in Cmds \ {c} : cmd'[d] = cmd[d]) /\ cmd'[c].kind = cmd[c].kind
        /\ cmd'[c].pc \in {"refused", "admitted"}
    BY <1>2 DEF TypeOK, CmdTypeOK, Goto
  <2> QED BY <1>2, <2>1, MoveKeepsTurns DEF Unadmitted
<1> QED BY <1>1, <1>2
        DEF AdmitAndSpawn, admissionVars, TakeFlight, TakeLatest, ReplaceLatest, Serial

LEMMA NextTurns ==
    ASSUME Typed, QueuesInv, TurnsInv, ReadingInv, Typed', [Next]_vars PROVE TurnsInv'
<1>0. TypeOK /\ CmdTypeOK /\ CmdTypeOK' /\ QueueTypeOK
  BY DEF Typed, TypeOK
<1>1. \A c \in Cmds, pc \in Pcs : Goto(c, pc) =>
        (\A d \in Cmds \ {c} : cmd'[d] = cmd[d]) /\ cmd'[c] = [cmd[c] EXCEPT !.pc = pc]
        /\ cmd'[c].kind = cmd[c].kind /\ cmd'[c].pc = pc
  BY <1>0 DEF Goto, CmdTypeOK
<1>2. ASSUME NEW c \in Cmds, NEW kind \in Kinds, NEW i \in Items, Stamp(c, kind, i) PROVE TurnsInv'
  <2>1. (\A d \in Cmds \ {c} : cmd'[d] = cmd[d]) /\ cmd'[c].pc \in {"stamped", "sending"}
    BY <1>0, <1>2 DEF Stamp, CmdTypeOK
  <2>2. cmd[c].pc = "none" /\ UNCHANGED <<tail, wait, signalled, handing, ahead>>
    BY <1>2 DEF Stamp, admissionVars
  <2> QED BY <1>0, <2>1, <2>2, MoveKeepsTurns DEF Unadmitted, HoldsTurn
<1>3. ASSUME NEW c \in Cmds, NEW pc \in {"sending", "queued", "dropped"}, Goto(c, pc),
             cmd[c].pc \in {"stamped", "sending", "queued"}, UNCHANGED <<admissionVars, ahead>>
      PROVE  TurnsInv'
  <2>1. (\A d \in Cmds \ {c} : cmd'[d] = cmd[d]) /\ cmd'[c].kind = cmd[c].kind /\ cmd'[c].pc = pc
    BY <1>1, <1>3, PcsListed
  <2> QED BY <1>0, <1>3, <2>1, MoveKeepsTurns DEF Unadmitted, HoldsTurn, admissionVars
<1>4. ASSUME NEW c \in Cmds, RecordRelease(c) PROVE TurnsInv'
  BY <1>3, <1>4 DEF RecordRelease, At
<1>5. ASSUME NEW c \in Cmds, Send(c) PROVE TurnsInv'
  BY <1>3, <1>5 DEF Send
<1>6. ASSUME TakePriority PROVE TurnsInv'
  BY <1>0, <1>6, HeadOfQueue, HeadIsQueued, AdmitKeepsTurns DEF TakePriority, Lanes
<1>7. ASSUME NEW c \in Cmds, DropSuperseded(c) PROVE TurnsInv'
  BY <1>0, <1>3, <1>7, HeadIsQueued DEF DropSuperseded, LooksAtOrdinary, Lanes
<1>8. ASSUME NEW c \in Cmds, Admit(c) PROVE TurnsInv'
  BY <1>0, <1>8, HeadIsQueued, AdmitKeepsTurns DEF Admit, LooksAtOrdinary, Lanes
<1>9. ASSUME NEW c \in Cmds, Start(c) PROVE TurnsInv'
  BY <1>0, <1>9, StartKeepsTurns
<1>10. ASSUME NEW c \in Cmds, Settle(c) PROVE TurnsInv'
  <2>1. (\A d \in Cmds \ {c} : cmd'[d] = cmd[d]) /\ cmd'[c].kind = cmd[c].kind
        /\ cmd'[c].pc = "settled" /\ cmd[c].pc \in {"working", "reading"}
    BY <1>1, <1>10, PcsListed DEF Settle
  <2>2. UNCHANGED <<tail, wait, signalled, handing, ahead>>
    BY <1>10 DEF Settle, admissionVars
  <2>3. HoldsTurn(c)' => HoldsTurn(c) /\ cmd[c].pc # "admitted"
    BY <2>1, <2>2 DEF HoldsTurn, ReadingInv
  <2> QED BY <1>0, <2>1, <2>2, <2>3, MoveKeepsTurns DEF Unadmitted
<1>11. ASSUME NEW c \in Cmds, SignalDone(c), UNCHANGED ahead, Serial(cmd[c].kind),
              NEW pc \in {"reading", "done", "abandoned"}, Goto(c, pc),
              cmd[c].pc \in {"working", "settled"} \/ (cmd[c].pc = "admitted" /\ wait[c] = NoCmd)
       PROVE  TurnsInv'
  <2>1. (\A d \in Cmds \ {c} : cmd'[d] = cmd[d]) /\ cmd'[c].kind = cmd[c].kind /\ cmd'[c].pc = pc
    BY <1>1, <1>11, PcsListed
  <2>2. Clear(c)
    BY <1>11 DEF TurnsInv, RunningInv, SignalledInv, HoldsTurn
  <2>3. ~Unadmitted(c) /\ ~Unadmitted(c)' /\ ~HoldsTurn(c)' /\ cmd[c].pc # "abandoned"
    BY <1>11, <2>1 DEF Unadmitted, HoldsTurn
  <2> QED BY <1>0, <1>11, <2>1, <2>2, <2>3, SignalKeepsTurns
<1>12. ASSUME NEW c \in Cmds, EndTurn(c) PROVE TurnsInv'
  BY <1>11, <1>12 DEF EndTurn, At, Serial
<1>13. ASSUME NEW c \in Cmds, Finish(c) PROVE TurnsInv'
  <2>1. CASE cmd[c].pc = "settled" /\ Serial(cmd[c].kind) /\ SignalDone(c)
    BY <1>11, <1>13, <2>1 DEF Finish
  <2>2. CASE UNCHANGED <<tail, wait, signalled, handing>>
    <3>1. (\A d \in Cmds \ {c} : cmd'[d] = cmd[d]) /\ cmd'[c].kind = cmd[c].kind
          /\ cmd'[c].pc = "done" /\ cmd[c].pc \in {"settled", "refused"}
      BY <1>1, <1>13, PcsListed DEF Finish
    <3>2. UNCHANGED ahead
      BY <1>13 DEF Finish
    <3> QED BY <1>0, <2>2, <3>1, <3>2, MoveKeepsTurns DEF Unadmitted, HoldsTurn
  <2> QED BY <1>13, <2>1, <2>2 DEF Finish, LeaveFlight, admissionVars
<1>14. ASSUME NEW c \in Cmds, Abandon(c) PROVE TurnsInv'
  <2>1. CASE wait[c] = NoCmd
    BY <1>11, <1>14, <2>1 DEF Abandon
  <2>2. CASE wait[c] # NoCmd
    <3>1. (\A d \in Cmds \ {c} : cmd'[d] = cmd[d]) /\ cmd'[c].kind = cmd[c].kind
          /\ cmd'[c].pc = "abandoned" /\ cmd[c].pc = "admitted" /\ Serial(cmd[c].kind)
      BY <1>1, <1>14, PcsListed DEF Abandon
    <3>2. handing' = handing \cup {c} /\ UNCHANGED <<signalled, tail, wait, ahead>>
      BY <1>14, <2>2 DEF Abandon, DropWaiting
    <3>3. \A d \in Cmds \ {c} : /\ Unadmitted(d)' <=> Unadmitted(d)
                                /\ HoldsTurn(d)' <=> HoldsTurn(d)
      BY <3>1, <3>2 DEF Unadmitted, HoldsTurn
    <3>4. ~Unadmitted(c) /\ ~Unadmitted(c)' /\ HoldsTurn(c) /\ ~HoldsTurn(c)'
      BY <3>1 DEF Unadmitted, HoldsTurn
    <3>5. HandingInv'
      BY <1>0, <2>2, <3>1, <3>2 DEF TurnsInv, HandingInv, TypeOK, AdmissionTypeOK
    <3>6. wait' \in [Cmds -> Cmds \cup {NoCmd}] /\ signalled' \subseteq Cmds
          /\ \A d \in Cmds : wait'[d] \in {wait[d], NoCmd}
      BY <1>0, <3>2 DEF TypeOK, AdmissionTypeOK
    <3>7. \A d \in Cmds : Unadmitted(d)' => Unadmitted(d) /\ d \notin signalled'
      BY <3>2, <3>3, <3>4 DEF TurnsInv, FreshInv
    <3>8. \A d \in Cmds : Serial(cmd'[d].kind) /\ HoldsTurn(d)'
                         /\ (cmd'[d].pc # "admitted" \/ wait'[d] = NoCmd) => Clear(d)
      BY <3>1, <3>2, <3>3, <3>4 DEF TurnsInv, RunningInv
    <3>9. \A d \in signalled' : Serial(cmd'[d].kind) /\ ~HoldsTurn(d)' /\ Clear(d)
      BY <1>0, <3>1, <3>2, <3>3, <3>4 DEF TurnsInv, SignalledInv, TypeOK, AdmissionTypeOK
    <3> QED BY <1>0, <3>1, <3>2, <3>3, <3>4, <3>5, <3>6, <3>7, <3>8, <3>9, LinesShrink
  <2> QED BY <2>1, <2>2
<1>15. ASSUME NEW c \in Cmds, PassOn(c) PROVE TurnsInv'
  BY <1>0, <1>15, PassOnKeepsTurns
<1>16. CASE UNCHANGED vars
  BY <1>16 DEF vars, admissionVars, TurnsInv, FreshInv, AheadInv, WaitInv, SignalledInv, HandingInv,
       RunningInv, LinesInv, Line, UnderKey, HoldsTurn, Unadmitted, SameKey, Clear
<1> QED BY <1>2, <1>4, <1>5, <1>6, <1>7, <1>8, <1>9, <1>10, <1>12, <1>13, <1>14, <1>15, <1>16
        DEF Next, TakeOrdinary, TaskStep, Done

LEMMA NextReading ==
    ASSUME Typed, ReadingInv, [Next]_vars PROVE ReadingInv'
<1>0. CmdTypeOK
  BY DEF Typed, TypeOK
<1>1. ASSUME NEW c \in Cmds, NEW pc \in Pcs \ {"reading"}, Goto(c, pc), signalled \subseteq signalled'
      PROVE  ReadingInv'
  BY <1>0, <1>1 DEF Goto, CmdTypeOK, ReadingInv
<1>2. ASSUME NEW c \in Cmds, NEW kind \in Kinds, NEW i \in Items, Stamp(c, kind, i) PROVE ReadingInv'
  BY <1>0, <1>2 DEF Stamp, CmdTypeOK, ReadingInv, admissionVars
<1>3. ASSUME NEW c \in Cmds, RecordRelease(c) PROVE ReadingInv'
  BY <1>1, <1>3, PcsListed DEF RecordRelease, admissionVars
<1>4. ASSUME NEW c \in Cmds, Send(c) PROVE ReadingInv'
  BY <1>1, <1>4, PcsListed DEF Send, admissionVars
<1>5. ASSUME NEW c \in Cmds, AdmitAndSpawn(c) PROVE ReadingInv'
  <2>1. signalled' = signalled
    BY <1>5 DEF AdmitAndSpawn, admissionVars, TakeFlight, JoinLine, TakeLatest
  <2> QED BY <1>1, <1>5, <2>1, PcsListed DEF AdmitAndSpawn
<1>6. ASSUME TakePriority PROVE ReadingInv'
  BY <1>5, <1>6, HeadOfQueue DEF TakePriority, Lanes, Typed, TypeOK
<1>7. ASSUME NEW c \in Cmds, DropSuperseded(c) PROVE ReadingInv'
  BY <1>1, <1>7, PcsListed DEF DropSuperseded, admissionVars
<1>8. ASSUME NEW c \in Cmds, Admit(c) PROVE ReadingInv'
  BY <1>5, <1>8 DEF Admit
<1>9. ASSUME NEW c \in Cmds, Start(c) PROVE ReadingInv'
  BY <1>1, <1>9, PcsListed DEF Start, BeginInstall
<1>10. ASSUME NEW c \in Cmds, Settle(c) PROVE ReadingInv'
  BY <1>1, <1>10, PcsListed DEF Settle, admissionVars
<1>11. ASSUME NEW c \in Cmds, EndTurn(c) PROVE ReadingInv'
  BY <1>0, <1>11 DEF EndTurn, SignalDone, Goto, CmdTypeOK, ReadingInv
<1>12. ASSUME NEW c \in Cmds, Finish(c) PROVE ReadingInv'
  <2>1. signalled \subseteq signalled'
    BY <1>12 DEF Finish, SignalDone, LeaveFlight, admissionVars
  <2> QED BY <1>1, <1>12, <2>1, PcsListed DEF Finish
<1>13. ASSUME NEW c \in Cmds, Abandon(c) PROVE ReadingInv'
  <2>1. signalled \subseteq signalled'
    BY <1>13 DEF Abandon, SignalDone, DropWaiting
  <2> QED BY <1>1, <1>13, <2>1, PcsListed DEF Abandon
<1>14. ASSUME NEW c \in Cmds, PassOn(c) PROVE ReadingInv'
  BY <1>14 DEF PassOn, HandOn, ReadingInv
<1>15. CASE UNCHANGED vars
  BY <1>15 DEF vars, admissionVars, ReadingInv
<1> QED BY <1>2, <1>3, <1>4, <1>6, <1>7, <1>8, <1>9, <1>10, <1>11, <1>12, <1>13, <1>14, <1>15
        DEF Next, TakeOrdinary, TaskStep, Done

-----------------------------------------------------------------------------
(* Beside the turns: releases, single flight, the latest search.             *)

Outcomes == <<released, flights, latest, stale>>

LEMMA InitOutcome == Init => OutcomeInv
BY AdmissionAssumption
   DEF Init, AdmissionInit, NoPlace, OutcomeInv, ReleasedInv, FlightsInv, SearchesInv, Recorded, Flies,
       Unadmitted

(* A command that goes on inside the loop, its recorded release, its key and *)
(* its admission as before.                                                  *)
LEMMA MoveKeepsOutcome ==
    ASSUME TypeOK, OutcomeInv, UNCHANGED Outcomes, NEW c \in Cmds, NEW pc \in Pcs, Goto(c, pc),
           cmd[c].pc \notin {"none", "stamped"}, pc \notin {"none", "stamped"},
           Unadmitted(c)' <=> Unadmitted(c), Flies(c)' <=> Flies(c)
    PROVE  OutcomeInv'
<1>1. /\ \A d \in Cmds : /\ cmd'[d].kind = cmd[d].kind /\ cmd'[d].item = cmd[d].item
                         /\ cmd'[d].seq = cmd[d].seq
      /\ \A d \in Cmds \ {c} : cmd'[d] = cmd[d]
      /\ cmd'[c].pc = pc
  BY DEF TypeOK, CmdTypeOK, Goto
<1>2. \A d \in Cmds : /\ Unadmitted(d)' <=> Unadmitted(d)
                      /\ Flies(d)' <=> Flies(d)
                      /\ Recorded(d)' <=> Recorded(d)
  BY <1>1 DEF Unadmitted, Flies, Recorded
<1>3. ReleasedInv'
  BY <1>1, <1>2 DEF OutcomeInv, ReleasedInv, Outcomes
<1>4. FlightsInv'
  BY <1>1, <1>2 DEF OutcomeInv, FlightsInv, Outcomes
<1>5. SearchesInv'
  <2>1. latest \in [Items -> Cmds \cup {NoCmd}] /\ stale \subseteq Cmds
    BY DEF TypeOK, AdmissionTypeOK
  <2> QED BY <1>1, <1>2, <2>1 DEF OutcomeInv, SearchesInv, Outcomes
<1> QED BY <1>3, <1>4, <1>5 DEF OutcomeInv

LEMMA StampKeepsOutcome ==
    ASSUME TypeOK, OutcomeInv, NEW c \in Cmds, NEW kind \in Kinds, NEW i \in Items, Stamp(c, kind, i)
    PROVE  OutcomeInv'
<1>1. /\ \A d \in Cmds \ {c} : cmd'[d] = cmd[d]
      /\ cmd[c].pc = "none" /\ cmd[c].kind = "none"
      /\ cmd'[c].kind = kind /\ cmd'[c].pc = IF kind = "cancel" THEN "stamped" ELSE "sending"
  BY DEF TypeOK, CmdTypeOK, Stamp, OutcomeInv, ReleasedInv
<1>2. UNCHANGED Outcomes
  BY DEF Stamp, Outcomes, admissionVars
<1>3. \A d \in Cmds \ {c} : /\ Unadmitted(d)' <=> Unadmitted(d)
                            /\ Flies(d)' <=> Flies(d)
                            /\ Recorded(d)' <=> Recorded(d)
  BY <1>1 DEF Unadmitted, Flies, Recorded
<1>4. /\ Unadmitted(c) /\ Unadmitted(c)' /\ ~Flies(c) /\ ~Flies(c)'
      /\ ~Recorded(c) /\ ~Recorded(c)'
  BY <1>1 DEF Unadmitted, Flies, Recorded
<1>5. ReleasedInv'
  BY <1>1, <1>2, <1>3, <1>4 DEF OutcomeInv, ReleasedInv, Outcomes
<1>6. FlightsInv'
  BY <1>1, <1>2, <1>3, <1>4 DEF OutcomeInv, FlightsInv, Outcomes
<1>7. SearchesInv'
  <2>1. latest \in [Items -> Cmds \cup {NoCmd}] /\ stale \subseteq Cmds
    BY DEF TypeOK, AdmissionTypeOK
  <2> QED BY <1>1, <1>2, <1>3, <1>4, <2>1 DEF OutcomeInv, SearchesInv, Outcomes
<1> QED BY <1>5, <1>6, <1>7 DEF OutcomeInv

(* The later stamp of the two is the one that stays recorded.                *)
LEMMA RecordKeepsOutcome ==
    ASSUME TypeOK, ItemsInv, OutcomeInv, NEW c \in Cmds, RecordRelease(c)
    PROVE  OutcomeInv'
<1>1. /\ \A d \in Cmds : /\ cmd'[d].kind = cmd[d].kind /\ cmd'[d].item = cmd[d].item
                         /\ cmd'[d].seq = cmd[d].seq
      /\ \A d \in Cmds \ {c} : cmd'[d] = cmd[d]
      /\ cmd[c].kind = "cancel" /\ cmd[c].pc = "stamped" /\ cmd'[c].pc = "sending"
  BY DEF TypeOK, CmdTypeOK, RecordRelease, Goto, At
<1>2. UNCHANGED <<flights, latest, stale>>
  BY DEF RecordRelease, admissionVars
<1>3. /\ \A d \in Cmds \ {c} : Recorded(d)' <=> Recorded(d)
      /\ \A d \in Cmds : /\ Unadmitted(d)' <=> Unadmitted(d)
                         /\ Flies(d)' <=> Flies(d)
      /\ ~Recorded(c) /\ Recorded(c)'
  BY <1>1 DEF Unadmitted, Flies, Recorded
<1>4. ReleasedInv'
  <2> DEFINE i == cmd[c].item
  <2>1. i \in Items /\ released[i] \in Nat /\ cmd[c].seq \in Nat
    BY <1>1 DEF ItemsInv, TypeOK, CmdTypeOK, QueueTypeOK
  <2>2. /\ \A j \in Items \ {i} : released'[j] = released[j]
        /\ released'[i] = Latest(i, cmd[c].seq)
    BY <2>1 DEF RecordRelease, TypeOK, QueueTypeOK
  <2>3. released'[i] \in {released[i], cmd[c].seq} /\ released[i] <= released'[i]
        /\ cmd[c].seq <= released'[i]
    BY <2>1, <2>2 DEF Latest
  <2>4. \A d \in Cmds : cmd[d].pc = "none" => cmd[d].kind = "none"
    BY DEF OutcomeInv, ReleasedInv
  <2>5. ASSUME NEW r \in Cmds, Recorded(r)' PROVE cmd'[r].seq <= released'[cmd'[r].item]
    <3>1. CASE r = c
      BY <1>1, <2>3, <3>1
    <3>2. CASE r # c
      <4>1. Recorded(r) /\ cmd[r].seq <= released[cmd[r].item] /\ cmd[r].seq \in Nat
        BY <1>3, <2>5, <3>2 DEF OutcomeInv, ReleasedInv, TypeOK, CmdTypeOK
      <4>2. cmd[r].item \in Items
        BY <2>4, <4>1 DEF Recorded, ItemsInv
      <4>3. released[cmd[r].item] \in Nat /\ released'[cmd[r].item] \in Nat
        BY <2>1, <2>2, <2>3, <4>2 DEF TypeOK, QueueTypeOK
      <4> QED BY <1>1, <2>2, <2>3, <4>1, <4>2, <4>3
    <3> QED BY <3>1, <3>2
  <2>6. ASSUME NEW j \in Items, released'[j] # 0
        PROVE  \E r \in Cmds : Recorded(r)' /\ cmd'[r].item = j /\ cmd'[r].seq = released'[j]
    <3>1. CASE j = i /\ released'[i] = cmd[c].seq
      BY <1>1, <1>3, <3>1
    <3>2. CASE released'[j] = released[j]
      <4>1. PICK r \in Cmds : Recorded(r) /\ cmd[r].item = j /\ cmd[r].seq = released[j]
        BY <2>6, <3>2 DEF OutcomeInv, ReleasedInv
      <4> QED BY <1>1, <1>3, <3>2, <4>1
    <3> QED BY <2>2, <2>3, <3>1, <3>2
  <2>7. \A d \in Cmds : cmd'[d].pc = "none" => cmd'[d].kind = "none"
    BY <1>1, <2>4
  <2> QED BY <2>5, <2>6, <2>7 DEF ReleasedInv
<1>5. FlightsInv'
  BY <1>1, <1>2, <1>3 DEF OutcomeInv, FlightsInv
<1>6. SearchesInv'
  <2>1. latest \in [Items -> Cmds \cup {NoCmd}] /\ stale \subseteq Cmds
    BY DEF TypeOK, AdmissionTypeOK
  <2> QED BY <1>1, <1>2, <1>3, <2>1 DEF OutcomeInv, SearchesInv
<1> QED BY <1>4, <1>5, <1>6 DEF OutcomeInv

LEMMA AdmitKeepsOutcome ==
    ASSUME TypeOK, ItemsInv, OutcomeInv, NEW c \in Cmds, cmd[c].pc = "queued", AdmitAndSpawn(c),
           UNCHANGED released
    PROVE  OutcomeInv'
<1>0. /\ \A d \in Cmds : /\ cmd'[d].kind = cmd[d].kind /\ cmd'[d].item = cmd[d].item
                         /\ cmd'[d].seq = cmd[d].seq
      /\ \A d \in Cmds \ {c} : cmd'[d] = cmd[d]
      /\ cmd'[c].pc \in {"refused", "admitted"}
      /\ cmd'[c].pc = "refused" => cmd[c].kind = "check"
  BY DEF TypeOK, CmdTypeOK, AdmitAndSpawn, Goto
<1>1. cmd[c].item \in Items
  BY DEF ItemsInv
<1>2. /\ \A d \in Cmds \ {c} : /\ Unadmitted(d)' <=> Unadmitted(d)
                               /\ Flies(d)' <=> Flies(d)
      /\ \A d \in Cmds : Recorded(d)' <=> Recorded(d)
      /\ Unadmitted(c) /\ ~Unadmitted(c)' /\ ~Flies(c)
  BY <1>0 DEF Unadmitted, Flies, Recorded
<1>3. ReleasedInv'
  BY <1>0, <1>2 DEF OutcomeInv, ReleasedInv
<1>4. FlightsInv'
  <2>1. CASE cmd[c].kind = "check" /\ FlightFree(cmd[c].item) /\ TakeFlight(cmd[c].item)
             /\ Goto(c, "admitted")
    <3>1. Flies(c)' /\ flights' = flights \cup {cmd[c].item}
      BY <1>0, <2>1 DEF Flies, TakeFlight, Goto, TypeOK, CmdTypeOK
    <3>2. \A d \in Cmds : Flies(d) => cmd[d].item # cmd[c].item
      BY <2>1 DEF FlightFree, OutcomeInv, FlightsInv
    <3> QED BY <1>0, <1>2, <3>1, <3>2 DEF OutcomeInv, FlightsInv
  <2>2. CASE flights' = flights /\ ~Flies(c)'
    BY <1>0, <1>2, <2>2 DEF OutcomeInv, FlightsInv
  <2>3. Goto(c, "refused") => ~Flies(c)'
    BY DEF Flies, Goto, TypeOK, CmdTypeOK
  <2>4. cmd[c].kind # "check" => ~Flies(c)'
    BY <1>0 DEF Flies
  <2> QED BY <2>1, <2>2, <2>3, <2>4
      DEF AdmitAndSpawn, admissionVars, JoinLine, TakeLatest, Serial
<1>5. SearchesInv'
  <2>1. latest \in [Items -> Cmds \cup {NoCmd}] /\ stale \subseteq Cmds
    BY DEF TypeOK, AdmissionTypeOK
  <2>2. CASE cmd[c].kind # "search" /\ UNCHANGED <<latest, stale>>
    BY <1>0, <1>2, <2>1, <2>2 DEF OutcomeInv, SearchesInv
  <2>3. CASE cmd[c].kind = "search" /\ TakeLatest(c, cmd[c].item)
    <3> DEFINE i == cmd[c].item
    <3>1. /\ latest' = [latest EXCEPT ![i] = c]
          /\ stale' = stale \cup ({latest[i]} \ {NoCmd})
      BY <2>3 DEF TakeLatest, ReplaceLatest
    <3>2. c \notin stale /\ \A j \in Items : latest[j] # c
      BY <1>2, <2>1, AdmissionAssumption DEF OutcomeInv, SearchesInv
    <3>3. \A j \in Items : latest[j] # NoCmd => cmd[latest[j]].item = j /\ ~Unadmitted(latest[j])
                                               /\ cmd[latest[j]].kind = "search"
      BY DEF OutcomeInv, SearchesInv
    <3>4. \A j \in Items : latest'[j] = IF j = i THEN c ELSE latest[j]
      BY <1>1, <2>1, <3>1
    <3>5. ASSUME NEW d \in Cmds, cmd'[d].kind = "search", ~Unadmitted(d)'
          PROVE  d \notin stale' <=> latest'[cmd'[d].item] = d
      <4>1. CASE d = c
        <5>1. latest'[cmd'[c].item] = c
          BY <1>0, <1>1, <3>4
        <5>2. c \notin stale'
          BY <1>1, <3>1, <3>2
        <5> QED BY <4>1, <5>1, <5>2
      <4>2. CASE d # c
        <5>1. cmd[d].kind = "search" /\ ~Unadmitted(d) /\ cmd[d].item \in Items
          BY <1>0, <1>2, <3>5, <4>2 DEF ItemsInv, Unadmitted
        <5>2. d \notin stale <=> latest[cmd[d].item] = d
          BY <5>1 DEF OutcomeInv, SearchesInv
        <5>3. d = latest[i] => cmd[d].item = i
          BY <1>1, <3>3, AdmissionAssumption
        <5>4. CASE cmd[d].item = i
          <6>1. latest'[cmd'[d].item] = c
            BY <1>0, <1>1, <3>4, <5>4
          <6>2. d \in stale' <=> d \in stale \/ d = latest[i]
            BY <3>1, AdmissionAssumption
          <6> QED BY <4>2, <5>2, <5>4, <6>1, <6>2
        <5>5. CASE cmd[d].item # i
          <6>1. latest'[cmd'[d].item] = latest[cmd[d].item]
            BY <1>0, <3>4, <5>1, <5>5
          <6>2. d \in stale' <=> d \in stale
            BY <3>1, <5>3, <5>5
          <6> QED BY <5>2, <6>1, <6>2
        <5> QED BY <5>4, <5>5
      <4> QED BY <4>1, <4>2
    <3>6. (\A j \in Items : latest[j] # NoCmd =>
             /\ ~Unadmitted(latest[j])
             /\ cmd[latest[j]].kind = "search" /\ cmd[latest[j]].item = j)'
      <4> SUFFICES ASSUME NEW j \in Items, NEW d, d = latest'[j], d # NoCmd
                   PROVE  ~Unadmitted(d)' /\ cmd'[d].kind = "search" /\ cmd'[d].item = j
        BY DEF Unadmitted
      <4>1. CASE j = i
        BY <1>0, <1>2, <2>3, <3>4, <4>1
      <4>2. CASE j # i
        BY <1>0, <1>2, <2>1, <3>3, <3>4, <4>2
      <4> QED BY <4>1, <4>2
    <3>7. \A d \in stale' : ~Unadmitted(d)'
      BY <1>1, <1>2, <2>1, <3>1, <3>3 DEF OutcomeInv, SearchesInv
    <3> QED BY <3>5, <3>6, <3>7 DEF SearchesInv
  <2> QED BY <2>2, <2>3 DEF AdmitAndSpawn, admissionVars, JoinLine, TakeFlight, Serial
<1> QED BY <1>3, <1>4, <1>5 DEF OutcomeInv

LEMMA NextOutcome ==
    ASSUME LoopInv, [Next]_vars PROVE OutcomeInv'
<1>0. /\ TypeOK /\ ItemsInv /\ QueuesInv /\ OutcomeInv
      /\ CmdTypeOK /\ QueueTypeOK /\ ReadingInv /\ SignalledInv
  BY DEF LoopInv, TypeOK, TurnsInv
<1>1. ASSUME NEW c \in Cmds, NEW pc \in Pcs, Goto(c, pc), UNCHANGED Outcomes,
             cmd[c].pc \notin {"none", "stamped"}, pc \notin {"none", "stamped"},
             cmd[c].pc \in {"sending", "queued"} <=> pc \in {"queued", "dropped"},
             cmd[c].pc # "dropped", pc # "sending",
             cmd[c].kind = "check" =>
                (cmd[c].pc \in {"admitted", "working", "settled"}
                    <=> pc \in {"admitted", "working", "settled"})
      PROVE  OutcomeInv'
  <2>1. cmd'[c].pc = pc /\ cmd'[c].kind = cmd[c].kind
    BY <1>0, <1>1 DEF Goto, CmdTypeOK
  <2>2. (Unadmitted(c)' <=> Unadmitted(c)) /\ (Flies(c)' <=> Flies(c))
    BY <1>1, <2>1 DEF Unadmitted, Flies
  <2> QED BY <1>0, <1>1, <2>2, MoveKeepsOutcome
<1>2. ASSUME NEW c \in Cmds, NEW kind \in Kinds, NEW i \in Items, Stamp(c, kind, i) PROVE OutcomeInv'
  BY <1>0, <1>2, StampKeepsOutcome
<1>3. ASSUME NEW c \in Cmds, RecordRelease(c) PROVE OutcomeInv'
  BY <1>0, <1>3, RecordKeepsOutcome
<1>4. ASSUME NEW c \in Cmds, Send(c) PROVE OutcomeInv'
  BY <1>1, <1>4, PcsListed DEF Send, Outcomes, admissionVars
<1>5. ASSUME TakePriority PROVE OutcomeInv'
  BY <1>0, <1>5, HeadOfQueue, HeadIsQueued, AdmitKeepsOutcome DEF TakePriority, Lanes
<1>6. ASSUME NEW c \in Cmds, DropSuperseded(c) PROVE OutcomeInv'
  <2>1. cmd[c].pc = "queued" /\ Goto(c, "dropped") /\ UNCHANGED Outcomes
    BY <1>0, <1>6, HeadIsQueued
       DEF DropSuperseded, LooksAtOrdinary, Lanes, Outcomes, admissionVars
  <2> QED BY <1>1, <2>1, PcsListed
<1>7. ASSUME NEW c \in Cmds, Admit(c) PROVE OutcomeInv'
  BY <1>0, <1>7, HeadIsQueued, AdmitKeepsOutcome DEF Admit, LooksAtOrdinary, Lanes
<1>8. ASSUME NEW c \in Cmds, Start(c) PROVE OutcomeInv'
  <2>1. cmd[c].pc = "admitted" /\ UNCHANGED Outcomes
        /\ \E pc \in {"working", "settled"} : Goto(c, pc)
    BY <1>8 DEF Start, BeginInstall, loopVars, Outcomes
  <2> QED BY <1>1, <2>1, PcsListed
<1>9. ASSUME NEW c \in Cmds, Settle(c) PROVE OutcomeInv'
  <2>1. cmd[c].kind = "check" => cmd[c].pc = "working"
    BY <1>0, <1>9 DEF Settle, ReadingInv, SignalledInv, Serial
  <2> QED BY <1>1, <1>9, <2>1, PcsListed DEF Settle, loopVars, Outcomes, admissionVars
<1>10. ASSUME NEW c \in Cmds, EndTurn(c) PROVE OutcomeInv'
  BY <1>1, <1>10, PcsListed DEF EndTurn, At, SignalDone, loopVars, Outcomes
<1>11. ASSUME NEW c \in Cmds, Finish(c) PROVE OutcomeInv'
  <2>1. CASE UNCHANGED Outcomes /\ (cmd[c].kind = "check" => cmd[c].pc = "refused")
    BY <1>1, <1>11, <2>1, PcsListed DEF Finish
  <2>2. CASE cmd[c].pc = "settled" /\ cmd[c].kind = "check" /\ LeaveFlight(cmd[c].item)
    <3>1. /\ \A d \in Cmds : /\ cmd'[d].kind = cmd[d].kind /\ cmd'[d].item = cmd[d].item
                             /\ cmd'[d].seq = cmd[d].seq
          /\ \A d \in Cmds \ {c} : cmd'[d] = cmd[d]
          /\ cmd'[c].pc = "done"
      BY <1>0, <1>11 DEF Finish, Goto, CmdTypeOK
    <3>2. UNCHANGED <<released, latest, stale>> /\ flights' = flights \ {cmd[c].item}
      BY <1>11, <2>2 DEF Finish, loopVars, LeaveFlight, FreeFlight
    <3>3. /\ \A d \in Cmds : Unadmitted(d)' <=> Unadmitted(d)
          /\ \A d \in Cmds : Recorded(d)' <=> Recorded(d)
          /\ \A d \in Cmds \ {c} : Flies(d)' <=> Flies(d)
          /\ Flies(c) /\ ~Flies(c)'
      BY <2>2, <3>1 DEF Unadmitted, Recorded, Flies
    <3>4. ReleasedInv'
      BY <1>0, <3>1, <3>2, <3>3 DEF OutcomeInv, ReleasedInv
    <3>5. FlightsInv'
      BY <1>0, <3>1, <3>2, <3>3 DEF OutcomeInv, FlightsInv
    <3>6. SearchesInv'
      <4>1. latest \in [Items -> Cmds \cup {NoCmd}] /\ stale \subseteq Cmds
        BY <1>0 DEF TypeOK, AdmissionTypeOK
      <4> QED BY <1>0, <3>1, <3>2, <3>3, <4>1 DEF OutcomeInv, SearchesInv
    <3> QED BY <3>4, <3>5, <3>6 DEF OutcomeInv
  <2> QED BY <1>11, <2>1, <2>2
          DEF Finish, SignalDone, Serial, loopVars, admissionVars, Outcomes
<1>12. ASSUME NEW c \in Cmds, Abandon(c) PROVE OutcomeInv'
  <2>1. UNCHANGED Outcomes
    BY <1>12 DEF Abandon, SignalDone, DropWaiting, loopVars, Outcomes
  <2> QED BY <1>1, <1>12, <2>1, PcsListed DEF Abandon, Serial
<1>13. ASSUME UNCHANGED cmd, UNCHANGED Outcomes PROVE OutcomeInv'
  BY <1>0, <1>13 DEF OutcomeInv, ReleasedInv, FlightsInv, SearchesInv, Unadmitted, Recorded, Flies,
                     Outcomes
<1>14. ASSUME NEW c \in Cmds, PassOn(c) PROVE OutcomeInv'
  BY <1>13, <1>14 DEF PassOn, HandOn, loopVars, Outcomes
<1>15. CASE UNCHANGED vars
  BY <1>13, <1>15 DEF vars, loopVars, admissionVars, Outcomes
<1> QED BY <1>2, <1>3, <1>4, <1>5, <1>6, <1>7, <1>8, <1>9, <1>10, <1>11, <1>12, <1>14, <1>15
        DEF Next, TakeOrdinary, TaskStep, Done

(* Every state of the command loop has its types, queues each command once   *)
(* and hands every turn on in the order of admission (command_policy.rs,     *)
(* admit and Turn).                                                          *)
THEOREM LoopInvariant == Spec => []LoopInv
<1>1. Init => LoopInv
  BY InitTypes, InitTurns, InitOutcome DEF LoopInv
<1>2. LoopInv /\ [Next]_vars => LoopInv'
  <2> SUFFICES ASSUME LoopInv, [Next]_vars PROVE LoopInv'
    OBVIOUS
  <2>1. Typed'
    BY NextTypes DEF LoopInv, Typed
  <2>2. QueuesInv' /\ ReadingInv'
    BY NextQueues, NextReading DEF LoopInv, Typed
  <2>3. TurnsInv'
    BY <2>1, NextTurns DEF LoopInv, Typed
  <2>4. OutcomeInv'
    BY NextOutcome
  <2> QED BY <2>1, <2>2, <2>3, <2>4 DEF LoopInv, Typed
<1> QED BY <1>1, <1>2, PTL DEF Spec

(* The variables of the loop and of admission keep their types.              *)
THEOREM LoopTypes == Spec => []TypeOK
<1>1. LoopInv => TypeOK
  BY DEF LoopInv
<1> QED BY <1>1, LoopInvariant, PTL

(* A single-flight key is taken only while its check runs.                   *)
THEOREM KeysHaveHolders == Spec => []FlightHasHolder
<1>1. LoopInv => FlightHasHolder
  BY DEF LoopInv, OutcomeInv, FlightsInv, FlightHasHolder, Flies
<1> QED BY <1>1, LoopInvariant, PTL

(* No two checks of one item run at once (SingleFlight of admit).            *)
OneCheckAtATime ==
    \A c, d \in Cmds : Flies(c) /\ Flies(d) /\ cmd[c].item = cmd[d].item => c = d
THEOREM ChecksAreSingle == Spec => []OneCheckAtATime
<1>1. LoopInv => OneCheckAtATime
  BY DEF LoopInv, OutcomeInv, FlightsInv, OneCheckAtATime
<1> QED BY <1>1, LoopInvariant, PTL

(* Of the searches of one item the last one admitted, and no other, can      *)
(* still answer.                                                             *)
THEOREM NewestSearchAnswers == Spec => []OnlyNewestSearch
<1>1. LoopInv => OnlyNewestSearch
  BY DEF LoopInv, OutcomeInv, SearchesInv, OnlyNewestSearch, Unadmitted
<1> QED BY <1>1, LoopInvariant, PTL

LEMMA TakenInstallIsDropped ==
    ASSUME LoopInv, NEW c \in Cmds, cmd[c].kind = "install", cmd[c].pc = "queued"
    PROVE  Superseded(c) <=> Overtaken(c)
<1>1. cmd[c].item \in Items /\ cmd[c].seq \in Nat /\ released[cmd[c].item] \in Nat
  BY DEF LoopInv, TypeOK, ItemsInv, CmdTypeOK, QueueTypeOK
<1>2. ASSUME Superseded(c) PROVE Overtaken(c)
  <2>1. released[cmd[c].item] > cmd[c].seq /\ released[cmd[c].item] # 0
    BY <1>1, <1>2 DEF Superseded
  <2> QED BY <1>1, <2>1 DEF LoopInv, OutcomeInv, ReleasedInv, Recorded, Overtaken
<1>3. ASSUME Overtaken(c) PROVE Superseded(c)
  <2>1. PICK r \in Cmds : Recorded(r) /\ cmd[r].item = cmd[c].item /\ cmd[r].seq > cmd[c].seq
    BY <1>3 DEF Overtaken, Recorded
  <2>2. cmd[r].seq \in Nat /\ cmd[r].seq <= released[cmd[c].item]
    BY <2>1 DEF LoopInv, OutcomeInv, ReleasedInv, TypeOK, CmdTypeOK
  <2> QED BY <1>1, <2>1, <2>2 DEF Superseded
<1> QED BY <1>2, <1>3

(* An install leaves the queue unrun exactly when a cancel of its map that   *)
(* was stamped later has been recorded (ReleaseOrder, superseded).           *)
THEOREM DropsAreJust == Spec => DroppedIffOvertaken
<1> DEFINE Just == \A c \in Cmds :
               At(c, "install", "queued") /\ cmd'[c].pc # "queued"
                  => (cmd'[c].pc = "dropped" <=> Overtaken(c))
<1>1. ASSUME LoopInv, Next PROVE Just
  <2> SUFFICES ASSUME NEW c \in Cmds, cmd[c].kind = "install", cmd[c].pc = "queued",
                      cmd'[c].pc # "queued"
               PROVE  cmd'[c].pc = "dropped" <=> Overtaken(c)
    BY DEF At
  <2>0. CmdTypeOK /\ QueueTypeOK /\ QueuesInv
    BY <1>1 DEF LoopInv, TypeOK
  <2>1. \A d \in Cmds, pc \in Pcs : Goto(d, pc) =>
            cmd'[d].pc = pc /\ \A e \in Cmds \ {d} : cmd'[e] = cmd[e]
    BY <2>0 DEF Goto, CmdTypeOK
  <2>2. \A d \in Cmds : AdmitAndSpawn(d) =>
            cmd'[d].pc \in {"refused", "admitted"} /\ \A e \in Cmds \ {d} : cmd'[e] = cmd[e]
    BY <2>1, PcsListed DEF AdmitAndSpawn
  <2>3. CASE \E d \in Cmds : DropSuperseded(d)
    BY <1>1, <2>1, <2>3, TakenInstallIsDropped, PcsListed DEF DropSuperseded
  <2>4. CASE \E d \in Cmds : Admit(d)
    BY <1>1, <2>2, <2>4, TakenInstallIsDropped DEF Admit
  <2>5. CASE TakePriority
    <3>1. Head(queue["priority"]) \in Cmds /\ Lane(cmd[Head(queue["priority"])].kind) = "priority"
      BY <2>0, <2>5, HeadOfQueue, HeadIsQueued DEF TakePriority, Lanes
    <3>2. Head(queue["priority"]) # c
      BY <3>1 DEF Lane
    <3> QED BY <2>2, <2>5, <3>1, <3>2 DEF TakePriority
  <2>6. CASE \E d \in Cmds, kind \in Kinds, i \in Items : Stamp(d, kind, i)
    BY <2>0, <2>6 DEF Stamp, CmdTypeOK
  <2>7. CASE \E d \in Cmds : RecordRelease(d) \/ Send(d)
    BY <2>1, <2>7, PcsListed DEF RecordRelease, Send, At
  <2>8. CASE \E d \in Cmds : Start(d)
    <3>1. PICK d \in Cmds : Start(d)
      BY <2>8
    <3>2. \E pc \in Pcs : Goto(d, pc)
      BY <3>1, PcsListed DEF Start, BeginInstall
    <3> QED BY <2>1, <3>1, <3>2 DEF Start
  <2>9. CASE \E d \in Cmds : EndTurn(d) \/ Finish(d) \/ Settle(d) \/ Abandon(d)
    BY <2>1, <2>9, PcsListed DEF EndTurn, Finish, Settle, Abandon, At
  <2>10. CASE UNCHANGED cmd
    BY <2>10
  <2> QED BY <1>1, <2>3, <2>4, <2>5, <2>6, <2>7, <2>8, <2>9, <2>10
          DEF Next, TakeOrdinary, TaskStep, PassOn, Done, vars
<1>2. ASSUME LoopInv, UNCHANGED vars PROVE Just
  BY <1>2 DEF At, vars
<1>3. LoopInv /\ [Next]_vars => [Just]_vars
  BY <1>1, <1>2
<1> QED BY <1>3, LoopInvariant, PTL DEF Spec, DroppedIffOvertaken

-----------------------------------------------------------------------------
(* Each key's line is one of SerialTurns: a step of the loop admits one to   *)
(* it, lets its first one run, lets one leave, or leaves it alone.           *)

LineSame(k) == UNCHANGED <<Line(k), Ahead(k), Busy(k)>>
LineStep(k) ==
    \/ \E c \in Cmds :
          \/ /\ c \notin Line(k)
             /\ Line(k)' = Line(k) \cup {c}
             /\ Ahead(k)' = [Ahead(k) EXCEPT ![c] = Line(k)]
             /\ Busy(k)' = Busy(k)
          \/ /\ c \in Line(k) /\ Ahead(k)[c] \cap Line(k) = {}
             /\ Busy(k) = {} /\ Busy(k)' = {c}
             /\ Line(k)' = Line(k) /\ Ahead(k)' = Ahead(k)
          \/ /\ c \in Line(k)
             /\ Line(k)' = Line(k) \ {c} /\ Busy(k)' = Busy(k) \ {c}
             /\ Ahead(k)' = Ahead(k)
    \/ LineSame(k)

(* A command that moves on: it leaves its line, begins to run, or neither.   *)
LEMMA MoveIsLineStep ==
    ASSUME TurnsInv, NEW c \in Cmds, NEW k \in SerialKeys, UNCHANGED ahead,
           \A d \in Cmds \ {c} : cmd'[d] = cmd[d],
           ~Unadmitted(c) => cmd'[c].kind = cmd[c].kind,
           signalled \subseteq signalled', signalled' \subseteq signalled \cup {c},
           Serial(cmd'[c].kind) /\ HoldsTurn(c)' =>
               HoldsTurn(c) /\ cmd'[c].pc # "admitted" /\ Clear(c)
    PROVE  LineStep(k)
<1>1. \A d \in Cmds \ {c} : /\ UnderKey(d, k)' <=> UnderKey(d, k)
                            /\ HoldsTurn(d)' <=> HoldsTurn(d)
  BY DEF UnderKey, HoldsTurn
<1>2. Ahead(k)' = Ahead(k)
  <2>1. \A d \in Cmds : (IF UnderKey(d, k)' THEN ahead'[d] ELSE {})
                        = (IF UnderKey(d, k) THEN ahead[d] ELSE {})
    <3>1. CASE Unadmitted(c)
      BY <1>1, <3>1 DEF TurnsInv, FreshInv
    <3>2. CASE ~Unadmitted(c)
      BY <1>1, <3>2 DEF UnderKey
    <3> QED BY <3>1, <3>2
  <2> QED BY <2>1 DEF Ahead
<1>3. \A d \in Cmds \ {c} : /\ d \in Line(k)' <=> d \in Line(k)
                            /\ d \in Busy(k)' <=> d \in Busy(k)
  BY <1>1 DEF Line, Busy
<1>4. Busy(k) \subseteq Line(k) /\ Busy(k)' \subseteq Line(k)' /\ Line(k) \subseteq Cmds
      /\ Line(k)' \subseteq Cmds
  BY DEF Line, Busy
<1>5. c \in Line(k)' => c \in Line(k) /\ c \in Busy(k)' /\ Clear(c) /\ UnderKey(c, k)
  <2>1. c \in Line(k)' => HoldsTurn(c) /\ ~Unadmitted(c) /\ UnderKey(c, k)' /\ Clear(c)
                          /\ cmd'[c].pc # "admitted"
    BY HoldersAreAdmitted DEF Line, UnderKey
  <2> QED BY <2>1 DEF Line, Busy, UnderKey
<1>6. CASE c \in Line(k)' /\ c \in Busy(k)
  <2>1. Line(k)' = Line(k) /\ Busy(k)' = Busy(k)
    BY <1>3, <1>4, <1>5, <1>6
  <2> QED BY <1>2, <2>1 DEF LineStep, LineSame
<1>7. CASE c \in Line(k)' /\ c \notin Busy(k)
  <2>1. Line(k)' = Line(k)
    BY <1>3, <1>4, <1>5, <1>7
  <2>2. Ahead(k)[c] \cap Line(k) = {}
    BY <1>5, <1>7 DEF Ahead, Clear, Line
  <2>3. ASSUME NEW d \in Busy(k) PROVE FALSE
    <3>1. d \in Line(k) /\ d # c /\ c \in Line(k) /\ d \in Cmds
      BY <1>4, <1>5, <1>7, <2>3
    <3>2. Clear(d)
      BY <2>3, <3>1 DEF TurnsInv, RunningInv, Line, Busy, UnderKey
    <3>3. d \in ahead[c] \/ c \in ahead[d]
      BY <3>1 DEF TurnsInv, LinesInv
    <3> QED BY <1>5, <1>7, <3>1, <3>2, <3>3 DEF Clear, Line
  <2>4. Busy(k)' = {c}
    BY <1>3, <1>4, <1>5, <1>7, <2>3
  <2> QED BY <1>2, <1>5, <1>7, <2>1, <2>2, <2>3, <2>4 DEF LineStep
<1>8. CASE c \notin Line(k)' /\ c \in Line(k)
  <2>1. Line(k)' = Line(k) \ {c} /\ Busy(k)' = Busy(k) \ {c}
    BY <1>3, <1>4, <1>8
  <2> QED BY <1>2, <1>8, <2>1 DEF LineStep
<1>9. CASE c \notin Line(k)' /\ c \notin Line(k)
  <2>1. Line(k)' = Line(k) /\ Busy(k)' = Busy(k)
    BY <1>3, <1>4, <1>9
  <2> QED BY <1>2, <2>1 DEF LineStep, LineSame
<1> QED BY <1>6, <1>7, <1>8, <1>9

(* A serial command admitted joins the line of its key.                      *)
LEMMA JoinIsLineStep ==
    ASSUME TypeOK, TurnsInv, NEW c \in Cmds, NEW k \in SerialKeys,
           cmd[c].pc = "queued", Serial(cmd[c].kind), UNCHANGED signalled,
           ahead' = [ahead EXCEPT ![c] = Line(KeyOf(cmd[c].kind))], Goto(c, "admitted")
    PROVE  LineStep(k)
<1>1. (\A d \in Cmds \ {c} : cmd'[d] = cmd[d] /\ ahead'[d] = ahead[d])
      /\ cmd'[c].kind = cmd[c].kind /\ cmd'[c].pc = "admitted"
      /\ ahead'[c] = Line(KeyOf(cmd[c].kind)) /\ ahead[c] = {}
  <2>1. ahead[c] = {}
    BY DEF TurnsInv, FreshInv, Unadmitted
  <2> QED BY <2>1 DEF TypeOK, CmdTypeOK, Goto
<1>2. \A d \in Cmds \ {c} : /\ UnderKey(d, k)' <=> UnderKey(d, k)
                            /\ HoldsTurn(d)' <=> HoldsTurn(d)
  BY <1>1 DEF UnderKey, HoldsTurn
<1>3. ~HoldsTurn(c) /\ HoldsTurn(c)' /\ (UnderKey(c, k)' <=> UnderKey(c, k))
  BY <1>1 DEF HoldsTurn, UnderKey
<1>4. Busy(k)' = Busy(k)
  BY <1>1, <1>2, <1>3 DEF Busy, Line
<1>5. CASE UnderKey(c, k)
  <2>1. c \notin Line(k) /\ Line(k)' = Line(k) \cup {c}
    BY <1>2, <1>3, <1>5 DEF Line
  <2>2. Ahead(k)' = [Ahead(k) EXCEPT ![c] = Line(k)]
    BY ZenonT(40), <1>1, <1>2, <1>3, <1>5 DEF Ahead, UnderKey
  <2> QED BY <1>4, <2>1, <2>2 DEF LineStep
<1>6. CASE ~UnderKey(c, k)
  <2>1. Line(k)' = Line(k)
    BY <1>2, <1>3, <1>6 DEF Line
  <2>2. Ahead(k)' = Ahead(k)
    <3>1. \A d \in Cmds : (IF UnderKey(d, k)' THEN ahead'[d] ELSE {})
                          = (IF UnderKey(d, k) THEN ahead[d] ELSE {})
      BY <1>1, <1>2, <1>3, <1>6
    <3> QED BY <3>1 DEF Ahead
  <2> QED BY <1>4, <2>1, <2>2 DEF LineStep, LineSame
<1> QED BY <1>5, <1>6

LEMMA AdmitIsLineStep ==
    ASSUME TypeOK, TurnsInv, NEW c \in Cmds, NEW k \in SerialKeys,
           AdmitAndSpawn(c), cmd[c].pc = "queued"
    PROVE  LineStep(k)
<1>1. CASE Serial(cmd[c].kind) /\ JoinLine(c, KeyOf(cmd[c].kind)) /\ Goto(c, "admitted")
           /\ ahead' = [ahead EXCEPT ![c] = Line(KeyOf(cmd[c].kind))]
  BY <1>1, JoinIsLineStep DEF JoinLine
<1>2. CASE /\ ~Serial(cmd[c].kind)
           /\ Goto(c, "refused") \/ Goto(c, "admitted")
           /\ UNCHANGED <<signalled, ahead>>
  <2>1. (\A d \in Cmds \ {c} : cmd'[d] = cmd[d]) /\ cmd'[c].kind = cmd[c].kind
    BY <1>2 DEF TypeOK, CmdTypeOK, Goto
  <2> QED BY <1>2, <2>1, MoveIsLineStep
<1> QED BY <1>1, <1>2
        DEF AdmitAndSpawn, admissionVars, TakeFlight, TakeLatest, ReplaceLatest, Serial

LEMMA NextIsLineStep ==
    ASSUME LoopInv, NEW k \in SerialKeys, [Next]_vars PROVE LineStep(k)
<1>0. TypeOK /\ CmdTypeOK /\ QueueTypeOK /\ QueuesInv /\ TurnsInv /\ ReadingInv
  BY DEF LoopInv, TypeOK
<1>1. \A c \in Cmds, pc \in Pcs : Goto(c, pc) =>
        (\A d \in Cmds \ {c} : cmd'[d] = cmd[d]) /\ cmd'[c].kind = cmd[c].kind /\ cmd'[c].pc = pc
  BY <1>0 DEF Goto, CmdTypeOK
<1>2. ASSUME NEW c \in Cmds, NEW kind \in Kinds, NEW i \in Items, Stamp(c, kind, i) PROVE LineStep(k)
  <2>1. (\A d \in Cmds \ {c} : cmd'[d] = cmd[d]) /\ ~HoldsTurn(c)'
    BY <1>0, <1>2 DEF Stamp, CmdTypeOK, HoldsTurn
  <2> QED BY <1>0, <1>2, <2>1, MoveIsLineStep DEF Stamp, Unadmitted, admissionVars
<1>3. ASSUME NEW c \in Cmds, NEW pc \in Pcs, Goto(c, pc), UNCHANGED ahead,
             signalled \subseteq signalled', signalled' \subseteq signalled \cup {c},
             Serial(cmd[c].kind) => pc \in {"sending", "queued", "dropped", "reading", "done", "abandoned"}
      PROVE  LineStep(k)
  <2>1. (\A d \in Cmds \ {c} : cmd'[d] = cmd[d]) /\ cmd'[c].kind = cmd[c].kind /\ cmd'[c].pc = pc
    BY <1>1, <1>3
  <2>2. Serial(cmd'[c].kind) => ~HoldsTurn(c)'
    BY <1>3, <2>1 DEF HoldsTurn
  <2> QED BY <1>0, <1>3, <2>1, <2>2, MoveIsLineStep
<1>4. ASSUME NEW c \in Cmds, RecordRelease(c) PROVE LineStep(k)
  BY <1>3, <1>4, PcsListed DEF RecordRelease, admissionVars
<1>5. ASSUME NEW c \in Cmds, Send(c) PROVE LineStep(k)
  BY <1>3, <1>5, PcsListed DEF Send, admissionVars
<1>6. ASSUME TakePriority PROVE LineStep(k)
  BY <1>0, <1>6, HeadOfQueue, HeadIsQueued, AdmitIsLineStep DEF TakePriority, Lanes
<1>7. ASSUME NEW c \in Cmds, DropSuperseded(c) PROVE LineStep(k)
  BY <1>3, <1>7, PcsListed DEF DropSuperseded, admissionVars
<1>8. ASSUME NEW c \in Cmds, Admit(c) PROVE LineStep(k)
  BY <1>0, <1>8, HeadIsQueued, AdmitIsLineStep DEF Admit, LooksAtOrdinary, Lanes
<1>9. ASSUME NEW c \in Cmds, Start(c) PROVE LineStep(k)
  <2>1. \E pc \in {"settled", "working"} : Goto(c, pc)
    BY <1>9 DEF Start, BeginInstall
  <2>2. (\A d \in Cmds \ {c} : cmd'[d] = cmd[d]) /\ cmd'[c].kind = cmd[c].kind
        /\ cmd'[c].pc \in {"settled", "working"}
    BY <1>1, <2>1, PcsListed
  <2>3. cmd[c].pc = "admitted" /\ HoldsTurn(c) /\ UNCHANGED <<ahead, signalled>>
    BY <1>9 DEF Start, HoldsTurn
  <2>4. Serial(cmd[c].kind) => Clear(c)
    <3>1. CASE wait[c] = NoCmd
      BY <1>0, <2>3, <3>1 DEF TurnsInv, RunningInv
    <3>2. CASE wait[c] # NoCmd
      BY <1>0, <1>9, <3>2, ReadyIsClear DEF Start, TurnReady
    <3> QED BY <3>1, <3>2
  <2> QED BY <1>0, <2>2, <2>3, <2>4, MoveIsLineStep
<1>10. ASSUME NEW c \in Cmds, Settle(c) PROVE LineStep(k)
  <2>1. (\A d \in Cmds \ {c} : cmd'[d] = cmd[d]) /\ cmd'[c].kind = cmd[c].kind
        /\ cmd'[c].pc = "settled" /\ cmd[c].pc \in {"working", "reading"}
    BY <1>1, <1>10, PcsListed DEF Settle
  <2>2. UNCHANGED <<ahead, signalled>>
    BY <1>10 DEF Settle, admissionVars
  <2>3. Serial(cmd[c].kind) /\ HoldsTurn(c)' => HoldsTurn(c) /\ Clear(c)
    BY <1>0, <2>1, <2>2 DEF HoldsTurn, ReadingInv, TurnsInv, RunningInv
  <2> QED BY <1>0, <2>1, <2>2, <2>3, MoveIsLineStep
<1>11. ASSUME NEW c \in Cmds, EndTurn(c) PROVE LineStep(k)
  BY <1>3, <1>11, PcsListed DEF EndTurn, SignalDone
<1>12. ASSUME NEW c \in Cmds, Finish(c) PROVE LineStep(k)
  <2>1. signalled \subseteq signalled' /\ signalled' \subseteq signalled \cup {c}
    BY <1>12 DEF Finish, SignalDone, LeaveFlight, admissionVars
  <2> QED BY <1>3, <1>12, <2>1, PcsListed DEF Finish
<1>13. ASSUME NEW c \in Cmds, Abandon(c) PROVE LineStep(k)
  <2>1. signalled \subseteq signalled' /\ signalled' \subseteq signalled \cup {c}
    BY <1>13 DEF Abandon, SignalDone, DropWaiting
  <2> QED BY <1>3, <1>13, <2>1, PcsListed DEF Abandon
<1>14. ASSUME NEW c \in Cmds, PassOn(c) PROVE LineStep(k)
  <2>1. c \in handing /\ UNCHANGED <<cmd, ahead>> /\ signalled' = signalled \cup {c}
    BY <1>14 DEF PassOn, HandOn
  <2>2. ~HoldsTurn(c)'
    BY <1>0, <2>1 DEF TurnsInv, HandingInv, HoldsTurn
  <2> QED BY <1>0, <2>1, <2>2, MoveIsLineStep
<1>15. CASE UNCHANGED vars
  BY <1>15 DEF vars, admissionVars, LineStep, LineSame, Line, Busy, Ahead, UnderKey, HoldsTurn
<1> QED BY <1>2, <1>4, <1>5, <1>6, <1>7, <1>8, <1>9, <1>10, <1>11, <1>12, <1>13, <1>14, <1>15
        DEF Next, TakeOrdinary, TaskStep, Done

LEMMA InitIsLines ==
    ASSUME Init, NEW k \in SerialKeys
    PROVE  Line(k) = {} /\ Ahead(k) = [c \in Cmds |-> {}] /\ Busy(k) = {}
<1>1. \A c \in Cmds : cmd[c].kind = "none" /\ ahead[c] = {}
  BY DEF Init, NoPlace
<1>2. ~Serial("none")
  BY DEF Serial
<1> QED BY <1>1, <1>2 DEF Line, Ahead, Busy, UnderKey

(* Under each serial key commands run one at a time and in the order of      *)
(* their admission, also past commands that are dropped while they wait and  *)
(* those that end their turn early (command_policy.rs, Admission::Serial):   *)
(* the loop implements SerialTurns for the map files and for the verdicts.   *)
THEOREM TurnsAreSerial == Spec => SerialTurnsKept
<1>1. "MapFiles" \in SerialKeys /\ "GuidesVerdict" \in SerialKeys
  BY DEF SerialKeys
<1>2. Init => MapFiles!Init /\ Verdicts!Init
  BY <1>1, InitIsLines DEF MapFiles!Init, Verdicts!Init
<1>3. LoopInv /\ [Next]_vars =>
        [MapFiles!Next]_<<Line("MapFiles"), Ahead("MapFiles"), Busy("MapFiles")>>
  <2> SUFFICES ASSUME LoopInv, [Next]_vars
               PROVE  [MapFiles!Next]_<<Line("MapFiles"), Ahead("MapFiles"), Busy("MapFiles")>>
    OBVIOUS
  <2>1. LineStep("MapFiles")
    BY <1>1, NextIsLineStep
  <2> QED BY <2>1 DEF LineStep, LineSame, MapFiles!Next, MapFiles!Admit, MapFiles!Begin, MapFiles!Leave
<1>4. LoopInv /\ [Next]_vars =>
        [Verdicts!Next]_<<Line("GuidesVerdict"), Ahead("GuidesVerdict"), Busy("GuidesVerdict")>>
  <2> SUFFICES ASSUME LoopInv, [Next]_vars
               PROVE  [Verdicts!Next]_<<Line("GuidesVerdict"), Ahead("GuidesVerdict"), Busy("GuidesVerdict")>>
    OBVIOUS
  <2>1. LineStep("GuidesVerdict")
    BY <1>1, NextIsLineStep
  <2> QED BY <2>1 DEF LineStep, LineSame, Verdicts!Next, Verdicts!Admit, Verdicts!Begin, Verdicts!Leave
<1> QED BY <1>2, <1>3, <1>4, LoopInvariant, PTL DEF Spec, SerialTurnsKept, MapFiles!Spec, Verdicts!Spec
=============================================================================
