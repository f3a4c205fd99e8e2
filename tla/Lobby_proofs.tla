---------------------------- MODULE Lobby_proofs -----------------------------
(* Theorems about Matchmaking for any queues, searches and bounds: no search*)
(* that was called off is sent, every wait of the panel has what ends it,   *)
(* and the panel tells what the server does; and about the run that joins it*)
(* with JoinFlow.                                                           *)
EXTENDS MCLobby, JoinFlow_proofs, FiniteSetTheorems, SequenceTheorems, TLAPS

-----------------------------------------------------------------------------
(* Matchmaking.  First the types, where the port's are narrower than the    *)
(* slice's: only this client prepares a search.                             *)

PortStates ==
    [is : {"idle", "searching", "matchFound", "launching", "cancelled"}, queues : SUBSET Queues]
PortUpdates ==
    [what : {"matchmaking", "launch", "reconnecting", "authenticated"}, state : PortStates]
PortFrames == [what : {"start", "stop"}, queue : Queues] \cup {Frame("ended", NoQueue)}

PortTypes ==
    /\ port \in PortStates /\ updates \in Seq(PortUpdates) /\ frames \in Seq(PortFrames)
    /\ seeks \subseteq Queues

SearchRecords ==
    [at : {"none", "checked", "preparing", "wanted", "failing", "done"},
     queues : SUBSET Queues, off : BOOLEAN, timer : {"off", "armed", "fires"}]
WatchRecords == [at : {"off", "armed", "fires"}, queues : SUBSET Queues]

SliceTypes ==
    /\ matchmaking \in MatchmakingStates
    /\ started \in 0 .. MaxSearches
    /\ search \in [Tries -> SearchRecords]
    /\ watch \in [Matches -> WatchRecords]
    /\ left \subseteq Tries /\ crossed \in BOOLEAN

(* A start is announced by the newest search, over a panel that does not    *)
(* prepare one; a timer is armed when nothing else is left to do.           *)
StartsInOrder ==
    \A a \in Tries :
        /\ a > started => search[a].at = "none"
        /\ search[a].at = "checked" => a = started /\ matchmaking.is # "preparing"
        /\ search[a].timer # "off" => search[a].at = "done"

(* A search that left the screen does not come back to it.                  *)
LeftIsGone ==
    \A a \in left : search[a].at = "preparing" /\ (a = started => matchmaking.is # "preparing")

(* The search shown as prepared is the newest, not called off, and on its   *)
(* way or waited for.                                                       *)
PreparedIsKnown ==
    ~crossed /\ matchmaking.is = "preparing" =>
        /\ started \in Tries
        /\ matchmaking.queues = search[started].queues \/ search[started].at = "failing"
        /\ search[started].at = "preparing" => ~search[started].off
        /\ PreparingIsEnded

PanelInv == SliceTypes /\ StartsInOrder /\ LeftIsGone /\ PreparedIsKnown

LEMMA Constants ==
    /\ IsFiniteSet(Queues) /\ NoQueue \notin Queues
    /\ MaxSearches \in Nat \ {0} /\ Tries = 1 .. MaxSearches
BY MatchmakingAssumption DEF Tries

LEMMA NotLookingIdle ==
    /\ NotLooking \in PortStates /\ NotLooking \in MatchmakingStates
    /\ NotLooking.is = "idle"
BY DEF NotLooking, MatchmakingState, PortStates, MatchmakingStates

LEMMA InitPanel == MatchmakingInit => PortTypes /\ PanelInv
<1> SUFFICES ASSUME MatchmakingInit PROVE PortTypes /\ PanelInv
    OBVIOUS
<1>1. PortTypes
    BY NotLookingIdle DEF MatchmakingInit, PortTypes
<1>2. SliceTypes
    <2>1. NoSearch \in SearchRecords /\ NoWatch \in WatchRecords
        BY DEF NoSearch, NoWatch, SearchRecords, WatchRecords
    <2>2. 0 \in 0 .. MaxSearches
        BY Constants
    <2> QED
        BY <2>1, <2>2, NotLookingIdle DEF MatchmakingInit, SliceTypes
<1>3. StartsInOrder /\ LeftIsGone /\ PreparedIsKnown
    BY NotLookingIdle
    DEF MatchmakingInit, StartsInOrder, LeftIsGone, PreparedIsKnown, NoSearch
<1> QED
    BY <1>1, <1>2, <1>3 DEF PanelInv

-----------------------------------------------------------------------------
(* The port.                                                                *)

LEMMA SendTyped ==
    ASSUME frames \in Seq(PortFrames), NEW what \in {"start", "stop"},
           NEW names \in SUBSET Queues, SendEach(what, names)
    PROVE  frames' \in Seq(PortFrames)
<1>1. Cardinality(names) \in Nat
    BY Constants, FS_Subset, FS_CardinalityType
<1>2. PICK sorted \in [1 .. Cardinality(names) -> names] :
          frames' = frames \o [i \in 1 .. Cardinality(names) |-> Frame(what, sorted[i])]
    BY DEF SendEach
<1>3. \A i \in 1 .. Cardinality(names) : Frame(what, sorted[i]) \in PortFrames
    BY <1>2 DEF Frame, PortFrames
<1>4. [i \in 1 .. Cardinality(names) |-> Frame(what, sorted[i])] \in Seq(PortFrames)
    BY <1>1, <1>3
<1> QED
    BY <1>2, <1>4, ConcatProperties

LEMMA TellTyped ==
    ASSUME NEW what \in {"matchmaking", "launch", "reconnecting", "authenticated"}
    PROVE  Tells(what) \in PortUpdates
BY NotLookingIdle DEF Tells, Update, PortUpdates

LEMMA SayTyped ==
    ASSUME NEW state \in PortStates
    PROVE  Says(state) \in PortUpdates
BY DEF Says, Update, PortUpdates

LEMMA PublishTyped ==
    ASSUME PortTypes, NEW state \in PortStates, Publish(state)
    PROVE  port' \in PortStates /\ updates' \in Seq(PortUpdates)
BY SayTyped DEF PortTypes, Publish

LEMMA SearchInfoTyped ==
    ASSUME PortTypes, NEW q \in Queues, NEW searching \in BOOLEAN, SearchInfo(q, searching)
    PROVE  port' \in PortStates /\ updates' \in Seq(PortUpdates)
<1>1. UpdatedSearch(port, q, searching) \in PortStates
    BY NotLookingIdle DEF UpdatedSearch, PortTypes, PortStates, MatchmakingState
<1> QED
    BY <1>1, PublishTyped DEF SearchInfo, PortTypes

LEMMA MatchedTyped ==
    PortTypes => MatchedQueues \subseteq Queues
BY DEF PortTypes, PortStates, MatchedQueues

LEMMA PortKept ==
    ASSUME PortTypes, PanelInv, [MatchmakingNext]_mmVars
    PROVE  PortTypes'
<1> USE DEF PortTypes
<1>1. ASSUME NEW names \in SUBSET Queues, StartSearch(names) PROVE PortTypes'
    BY <1>1 DEF StartSearch, channelVars, serverVars
<1>2. ASSUME NEW a \in Tries, AnnounceSearch(a) \/ CheckSearch(a) \/ FailSearch(a)
                \/ SearchTimerReads(a) \/ SearchTimerFires(a)
      PROVE PortTypes'
    BY <1>2 DEF AnnounceSearch, CheckSearch, FailSearch, SearchTimerReads, SearchTimerFires,
                channelVars, serverVars
<1>3. ASSUME NEW a \in Tries, SubmitSearch(a) PROVE PortTypes'
    <2>1. search[a].queues \in SUBSET Queues
        BY DEF PanelInv, SliceTypes, SearchRecords
    <2> QED
        BY <1>3, <2>1, SendTyped DEF SubmitSearch, serverVars
<1>4. CASE StopReads
    BY <1>4 DEF StopReads, channelVars, serverVars
<1>5. CASE StopActs
    <2>1. \A q \in Queues : SendEach("stop", {q}) => frames' \in Seq(PortFrames)
        BY SendTyped
    <2> QED
        BY <1>5, <2>1 DEF StopActs, serverVars
<1>6. ASSUME NEW m \in Matches, MatchTimer(m) PROVE PortTypes'
    BY <1>6 DEF MatchTimer, MatchTimerReads, MatchTimerFires, channelVars, serverVars
<1>7. CASE OnMatchmaking \/ OnLaunchOrder \/ OnReconnecting \/ OnAuthenticated
    <2>1. updates # <<>> /\ updates' = Tail(updates)
        BY <1>7 DEF OnMatchmaking, OnLaunchOrder, OnReconnecting, OnAuthenticated, Take
    <2>2. UNCHANGED <<port, frames, seeks>>
        BY <1>7
        DEF OnMatchmaking, OnLaunchOrder, OnReconnecting, OnAuthenticated, serverVars
    <2> QED
        BY <2>1, <2>2
<1>8. CASE EndConnection
    BY <1>8 DEF EndConnection, channelVars, serverVars
<1>9. CASE GameStep
    <2>1. Frame("ended", NoQueue) \in PortFrames
        BY DEF PortFrames
    <2> QED
        BY SMTT(40), <1>9, <2>1 DEF GameStep, ShowPreparing, ShowInGameMatch, Leaves, RelayEnded, Left,
                          UserEndsMatch, channelVars, serverVars
<1>10. CASE StartArrives
    <2>1. frames # <<>> /\ Head(frames) \in PortFrames /\ Head(frames).what = "start"
        BY <1>10 DEF StartArrives, FrameGoes
    <2>2. Head(frames).queue \in Queues /\ frames' \in Seq(PortFrames)
        BY <1>10, <2>1 DEF PortFrames, Frame, StartArrives, FrameGoes
    <2>3. seeks' \subseteq Queues
        BY <1>10, <2>2 DEF StartArrives
    <2>4. port' \in PortStates /\ updates' \in Seq(PortUpdates)
        BY <1>10, <2>2, SearchInfoTyped DEF StartArrives
    <2> QED
        BY <2>2, <2>3, <2>4
<1>11. CASE StopArrives
    <2>1. frames # <<>> /\ Head(frames) \in PortFrames /\ Head(frames).what = "stop"
        BY <1>11 DEF StopArrives, FrameGoes
    <2>2. Head(frames).queue \in Queues /\ frames' \in Seq(PortFrames)
        BY <1>11, <2>1 DEF PortFrames, Frame, StopArrives, FrameGoes
    <2>3. seeks' \subseteq Queues
        BY <1>11 DEF StopArrives
    <2>4. port' \in PortStates /\ updates' \in Seq(PortUpdates)
        BY <1>11, <2>2, SearchInfoTyped DEF StopArrives
    <2> QED
        BY <2>2, <2>3, <2>4
<1>12. CASE EndedGoes
    BY <1>12, PublishTyped, NotLookingIdle DEF EndedGoes, FrameGoes
<1>13. ASSUME NEW q \in Queues, LeaderStarts(q) PROVE PortTypes'
    BY <1>13, SearchInfoTyped DEF LeaderStarts
<1>14. ASSUME NEW q \in Queues, MatchFound(q) PROVE PortTypes'
    <2>1. MatchmakingState("matchFound", {q}) \in PortStates
        BY DEF MatchmakingState, PortStates
    <2> QED
        BY <1>14, <2>1, PublishTyped DEF MatchFound
<1>15. ASSUME NEW q \in Queues, LateStop(q) PROVE PortTypes'
    BY <1>15, SearchInfoTyped DEF LateStop
<1>16. CASE GameLaunch
    <2>1. MatchmakingState("launching", MatchedQueues) \in PortStates
        BY MatchedTyped DEF MatchmakingState, PortStates
    <2>2. Says(MatchmakingState("launching", MatchedQueues)) \in PortUpdates
        BY <2>1, SayTyped
    <2>3. Tells("launch") \in PortUpdates
        BY TellTyped
    <2>4. updates \o <<Says(MatchmakingState("launching", MatchedQueues)), Tells("launch")>>
              \in Seq(PortUpdates)
        BY <2>2, <2>3, ConcatProperties
    <2>5. Append(updates, Tells("launch")) \in Seq(PortUpdates)
        BY <2>3, AppendProperties
    <2> QED
        BY <1>16, <2>1, <2>4, <2>5 DEF GameLaunch
<1>17. CASE MatchOver
    <2>1. MatchmakingState("cancelled", MatchedQueues) \in PortStates
        BY MatchedTyped DEF MatchmakingState, PortStates
    <2> QED
        BY <1>17, <2>1, PublishTyped DEF MatchOver
<1>18. CASE DropSocket \/ Welcome \/ GiveUp \/ UserHangsUp \/ UserConnects
    <2>1. Tells("reconnecting") \in PortUpdates /\ Tells("authenticated") \in PortUpdates
        BY TellTyped
    <2>2. <<>> \in Seq(PortFrames)
        OBVIOUS
    <2>3. /\ Append(updates, Tells("reconnecting")) \in Seq(PortUpdates)
          /\ Append(updates, Tells("authenticated")) \in Seq(PortUpdates)
        BY <2>1, AppendProperties
    <2> QED
        BY <1>18, <2>2, <2>3, NotLookingIdle
        DEF DropSocket, Welcome, GiveUp, UserHangsUp, UserConnects, Severed, channelVars, serverVars
<1>19. CASE UNCHANGED mmVars
    BY <1>19 DEF mmVars, channelVars, serverVars
<1> QED
    BY <1>1, <1>2, <1>3, <1>4, <1>5, <1>6, <1>7, <1>8, <1>9, <1>10, <1>11, <1>12, <1>13, <1>14,
       <1>15, <1>16, <1>17, <1>18, <1>19
    DEF MatchmakingNext, SearchStep, UpdateStep, PortStep

-----------------------------------------------------------------------------
(* The panel.  What moves the slice and no search keeps the invariant if it *)
(* does not make the panel prepare.                                         *)

LEMMA SliceMoves ==
    ASSUME PanelInv, UNCHANGED <<started, search>>, watch' \in [Matches -> WatchRecords],
           NEW state \in MatchmakingStates, ShowMatchmaking(state), crossed' \in BOOLEAN,
           state.is # "preparing" \/ (state = matchmaking /\ crossed' = crossed)
    PROVE  PanelInv'
<1> USE DEF PanelInv
<1>1. SliceTypes'
    BY DEF SliceTypes, ShowMatchmaking, Registered
<1>2. StartsInOrder'
    BY DEF StartsInOrder, ShowMatchmaking
<1>3. LeftIsGone'
    BY DEF LeftIsGone, StartsInOrder, ShowMatchmaking, Registered
<1>4. PreparedIsKnown'
    BY DEF PreparedIsKnown, PreparingIsEnded, ShowMatchmaking
<1> QED
    BY <1>1, <1>2, <1>3, <1>4

LEMMA SliceValues ==
    ASSUME matchmaking \in MatchmakingStates
    PROVE  \A state \in {AfterGame(matchmaking), AfterLaunch(matchmaking),
                         AfterConnecting(matchmaking), NotLooking, matchmaking} :
               /\ state \in MatchmakingStates
               /\ state.is # "preparing" \/ state = matchmaking
BY NotLookingIdle DEF AfterGame, AfterLaunch, AfterConnecting

LEMMA SliceRests ==
    ASSUME PanelInv, UNCHANGED <<matchmaking, started, search, watch, left, crossed>>
    PROVE  PanelInv'
BY DEF PanelInv, SliceTypes, StartsInOrder, LeftIsGone, PreparedIsKnown, PreparingIsEnded,
       MatchmakingStates, SearchRecords, WatchRecords

-----------------------------------------------------------------------------
(* The steps of a search.                                                   *)

LEMMA StartKeeps ==
    ASSUME PanelInv, NEW names \in SUBSET Queues, StartSearch(names)
    PROVE  PanelInv'
<1> DEFINE a == started + 1
<1> USE DEF PanelInv
<1>1. /\ a \in Tries /\ started' = a
      /\ search' = [search EXCEPT ![a].at = "checked", ![a].queues = names]
      /\ matchmaking.is \in {"idle", "cancelled"} /\ SubmissionFree
      /\ UNCHANGED <<matchmaking, watch, left, crossed>>
    BY DEF StartSearch, sliceVars, matchVars, historyVars
<1>2. started \in Nat /\ search[a].at = "none" /\ search[a].timer = "off"
    BY <1>1, Constants DEF SliceTypes, StartsInOrder
<1>3. SliceTypes'
    BY SMTT(40), <1>1, <1>2, Constants DEF SliceTypes, SearchRecords
<1>4. StartsInOrder'
    BY <1>1, <1>2, Constants DEF StartsInOrder, SliceTypes, SubmissionFree, SearchRecords
<1>5. LeftIsGone'
    BY <1>1, <1>2 DEF LeftIsGone, SliceTypes, SearchRecords
<1>6. PreparedIsKnown'
    BY <1>1 DEF PreparedIsKnown
<1> QED
    BY <1>3, <1>4, <1>5, <1>6

LEMMA AnnounceKeeps ==
    ASSUME PanelInv, NEW a \in Tries, AnnounceSearch(a)
    PROVE  PanelInv'
<1> USE DEF PanelInv
<1>1. /\ search[a].at = "checked" /\ a = started /\ matchmaking.is # "preparing"
      /\ search' = [search EXCEPT ![a].at = "preparing"]
      /\ matchmaking' = MatchmakingState("preparing", search[a].queues)
      /\ left' = left /\ (~crossed' => ~search[a].off) /\ crossed' \in BOOLEAN
      /\ UNCHANGED <<started, watch>>
    BY DEF AnnounceSearch, StartsInOrder, SetSearch, ShowMatchmaking, matchVars
<1>2. SliceTypes'
    BY <1>1 DEF SliceTypes, SearchRecords, MatchmakingStates, MatchmakingState
<1>3. StartsInOrder'
    BY <1>1 DEF StartsInOrder, SliceTypes, SearchRecords
<1>4. LeftIsGone'
    BY <1>1 DEF LeftIsGone, SliceTypes, SearchRecords
<1>5. PreparedIsKnown'
    BY <1>1 DEF PreparedIsKnown, PreparingIsEnded, SliceTypes, SearchRecords, MatchmakingState
<1> QED
    BY <1>2, <1>3, <1>4, <1>5

LEMMA CheckKeeps ==
    ASSUME PanelInv, NEW a \in Tries, CheckSearch(a)
    PROVE  PanelInv'
<1> USE DEF PanelInv
<1>1. /\ search[a].at = "preparing" /\ left' = left \ {a}
      /\ search' = [search EXCEPT ![a] = IF StillWanted(a) THEN [@ EXCEPT !.at = "wanted"]
                                         ELSE [NoSearch EXCEPT !.at = "done"]]
      /\ UNCHANGED <<matchmaking, started, watch, crossed>>
    BY DEF CheckSearch, SetSearch, SearchOver, sliceVars, matchVars, SliceTypes, SearchRecords
<1>2. [NoSearch EXCEPT !.at = "done"] \in SearchRecords
    BY DEF NoSearch, SearchRecords
<1>3. SliceTypes'
    BY <1>1, <1>2 DEF SliceTypes, SearchRecords
<1>4. StartsInOrder'
    BY <1>1 DEF StartsInOrder, SliceTypes, SearchRecords, NoSearch
<1>5. LeftIsGone'
    BY <1>1 DEF LeftIsGone, SliceTypes, SearchRecords
<1>6. PreparedIsKnown'
    BY <1>1 DEF PreparedIsKnown, PreparingIsEnded, SliceTypes, SearchRecords, MatchmakingStates,
                StillWanted, ShownAsPrepared, MatchmakingState
<1> QED
    BY <1>3, <1>4, <1>5, <1>6

LEMMA SubmitKeeps ==
    ASSUME PanelInv, NEW a \in Tries, SubmitSearch(a)
    PROVE  PanelInv'
<1> USE DEF PanelInv
<1>1. /\ search[a].at = "wanted"
      /\ \/ search' = [search EXCEPT ![a].at = "failing"]
         \/ search' = [search EXCEPT ![a].at = "done", ![a].timer = "armed"]
      /\ UNCHANGED <<matchmaking, started, watch, left, crossed>>
    BY DEF SubmitSearch, SetSearch, sliceVars, matchVars, historyVars
<1>2. SliceTypes'
    BY <1>1 DEF SliceTypes, SearchRecords
<1>3. StartsInOrder'
    BY <1>1 DEF StartsInOrder, SliceTypes, SearchRecords
<1>4. LeftIsGone'
    BY <1>1 DEF LeftIsGone, SliceTypes, SearchRecords
<1>5. PreparedIsKnown'
    BY <1>1 DEF PreparedIsKnown, PreparingIsEnded, SliceTypes, SearchRecords
<1> QED
    BY <1>2, <1>3, <1>4, <1>5

(* A search that is over empties the panel in the same step.                *)
LEMMA OverKeeps ==
    ASSUME PanelInv, NEW a \in Tries, search[a].at \in {"failing", "done"}, SearchOver(a),
           ShowMatchmaking(NotLooking), crossed' \in BOOLEAN, UNCHANGED <<started, watch>>
    PROVE  PanelInv'
<1> USE DEF PanelInv
<1>1. /\ search' = [search EXCEPT ![a] = [NoSearch EXCEPT !.at = "done"]]
      /\ [NoSearch EXCEPT !.at = "done"] \in SearchRecords
    BY DEF SearchOver, NoSearch, SearchRecords
<1>2. SliceTypes'
    BY <1>1, NotLookingIdle DEF SliceTypes, ShowMatchmaking, Registered
<1>3. StartsInOrder'
    BY <1>1, NotLookingIdle
    DEF StartsInOrder, SliceTypes, SearchRecords, NoSearch, ShowMatchmaking
<1>4. LeftIsGone'
    BY <1>1, NotLookingIdle
    DEF LeftIsGone, StartsInOrder, SliceTypes, SearchRecords, ShowMatchmaking, Registered
<1>5. PreparedIsKnown'
    BY NotLookingIdle DEF PreparedIsKnown, ShowMatchmaking
<1> QED
    BY <1>2, <1>3, <1>4, <1>5

LEMMA TimerKeeps ==
    ASSUME PanelInv, NEW a \in Tries, SearchTimerReads(a)
    PROVE  PanelInv'
<1> USE DEF PanelInv
<1>1. /\ search[a].timer = "armed" /\ search[a].at = "done"
      /\ search' = [search EXCEPT ![a] = IF Unanswered(a) THEN [@ EXCEPT !.timer = "fires"]
                                         ELSE [NoSearch EXCEPT !.at = "done"]]
      /\ UNCHANGED <<matchmaking, started, watch, left, crossed>>
    BY DEF SearchTimerReads, SetSearch, SearchOver, sliceVars, matchVars, historyVars,
           StartsInOrder
<1>2. [NoSearch EXCEPT !.at = "done"] \in SearchRecords
    BY DEF NoSearch, SearchRecords
<1>3. SliceTypes'
    BY <1>1, <1>2 DEF SliceTypes, SearchRecords
<1>4. StartsInOrder'
    BY <1>1 DEF StartsInOrder, SliceTypes, SearchRecords, NoSearch
<1>5. LeftIsGone'
    BY <1>1 DEF LeftIsGone, SliceTypes, SearchRecords, NoSearch
<1>6. PreparedIsKnown'
    BY <1>1 DEF PreparedIsKnown, PreparingIsEnded, SliceTypes, SearchRecords, MatchmakingStates,
                Unanswered, ShownAsPrepared, MatchmakingState
<1> QED
    BY <1>3, <1>4, <1>5, <1>6

(* A Stop that finds the preparation calls it off and empties the panel.    *)
LEMMA StopKeeps ==
    ASSUME PanelInv, StopActs
    PROVE  PanelInv'
<1> USE DEF PanelInv
<1>1. CASE UNCHANGED <<search, matchmaking, historyVars>>
    BY <1>1, SliceRests DEF StopActs, matchVars, historyVars
<1>2. CASE ~UNCHANGED <<search, matchmaking, historyVars>>
    <2>1. /\ started \in Tries /\ search' = [search EXCEPT ![started].off = TRUE]
          /\ ShowMatchmaking(NotLooking) /\ crossed' \in BOOLEAN
          /\ UNCHANGED <<started, watch>>
        BY <1>2 DEF StopActs, SetSearch, Registered, matchVars
    <2>2. SliceTypes'
        BY ZenonT(40), <2>1, NotLookingIdle DEF SliceTypes, SearchRecords, ShowMatchmaking, Registered
    <2>3. StartsInOrder'
        BY <2>1, NotLookingIdle DEF StartsInOrder, SliceTypes, SearchRecords, ShowMatchmaking
    <2>4. LeftIsGone'
        BY <2>1, NotLookingIdle
        DEF LeftIsGone, StartsInOrder, SliceTypes, SearchRecords, ShowMatchmaking, Registered
    <2>5. PreparedIsKnown'
        BY <2>1, NotLookingIdle DEF PreparedIsKnown, ShowMatchmaking
    <2> QED
        BY <2>2, <2>3, <2>4, <2>5
<1> QED
    BY <1>1, <1>2

(* The end of a connection calls every preparation off.                     *)
LEMMA EndKeeps ==
    ASSUME PanelInv, EndConnection
    PROVE  PanelInv'
<1> USE DEF PanelInv
<1> DEFINE state == IF joinState = "launched" THEN AfterConnecting(matchmaking) ELSE NotLooking
<1>1. /\ search' = [a \in Tries |-> [search[a] EXCEPT !.off = @ \/ Registered(a)]]
      /\ ShowMatchmaking(state) /\ UNCHANGED <<started, watch, crossed>>
    BY DEF EndConnection, matchVars
<1>2. state \in MatchmakingStates /\ state.is # "preparing"
    BY NotLookingIdle DEF SliceTypes, AfterConnecting
<1>3. SliceTypes'
    BY ZenonT(40), <1>1, <1>2 DEF SliceTypes, SearchRecords, ShowMatchmaking, Registered
<1>4. StartsInOrder'
    BY <1>1, <1>2 DEF StartsInOrder, SliceTypes, SearchRecords, ShowMatchmaking
<1>5. LeftIsGone'
    BY <1>1, <1>2
    DEF LeftIsGone, StartsInOrder, SliceTypes, SearchRecords, ShowMatchmaking, Registered
<1>6. PreparedIsKnown'
    BY <1>1, <1>2 DEF PreparedIsKnown, ShowMatchmaking
<1> QED
    BY <1>3, <1>4, <1>5, <1>6

-----------------------------------------------------------------------------
(* Every step keeps the invariant.                                          *)

LEMMA OnMatchmakingKeeps ==
    ASSUME PortTypes, PanelInv, OnMatchmaking
    PROVE  PanelInv'
<1> DEFINE state == Head(updates).state
<1>1. updates # <<>> /\ ShowMatchmaking(state) /\ crossed' = FALSE
    BY DEF OnMatchmaking, Take
<1>2. state \in PortStates
    <2>1. Head(updates) \in PortUpdates
        BY <1>1 DEF PortTypes
    <2> QED
        BY <2>1 DEF PortUpdates
<1>3. state \in MatchmakingStates /\ state.is # "preparing"
    BY <1>2 DEF PortStates, MatchmakingStates
<1>4. UNCHANGED <<started, search>>
    BY DEF OnMatchmaking, searchVars
<1>5. watch' \in [Matches -> WatchRecords]
    BY <1>2 DEF OnMatchmaking, matchVars, PanelInv, SliceTypes, WatchRecords, PortStates
<1> QED
    BY <1>1, <1>3, <1>4, <1>5, SliceMoves

LEMMA MatchTimerKeeps ==
    ASSUME PanelInv, NEW m \in Matches, MatchTimer(m)
    PROVE  PanelInv'
<1>1. watch' \in [Matches -> WatchRecords]
    BY DEF MatchTimer, MatchTimerReads, MatchTimerFires, PanelInv, SliceTypes, WatchRecords,
           NoWatch
<1>2. CASE MatchTimerReads(m)
    BY <1>1, <1>2, SliceMoves, SliceValues
    DEF MatchTimerReads, sliceVars, searchVars, historyVars, PanelInv, SliceTypes, ShowMatchmaking
<1>3. CASE MatchTimerFires(m)
    <2>1. MatchmakingState("cancelled", watch[m].queues) \in MatchmakingStates
        BY DEF PanelInv, SliceTypes, WatchRecords, MatchmakingState, MatchmakingStates
    <2> QED
        BY <1>1, <1>3, <2>1, SliceMoves DEF MatchTimerFires, searchVars, MatchmakingState
<1> QED
    BY <1>2, <1>3 DEF MatchTimer

LEMMA PanelKept ==
    ASSUME PortTypes, PanelInv, [MatchmakingNext]_mmVars
    PROVE  PanelInv'
<1> USE DEF sliceVars, searchVars, matchVars, historyVars
<1>1. ASSUME NEW names \in SUBSET Queues, StartSearch(names) PROVE PanelInv'
    BY <1>1, StartKeeps
<1>2. ASSUME NEW a \in Tries, SearchStep(a) PROVE PanelInv'
    <2>1. CASE FailSearch(a) \/ SearchTimerFires(a)
        <3>1. search[a].at \in {"failing", "done"} /\ crossed' \in BOOLEAN
            BY <2>1 DEF FailSearch, SearchTimerFires, PanelInv, StartsInOrder
        <3> QED
            BY <2>1, <3>1, OverKeeps DEF FailSearch, SearchTimerFires
    <2> QED
        BY <1>2, <2>1, AnnounceKeeps, CheckKeeps, SubmitKeeps, TimerKeeps DEF SearchStep
<1>3. CASE StopReads
    BY <1>3, SliceRests DEF StopReads
<1>4. CASE StopActs
    BY <1>4, StopKeeps
<1>5. ASSUME NEW m \in Matches, MatchTimer(m) PROVE PanelInv'
    BY <1>5, MatchTimerKeeps
<1>6. CASE UpdateStep
    <2>1. CASE OnMatchmaking
        BY <2>1, OnMatchmakingKeeps
    <2>2. CASE OnLaunchOrder \/ OnAuthenticated
        BY <2>2, SliceRests DEF OnLaunchOrder, OnAuthenticated
    <2>3. CASE OnReconnecting
        BY <2>3, SliceMoves, SliceValues DEF OnReconnecting, PanelInv, SliceTypes
    <2>4. CASE EndConnection
        BY <2>4, EndKeeps
    <2> QED
        BY <1>6, <2>1, <2>2, <2>3, <2>4 DEF UpdateStep
<1>7. CASE GameStep
    <2>1. CASE ShowPreparing \/ ShowInGameMatch \/ Leaves
        BY <2>1, SliceRests DEF ShowPreparing, ShowInGameMatch, Leaves
    <2>2. CASE Left \/ UserEndsMatch
        BY <2>2, SliceMoves, SliceValues DEF Left, UserEndsMatch, PanelInv, SliceTypes
    <2> QED
        BY <1>7, <2>1, <2>2 DEF GameStep
<1>8. CASE PortStep
    <2>1. CASE UserHangsUp \/ UserConnects
        BY <2>1, SliceMoves, SliceValues DEF UserHangsUp, UserConnects, PanelInv, SliceTypes
    <2>2. CASE \E q \in Queues : LeaderStarts(q) \/ MatchFound(q) \/ LateStop(q)
        BY <2>2, SliceRests DEF LeaderStarts, MatchFound, LateStop
    <2>3. CASE \/ StartArrives \/ StopArrives \/ EndedGoes \/ GameLaunch \/ MatchOver
               \/ DropSocket \/ Welcome \/ GiveUp
        BY <2>3, SliceRests
        DEF StartArrives, StopArrives, EndedGoes, GameLaunch, MatchOver, DropSocket, Welcome,
            GiveUp
    <2> QED
        BY <1>8, <2>1, <2>2, <2>3 DEF PortStep
<1>9. CASE UNCHANGED mmVars
    BY <1>9, SliceRests DEF mmVars
<1> QED
    BY <1>1, <1>2, <1>3, <1>4, <1>5, <1>6, <1>7, <1>8, <1>9 DEF MatchmakingNext

(* The invariant holds of every behaviour of a search.                      *)
THEOREM PanelInvariant == MatchmakingSpec => [](PortTypes /\ PanelInv)
<1>1. (PortTypes /\ PanelInv) /\ [MatchmakingNext]_mmVars => (PortTypes /\ PanelInv)'
    BY PortKept, PanelKept
<1> QED
    BY <1>1, InitPanel, PTL DEF MatchmakingSpec

(* A start whose preparation ended goes on to the server only if the player *)
(* saw it prepared all the while, for any number of searches and queues.    *)
LEMMA OnlyShownGoesOn ==
    ASSUME PanelInv, [MatchmakingNext]_mmVars, NEW a \in Tries,
           search[a].at = "preparing", search'[a].at = "wanted"
    PROVE  a \notin left
<1> USE DEF PanelInv, SliceTypes, SearchRecords
<1>1. ASSUME NEW names \in SUBSET Queues, StartSearch(names) PROVE FALSE
    BY <1>1 DEF StartSearch
<1>2. ASSUME NEW b \in Tries, SearchStep(b), ~CheckSearch(b) PROVE FALSE
    BY <1>2 DEF SearchStep, AnnounceSearch, SubmitSearch, FailSearch, SearchTimerReads,
                SearchTimerFires, SetSearch, SearchOver, NoSearch
<1>3. CASE StopActs
    BY <1>3 DEF StopActs, SetSearch
<1>4. CASE EndConnection
    BY <1>4 DEF EndConnection
<1>5. CASE UNCHANGED search
    BY <1>5
<1>6. ASSUME NEW b \in Tries, CheckSearch(b) PROVE a \notin left
    <2>1. b = a /\ StillWanted(a)
        BY <1>6 DEF CheckSearch, SetSearch, SearchOver, NoSearch
    <2> QED
        BY <2>1 DEF StillWanted, ShownAsPrepared, MatchmakingState, LeftIsGone
<1> QED
    BY <1>1, <1>2, <1>3, <1>4, <1>5, <1>6
    DEF MatchmakingNext, UpdateStep, GameStep, PortStep, MatchTimer, StopReads, MatchTimerReads,
        MatchTimerFires, OnMatchmaking, OnLaunchOrder, OnReconnecting, OnAuthenticated,
        ShowPreparing, ShowInGameMatch, Leaves, Left, UserEndsMatch, StartArrives, StopArrives,
        EndedGoes, LeaderStarts, MatchFound, LateStop, GameLaunch, MatchOver, DropSocket,
        Welcome, GiveUp, UserHangsUp, UserConnects, searchVars, mmVars

THEOREM CalledOffStaysUnsent == MatchmakingSpec => CalledOffIsNotSent
<1>1. PanelInv /\ [MatchmakingNext]_mmVars =>
          [\A a \in Tries : search[a].at = "preparing" /\ search'[a].at = "wanted"
               => a \notin left]_mmVars
    BY OnlyShownGoesOn
<1> QED
    BY <1>1, PanelInvariant, PTL DEF MatchmakingSpec, CalledOffIsNotSent

-----------------------------------------------------------------------------
(* The server and the port.  The server's searches are the ones the port    *)
(* has published; a match it found has used them up.                        *)

PortIsServer ==
    /\ seeks # {} => port = MatchmakingState("searching", seeks)
    /\ port.is = "searching" => seeks # {} /\ port.queues = seeks
    /\ paired # NoQueue => seeks = {}
    /\ seeks \cap acks = {}
    /\ session # "up" => port = NotLooking /\ seeks = {} /\ paired = NoQueue
    /\ session = "off" => updates = <<>>

LEMMA SearchIsServer ==
    ASSUME PortTypes, PortIsServer, NEW q \in Queues, NEW searching \in BOOLEAN,
           SearchInfo(q, searching), UNCHANGED <<paired, session>>, session = "up",
           acks' \subseteq acks, seeks' \cap acks' = {},
           IF searching THEN seeks' = seeks \cup {q} /\ paired = NoQueue
                        ELSE seeks' = seeks \ {q}
    PROVE  PortIsServer'
<1>1. port' = UpdatedSearch(port, q, searching)
    BY DEF SearchInfo, Publish
<1>2. port \in PortStates /\ seeks \subseteq Queues
    BY DEF PortTypes
<1>3. CASE searching
    <2>1. /\ port.is = "searching" => port.queues \cup {q} = seeks \cup {q}
          /\ port.is # "searching" => seeks = {}
        BY DEF PortIsServer, MatchmakingState
    <2>2. port' = MatchmakingState("searching", seeks \cup {q})
        BY <1>1, <1>3, <2>1 DEF UpdatedSearch
    <2> QED
        BY <1>3, <2>2 DEF PortIsServer, MatchmakingState
<1>4. CASE ~searching
    <2>1. CASE port.is # "searching"
        BY <1>1, <1>4, <2>1 DEF UpdatedSearch, PortIsServer, MatchmakingState
    <2>2. CASE port.is = "searching"
        <3>1. port' = IF seeks \ {q} = {} THEN NotLooking
                                          ELSE MatchmakingState("searching", seeks \ {q})
            BY <1>1, <1>4, <2>2 DEF UpdatedSearch, PortIsServer
        <3> QED
            BY <1>4, <2>2, <3>1 DEF PortIsServer, MatchmakingState, NotLooking
    <2> QED
        BY <2>1, <2>2
<1> QED
    BY <1>3, <1>4

LEMMA PortServerKept ==
    ASSUME PortTypes, PortIsServer, [MatchmakingNext]_mmVars
    PROVE  PortIsServer'
<1> USE DEF serverVars, channelVars
<1>1. ASSUME UNCHANGED <<seeks, port, paired, acks, session>>, session # "off" \/ UNCHANGED updates
      PROVE  PortIsServer'
    BY <1>1 DEF PortIsServer
<1>2. ASSUME NEW what \in {"start", "stop", "ended"}, FrameGoes(what)
      PROVE  session = "up" /\ Head(frames) \in PortFrames
    BY <1>2 DEF FrameGoes, Room, PortTypes
<1>3. CASE StartArrives
    <2>1. CASE UNCHANGED <<seeks, port, updates>>
        BY <1>1, <1>3, <2>1 DEF StartArrives
    <2>2. CASE /\ paired = NoQueue /\ Head(frames).queue \notin acks
               /\ seeks' = seeks \cup {Head(frames).queue}
               /\ SearchInfo(Head(frames).queue, TRUE)
        <3>1. Head(frames).queue \in Queues /\ session = "up"
            BY <1>2, <1>3 DEF StartArrives, FrameGoes, PortFrames, Frame
        <3>2. seeks' \cap acks' = {} /\ UNCHANGED <<paired, session, acks>>
            BY <1>3, <2>2 DEF StartArrives, PortIsServer
        <3> QED
            BY <2>2, <3>1, <3>2, SearchIsServer
    <2> QED
        BY <1>3, <2>1, <2>2 DEF StartArrives
<1>4. CASE StopArrives
    <2>1. Head(frames).queue \in Queues /\ session = "up"
        BY <1>2, <1>4 DEF StopArrives, FrameGoes, PortFrames, Frame
    <2>2. CASE Head(frames).queue \in seeks
        <3>1. /\ seeks' \cap acks' = {} /\ UNCHANGED <<paired, session, acks>>
              /\ SearchInfo(Head(frames).queue, FALSE) /\ seeks' = seeks \ {Head(frames).queue}
            BY <1>4, <2>2 DEF StopArrives, PortIsServer
        <3> QED
            BY <2>1, <3>1, SearchIsServer
    <2>3. CASE Head(frames).queue \notin seeks
        BY <1>1, <1>4, <2>1, <2>3 DEF StopArrives
    <2> QED
        BY <2>2, <2>3
<1>5. CASE EndedGoes
    BY <1>2, <1>5 DEF EndedGoes, Publish, PortIsServer, NotLooking, MatchmakingState
<1>6. ASSUME NEW q \in Queues, LeaderStarts(q) PROVE PortIsServer'
    <2>1. /\ seeks' \cap acks' = {} /\ UNCHANGED <<paired, session, acks>> /\ session = "up"
          /\ SearchInfo(q, TRUE) /\ seeks' = seeks \cup {q} /\ paired = NoQueue
        BY <1>6 DEF LeaderStarts, Room, PortIsServer
    <2> QED
        BY <2>1, SearchIsServer
<1>7. ASSUME NEW q \in Queues, MatchFound(q) PROVE PortIsServer'
    BY <1>7 DEF MatchFound, Room, Publish, PortIsServer, MatchmakingState
<1>8. ASSUME NEW q \in Queues, LateStop(q) PROVE PortIsServer'
    <2>1. /\ seeks' \cap acks' = {} /\ UNCHANGED <<paired, session, seeks>> /\ session = "up"
          /\ SearchInfo(q, FALSE) /\ seeks' = seeks \ {q} /\ acks' \subseteq acks
        BY <1>8 DEF LateStop, Room, PortIsServer
    <2> QED
        BY <2>1, SearchIsServer
<1>9. CASE GameLaunch
    BY <1>9 DEF GameLaunch, Room, MatchedQueues, PortIsServer, MatchmakingState
<1>10. CASE MatchOver
    BY <1>10 DEF MatchOver, Room, Publish, PortIsServer, MatchmakingState
<1>11. CASE DropSocket \/ Welcome \/ GiveUp \/ UserHangsUp \/ UserConnects
    BY <1>11 DEF DropSocket, Welcome, GiveUp, UserHangsUp, UserConnects, Severed, Connected,
                 PortIsServer, NotLooking, MatchmakingState
<1>12. CASE EndConnection
    BY <1>12 DEF EndConnection, PortIsServer
<1>13. ASSUME \E what \in {"matchmaking", "launch", "reconnecting", "authenticated"} : Take(what),
              UNCHANGED <<seeks, port, paired, acks, session>>
       PROVE  PortIsServer'
    BY <1>1, <1>13 DEF Take
<1>14. CASE UpdateStep
    BY <1>12, <1>13, <1>14
    DEF UpdateStep, OnMatchmaking, OnLaunchOrder, OnReconnecting, OnAuthenticated
<1> QED
    BY <1>1, <1>3, <1>4, <1>5, <1>6, <1>7, <1>8, <1>9, <1>10, <1>11, <1>14
    DEF MatchmakingNext, GameStep, PortStep, SearchStep, MatchTimer, StartSearch, AnnounceSearch,
        CheckSearch, SubmitSearch, FailSearch, StopReads, StopActs, SearchTimerReads,
        SearchTimerFires, MatchTimerReads, MatchTimerFires, ShowPreparing, ShowInGameMatch,
        Leaves, Left, UserEndsMatch, mmVars

-----------------------------------------------------------------------------
(* The channel between the port and the slice, as a sequence: which of its  *)
(* messages find a match, and which take one off the screen.                *)

IsMatch(e) == e.what = "matchmaking" /\ e.state.is = "matchFound"
Clears(e) ==
    e.what = "reconnecting" \/ (e.what = "matchmaking" /\ e.state.is # "matchFound")

(* No match found over another, on screen or on the way, that was not taken *)
(* back in between; and none that is still to be taken back.                *)
Alternates(shown, s) ==
    \A j \in DOMAIN s : IsMatch(s[j]) =>
        /\ shown => \E k \in DOMAIN s : k < j /\ Clears(s[k])
        /\ \A i \in DOMAIN s : i < j /\ IsMatch(s[i])
               => \E k \in DOMAIN s : i < k /\ k < j /\ Clears(s[k])
Cleared(shown, s) ==
    /\ shown => \E k \in DOMAIN s : Clears(s[k])
    /\ \A i \in DOMAIN s : IsMatch(s[i]) => \E k \in DOMAIN s : i < k /\ Clears(s[k])

(* The matches on the way can be numbered after the last one taken.         *)
Numbers(n, f, s) ==
    \A j \in DOMAIN s : IsMatch(s[j]) =>
        /\ f < n[j]
        /\ \A i \in DOMAIN s : i < j /\ IsMatch(s[i]) => n[i] < n[j]
Numbered(f, a, s) == f <= a /\ \E n \in [DOMAIN s -> f .. a] : Numbers(n, f, s)

LEMMA TailOf ==
    ASSUME NEW S, NEW s \in Seq(S), s # <<>>
    PROVE  /\ Tail(s) \in Seq(S) /\ Len(s) \in Nat /\ Len(s) > 0
           /\ DOMAIN s = 1 .. Len(s) /\ DOMAIN Tail(s) = 1 .. (Len(s) - 1)
           /\ \A i \in DOMAIN Tail(s) : Tail(s)[i] = s[i + 1] /\ i + 1 \in DOMAIN s
           /\ \A j \in DOMAIN s : j = 1 \/ (j - 1 \in DOMAIN Tail(s) /\ Tail(s)[j - 1] = s[j])
           /\ Head(s) = s[1] /\ s[1] \in S
OBVIOUS

LEMMA EndOf ==
    ASSUME NEW S, NEW s \in Seq(S), NEW e
    PROVE  /\ Len(s) \in Nat /\ DOMAIN s = 1 .. Len(s)
           /\ DOMAIN Append(s, e) = 1 .. (Len(s) + 1)
           /\ \A i \in DOMAIN s : Append(s, e)[i] = s[i] /\ i \in DOMAIN Append(s, e)
           /\ Append(s, e)[Len(s) + 1] = e
OBVIOUS

LEMMA AlternatesTail ==
    ASSUME NEW S, NEW s \in Seq(S), s # <<>>, NEW shown \in BOOLEAN, NEW shows \in BOOLEAN,
           Alternates(shown, s), shows => IsMatch(Head(s)) \/ (shown /\ ~Clears(Head(s)))
    PROVE  Alternates(shows, Tail(s))
<1> DEFINE t == Tail(s)
<1>1. /\ DOMAIN s = 1 .. Len(s) /\ DOMAIN t = 1 .. (Len(s) - 1) /\ Len(s) \in Nat
      /\ \A i \in DOMAIN t : t[i] = s[i + 1] /\ i + 1 \in DOMAIN s
      /\ \A j \in DOMAIN s : j = 1 \/ (j - 1 \in DOMAIN t /\ t[j - 1] = s[j])
      /\ Head(s) = s[1] /\ 1 \in DOMAIN s
    BY TailOf
<1> HIDE DEF t
<1>2. SUFFICES ASSUME NEW j \in DOMAIN t, IsMatch(t[j])
      PROVE  /\ shows => \E k \in DOMAIN t : k < j /\ Clears(t[k])
             /\ \A i \in DOMAIN t : i < j /\ IsMatch(t[i])
                    => \E k \in DOMAIN t : i < k /\ k < j /\ Clears(t[k])
    BY DEF Alternates, t
<1>3. j + 1 \in DOMAIN s /\ IsMatch(s[j + 1])
    BY <1>1, <1>2
<1>4. ASSUME NEW k \in DOMAIN s, 1 < k, k < j + 1, Clears(s[k])
      PROVE  k - 1 \in DOMAIN t /\ k - 1 < j /\ Clears(t[k - 1])
    BY <1>1, <1>4
<1>5. ASSUME shows PROVE \E k \in DOMAIN t : k < j /\ Clears(t[k])
    <2>1. CASE IsMatch(Head(s))
        <3>1. PICK k \in DOMAIN s : 1 < k /\ k < j + 1 /\ Clears(s[k])
            BY <1>1, <1>3, <2>1 DEF Alternates
        <3> QED
            BY <1>4, <3>1
    <2>2. CASE shown /\ ~Clears(Head(s))
        <3>1. PICK k \in DOMAIN s : k < j + 1 /\ Clears(s[k])
            BY <1>3, <2>2 DEF Alternates
        <3>2. 1 < k
            BY <1>1, <2>2, <3>1
        <3> QED
            BY <1>4, <3>1, <3>2
    <2> QED
        BY <1>5, <2>1, <2>2
<1>6. ASSUME NEW i \in DOMAIN t, i < j, IsMatch(t[i])
      PROVE  \E k \in DOMAIN t : i < k /\ k < j /\ Clears(t[k])
    <2>1. i + 1 \in DOMAIN s /\ i + 1 < j + 1 /\ IsMatch(s[i + 1])
        BY <1>1, <1>6
    <2>2. PICK k \in DOMAIN s : i + 1 < k /\ k < j + 1 /\ Clears(s[k])
        BY <1>3, <2>1 DEF Alternates
    <2>3. 1 < k /\ i < k - 1
        BY <1>1, <2>2
    <2> QED
        BY <1>4, <2>2, <2>3
<1> QED
    BY <1>5, <1>6

LEMMA ClearedTail ==
    ASSUME NEW S, NEW s \in Seq(S), s # <<>>, NEW shown \in BOOLEAN, NEW shows \in BOOLEAN,
           Cleared(shown, s), shows => IsMatch(Head(s)) \/ (shown /\ ~Clears(Head(s)))
    PROVE  Cleared(shows, Tail(s))
<1> DEFINE t == Tail(s)
<1>1. /\ DOMAIN s = 1 .. Len(s) /\ DOMAIN t = 1 .. (Len(s) - 1) /\ Len(s) \in Nat
      /\ \A i \in DOMAIN t : t[i] = s[i + 1] /\ i + 1 \in DOMAIN s
      /\ \A j \in DOMAIN s : j = 1 \/ (j - 1 \in DOMAIN t /\ t[j - 1] = s[j])
      /\ Head(s) = s[1] /\ 1 \in DOMAIN s
    BY TailOf
<1> HIDE DEF t
<1>2. ASSUME NEW k \in DOMAIN s, 1 < k, Clears(s[k])
      PROVE  k - 1 \in DOMAIN t /\ Clears(t[k - 1])
    BY <1>1, <1>2
<1>3. ASSUME shows PROVE \E k \in DOMAIN t : Clears(t[k])
    <2>1. PICK k \in DOMAIN s : 1 < k /\ Clears(s[k])
        BY <1>1, <1>3 DEF Cleared
    <2> QED
        BY <1>2, <2>1
<1>4. ASSUME NEW i \in DOMAIN t, IsMatch(t[i])
      PROVE  \E k \in DOMAIN t : i < k /\ Clears(t[k])
    <2>1. PICK k \in DOMAIN s : i + 1 < k /\ Clears(s[k])
        BY <1>1, <1>4 DEF Cleared
    <2>2. 1 < k /\ i < k - 1
        BY <1>1, <2>1
    <2> QED
        BY <1>2, <2>1, <2>2
<1> QED
    BY <1>3, <1>4 DEF Cleared, t

LEMMA AlternatesEnd ==
    ASSUME NEW S, NEW s \in Seq(S), NEW shown \in BOOLEAN, NEW e, Alternates(shown, s),
           IsMatch(e) => Cleared(shown, s)
    PROVE  Alternates(shown, Append(s, e))
<1> DEFINE t == Append(s, e)
<1>1. /\ Len(s) \in Nat /\ DOMAIN s = 1 .. Len(s) /\ DOMAIN t = 1 .. (Len(s) + 1)
      /\ \A i \in DOMAIN s : t[i] = s[i] /\ i \in DOMAIN t
      /\ t[Len(s) + 1] = e
    BY EndOf
<1> HIDE DEF t
<1>2. \A i \in DOMAIN t : i \in DOMAIN s \/ i = Len(s) + 1
    BY <1>1
<1>3. \A j \in DOMAIN s, i \in DOMAIN t : i < j => i \in DOMAIN s
    BY <1>1
<1>4. \A i \in DOMAIN s : i < Len(s) + 1
    BY <1>1
<1>5. ASSUME NEW j \in DOMAIN s, IsMatch(t[j])
      PROVE  /\ shown => \E k \in DOMAIN t : k < j /\ Clears(t[k])
             /\ \A i \in DOMAIN t : i < j /\ IsMatch(t[i])
                    => \E k \in DOMAIN t : i < k /\ k < j /\ Clears(t[k])
    BY <1>1, <1>3, <1>5 DEF Alternates
<1>6. ASSUME IsMatch(e)
      PROVE  /\ shown => \E k \in DOMAIN t : k < Len(s) + 1 /\ Clears(t[k])
             /\ \A i \in DOMAIN t : i < Len(s) + 1 /\ IsMatch(t[i])
                    => \E k \in DOMAIN t : i < k /\ k < Len(s) + 1 /\ Clears(t[k])
    BY <1>1, <1>4, <1>6 DEF Cleared
<1> QED
    BY <1>1, <1>2, <1>5, <1>6 DEF Alternates, t

LEMMA ClearedEnd ==
    ASSUME NEW S, NEW s \in Seq(S), NEW shown \in BOOLEAN, NEW e,
           ~IsMatch(e), Clears(e) \/ Cleared(shown, s)
    PROVE  Cleared(shown, Append(s, e))
<1> DEFINE t == Append(s, e)
<1>1. /\ Len(s) \in Nat /\ DOMAIN s = 1 .. Len(s) /\ DOMAIN t = 1 .. (Len(s) + 1)
      /\ \A i \in DOMAIN s : t[i] = s[i] /\ i \in DOMAIN t
      /\ t[Len(s) + 1] = e
    BY EndOf
<1> HIDE DEF t
<1>2. \A i \in DOMAIN t : IsMatch(t[i]) => i \in DOMAIN s
    BY <1>1
<1>3. CASE Clears(e)
    BY <1>1, <1>2, <1>3 DEF Cleared, t
<1>4. CASE Cleared(shown, s)
    BY <1>1, <1>2, <1>4 DEF Cleared, t
<1> QED
    BY <1>3, <1>4

LEMMA NumberedTail ==
    ASSUME NEW S, NEW s \in Seq(S), s # <<>>, NEW f \in Nat, NEW a \in Nat, NEW g \in {f, f + 1},
           Numbered(f, a, s), g = f \/ IsMatch(Head(s))
    PROVE  Numbered(g, a, Tail(s))
<1> DEFINE t == Tail(s)
<1>1. /\ DOMAIN s = 1 .. Len(s) /\ DOMAIN t = 1 .. (Len(s) - 1) /\ Len(s) \in Nat
      /\ \A i \in DOMAIN t : t[i] = s[i + 1] /\ i + 1 \in DOMAIN s /\ 1 < i + 1
      /\ Head(s) = s[1] /\ 1 \in DOMAIN s
    BY TailOf
<1> HIDE DEF t
<1>2. PICK n \in [DOMAIN s -> f .. a] : Numbers(n, f, s)
    BY DEF Numbered
<1> DEFINE m == [i \in DOMAIN t |-> IF IsMatch(t[i]) THEN n[i + 1] ELSE a]
<1>3. f <= a /\ n[1] \in f .. a /\ (g # f => f < n[1])
    BY <1>1, <1>2 DEF Numbered, Numbers
<1>4. g <= a
    BY <1>3
<1>5. ASSUME NEW j \in DOMAIN t, IsMatch(t[j])
      PROVE  n[j + 1] \in f .. a /\ g < n[j + 1]
    <2>1. j + 1 \in DOMAIN s /\ IsMatch(s[j + 1]) /\ 1 < j + 1
        BY <1>1, <1>5
    <2>2. n[j + 1] \in f .. a /\ f < n[j + 1]
        BY <1>2, <2>1 DEF Numbers
    <2>3. g # f => n[1] < n[j + 1]
        BY <1>1, <1>2, <2>1 DEF Numbers
    <2> QED
        BY <1>3, <2>2, <2>3
<1>6. m \in [DOMAIN t -> g .. a]
    BY <1>4, <1>5
<1>7. Numbers(m, g, t)
    <2> SUFFICES ASSUME NEW j \in DOMAIN t, IsMatch(t[j])
                 PROVE  g < m[j] /\ \A i \in DOMAIN t : i < j /\ IsMatch(t[i]) => m[i] < m[j]
        BY DEF Numbers
    <2>1. ASSUME NEW i \in DOMAIN t, i < j, IsMatch(t[i]) PROVE n[i + 1] < n[j + 1]
        <3>1. i + 1 < j + 1
            BY <1>1, <2>1
        <3> QED
            BY <1>1, <1>2, <2>1, <3>1 DEF Numbers
    <2> QED
        BY <1>5, <2>1
<1> QED
    BY <1>4, <1>6, <1>7 DEF Numbered, t

LEMMA NumberedEnd ==
    ASSUME NEW S, NEW s \in Seq(S), NEW f \in Nat, NEW a \in Nat, NEW b \in {a, a + 1}, NEW e,
           Numbered(f, a, s), IsMatch(e) => b = a + 1
    PROVE  Numbered(f, b, Append(s, e))
<1> DEFINE t == Append(s, e)
<1>1. /\ Len(s) \in Nat /\ DOMAIN s = 1 .. Len(s) /\ DOMAIN t = 1 .. (Len(s) + 1)
      /\ \A i \in DOMAIN s : t[i] = s[i] /\ i \in DOMAIN t
      /\ t[Len(s) + 1] = e
    BY EndOf
<1> HIDE DEF t
<1>2. PICK n \in [DOMAIN s -> f .. a] : Numbers(n, f, s)
    BY DEF Numbered
<1> DEFINE m == [i \in DOMAIN t |-> IF i \in DOMAIN s THEN n[i] ELSE b]
<1>3. f <= a /\ f <= b /\ m \in [DOMAIN t -> f .. b]
    BY <1>2 DEF Numbered
<1>4. Numbers(m, f, t)
    <2> SUFFICES ASSUME NEW j \in DOMAIN t, IsMatch(t[j])
                 PROVE  f < m[j] /\ \A i \in DOMAIN t : i < j /\ IsMatch(t[i]) => m[i] < m[j]
        BY DEF Numbers
    <2>1. CASE j \in DOMAIN s
        <3>1. \A i \in DOMAIN t : i < j => i \in DOMAIN s
            BY <1>1, <2>1
        <3> QED
            BY <1>1, <1>2, <2>1, <3>1 DEF Numbers
    <2>2. CASE j \notin DOMAIN s
        <3>1. j = Len(s) + 1 /\ b = a + 1 /\ m[j] = b
            BY <1>1, <2>2
        <3>2. \A i \in DOMAIN t : i < j => i \in DOMAIN s /\ n[i] \in f .. a
            BY <1>1, <1>2, <3>1
        <3> QED
            BY <1>3, <3>1, <3>2
    <2> QED
        BY <2>1, <2>2
<1> QED
    BY <1>3, <1>4 DEF Numbered, t

LEMMA NumberedLater ==
    ASSUME NEW s, NEW f \in Nat, NEW a \in Nat, Numbered(f, a, s)
    PROVE  Numbered(f, a + 1, s)
<1>1. f .. a \subseteq f .. (a + 1) /\ f <= a + 1
    BY DEF Numbered
<1>2. PICK n \in [DOMAIN s -> f .. a] : Numbers(n, f, s)
    BY DEF Numbered
<1>3. n \in [DOMAIN s -> f .. (a + 1)]
    BY <1>1, <1>2
<1> QED
    BY <1>1, <1>2, <1>3 DEF Numbered

-----------------------------------------------------------------------------
(* A match on screen.  It was counted when it came and its watch is set:    *)
(* the watches suffice because no match follows another unannounced, and    *)
(* the server has made as many as there are on the way.                     *)

MatchShown == matchmaking.is = "matchFound"

MatchInv ==
    /\ acts \in 0 .. MaxActs /\ found \in Nat
    /\ Alternates(MatchShown, updates)
    /\ Connected /\ port.is # "matchFound" => Cleared(MatchShown, updates)
    /\ session = "off" => ~MatchShown
    /\ Numbered(found, acts, updates)
    /\ MatchShown => found \in Matches /\ MatchIsEnded

LEMMA InitMatch == MatchmakingInit => PortIsServer /\ MatchInv
<1> SUFFICES ASSUME MatchmakingInit PROVE PortIsServer /\ MatchInv
    OBVIOUS
<1>1. MaxActs \in Nat /\ updates = <<>> /\ found = 0 /\ acts = 0 /\ ~MatchShown /\ session = "up"
    BY MatchmakingAssumption, NotLookingIdle DEF MatchmakingInit, MatchShown
<1>2. DOMAIN updates = {}
    BY <1>1
<1>3. Numbered(found, acts, updates)
    <2>1. [i \in {} |-> 0] \in [DOMAIN updates -> found .. acts]
        BY <1>2
    <2>2. Numbers([i \in {} |-> 0], found, updates)
        BY <1>2 DEF Numbers
    <2>3. found <= acts
        BY <1>1
    <2> QED
        BY <2>1, <2>2, <2>3 DEF Numbered
<1>4. MatchInv
    <2>1. Alternates(MatchShown, updates) /\ Cleared(MatchShown, updates)
        BY <1>1, <1>2 DEF Alternates, Cleared
    <2> QED
        BY <1>1, <1>3, <2>1 DEF MatchInv
<1>5. PortIsServer
    BY <1>1, NotLookingIdle DEF MatchmakingInit, PortIsServer
<1> QED
    BY <1>4, <1>5

LEMMA ShownIsBoolean == MatchShown \in BOOLEAN /\ MatchShown' \in BOOLEAN
BY DEF MatchShown

(* A step off the channel: the match stays as it was or leaves the screen.  *)
LEMMA MatchStays ==
    ASSUME MatchInv, UNCHANGED <<updates, found, acts>>,
           Connected' => Connected /\ (port'.is # "matchFound" => port.is # "matchFound"),
           session' = "off" => session = "off" \/ ~MatchShown',
           MatchShown' => matchmaking' = matchmaking,
           MatchShown' /\ found \in Matches /\ watch[found].at # "off"
                       /\ watch[found].queues = matchmaking.queues
               => watch'[found].at # "off" /\ watch'[found].queues = watch[found].queues
    PROVE  MatchInv'
<1>1. MatchShown' => MatchShown
    BY DEF MatchShown
<1>2. Alternates(MatchShown, updates)'
    BY <1>1 DEF MatchInv, Alternates
<1>3. (Connected /\ port.is # "matchFound" => Cleared(MatchShown, updates))'
    BY <1>1 DEF MatchInv, Cleared
<1>4. (MatchShown => found \in Matches /\ MatchIsEnded)'
    BY <1>1 DEF MatchInv, MatchIsEnded, MatchShown
<1> QED
    BY <1>1, <1>2, <1>3, <1>4 DEF MatchInv

(* A message of the port's joins the channel.                               *)
LEMMA MatchSaid ==
    ASSUME PortTypes, MatchInv, NEW e, updates' = Append(updates, e),
           UNCHANGED <<matchmaking, found, watch>>, acts' \in 0 .. MaxActs, acts' \in {acts, acts + 1},
           IsMatch(e) => acts' = acts + 1 /\ Connected /\ port.is # "matchFound",
           Connected' /\ port'.is # "matchFound" =>
               ~IsMatch(e) /\ (Clears(e) \/ (Connected /\ port.is # "matchFound")),
           session' # "off"
    PROVE  MatchInv'
<1> USE DEF MatchInv
<1>1. updates \in Seq(PortUpdates) /\ MatchShown' = MatchShown /\ MatchShown \in BOOLEAN
    BY DEF PortTypes, MatchShown
<1>2. Alternates(MatchShown, Append(updates, e))
    BY <1>1, AlternatesEnd
<1>3. Connected' /\ port'.is # "matchFound" => Cleared(MatchShown, Append(updates, e))
    BY <1>1, ClearedEnd
<1>4. Numbered(found, acts', Append(updates, e))
    BY <1>1, NumberedEnd
<1> QED
    BY <1>1, <1>2, <1>3, <1>4 DEF MatchIsEnded

(* The slice takes a message; a match taken over none on screen is counted. *)
LEMMA MatchTaken ==
    ASSUME PortTypes, MatchInv, updates # <<>>, updates' = Tail(updates),
           UNCHANGED <<acts, port, session>>, session # "off", found' \in {found, found + 1},
           found' = found \/ IsMatch(Head(updates)),
           MatchShown' => IsMatch(Head(updates)) \/ (MatchShown /\ ~Clears(Head(updates))),
           Numbered(found', acts, Tail(updates)) /\ MatchShown'
               => (found \in Matches /\ MatchIsEnded)'
    PROVE  MatchInv'
<1> USE DEF MatchInv
<1>1. updates \in Seq(PortUpdates) /\ MatchShown' \in BOOLEAN /\ MatchShown \in BOOLEAN
    BY DEF PortTypes, MatchShown
<1>2. Alternates(MatchShown', Tail(updates))
    BY <1>1, AlternatesTail
<1>3. Connected /\ port.is # "matchFound" => Cleared(MatchShown', Tail(updates))
    BY <1>1, ClearedTail
<1>4. Numbered(found', acts, Tail(updates))
    BY <1>1, NumberedTail
<1> QED
    BY <1>1, <1>2, <1>3, <1>4 DEF Connected

LEMMA OnMatchmakingMatch ==
    ASSUME PortTypes, PanelInv, MatchInv, OnMatchmaking
    PROVE  MatchInv'
<1> DEFINE state == Head(updates).state
           opens == state.is = "matchFound" /\ ~MatchShown
<1>1. /\ updates # <<>> /\ updates' = Tail(updates) /\ session # "off"
      /\ Head(updates).what = "matchmaking" /\ matchmaking' = state
      /\ UNCHANGED <<acts, port, session>>
    BY DEF OnMatchmaking, Take, ShowMatchmaking, serverVars
<1>2. IF opens THEN /\ found' = found + 1
                    /\ watch' = [watch EXCEPT ![found + 1] = [at |-> "armed",
                                                              queues |-> state.queues]]
               ELSE UNCHANGED <<found, watch>>
    BY DEF OnMatchmaking, matchVars, MatchShown
<1>3. state.is = "matchFound" <=> IsMatch(Head(updates))
    BY <1>1 DEF IsMatch
<1>4. MatchShown' <=> IsMatch(Head(updates))
    BY <1>1, <1>3 DEF MatchShown
<1>5. IsMatch(Head(updates)) => ~MatchShown
    <2>1. updates \in Seq(PortUpdates)
        BY DEF PortTypes
    <2>2. Head(updates) = updates[1] /\ 1 \in DOMAIN updates /\ \A k \in DOMAIN updates : ~(k < 1)
        BY <1>1, <2>1
    <2> QED
        BY <2>2 DEF MatchInv, Alternates
<1>6. ASSUME Numbered(found', acts, Tail(updates)), MatchShown' PROVE (found \in Matches /\ MatchIsEnded)'
    <2>1. opens
        BY <1>3, <1>4, <1>5, <1>6
    <2>2. found' \in Matches
        BY <1>2, <1>6, <2>1, MatchmakingAssumption DEF MatchInv, Numbered, Matches
    <2>3. watch'[found'] = [at |-> "armed", queues |-> state.queues]
        BY <1>2, <2>1, <2>2 DEF PanelInv, SliceTypes
    <2> QED
        BY <1>1, <2>2, <2>3 DEF MatchIsEnded
<1> HIDE DEF state, opens
<1>7. found' \in {found, found + 1} /\ (found' = found \/ IsMatch(Head(updates)))
    BY <1>2, <1>3 DEF opens
<1> QED
    BY <1>1, <1>4, <1>6, <1>7, MatchTaken

LEMMA MatchTimerMatch ==
    ASSUME PanelInv, MatchInv, NEW m \in Matches, MatchTimer(m)
    PROVE  MatchInv'
<1>1. watch \in [Matches -> WatchRecords]
    BY DEF PanelInv, SliceTypes
<1>2. CASE MatchTimerReads(m)
    <2>1. UNCHANGED <<matchmaking, updates, found, acts, port, session>>
        BY <1>2 DEF MatchTimerReads, sliceVars, channelVars, serverVars
    <2>2. ASSUME MatchShown, found \in Matches, watch[found].at # "off",
                 watch[found].queues = matchmaking.queues
          PROVE  watch'[found].at # "off" /\ watch'[found].queues = watch[found].queues
        <3>1. CASE m = found
            <4>1. matchmaking = MatchmakingState("matchFound", watch[m].queues)
                BY <2>2, <3>1 DEF MatchShown, MatchmakingState, PanelInv, SliceTypes,
                                  MatchmakingStates
            <4>2. watch' = [watch EXCEPT ![m] = [@ EXCEPT !.at = "fires"]]
                BY <1>2, <3>1, <4>1 DEF MatchTimerReads, StillWaiting
            <4>3. watch'[m] = [watch[m] EXCEPT !.at = "fires"] /\ watch[m] \in WatchRecords
                BY <1>1, <4>2
            <4> QED
                BY <3>1, <4>3 DEF WatchRecords
        <3>2. CASE m # found
            BY <1>1, <1>2, <2>2, <3>2 DEF MatchTimerReads
        <3> QED
            BY <3>1, <3>2
    <2>3. MatchShown' <=> MatchShown
        BY <2>1 DEF MatchShown
    <2>4. Connected' <=> Connected
        BY <2>1 DEF Connected
    <2> QED
        BY <2>1, <2>2, <2>3, <2>4, MatchStays DEF MatchInv
<1>3. CASE MatchTimerFires(m)
    <2>1. UNCHANGED <<updates, found, acts, port, session>> /\ ~MatchShown'
        BY <1>3 DEF MatchTimerFires, channelVars, serverVars, ShowMatchmaking, MatchShown,
                    MatchmakingState
    <2> QED
        BY <2>1, MatchStays DEF Connected
<1> QED
    BY <1>2, <1>3 DEF MatchTimer

LEMMA MatchCounted ==
    ASSUME MatchInv, UNCHANGED <<updates, matchmaking, found, watch, port, session>>,
           acts' \in 0 .. MaxActs, acts' = acts + 1
    PROVE  MatchInv'
<1>1. Numbered(found, acts + 1, updates)
    BY NumberedLater DEF MatchInv
<1> QED
    BY <1>1 DEF MatchInv, MatchShown, Connected, MatchIsEnded

LEMMA MatchPublished ==
    ASSUME PortTypes, MatchInv, NEW state \in PortStates, Publish(state), session = "up",
           UNCHANGED <<matchmaking, found, watch, session>>,
           acts' \in 0 .. MaxActs, acts' \in {acts, acts + 1},
           state.is = "matchFound" => acts' = acts + 1 /\ port.is # "matchFound"
    PROVE  MatchInv'
<1>1. updates' = Append(updates, Says(state)) /\ port' = state
    BY DEF Publish
<1>2. /\ IsMatch(Says(state)) <=> state.is = "matchFound"
      /\ Clears(Says(state)) <=> state.is # "matchFound"
    BY DEF IsMatch, Clears, Says, Update
<1> QED
    BY <1>1, <1>2, MatchSaid DEF Connected

LEMMA SearchInfoSays ==
    ASSUME PortTypes, NEW q \in Queues, NEW searching \in BOOLEAN, SearchInfo(q, searching)
    PROVE  \/ UNCHANGED <<port, updates>>
           \/ \E state \in PortStates : state.is \in {"idle", "searching"} /\ Publish(state)
<1> DEFINE state == UpdatedSearch(port, q, searching)
<1>1. state = port \/ (state \in PortStates /\ state.is \in {"idle", "searching"})
    BY NotLookingIdle DEF UpdatedSearch, PortTypes, PortStates, MatchmakingState
<1> QED
    BY <1>1 DEF SearchInfo

(* What the port's steps leave alone on this side.                          *)
LEMMA PortSteps ==
    ASSUME PortTypes, PortIsServer, MatchInv, PortStep
    PROVE  MatchInv'
<1> USE DEF sliceVars, matchVars
<1>0. acts \in Nat /\ acts \in 0 .. MaxActs /\ MaxActs \in Nat
    BY MatchmakingAssumption DEF MatchInv
<1>1. ASSUME NEW state \in PortStates, Publish(state), session = "up", UNCHANGED acts,
             UNCHANGED <<matchmaking, found, watch, session>>, state.is # "matchFound"
      PROVE  MatchInv'
    BY <1>0, <1>1, MatchPublished
<1>2. ASSUME UNCHANGED <<updates, matchmaking, found, watch, port, session, acts>>
      PROVE  MatchInv'
    BY <1>2, MatchStays DEF Connected, MatchShown
<1>3. ASSUME NEW q \in Queues, NEW searching \in BOOLEAN, SearchInfo(q, searching),
             session = "up", UNCHANGED <<matchmaking, found, watch, session, acts>>
      PROVE  MatchInv'
    BY <1>1, <1>2, <1>3, SearchInfoSays
<1>4. ASSUME NEW what \in {"start", "stop", "ended"}, FrameGoes(what)
      PROVE  session = "up" /\ Head(frames) \in PortFrames
    BY <1>4 DEF FrameGoes, Room, PortTypes
<1>5. CASE StartArrives
    <2>1. Head(frames).queue \in Queues /\ session = "up"
        BY <1>4, <1>5 DEF StartArrives, FrameGoes, PortFrames, Frame
    <2> QED
        BY <1>2, <1>3, <1>5, <2>1 DEF StartArrives
<1>6. CASE StopArrives
    <2>1. Head(frames).queue \in Queues /\ session = "up"
        BY <1>4, <1>6 DEF StopArrives, FrameGoes, PortFrames, Frame
    <2> QED
        BY <1>2, <1>3, <1>6, <2>1 DEF StopArrives
<1>7. CASE EndedGoes
    BY <1>1, <1>2, <1>4, <1>7, NotLookingIdle DEF EndedGoes
<1>8. ASSUME NEW q \in Queues, LeaderStarts(q) PROVE MatchInv'
    <2>0. session = "up" /\ acts' = acts + 1 /\ acts < MaxActs /\ SearchInfo(q, TRUE)
        BY <1>8, Zenon DEF LeaderStarts, Room
    <2>1. acts' \in 0 .. MaxActs /\ UNCHANGED <<matchmaking, found, watch, session>>
        BY <1>0, <1>8, <2>0 DEF LeaderStarts
    <2>2. CASE UNCHANGED <<port, updates>>
        BY <2>0, <2>1, <2>2, MatchCounted
    <2>3. ASSUME NEW state \in PortStates, state.is \in {"idle", "searching"}, Publish(state)
          PROVE  MatchInv'
        BY <2>0, <2>1, <2>3, MatchPublished
    <2> QED
        BY <2>0, <2>2, <2>3, SearchInfoSays
<1>9. ASSUME NEW q \in Queues, MatchFound(q) PROVE MatchInv'
    <2>1. /\ session = "up" /\ acts' = acts + 1 /\ acts' \in 0 .. MaxActs
          /\ Publish(MatchmakingState("matchFound", {q}))
          /\ UNCHANGED <<matchmaking, found, watch, session>>
        BY <1>0, <1>9 DEF MatchFound, Room
    <2>2. port.is # "matchFound" /\ MatchmakingState("matchFound", {q}) \in PortStates
        BY <1>9 DEF MatchFound, PortIsServer, MatchmakingState, PortStates
    <2> QED
        BY <2>1, <2>2, MatchPublished
<1>10. ASSUME NEW q \in Queues, LateStop(q) PROVE MatchInv'
    BY <1>3, <1>10 DEF LateStop, Room
<1>11. CASE GameLaunch
    <2> DEFINE state == MatchmakingState("launching", MatchedQueues)
    <2>1. state.is # "matchFound" /\ state \in PortStates
        BY MatchedTyped DEF MatchmakingState, PortStates
    <2>2. /\ session = "up" /\ UNCHANGED <<matchmaking, found, watch, session, acts>>
          /\ updates \in Seq(PortUpdates) /\ Tells("launch") \in PortUpdates
          /\ Says(state) \in PortUpdates
        BY <1>11, <2>1, TellTyped, SayTyped DEF GameLaunch, Room, PortTypes
    <2>3. ~IsMatch(Tells("launch")) /\ ~IsMatch(Says(state)) /\ Clears(Says(state))
        BY <2>1 DEF IsMatch, Clears, Tells, Says, Update
    <2>4. CASE MatchedQueues # {}
        <3> DEFINE s == Append(updates, Says(state))
        <3>1. s \in Seq(PortUpdates) /\ updates' = Append(s, Tells("launch"))
            BY <1>11, <2>2, <2>4 DEF GameLaunch
        <3>2. MatchShown' = MatchShown /\ MatchShown \in BOOLEAN
            BY <2>2 DEF MatchShown
        <3>3. Alternates(MatchShown, s) /\ Cleared(MatchShown, s) /\ Numbered(found, acts, s)
            BY <2>2, <2>3, <3>2, <1>0, AlternatesEnd, ClearedEnd, NumberedEnd DEF MatchInv
        <3> HIDE DEF s
        <3>4. /\ Alternates(MatchShown, updates') /\ Cleared(MatchShown, updates')
              /\ Numbered(found, acts, updates')
            BY <1>0, <2>3, <3>1, <3>2, <3>3, AlternatesEnd, ClearedEnd, NumberedEnd DEF MatchInv
        <3> QED
            BY <2>2, <3>2, <3>4 DEF MatchInv, MatchIsEnded
    <2>5. CASE MatchedQueues = {}
        <3>1. updates' = Append(updates, Tells("launch")) /\ port' = port
            BY <1>11, <2>5 DEF GameLaunch
        <3>2. Connected /\ Connected'
            BY <2>2 DEF Connected
        <3> QED
            BY <1>0, <2>2, <2>3, <3>1, <3>2, MatchSaid
    <2> QED
        BY <2>4, <2>5
<1>12. CASE MatchOver
    <2>1. MatchmakingState("cancelled", MatchedQueues) \in PortStates
        BY MatchedTyped DEF MatchmakingState, PortStates
    <2> QED
        BY <1>1, <1>2, <1>12, <2>1 DEF MatchOver, Room, MatchmakingState
<1>13. CASE DropSocket
    <2>1. Clears(Tells("reconnecting")) /\ ~IsMatch(Tells("reconnecting"))
        BY DEF Clears, IsMatch, Tells, Update
    <2> QED
        BY <1>0, <1>13, <2>1, MatchSaid DEF DropSocket, Room, Connected
<1>14. CASE Welcome
    <2>1. ~IsMatch(Tells("authenticated"))
        BY DEF IsMatch, Tells, Update
    <2> QED
        BY <1>0, <1>14, <2>1, MatchSaid DEF Welcome, Connected, serverVars
<1>15. CASE GiveUp \/ UserHangsUp
    <2>1. /\ UNCHANGED <<updates, found, acts, watch>> /\ ~Connected' /\ session' = "closed"
          /\ MatchShown' => matchmaking' = matchmaking
        BY <1>15, NotLookingIdle
        DEF GiveUp, UserHangsUp, Connected, ShowMatchmaking, AfterLaunch, MatchShown
    <2> QED
        BY <2>1, MatchStays
<1>16. CASE UserConnects
    <2>1. /\ UNCHANGED <<updates, found, acts, watch>> /\ session' = "down" /\ updates = <<>>
          /\ ~MatchShown'
        BY <1>16, NotLookingIdle
        DEF UserConnects, PortIsServer, MatchInv, ShowMatchmaking, AfterConnecting, MatchShown,
            channelVars, serverVars
    <2>2. Cleared(MatchShown, updates)'
        BY <2>1 DEF Cleared
    <2>3. Alternates(MatchShown, updates)'
        BY <2>1 DEF Alternates
    <2> QED
        BY <2>1, <2>2, <2>3 DEF MatchInv
<1> QED
    BY <1>5, <1>6, <1>7, <1>8, <1>9, <1>10, <1>11, <1>12, <1>13, <1>14, <1>15, <1>16, PortStep
    DEF PortStep

LEMMA MatchKept ==
    ASSUME PortTypes, PanelInv, PortIsServer, MatchInv, [MatchmakingNext]_mmVars
    PROVE  MatchInv'
<1> USE DEF sliceVars, matchVars, channelVars, serverVars
(* A step of the client's own.                                              *)
<1>1. ASSUME UNCHANGED <<updates, found, watch, acts, port, session>>,
             MatchShown' => matchmaking' = matchmaking
      PROVE  MatchInv'
    BY <1>1, MatchStays DEF Connected
<1>2. ASSUME NEW names \in SUBSET Queues, StartSearch(names) PROVE MatchInv'
    BY <1>1, <1>2 DEF StartSearch
<1>3. ASSUME NEW a \in Tries, SearchStep(a) PROVE MatchInv'
    BY <1>1, <1>3, NotLookingIdle
    DEF SearchStep, AnnounceSearch, CheckSearch, SubmitSearch, FailSearch, SearchTimerReads,
        SearchTimerFires, ShowMatchmaking, MatchShown, MatchmakingState
<1>4. CASE StopReads \/ StopActs
    BY <1>1, <1>4, NotLookingIdle DEF StopReads, StopActs, ShowMatchmaking, MatchShown
<1>5. ASSUME NEW m \in Matches, MatchTimer(m) PROVE MatchInv'
    BY <1>5, MatchTimerMatch
<1>6. CASE GameStep
    BY <1>1, <1>6, NotLookingIdle
    DEF GameStep, ShowPreparing, ShowInGameMatch, Leaves, Left, UserEndsMatch, ShowMatchmaking,
        AfterGame, AfterLaunch, MatchShown
<1>7. CASE UpdateStep
    <2>1. CASE OnMatchmaking
        BY <2>1, OnMatchmakingMatch
    <2>2. ASSUME updates # <<>>, updates' = Tail(updates), session # "off", ~IsMatch(Head(updates)),
                 UNCHANGED <<found, watch, acts, port, session>>,
                 MatchShown' => matchmaking' = matchmaking /\ ~Clears(Head(updates))
          PROVE  MatchInv'
        <3>1. (MatchShown' => MatchShown) /\ found \in Nat
            BY <2>2 DEF MatchShown, MatchInv
        <3>2. MatchShown' => (found \in Matches /\ MatchIsEnded)'
            BY <2>2, <3>1 DEF MatchInv, MatchIsEnded, MatchShown
        <3> QED
            BY <2>2, <3>1, <3>2, MatchTaken
    <2>3. CASE OnLaunchOrder \/ OnAuthenticated
        BY <2>2, <2>3 DEF OnLaunchOrder, OnAuthenticated, Take, IsMatch, Clears
    <2>4. CASE OnReconnecting
        BY <2>2, <2>4, NotLookingIdle
        DEF OnReconnecting, Take, IsMatch, ShowMatchmaking, AfterConnecting, MatchShown
    <2>5. CASE EndConnection
        <3>1. ~MatchShown' /\ UNCHANGED <<updates, found, watch, acts, port>> /\ ~Connected'
            BY <2>5, NotLookingIdle
            DEF EndConnection, ShowMatchmaking, AfterConnecting, MatchShown, Connected
        <3> QED
            BY <3>1, MatchStays
    <2> QED
        BY <1>7, <2>1, <2>3, <2>4, <2>5 DEF UpdateStep
<1>8. CASE PortStep
    BY <1>8, PortSteps
<1>9. CASE UNCHANGED mmVars
    BY <1>1, <1>9 DEF mmVars
<1> QED
    BY <1>2, <1>3, <1>4, <1>5, <1>6, <1>7, <1>8, <1>9 DEF MatchmakingNext

THEOREM SearchInvariant ==
    MatchmakingSpec => [](PortTypes /\ PanelInv /\ PortIsServer /\ MatchInv)
<1>1. (PortTypes /\ PanelInv /\ PortIsServer /\ MatchInv) /\ [MatchmakingNext]_mmVars
          => (PortTypes /\ PanelInv /\ PortIsServer /\ MatchInv)'
    BY PortKept, PanelKept, PortServerKept, MatchKept
<1> QED
    BY <1>1, InitPanel, InitMatch, PTL DEF MatchmakingSpec

(* A panel that waits has what ends the wait: the preparation, or the timer *)
(* of this search or of this match, for any queues and bounds.              *)
THEOREM WaitsEnd == MatchmakingSpec => []WaitIsEnded
<1>1. PanelInv /\ MatchInv => WaitIsEnded
    BY DEF PanelInv, PreparedIsKnown, PreparingIsEnded, MatchInv, MatchShown, MatchIsEnded,
           WaitIsEnded
<1> QED
    BY <1>1, SearchInvariant, PTL

-----------------------------------------------------------------------------
(* What the panel is told.  The last message on the way that touches the    *)
(* search leaves the panel with the port's copy; a launch on the way has    *)
(* its order behind it.                                                     *)

Telling(e) == e.what \in {"matchmaking", "reconnecting"}
Agrees(e, state) == IF e.what = "reconnecting" THEN state = NotLooking ELSE e.state = state
Quiet(s) == \A i \in DOMAIN s : ~Telling(s[i])
LastIs(s, state) ==
    \A i \in DOMAIN s :
        Telling(s[i]) /\ (\A k \in DOMAIN s : i < k => ~Telling(s[k])) => Agrees(s[i], state)

ShowsLaunch(e) == e.what = "matchmaking" /\ e.state.is = "launching"
LaunchComes(s) == \E k \in DOMAIN s : s[k].what = "launch"
LaunchFollows(s) ==
    \A i \in DOMAIN s : ShowsLaunch(s[i]) => \E k \in DOMAIN s : i < k /\ s[k].what = "launch"

LEMMA LastTail ==
    ASSUME NEW S, NEW s \in Seq(S), s # <<>>, NEW state, LastIs(s, state)
    PROVE  /\ LastIs(Tail(s), state)
           /\ Quiet(Tail(s)) => IF Telling(Head(s)) THEN Agrees(Head(s), state) ELSE Quiet(s)
<1> DEFINE t == Tail(s)
<1>1. /\ DOMAIN s = 1 .. Len(s) /\ DOMAIN t = 1 .. (Len(s) - 1) /\ Len(s) \in Nat
      /\ \A i \in DOMAIN t : t[i] = s[i + 1] /\ i + 1 \in DOMAIN s
      /\ \A j \in DOMAIN s : j = 1 \/ (j - 1 \in DOMAIN t /\ t[j - 1] = s[j])
      /\ Head(s) = s[1] /\ 1 \in DOMAIN s
    BY TailOf
<1> HIDE DEF t
<1>2. ASSUME NEW i \in DOMAIN t, Telling(t[i]), \A k \in DOMAIN t : i < k => ~Telling(t[k])
      PROVE  Agrees(t[i], state)
    <2>1. ASSUME NEW k \in DOMAIN s, i + 1 < k PROVE ~Telling(s[k])
        <3>1. k - 1 \in DOMAIN t /\ t[k - 1] = s[k] /\ i < k - 1
            BY <1>1, <2>1
        <3> QED
            BY <1>2, <3>1
    <2> QED
        BY <1>1, <1>2, <2>1 DEF LastIs
<1>3. ASSUME Quiet(t) PROVE \A k \in DOMAIN s : 1 < k => ~Telling(s[k])
    BY <1>1, <1>3 DEF Quiet
<1>4. ASSUME Quiet(t) PROVE IF Telling(Head(s)) THEN Agrees(Head(s), state) ELSE Quiet(s)
    <2>1. CASE Telling(Head(s))
        BY <1>1, <1>3, <1>4, <2>1 DEF LastIs
    <2>2. CASE ~Telling(Head(s))
        BY <1>1, <1>3, <1>4, <2>2 DEF Quiet
    <2> QED
        BY <2>1, <2>2
<1> QED
    BY <1>2, <1>4 DEF LastIs, t

LEMMA LastEnd ==
    ASSUME NEW S, NEW s \in Seq(S), NEW state, NEW e,
           IF Telling(e) THEN Agrees(e, state) ELSE LastIs(s, state)
    PROVE  /\ LastIs(Append(s, e), state)
           /\ Quiet(Append(s, e)) => Quiet(s) /\ ~Telling(e)
<1> DEFINE t == Append(s, e)
<1>1. /\ Len(s) \in Nat /\ DOMAIN s = 1 .. Len(s) /\ DOMAIN t = 1 .. (Len(s) + 1)
      /\ \A i \in DOMAIN s : t[i] = s[i] /\ i \in DOMAIN t
      /\ t[Len(s) + 1] = e
    BY EndOf
<1> HIDE DEF t
<1>2. Len(s) + 1 \in DOMAIN t /\ \A i \in DOMAIN t : i \in DOMAIN s \/ i = Len(s) + 1
    BY <1>1
<1>3. \A i \in DOMAIN s : i < Len(s) + 1
    BY <1>1
<1>4. LastIs(t, state)
    <2>1. CASE Telling(e)
        BY <1>1, <1>2, <1>3, <2>1 DEF LastIs
    <2>2. CASE ~Telling(e)
        BY <1>1, <1>2, <2>2 DEF LastIs
    <2> QED
        BY <2>1, <2>2
<1>5. Quiet(t) => Quiet(s) /\ ~Telling(e)
    BY <1>1, <1>2 DEF Quiet
<1> QED
    BY <1>4, <1>5 DEF t

LEMMA LaunchTail ==
    ASSUME NEW S, NEW s \in Seq(S), s # <<>>, LaunchFollows(s)
    PROVE  /\ LaunchFollows(Tail(s))
           /\ ShowsLaunch(Head(s)) => LaunchComes(Tail(s))
           /\ LaunchComes(s) /\ Head(s).what # "launch" => LaunchComes(Tail(s))
<1> DEFINE t == Tail(s)
<1>1. /\ DOMAIN s = 1 .. Len(s) /\ DOMAIN t = 1 .. (Len(s) - 1) /\ Len(s) \in Nat
      /\ \A i \in DOMAIN t : t[i] = s[i + 1] /\ i + 1 \in DOMAIN s
      /\ \A j \in DOMAIN s : j = 1 \/ (j - 1 \in DOMAIN t /\ t[j - 1] = s[j])
      /\ Head(s) = s[1] /\ 1 \in DOMAIN s
    BY TailOf
<1> HIDE DEF t
<1>2. ASSUME NEW k \in DOMAIN s, 1 < k, s[k].what = "launch"
      PROVE  k - 1 \in DOMAIN t /\ t[k - 1].what = "launch"
    BY <1>1, <1>2
<1>3. ASSUME NEW i \in DOMAIN t, ShowsLaunch(t[i])
      PROVE  \E k \in DOMAIN t : i < k /\ t[k].what = "launch"
    <2>1. PICK k \in DOMAIN s : i + 1 < k /\ s[k].what = "launch"
        BY <1>1, <1>3 DEF LaunchFollows
    <2>2. 1 < k /\ i < k - 1
        BY <1>1, <2>1
    <2> QED
        BY <1>2, <2>1, <2>2
<1>4. ASSUME ShowsLaunch(Head(s)) PROVE LaunchComes(t)
    BY <1>1, <1>2, <1>4 DEF LaunchFollows, LaunchComes
<1>5. ASSUME LaunchComes(s), Head(s).what # "launch" PROVE LaunchComes(t)
    <2>1. PICK k \in DOMAIN s : s[k].what = "launch"
        BY <1>5 DEF LaunchComes
    <2>2. 1 < k
        BY <1>1, <1>5, <2>1
    <2> QED
        BY <1>2, <2>1, <2>2 DEF LaunchComes
<1> QED
    BY <1>3, <1>4, <1>5 DEF LaunchFollows, t

LEMMA LaunchEnd ==
    ASSUME NEW S, NEW s \in Seq(S), NEW e, ~ShowsLaunch(e), e.what = "launch" \/ LaunchFollows(s)
    PROVE  /\ LaunchFollows(Append(s, e))
           /\ LaunchComes(s) => LaunchComes(Append(s, e))
<1> DEFINE t == Append(s, e)
<1>1. /\ Len(s) \in Nat /\ DOMAIN s = 1 .. Len(s) /\ DOMAIN t = 1 .. (Len(s) + 1)
      /\ \A i \in DOMAIN s : t[i] = s[i] /\ i \in DOMAIN t
      /\ t[Len(s) + 1] = e
    BY EndOf
<1> HIDE DEF t
<1>2. Len(s) + 1 \in DOMAIN t /\ \A i \in DOMAIN t : i \in DOMAIN s \/ i = Len(s) + 1
    BY <1>1
<1>3. \A i \in DOMAIN s : i < Len(s) + 1
    BY <1>1
<1>4. LaunchFollows(t)
    BY <1>1, <1>2, <1>3 DEF LaunchFollows
<1> QED
    BY <1>1, <1>4 DEF LaunchComes, t

-----------------------------------------------------------------------------
(* Every step keeps the panel with what it was told.                        *)

PanelAgrees ==
    /\ matchmaking.is = "searching" \/ port.is = "searching" => matchmaking = port
    /\ matchmaking.is = "cancelled" /\ port.is = "matchFound" => watch[found].at = "off"

ToldInv ==
    Connected => /\ LastIs(updates, port)
                 /\ Quiet(updates) /\ ~crossed => PanelAgrees

LEMMA ToldStays ==
    ASSUME ToldInv, UNCHANGED <<updates, port, session, found>>, ~crossed' => ~crossed,
           ~crossed' => \/ matchmaking' = matchmaking
                        \/ matchmaking.is # "searching" /\ matchmaking'.is # "searching",
           ~crossed' /\ matchmaking'.is = "cancelled" =>
               \/ matchmaking' = matchmaking /\ (watch[found].at = "off" => watch'[found].at = "off")
               \/ watch'[found].at = "off"
    PROVE  ToldInv'
BY DEF ToldInv, Connected, PanelAgrees

LEMMA ToldPublished ==
    ASSUME PortTypes, NEW state \in PortStates, Publish(state)
    PROVE  ToldInv'
<1>1. Telling(Says(state)) /\ Agrees(Says(state), state)
    BY DEF Telling, Agrees, Says, Update
<1>2. LastIs(Append(updates, Says(state)), state) /\ ~Quiet(Append(updates, Says(state)))
    BY <1>1, LastEnd DEF PortTypes
<1> QED
    BY <1>2 DEF Publish, ToldInv

LEMMA ToldBesides ==
    ASSUME PortTypes, ToldInv, NEW e, ~Telling(e), updates' = Append(updates, e), Connected,
           UNCHANGED <<port, matchmaking, found, watch, crossed>>
    PROVE  ToldInv'
<1>1. LastIs(Append(updates, e), port) /\ (Quiet(Append(updates, e)) => Quiet(updates))
    BY LastEnd DEF PortTypes, ToldInv
<1> QED
    BY <1>1 DEF ToldInv, PanelAgrees

LEMMA ToldPort ==
    ASSUME PortTypes, PortIsServer, ToldInv, PortStep
    PROVE  ToldInv'
<1> USE DEF sliceVars, matchVars, historyVars
<1>1. ASSUME UNCHANGED <<updates, port, session, matchmaking, found, watch, crossed>>
      PROVE  ToldInv'
    BY <1>1, ToldStays
<1>2. ASSUME NEW q \in Queues, NEW searching \in BOOLEAN, SearchInfo(q, searching),
             UNCHANGED <<session, matchmaking, found, watch, crossed>>
      PROVE  ToldInv'
    BY <1>1, <1>2, SearchInfoSays, ToldPublished
<1>3. ASSUME NEW what \in {"start", "stop", "ended"}, FrameGoes(what)
      PROVE  Head(frames) \in PortFrames
    BY <1>3 DEF FrameGoes, PortTypes
<1>4. CASE StartArrives
    <2>1. Head(frames).queue \in Queues
        BY <1>3, <1>4 DEF StartArrives, FrameGoes, PortFrames, Frame
    <2> QED
        BY <1>1, <1>2, <1>4, <2>1 DEF StartArrives
<1>5. CASE StopArrives
    <2>1. Head(frames).queue \in Queues
        BY <1>3, <1>5 DEF StopArrives, FrameGoes, PortFrames, Frame
    <2> QED
        BY <1>1, <1>2, <1>5, <2>1 DEF StopArrives
<1>6. CASE EndedGoes
    BY <1>1, <1>6, NotLookingIdle, ToldPublished DEF EndedGoes
<1>7. ASSUME NEW q \in Queues, LeaderStarts(q) \/ MatchFound(q) \/ LateStop(q) PROVE ToldInv'
    <2>1. MatchmakingState("matchFound", {q}) \in PortStates
        BY DEF MatchmakingState, PortStates
    <2>2. CASE MatchFound(q)
        BY <2>1, <2>2, ToldPublished DEF MatchFound
    <2>3. CASE LeaderStarts(q)
        <3>1. SearchInfo(q, TRUE)
            BY <2>3, Zenon DEF LeaderStarts
        <3>2. UNCHANGED <<session, matchmaking, found, watch, crossed>>
            BY <2>3 DEF LeaderStarts
        <3> QED
            BY <1>2, <3>1, <3>2
    <2>4. CASE LateStop(q)
        BY <1>2, <2>4 DEF LateStop
    <2> QED
        BY <1>7, <2>2, <2>3, <2>4
<1>8. CASE GameLaunch
    <2> DEFINE state == MatchmakingState("launching", MatchedQueues)
    <2>1. state \in PortStates /\ ~Telling(Tells("launch")) /\ Connected
        BY <1>8, MatchedTyped
        DEF MatchmakingState, PortStates, Telling, Tells, Update, GameLaunch, Room, Connected
    <2>2. UNCHANGED <<session, matchmaking, found, watch, crossed>>
        BY <1>8 DEF GameLaunch
    <2>3. CASE MatchedQueues # {}
        <3> DEFINE s == Append(updates, Says(state))
        <3>1. s \in Seq(PortUpdates) /\ updates' = Append(s, Tells("launch")) /\ port' = state
            BY <1>8, <2>1, <2>3, SayTyped, TellTyped DEF GameLaunch, PortTypes
        <3>2. Telling(Says(state)) /\ Agrees(Says(state), state)
            BY DEF Telling, Agrees, Says, Update
        <3>3. LastIs(s, state) /\ ~Quiet(s)
            BY <3>2, LastEnd DEF PortTypes
        <3> HIDE DEF s, state
        <3>4. LastIs(updates', state) /\ ~Quiet(updates')
            BY <2>1, <3>1, <3>3, LastEnd
        <3> QED
            BY <3>1, <3>4 DEF ToldInv
    <2>4. CASE MatchedQueues = {}
        <3>1. updates' = Append(updates, Tells("launch")) /\ port' = port
            BY <1>8, <2>4 DEF GameLaunch
        <3> QED
            BY <2>1, <2>2, <3>1, ToldBesides
    <2> QED
        BY <2>3, <2>4
<1>9. CASE MatchOver
    <2>1. MatchmakingState("cancelled", MatchedQueues) \in PortStates
        BY MatchedTyped DEF MatchmakingState, PortStates
    <2> QED
        BY <1>1, <1>9, <2>1, ToldPublished DEF MatchOver
<1>10. CASE DropSocket
    <2>1. Telling(Tells("reconnecting")) /\ Agrees(Tells("reconnecting"), NotLooking)
        BY DEF Telling, Agrees, Tells, Update
    <2>2. /\ LastIs(Append(updates, Tells("reconnecting")), NotLooking)
          /\ ~Quiet(Append(updates, Tells("reconnecting")))
        BY <2>1, LastEnd DEF PortTypes
    <2>3. updates' = Append(updates, Tells("reconnecting")) /\ port' = NotLooking
        BY <1>10 DEF DropSocket, Severed
    <2> QED
        BY <2>2, <2>3 DEF ToldInv
<1>11. CASE Welcome
    <2>1. ~Telling(Tells("authenticated"))
        BY DEF Telling, Tells, Update
    <2> QED
        BY <1>11, <2>1, ToldBesides DEF Welcome, Connected
<1>12. CASE GiveUp \/ UserHangsUp
    BY <1>12 DEF GiveUp, UserHangsUp, ToldInv, Connected
<1>13. CASE UserConnects
    <2>1. /\ updates' = <<>> /\ port' = NotLooking /\ DOMAIN updates' = {}
          /\ matchmaking'.is \notin {"searching", "cancelled"}
        BY <1>13, NotLookingIdle
        DEF UserConnects, PortIsServer, ShowMatchmaking, AfterConnecting, channelVars
    <2>2. LastIs(updates, port)'
        BY <2>1 DEF LastIs
    <2> QED
        BY <2>1, <2>2, NotLookingIdle DEF ToldInv, PanelAgrees
<1> QED
    BY <1>4, <1>5, <1>6, <1>7, <1>8, <1>9, <1>10, <1>11, <1>12, <1>13 DEF PortStep

LEMMA ToldUpdate ==
    ASSUME PortTypes, ToldInv, UpdateStep
    PROVE  ToldInv'
<1> USE DEF sliceVars, matchVars, historyVars
<1>1. ASSUME updates # <<>>, updates' = Tail(updates), UNCHANGED <<port, session>>,
             Quiet(Tail(updates)) /\ ~crossed' /\ Connected
                 /\ (IF Telling(Head(updates)) THEN Agrees(Head(updates), port) ELSE Quiet(updates))
             => PanelAgrees'
      PROVE  ToldInv'
    <2>1. ASSUME Connected
          PROVE  /\ LastIs(Tail(updates), port)
                 /\ Quiet(Tail(updates)) => IF Telling(Head(updates)) THEN Agrees(Head(updates), port)
                                                                     ELSE Quiet(updates)
        BY <1>1, <2>1, LastTail DEF ToldInv, PortTypes
    <2> QED
        BY <1>1, <2>1 DEF ToldInv, Connected
<1>2. CASE OnMatchmaking
    <2>1. /\ updates # <<>> /\ updates' = Tail(updates) /\ UNCHANGED <<port, session>>
          /\ Head(updates).what = "matchmaking" /\ matchmaking' = Head(updates).state
        BY <1>2 DEF OnMatchmaking, Take, ShowMatchmaking
    <2>2. Telling(Head(updates)) /\ (Agrees(Head(updates), port) => matchmaking' = port)
        BY <2>1 DEF Telling, Agrees
    <2> QED
        BY <1>1, <2>1, <2>2 DEF PanelAgrees
<1>3. CASE OnReconnecting
    <2>1. /\ updates # <<>> /\ updates' = Tail(updates) /\ UNCHANGED <<port, session>>
          /\ Head(updates).what = "reconnecting"
          /\ matchmaking'.is \notin {"searching", "cancelled"}
        BY <1>3, NotLookingIdle DEF OnReconnecting, Take, ShowMatchmaking, AfterConnecting
    <2>2. Telling(Head(updates)) /\ (Agrees(Head(updates), port) => port = NotLooking)
        BY <2>1 DEF Telling, Agrees
    <2> QED
        BY <1>1, <2>1, <2>2, NotLookingIdle DEF PanelAgrees
<1>4. CASE OnLaunchOrder \/ OnAuthenticated
    <2>1. /\ updates # <<>> /\ updates' = Tail(updates) /\ ~Telling(Head(updates))
          /\ UNCHANGED <<port, session, matchmaking, found, watch, crossed>>
        BY <1>4 DEF OnLaunchOrder, OnAuthenticated, Take, Telling
    <2> QED
        BY <1>1, <2>1 DEF ToldInv, PanelAgrees
<1>5. CASE EndConnection
    BY <1>5 DEF EndConnection, ToldInv, Connected
<1> QED
    BY <1>2, <1>3, <1>4, <1>5 DEF UpdateStep

LEMMA ToldKept ==
    ASSUME PortTypes, PanelInv, PortIsServer, ToldInv, [MatchmakingNext]_mmVars
    PROVE  ToldInv'
<1> USE DEF sliceVars, matchVars, channelVars, historyVars
<1>1. ASSUME UNCHANGED <<updates, port, session, found, watch, matchmaking, crossed>>
      PROVE  ToldInv'
    BY <1>1, ToldStays
<1>2. ASSUME NEW names \in SUBSET Queues, StartSearch(names) PROVE ToldInv'
    BY <1>1, <1>2 DEF StartSearch
<1>3. ASSUME NEW a \in Tries, SearchStep(a) PROVE ToldInv'
    <2>1. CASE AnnounceSearch(a)
        <3>1. ~crossed' => ~crossed /\ matchmaking.is \in {"idle", "cancelled"}
            BY <2>1, Zenon DEF AnnounceSearch
        <3>2. UNCHANGED <<updates, port, session, found, watch>> /\ matchmaking'.is = "preparing"
            BY <2>1 DEF AnnounceSearch, ShowMatchmaking, MatchmakingState
        <3> QED
            BY <3>1, <3>2, ToldStays
    <2>2. CASE FailSearch(a) \/ SearchTimerFires(a)
        <3>1. ~crossed' => ~crossed /\ ShownAsPrepared(a)
            BY <2>2, Zenon DEF FailSearch, SearchTimerFires, Unanswered
        <3>2. UNCHANGED <<updates, port, session, found, watch>> /\ matchmaking'.is = "idle"
            BY <2>2, NotLookingIdle DEF FailSearch, SearchTimerFires, ShowMatchmaking
        <3>3. ShownAsPrepared(a) => matchmaking.is = "preparing"
            BY DEF ShownAsPrepared, MatchmakingState
        <3> QED
            BY <3>1, <3>2, <3>3, ToldStays
    <2>3. CASE CheckSearch(a) \/ SubmitSearch(a) \/ SearchTimerReads(a)
        BY <1>1, <2>3 DEF CheckSearch, SubmitSearch, SearchTimerReads
    <2> QED
        BY <1>3, <2>1, <2>2, <2>3 DEF SearchStep
<1>4. CASE StopReads \/ StopActs
    <2>1. /\ UNCHANGED <<updates, port, session, found, watch>>
          /\ ~crossed' => /\ ~crossed
                          /\ \/ matchmaking' = matchmaking
                             \/ /\ matchmaking.is # "searching"
                                /\ matchmaking'.is \notin {"searching", "cancelled"}
        BY <1>4, NotLookingIdle DEF StopReads, StopActs, ShowMatchmaking
    <2> QED
        BY <2>1, ToldStays
<1>5. ASSUME NEW m \in Matches, MatchTimer(m) PROVE ToldInv'
    <2>1. watch \in [Matches -> WatchRecords] /\ crossed \in BOOLEAN
        BY DEF PanelInv, SliceTypes
    <2>2. CASE MatchTimerReads(m)
        <3>1. watch[found].at = "off" => watch'[found].at = "off"
            BY <2>1, <2>2 DEF MatchTimerReads
        <3> QED
            BY <2>2, <3>1, ToldStays DEF MatchTimerReads
    <2>3. CASE MatchTimerFires(m)
        <3>0. ~crossed' => ~crossed /\ StillWaiting(m)
            BY <2>3, Zenon DEF MatchTimerFires
        <3>1. /\ UNCHANGED <<updates, port, session, found>>
              /\ StillWaiting(m) => found = m /\ matchmaking.is # "searching"
              /\ matchmaking'.is # "searching"
            BY <2>3 DEF MatchTimerFires, StillWaiting, ShowMatchmaking, MatchmakingState
        <3>2. watch'[m].at = "off"
            BY <2>1, <2>3 DEF MatchTimerFires, NoWatch
        <3> QED
            BY <3>0, <3>1, <3>2, ToldStays
    <2> QED
        BY <1>5, <2>2, <2>3 DEF MatchTimer
<1>6. CASE GameStep
    <2>1. /\ UNCHANGED <<updates, port, session, found, watch, crossed>>
          /\ \/ matchmaking' = matchmaking
             \/ /\ matchmaking.is # "searching"
                /\ matchmaking'.is \notin {"searching", "cancelled"}
        BY <1>6, NotLookingIdle
        DEF GameStep, ShowPreparing, ShowInGameMatch, Leaves, Left, UserEndsMatch, ShowMatchmaking,
            AfterGame, AfterLaunch
    <2> QED
        BY <2>1, ToldStays
<1>7. CASE UpdateStep
    BY <1>7, ToldUpdate
<1>8. CASE PortStep
    BY <1>8, ToldPort
<1>9. CASE UNCHANGED mmVars
    BY <1>1, <1>9 DEF mmVars
<1> QED
    BY <1>2, <1>3, <1>4, <1>5, <1>6, <1>7, <1>8, <1>9 DEF MatchmakingNext

-----------------------------------------------------------------------------
(* A launch on screen is one: its order is on the way, or its game is there *)
(* and nobody has called it off.  While a connection is being taken down    *)
(* the screen may be behind.                                                *)

LaunchBacked ==
    matchmaking.is = "launching" =>
        LaunchComes(updates) \/ game \notin {"none", "draining", "abandoned"}

LaunchInv ==
    /\ LaunchFollows(updates)
    /\ joinState = "launched" => game # "none"
    /\ session = "off" => game \notin {"starting", "draining", "failed", "abandoned"}
    /\ session # "closed" => LaunchBacked

LEMMA LaunchPublished ==
    ASSUME PortTypes, LaunchInv, NEW state \in PortStates, Publish(state), state.is # "launching",
           UNCHANGED <<matchmaking, joinState, game, session>>
    PROVE  LaunchInv'
<1>1. ~ShowsLaunch(Says(state)) /\ updates' = Append(updates, Says(state))
    BY DEF ShowsLaunch, Says, Update, Publish
<1>2. /\ LaunchFollows(Append(updates, Says(state)))
      /\ LaunchComes(updates) => LaunchComes(Append(updates, Says(state)))
    BY <1>1, LaunchEnd DEF PortTypes, LaunchInv
<1> QED
    BY <1>1, <1>2 DEF LaunchInv, LaunchBacked

LEMMA LaunchPort ==
    ASSUME PortTypes, PortIsServer, LaunchInv, PortStep
    PROVE  LaunchInv'
<1> USE DEF sliceVars
<1>1. ASSUME UNCHANGED <<updates, matchmaking, joinState, game, session>> PROVE LaunchInv'
    BY <1>1 DEF LaunchInv, LaunchBacked
<1>2. ASSUME NEW q \in Queues, NEW searching \in BOOLEAN, SearchInfo(q, searching),
             UNCHANGED <<matchmaking, joinState, game, session>>
      PROVE  LaunchInv'
    BY <1>1, <1>2, SearchInfoSays, LaunchPublished
<1>3. ASSUME NEW what \in {"start", "stop", "ended"}, FrameGoes(what)
      PROVE  Head(frames) \in PortFrames
    BY <1>3 DEF FrameGoes, PortTypes
<1>4. CASE StartArrives \/ StopArrives
    <2>1. Head(frames).what \in {"start", "stop"} /\ Head(frames) \in PortFrames
        BY <1>3, <1>4 DEF StartArrives, StopArrives, FrameGoes
    <2>2. Head(frames).queue \in Queues
        BY <2>1 DEF PortFrames, Frame
    <2> QED
        BY <1>1, <1>2, <1>4, <2>2 DEF StartArrives, StopArrives
<1>5. CASE EndedGoes
    BY <1>1, <1>5, NotLookingIdle, LaunchPublished DEF EndedGoes
<1>6. ASSUME NEW q \in Queues, LeaderStarts(q) \/ MatchFound(q) \/ LateStop(q) PROVE LaunchInv'
    <2>1. /\ MatchmakingState("matchFound", {q}) \in PortStates
          /\ MatchmakingState("matchFound", {q}).is # "launching"
        BY DEF MatchmakingState, PortStates
    <2>2. CASE MatchFound(q)
        BY <2>1, <2>2, LaunchPublished DEF MatchFound
    <2>3. CASE LeaderStarts(q)
        <3>1. SearchInfo(q, TRUE)
            BY <2>3, Zenon DEF LeaderStarts
        <3>2. UNCHANGED <<matchmaking, joinState, game, session>>
            BY <2>3 DEF LeaderStarts
        <3> QED
            BY <1>2, <3>1, <3>2
    <2>4. CASE LateStop(q)
        BY <1>2, <2>4 DEF LateStop
    <2> QED
        BY <1>6, <2>2, <2>3, <2>4
<1>7. CASE GameLaunch
    <2> DEFINE state == MatchmakingState("launching", MatchedQueues)
    <2>1. state \in PortStates /\ Tells("launch").what = "launch" /\ ~ShowsLaunch(Tells("launch"))
        BY MatchedTyped DEF MatchmakingState, PortStates, ShowsLaunch, Tells, Update
    <2>2. \E s \in Seq(PortUpdates) : updates' = Append(s, Tells("launch"))
        <3>1. /\ updates \in Seq(PortUpdates) /\ Says(state) \in PortUpdates
              /\ Tells("launch") \in PortUpdates
            BY <2>1, SayTyped, TellTyped DEF PortTypes
        <3>2. CASE MatchedQueues # {}
            <4>1. updates' = Append(Append(updates, Says(state)), Tells("launch"))
                <5>1. \A x, y \in PortUpdates : updates \o <<x, y>> = Append(Append(updates, x), y)
                    BY <3>1
                <5>2. updates' = updates \o <<Says(state), Tells("launch")>>
                    BY <1>7, <3>2 DEF GameLaunch
                <5> HIDE DEF state
                <5> QED
                    BY <3>1, <5>1, <5>2
            <4>2. Append(updates, Says(state)) \in Seq(PortUpdates)
                BY <3>1
            <4> QED
                BY <4>1, <4>2, Zenon
        <3>3. CASE MatchedQueues = {}
            BY <1>7, <3>1, <3>3 DEF GameLaunch
        <3> QED
            BY <3>2, <3>3
    <2>3. PICK s \in Seq(PortUpdates) : updates' = Append(s, Tells("launch"))
        BY <2>2
    <2>4. LaunchFollows(updates')
        BY <2>1, <2>3, LaunchEnd
    <2>5. LaunchComes(updates')
        BY <2>1, <2>3, EndOf DEF LaunchComes
    <2>6. UNCHANGED <<matchmaking, joinState, game, session>>
        BY <1>7 DEF GameLaunch
    <2> QED
        BY <2>4, <2>5, <2>6 DEF LaunchInv, LaunchBacked
<1>8. CASE MatchOver
    <2>1. /\ MatchmakingState("cancelled", MatchedQueues) \in PortStates
          /\ MatchmakingState("cancelled", MatchedQueues).is # "launching"
        BY MatchedTyped DEF MatchmakingState, PortStates
    <2> QED
        BY <1>1, <1>8, <2>1, LaunchPublished DEF MatchOver
<1>9. CASE DropSocket \/ Welcome
    <2> DEFINE what == IF DropSocket THEN "reconnecting" ELSE "authenticated"
    <2>1. /\ updates' = Append(updates, Tells(what)) /\ ~ShowsLaunch(Tells(what))
          /\ UNCHANGED <<matchmaking, joinState, game>>
          /\ session # "closed" /\ session' \in {"up", "down"}
        BY <1>9 DEF DropSocket, Welcome, Room, ShowsLaunch, Tells, Update
    <2>2. /\ LaunchFollows(Append(updates, Tells(what)))
          /\ LaunchComes(updates) => LaunchComes(Append(updates, Tells(what)))
        BY <2>1, LaunchEnd DEF PortTypes, LaunchInv
    <2> QED
        BY <2>1, <2>2 DEF LaunchInv, LaunchBacked
<1>10. CASE GiveUp \/ UserHangsUp
    <2>1. /\ UNCHANGED updates /\ session' = "closed"
          /\ joinState' = "launched" => joinState = "launched"
          /\ game # "none" => game' # "none"
        BY <1>10 DEF GiveUp, UserHangsUp, KeepGame, AfterCallOff
    <2> QED
        BY <2>1 DEF LaunchInv
<1>11. CASE UserConnects
    <2>1. /\ UNCHANGED <<updates, game>> /\ session = "off" /\ session' = "down"
          /\ joinState' = "launched" => joinState = "launched"
          /\ matchmaking'.is = "launching" => matchmaking.is = "launching"
        BY <1>11, NotLookingIdle
        DEF UserConnects, KeepGame, ShowMatchmaking, AfterConnecting, channelVars
    <2> QED
        BY <2>1 DEF LaunchInv, LaunchBacked
<1> QED
    BY <1>4, <1>5, <1>6, <1>7, <1>8, <1>9, <1>10, <1>11 DEF PortStep

LEMMA LaunchUpdate ==
    ASSUME PortTypes, LaunchInv, UpdateStep
    PROVE  LaunchInv'
<1> USE DEF sliceVars
<1>1. ASSUME updates # <<>>
      PROVE  /\ LaunchFollows(Tail(updates))
             /\ ShowsLaunch(Head(updates)) => LaunchComes(Tail(updates))
             /\ LaunchComes(updates) /\ Head(updates).what # "launch" => LaunchComes(Tail(updates))
    BY <1>1, LaunchTail DEF PortTypes, LaunchInv
<1>2. CASE OnMatchmaking
    <2>1. /\ updates # <<>> /\ updates' = Tail(updates) /\ UNCHANGED session /\ session # "off"
          /\ Head(updates).what = "matchmaking" /\ matchmaking' = Head(updates).state
        BY <1>2 DEF OnMatchmaking, Take, ShowMatchmaking
    <2>2. matchmaking'.is = "launching" <=> ShowsLaunch(Head(updates))
        BY <2>1 DEF ShowsLaunch
    <2>3. /\ joinState' = "launched" => joinState = "launched"
          /\ game # "none" => game' # "none"
        BY <1>2 DEF OnMatchmaking, AfterCallOff, AfterTerminate
    <2> QED
        BY <1>1, <2>1, <2>2, <2>3 DEF LaunchInv, LaunchBacked
<1>3. CASE OnLaunchOrder
    BY <1>1, <1>3 DEF OnLaunchOrder, Take, LaunchInv, LaunchBacked
<1>4. CASE OnReconnecting \/ OnAuthenticated
    <2>1. /\ updates # <<>> /\ updates' = Tail(updates) /\ UNCHANGED <<session, game>>
          /\ Head(updates).what # "launch"
          /\ joinState' = "launched" => joinState = "launched"
          /\ matchmaking'.is = "launching" => matchmaking.is = "launching"
        BY <1>4, NotLookingIdle
        DEF OnReconnecting, OnAuthenticated, Take, KeepGame, ShowMatchmaking, AfterConnecting
    <2> QED
        BY <1>1, <2>1 DEF LaunchInv, LaunchBacked
<1>5. CASE EndConnection
    <2>1. /\ UNCHANGED <<updates, game>> /\ session' = "off"
          /\ game \notin {"starting", "draining", "failed", "abandoned"}
          /\ joinState' = "launched" => joinState = "launched"
          /\ matchmaking'.is = "launching" => joinState = "launched"
        BY <1>5, NotLookingIdle
        DEF EndConnection, LoopTakes, InLaunch, KeepGame, ShowMatchmaking, AfterConnecting,
            channelVars
    <2> QED
        BY <2>1 DEF LaunchInv, LaunchBacked
<1> QED
    BY <1>2, <1>3, <1>4, <1>5 DEF UpdateStep

LEMMA LaunchGame ==
    ASSUME LaunchInv, GameStep
    PROVE  LaunchInv'
<1>1. CASE ShowPreparing \/ ShowInGameMatch \/ Leaves
    BY <1>1 DEF ShowPreparing, ShowInGameMatch, Leaves, InLaunch, LaunchInv, LaunchBacked, channelVars,
                sliceVars
<1>2. CASE Left
    <2>1. /\ UNCHANGED <<updates, session>> /\ joinState' = "idle" /\ game' = "none"
          /\ matchmaking'.is = "launching" => game = "abandoned" /\ matchmaking.is = "launching"
        BY <1>2, NotLookingIdle DEF Left, ShowMatchmaking, AfterGame, AfterLaunch, channelVars
    <2> QED
        BY <2>1 DEF LaunchInv, LaunchBacked
<1>3. CASE UserEndsMatch
    <2>1. /\ UNCHANGED <<updates, session>> /\ joinState' = "idle"
          /\ matchmaking'.is # "launching" /\ game' \in {AfterTerminate, AfterCallOff}
        BY <1>3, NotLookingIdle DEF UserEndsMatch, ShowMatchmaking, AfterGame, AfterLaunch, channelVars
    <2>2. session = "off" => game' \notin {"starting", "draining", "failed", "abandoned"}
        BY <2>1 DEF LaunchInv, AfterTerminate, AfterCallOff
    <2> QED
        BY <2>1, <2>2 DEF LaunchInv, LaunchBacked
<1> QED
    BY <1>1, <1>2, <1>3 DEF GameStep

LEMMA LaunchKept ==
    ASSUME PortTypes, PortIsServer, LaunchInv, [MatchmakingNext]_mmVars
    PROVE  LaunchInv'
<1> USE DEF sliceVars, channelVars
<1>1. ASSUME UNCHANGED <<updates, joinState, game, session>>,
             matchmaking'.is = "launching" => matchmaking.is = "launching"
      PROVE  LaunchInv'
    BY <1>1 DEF LaunchInv, LaunchBacked
<1>2. ASSUME NEW names \in SUBSET Queues, StartSearch(names) PROVE LaunchInv'
    BY <1>1, <1>2 DEF StartSearch
<1>3. ASSUME NEW a \in Tries, SearchStep(a) PROVE LaunchInv'
    BY <1>1, <1>3, NotLookingIdle
    DEF SearchStep, AnnounceSearch, CheckSearch, SubmitSearch, FailSearch, SearchTimerReads,
        SearchTimerFires, ShowMatchmaking, MatchmakingState
<1>4. CASE StopReads \/ StopActs
    BY <1>1, <1>4, NotLookingIdle DEF StopReads, StopActs, ShowMatchmaking
<1>5. ASSUME NEW m \in Matches, MatchTimer(m) PROVE LaunchInv'
    BY <1>1, <1>5 DEF MatchTimer, MatchTimerReads, MatchTimerFires, ShowMatchmaking,
                      MatchmakingState
<1>6. CASE GameStep
    BY <1>6, LaunchGame
<1>7. CASE UpdateStep
    BY <1>7, LaunchUpdate
<1>8. CASE PortStep
    BY <1>8, LaunchPort
<1>9. CASE UNCHANGED mmVars
    BY <1>1, <1>9 DEF mmVars
<1> QED
    BY <1>2, <1>3, <1>4, <1>5, <1>6, <1>7, <1>8, <1>9 DEF MatchmakingNext

LEMMA InitTold == MatchmakingInit => ToldInv /\ LaunchInv
<1> SUFFICES ASSUME MatchmakingInit PROVE ToldInv /\ LaunchInv
    OBVIOUS
<1>1. /\ updates = <<>> /\ port = NotLooking /\ matchmaking = NotLooking /\ joinState = "idle"
      /\ game = "none" /\ session = "up" /\ NotLooking.is = "idle"
    BY NotLookingIdle DEF MatchmakingInit
<1>2. DOMAIN updates = {}
    BY <1>1
<1> QED
    BY <1>1, <1>2 DEF ToldInv, LastIs, PanelAgrees, LaunchInv, LaunchFollows, LaunchBacked

PanelToldInv == PortTypes /\ PanelInv /\ PortIsServer /\ ToldInv /\ LaunchInv

(* With every message handled the panel tells what is: the server's search, *)
(* a launch that exists, a match given up only when its time was over; for  *)
(* any queues, searches, matches, drops and channel sizes.                  *)
THEOREM PanelTellsTruth == MatchmakingSpec => []PanelIsTrue
<1>1. MatchmakingInit => PanelToldInv
    BY InitPanel, InitMatch, InitTold DEF PanelToldInv
<1>2. PanelToldInv /\ [MatchmakingNext]_mmVars => PanelToldInv'
    BY PortKept, PanelKept, PortServerKept, ToldKept, LaunchKept DEF PanelToldInv
<1>3. PanelToldInv => PanelIsTrue
    <2> SUFFICES ASSUME PanelToldInv, session = "up", updates = <<>>, ~crossed
                 PROVE  /\ seeks # {} => matchmaking = MatchmakingState("searching", seeks)
                        /\ matchmaking.is = "searching" => matchmaking.queues = seeks
                        /\ matchmaking.is = "launching" => game # "none"
                        /\ matchmaking.is = "cancelled" /\ port.is = "matchFound"
                               => watch[found].at = "off"
        BY DEF PanelIsTrue
    <2>1. Quiet(updates) /\ ~LaunchComes(updates) /\ Connected
        BY DEF Quiet, LaunchComes, Connected
    <2>2. PanelAgrees /\ LaunchBacked /\ PortIsServer
        BY <2>1 DEF PanelToldInv, ToldInv, LaunchInv
    <2> QED
        BY <2>1, <2>2 DEF PanelAgrees, LaunchBacked, PortIsServer, MatchmakingState
<1> QED
    BY <1>1, <1>2, <1>3, PTL DEF MatchmakingSpec

-----------------------------------------------------------------------------
(* The types of what the invariants above do not speak of.                  *)

RestTypes ==
    /\ joinState \in {"idle", "preparing", "launched"}
    /\ lobby \in {"connected", "connecting", "disconnected"}
    /\ stopper \in {"none", "preparing", "searching"}
    /\ game \in {"none", "starting", "draining", "running", "killed",
                 "failed", "abandoned", "exited"}
    /\ session \in {"up", "down", "closed", "off"}
    /\ Len(frames) <= FrameLimit /\ Len(updates) <= UpdateLimit
    /\ paired \in Queues \cup {NoQueue} /\ granted \in BOOLEAN /\ acks \subseteq Queues
    /\ cuts \in 0 .. MaxCuts

(* What is sent fits: a search's frames are reserved together.              *)
LEMMA SendFits ==
    ASSUME NEW what \in {"start", "stop"}, NEW names \in SUBSET Queues,
           frames \in Seq(PortFrames), QueueTakes(Cardinality(names)), SendEach(what, names)
    PROVE  Len(frames') <= FrameLimit
<1>1. Cardinality(names) \in Nat
  BY Constants, FS_Subset, FS_CardinalityType
<1>2. PICK sorted \in [1 .. Cardinality(names) -> names] :
         frames' = frames \o [i \in 1 .. Cardinality(names) |-> Frame(what, sorted[i])]
  BY DEF SendEach
<1> DEFINE sent == [i \in 1 .. Cardinality(names) |-> Frame(what, sorted[i])]
<1>3. \A i \in 1 .. Cardinality(names) : Frame(what, sorted[i]) \in PortFrames
  BY <1>2 DEF Frame, PortFrames
<1>4. sent \in Seq(PortFrames) /\ Len(sent) = Cardinality(names)
  BY <1>1, <1>3
<1> HIDE DEF sent
<1>5. frames' = frames \o sent
  BY <1>2 DEF sent
<1>6. Len(frames') = Len(frames) + Cardinality(names)
  BY <1>4, <1>5, ConcatProperties
<1> QED BY <1>6 DEF QueueTakes

LEMMA SaidFits ==
    ASSUME PortTypes, Len(updates) + 1 <= UpdateLimit
    PROVE  /\ \A state : Publish(state) => Len(updates') <= UpdateLimit
           /\ \A q, searching : SearchInfo(q, searching) => Len(updates') <= UpdateLimit
           /\ \A what : Len(Append(updates, Tells(what))) <= UpdateLimit
<1>1. Len(updates) \in Nat /\ UpdateLimit \in Nat
  BY MatchmakingAssumption DEF PortTypes
<1>2. \A e : Len(Append(updates, e)) = Len(updates) + 1
  BY DEF PortTypes
<1> QED BY <1>1, <1>2 DEF Publish, SearchInfo

LEMMA RestKept ==
    ASSUME PortTypes, PanelInv, RestTypes, [MatchmakingNext]_mmVars
    PROVE  RestTypes'
<1> USE DEF sliceVars, searchVars, matchVars, channelVars, serverVars, historyVars
<1>0. /\ frames \in Seq(PortFrames) /\ updates \in Seq(PortUpdates)
      /\ matchmaking \in MatchmakingStates /\ search \in [Tries -> SearchRecords]
      /\ seeks \subseteq Queues
  BY DEF PortTypes, PanelInv, SliceTypes
<1>1. ASSUME NEW names \in SUBSET Queues, StartSearch(names) PROVE RestTypes'
  BY <1>1 DEF StartSearch, RestTypes
<1>2. ASSUME NEW a \in Tries, SearchStep(a) PROVE RestTypes'
  <2>1. CASE AnnounceSearch(a) \/ CheckSearch(a) \/ FailSearch(a)
             \/ SearchTimerReads(a) \/ SearchTimerFires(a)
    BY <2>1 DEF AnnounceSearch, CheckSearch, FailSearch, SearchTimerReads, SearchTimerFires,
                RestTypes
  <2>2. CASE SubmitSearch(a)
    <3>1. search[a].queues \in SUBSET Queues
      BY <1>0 DEF SearchRecords
    <3>2. frames' = frames \/ Len(frames') <= FrameLimit
      BY <1>0, <2>2, <3>1, SendFits DEF SubmitSearch
    <3> QED BY <2>2, <3>2 DEF SubmitSearch, RestTypes
  <2> QED BY <1>2, <2>1, <2>2 DEF SearchStep
<1>3. CASE StopReads
  <2>1. stopper' \in {"preparing", "searching"}
    BY <1>3 DEF StopReads, IsLooking
  <2> QED BY <1>3, <2>1 DEF StopReads, RestTypes
<1>4. CASE StopActs
  <2>1. ASSUME NEW q \in Queues, QueueTakes(1), SendEach("stop", {q})
        PROVE  Len(frames') <= FrameLimit
    <3>1. Cardinality({q}) = 1
      BY FS_Singleton
    <3> QED BY <1>0, <2>1, <3>1, SendFits
  <2>2. frames' = frames \/ Len(frames') <= FrameLimit
    BY <1>4, <2>1 DEF StopActs
  <2> QED BY <1>4, <2>2 DEF StopActs, RestTypes
<1>5. ASSUME NEW m \in Matches, MatchTimer(m) PROVE RestTypes'
  BY <1>5 DEF MatchTimer, MatchTimerReads, MatchTimerFires, RestTypes
<1>6. CASE UpdateStep
  <2>1. updates # <<>> => Len(Tail(updates)) <= UpdateLimit
    BY <1>0, MatchmakingAssumption DEF RestTypes
  <2>2. CASE OnMatchmaking
    BY <2>1, <2>2 DEF OnMatchmaking, Take, AfterTerminate, AfterCallOff, RestTypes
  <2>3. CASE OnLaunchOrder \/ OnReconnecting \/ OnAuthenticated
    BY <2>1, <2>3 DEF OnLaunchOrder, OnReconnecting, OnAuthenticated, Take, KeepGame, RestTypes
  <2>4. CASE EndConnection
    BY <2>4 DEF EndConnection, KeepGame, RestTypes
  <2> QED BY <1>6, <2>2, <2>3, <2>4 DEF UpdateStep
<1>7. CASE GameStep
  <2>1. CASE ShowPreparing \/ ShowInGameMatch \/ Left \/ UserEndsMatch
    BY <2>1 DEF ShowPreparing, ShowInGameMatch, Left, UserEndsMatch, AfterTerminate, AfterCallOff,
                RestTypes
  <2>2. CASE Leaves
    <3>1. Len(frames') <= FrameLimit
      <4>1. Len(Append(frames, Frame("ended", NoQueue))) = Len(frames) + 1
        BY <1>0
      <4> QED BY <2>2, <4>1 DEF Leaves, RelayEnded, QueueTakes, RestTypes
    <3> QED BY <2>2, <3>1 DEF Leaves, InLaunch, RestTypes
  <2> QED BY <1>7, <2>1, <2>2 DEF GameStep
<1>8. CASE PortStep
  <2>1. frames # <<>> => Len(Tail(frames)) <= FrameLimit
    BY <1>0, MatchmakingAssumption DEF RestTypes
  <2>2. CASE StartArrives \/ StopArrives \/ EndedGoes
    <3>1. Len(updates) + 1 <= UpdateLimit /\ Len(frames') <= FrameLimit
      BY <2>1, <2>2 DEF StartArrives, StopArrives, EndedGoes, FrameGoes, Room
    <3>2. Len(updates') <= UpdateLimit
      BY <2>2, <3>1, SaidFits DEF StartArrives, StopArrives, EndedGoes, RestTypes
    <3> QED BY <2>2, <3>1, <3>2 DEF StartArrives, StopArrives, EndedGoes, RestTypes
  <2>3. ASSUME NEW q \in Queues, LeaderStarts(q) \/ MatchFound(q) \/ LateStop(q)
        PROVE  RestTypes'
    <3>1. Len(updates') <= UpdateLimit
      BY <2>3, SaidFits DEF LeaderStarts, MatchFound, LateStop, Room
    <3>2. CASE LeaderStarts(q)
      BY <3>1, <3>2 DEF LeaderStarts, RestTypes
    <3>3. CASE MatchFound(q)
      BY <1>0, <3>1, <3>3 DEF MatchFound, RestTypes
    <3>4. CASE LateStop(q)
      BY <3>1, <3>4 DEF LateStop, RestTypes
    <3> QED BY <2>3, <3>2, <3>3, <3>4
  <2>4. CASE GameLaunch
    <3>1. /\ \A e, f : Len(updates \o <<e, f>>) = Len(updates) + 2
          /\ \A e : Len(Append(updates, e)) = Len(updates) + 1
          /\ Len(updates) \in Nat /\ Len(updates) + 2 <= UpdateLimit /\ UpdateLimit \in Nat
      BY <1>0, <2>4, MatchmakingAssumption DEF GameLaunch, Room
    <3>2. Len(updates') <= UpdateLimit
      BY <2>4, <3>1 DEF GameLaunch
    <3> QED BY <2>4, <3>2 DEF GameLaunch, RestTypes
  <2>5. CASE MatchOver
    <3>1. Len(updates') <= UpdateLimit
      BY <2>5, SaidFits DEF MatchOver, Room, RestTypes
    <3> QED BY ZenonT(40), <2>5, <3>1 DEF MatchOver, RestTypes
  <2>6. ASSUME Severed
        PROVE  /\ Len(frames') <= FrameLimit /\ paired' = NoQueue
               /\ granted' = FALSE /\ acks' = {}
    <3>1. Len(frames') = 0 /\ FrameLimit \in Nat
      BY <2>6, MatchmakingAssumption DEF Severed
    <3> QED BY <2>6, <3>1 DEF Severed
  <2>7. CASE DropSocket \/ Welcome
    <3>1. Len(updates) + 1 <= UpdateLimit
      BY <1>0, <2>7, MatchmakingAssumption DEF DropSocket, Welcome, Room
    <3>2. Len(updates') <= UpdateLimit
      BY <2>7, <3>1, SaidFits DEF DropSocket, Welcome
    <3>3. cuts' \in 0 .. MaxCuts
      BY <2>7, MatchmakingAssumption DEF DropSocket, Welcome, RestTypes
    <3>4. CASE DropSocket
      BY <2>6, <3>2, <3>3, <3>4 DEF DropSocket, RestTypes
    <3>5. CASE Welcome
      BY <3>2, <3>5 DEF Welcome, RestTypes
    <3> QED BY <2>7, <3>4, <3>5
  <2>8. CASE GiveUp \/ UserConnects
    BY <2>8, <2>6 DEF GiveUp, UserConnects, KeepGame, RestTypes
  <2>9. CASE UserHangsUp
    <3>1. cuts' \in 0 .. MaxCuts
      BY <2>9, MatchmakingAssumption DEF UserHangsUp, RestTypes
    <3> QED BY <2>9, <2>6, <3>1 DEF UserHangsUp, KeepGame, AfterCallOff, RestTypes
  <2> QED BY <1>8, <2>2, <2>3, <2>4, <2>5, <2>7, <2>8, <2>9 DEF PortStep
<1>9. CASE UNCHANGED mmVars
  BY <1>9 DEF mmVars, RestTypes
<1> QED BY <1>1, <1>2, <1>3, <1>4, <1>5, <1>6, <1>7, <1>8, <1>9 DEF MatchmakingNext

(* Slice, port, channels, server and timers have their types: no more       *)
(* matches are timed than there were, and the channels keep their limits.   *)
THEOREM MatchmakingTypes == MatchmakingSpec => []MatchmakingTypeOK
<1> DEFINE Known == PortTypes /\ PanelInv /\ PortIsServer /\ MatchInv
<1>1. Known /\ RestTypes => MatchmakingTypeOK
  <2> SUFFICES ASSUME Known, RestTypes PROVE MatchmakingTypeOK
    OBVIOUS
  <2>1. found \in 0 .. MaxActs /\ acts \in 0 .. MaxActs
    BY MatchmakingAssumption DEF MatchInv, Numbered
  <2>2. port \in MatchmakingStates
    BY DEF PortTypes, PortStates, MatchmakingStates
  <2>3. frames \in Seq([what : {"start", "stop", "ended"}, queue : Queues \cup {NoQueue}])
    <3>1. PortFrames \subseteq [what : {"start", "stop", "ended"}, queue : Queues \cup {NoQueue}]
      BY DEF PortFrames, Frame
    <3>2. frames \in Seq(PortFrames)
      BY DEF PortTypes
    <3> QED BY <3>1, <3>2, SeqMonotonic, Zenon
  <2>4. updates \in Seq([what : {"matchmaking", "launch", "reconnecting", "authenticated"},
                         state : MatchmakingStates])
    <3>1. PortUpdates \subseteq
             [what : {"matchmaking", "launch", "reconnecting", "authenticated"},
              state : MatchmakingStates]
      BY DEF PortUpdates, PortStates, MatchmakingStates
    <3>2. updates \in Seq(PortUpdates)
      BY DEF PortTypes
    <3> QED BY <3>1, <3>2, SeqMonotonic, Zenon
  <2> QED BY <2>1, <2>2, <2>3, <2>4
          DEF PortTypes, PanelInv, SliceTypes, SearchRecords, WatchRecords, RestTypes,
              MatchmakingTypeOK
<1>2. MatchmakingInit => RestTypes
  <2> SUFFICES ASSUME MatchmakingInit PROVE RestTypes
    OBVIOUS
  <2>1. Len(frames) = 0 /\ Len(updates) = 0
    BY DEF MatchmakingInit
  <2>2. Len(frames) <= FrameLimit /\ Len(updates) <= UpdateLimit /\ cuts \in 0 .. MaxCuts
    BY <2>1, MatchmakingAssumption DEF MatchmakingInit
  <2> QED BY <2>2 DEF MatchmakingInit, RestTypes
<1>3. Known /\ RestTypes /\ [MatchmakingNext]_mmVars => RestTypes'
  BY RestKept
<1> HIDE DEF Known
<1>4. MatchmakingSpec => []Known
  BY SearchInvariant DEF Known
<1> QED BY <1>1, <1>2, <1>3, <1>4, PTL DEF MatchmakingSpec

-----------------------------------------------------------------------------
(* The run that joins the two parts of the lobby.                           *)

(* Each part moves in it as its own specification says, so what is proved of*)
(* the parts holds of the run.                                              *)
THEOREM LobbyIsItsParts == LobbySpec => Spec /\ MatchmakingSpec
<1>1. LobbyInit => Init /\ MatchmakingInit
  BY DEF LobbyInit
<1>2. [LobbyNext]_lobbyVars => [Next]_vars /\ [MatchmakingNext]_mmVars
  BY DEF LobbyNext, lobbyVars
<1> QED BY <1>1, <1>2, PTL DEF LobbySpec, Spec, MatchmakingSpec

(* Both parts of the lobby keep the types of their variables.               *)
THEOREM LobbyTypes == LobbySpec => []LobbyTypeOK
<1>1. TypeOK /\ MatchmakingTypeOK => LobbyTypeOK
  BY DEF LobbyTypeOK
<1> QED BY <1>1, LobbyIsItsParts, TypeCorrect, MatchmakingTypes, PTL

=============================================================================
