--------------------------- MODULE Account_proofs ---------------------------
(* Theorems about SignIn, for any set of requests and any commands offered: *)
(* credentials come from commits, and no attempt lands over a newer         *)
(* decision; and about Links, for any number of attempts, accounts and      *)
(* faults: one attempt at a time holds the connection, no socket is left    *)
(* open that it does not read, and Links implements AccountSocket.          *)
EXTENDS SignIn, Links, SequenceTheorems, TLAPS

-----------------------------------------------------------------------------
(* The sign-in: its invariant.                                              *)

(* Where a handler holds the mutation lock.                                 *)
Inside == {"start", "enter", "browser", "exchange", "commit", "drop", "signOut"}

(* One handler at a time uses the port, and what it is about to commit has  *)
(* been staged.                                                             *)
PortIsExclusive ==
    \A r \in Requests : /\ pc[r] \in Inside => mutex = r
                        /\ pc[r] = "commit" => pending # Nobody

(* A renewal loop whose epoch has not passed renews the live session.       *)
RenewsTheLive ==
    \A w \in renewals : w.epoch <= epoch /\ (w.epoch = epoch => w.who = live)

(* Generations tell requests apart; one that is done has had its turn.      *)
GenerationsDiffer ==
    /\ generation >= 1
    /\ \A r \in Requests : gen[r] <= generation
    /\ \A r, s \in Requests : gen[r] = gen[s] /\ r # s => gen[r] = 0
    /\ \A r \in Requests : pc[r] \in {"idle", "spawned", "outdate"} => gen[r] = 0

SignInInv == SignInTypeOK /\ PortIsExclusive /\ RenewsTheLive /\ GenerationsDiffer

LEMMA NobodyIsNoRequest == Nobody \notin Requests /\ Boot \in Requests
BY SignInAssumption

LEMMA InitSignIn == SignInInit => SignInInv
BY NobodyIsNoRequest
DEF SignInInit, SignInInv, SignInTypeOK, PortIsExclusive, RenewsTheLive, GenerationsDiffer,
    Sessions, Kinds, Places, Inside, LoggedOut, Shown

-----------------------------------------------------------------------------
(* Every step keeps it.                                                     *)

LEMMA TypesNext ==
    ASSUME SignInInv, [SignInNext]_signInVars
    PROVE  SignInTypeOK'
<1> USE NobodyIsNoRequest DEF SignInTypeOK, Sessions, slotVars, portVars
<1>0. SignInTypeOK
  BY DEF SignInInv
<1>1. CASE UNCHANGED signInVars
  BY <1>0, <1>1 DEF signInVars
<1>2. ASSUME NEW r \in Requests, NEW k \in Kinds, NEW remember \in BOOLEAN, Send(r, k, remember)
      PROVE  SignInTypeOK'
  BY <1>0, <1>2 DEF Send, Go, Places
<1>3. ASSUME NEW r \in Requests, TakeSlot(r) PROVE SignInTypeOK'
  BY <1>0, <1>3 DEF TakeSlot, Go, Places
<1>4. ASSUME NEW r \in Requests, NextGeneration(r) PROVE SignInTypeOK'
  BY <1>0, <1>4 DEF NextGeneration, Go, Places
<1>5. ASSUME NEW r \in Requests, AcquireMutation(r) PROVE SignInTypeOK'
  BY <1>0, <1>5 DEF AcquireMutation, Go, Finish, Places
<1>6. ASSUME NEW r \in Requests, StartLogin(r) PROVE SignInTypeOK'
  BY <1>0, <1>6 DEF StartLogin, Go, Emit, Shown, Places
<1>7. ASSUME NEW r \in Requests, EnterPort(r) PROVE SignInTypeOK'
  BY <1>0, <1>7 DEF EnterPort, Go, Places
<1>8. ASSUME NEW r \in Requests, BrowserEnds(r) PROVE SignInTypeOK'
  BY ZenonT(40), <1>0, <1>8 DEF BrowserEnds, Go, Places
<1>9. ASSUME NEW r \in Requests, ExchangeEnds(r) PROVE SignInTypeOK'
  BY <1>0, <1>9 DEF ExchangeEnds, Go, Places
<1>10. ASSUME NEW r \in Requests, Commit(r) PROVE SignInTypeOK'
  <2>1. pending \in Requests
    BY <1>0, <1>10 DEF Commit, SignInInv, PortIsExclusive
  <2>2. Renewal(pending, keep[r], epoch + 1, "waiting")
          \in [who : Requests, persist : BOOLEAN, epoch : Nat, at : {"waiting", "answered"}]
    BY <1>0, <2>1 DEF Renewal
  <2> QED BY <1>0, <1>10, <2>1, <2>2 DEF Commit, Finish, Go, Emit, Shown, CancelRefresh,
                                       Unaborted, Places
<1>11. ASSUME NEW r \in Requests, Drop(r) PROVE SignInTypeOK'
  BY <1>0, <1>11 DEF Drop, Go, Finish, Places
<1>12. ASSUME NEW r \in Requests, Report(r) PROVE SignInTypeOK'
  BY <1>0, <1>12 DEF Report, Go, Finish, Emit, Shown, LoggedOut, Places
<1>13. ASSUME NEW r \in Requests, SignOut(r) PROVE SignInTypeOK'
  BY <1>0, <1>13 DEF SignOut, Go, Finish, CancelRefresh, Unaborted, Places
<1>14. ASSUME NEW r \in Requests, Say(r) PROVE SignInTypeOK'
  BY <1>0, <1>14 DEF Say, Go, Finish, Emit, Shown, LoggedOut, Places
<1>15. ASSUME NEW r \in Requests, SayTest(r) PROVE SignInTypeOK'
  BY <1>0, <1>15 DEF SayTest, Go, Finish, Emit, Shown, Places
<1>16. CASE Banned
  BY <1>0, <1>16 DEF Banned, Emit, Shown
<1>17. ASSUME NEW w \in renewals, RenewalAnswers(w) PROVE SignInTypeOK'
  BY <1>0, <1>17 DEF RenewalAnswers
<1>18. ASSUME NEW w \in renewals, RenewalLands(w) PROVE SignInTypeOK'
  BY <1>0, <1>18 DEF RenewalLands
<1> QED BY <1>1, <1>2, <1>3, <1>4, <1>5, <1>6, <1>7, <1>8, <1>9, <1>10, <1>11, <1>12, <1>13,
           <1>14, <1>15, <1>16, <1>17, <1>18 DEF SignInNext, HandlerStep

LEMMA ExclusiveNext ==
    ASSUME SignInInv, [SignInNext]_signInVars
    PROVE  PortIsExclusive'
<1> USE NobodyIsNoRequest DEF SignInTypeOK, PortIsExclusive, Inside, slotVars, portVars, Sessions
<1>0. SignInTypeOK /\ PortIsExclusive
  BY DEF SignInInv
<1>1. CASE UNCHANGED signInVars
  BY <1>0, <1>1 DEF signInVars
<1>2. ASSUME NEW r \in Requests, NEW k \in Kinds, NEW remember \in BOOLEAN, Send(r, k, remember)
      PROVE  PortIsExclusive'
  BY <1>0, <1>2 DEF Send, Go
<1>3. ASSUME NEW r \in Requests, TakeSlot(r) \/ NextGeneration(r) PROVE PortIsExclusive'
  BY <1>0, <1>3 DEF TakeSlot, NextGeneration, Go
<1>4. ASSUME NEW r \in Requests, AcquireMutation(r) PROVE PortIsExclusive'
  BY <1>0, <1>4 DEF AcquireMutation, Go, Finish
<1>5. ASSUME NEW r \in Requests, StartLogin(r) \/ EnterPort(r) PROVE PortIsExclusive'
  BY <1>0, <1>5 DEF StartLogin, EnterPort, Go
<1>6. ASSUME NEW r \in Requests, BrowserEnds(r) \/ ExchangeEnds(r) PROVE PortIsExclusive'
  BY <1>0, <1>6 DEF BrowserEnds, ExchangeEnds, Go
<1>7. ASSUME NEW r \in Requests, Commit(r) PROVE PortIsExclusive'
  BY <1>0, <1>7 DEF Commit, Go, Finish
<1>8. ASSUME NEW r \in Requests, Drop(r) \/ SignOut(r) PROVE PortIsExclusive'
  BY <1>0, <1>8 DEF Drop, SignOut, Go, Finish
<1>9. ASSUME NEW r \in Requests, Report(r) \/ Say(r) \/ SayTest(r) PROVE PortIsExclusive'
  BY <1>0, <1>9 DEF Report, Say, SayTest, Go, Finish
<1>10. CASE Banned
  BY <1>0, <1>10 DEF Banned
<1>11. ASSUME NEW w \in renewals, RenewalAnswers(w) \/ RenewalLands(w) PROVE PortIsExclusive'
  BY <1>0, <1>11 DEF RenewalAnswers, RenewalLands
<1> QED BY <1>1, <1>2, <1>3, <1>4, <1>5, <1>6, <1>7, <1>8, <1>9, <1>10, <1>11
        DEF SignInNext, HandlerStep

LEMMA RenewalsNext ==
    ASSUME SignInInv, [SignInNext]_signInVars
    PROVE  RenewsTheLive'
<1> USE DEF SignInTypeOK, RenewsTheLive, slotVars, portVars
<1>0. SignInTypeOK /\ RenewsTheLive
  BY DEF SignInInv
<1>1. CASE UNCHANGED <<live, epoch, renewals>>
  BY <1>0, <1>1
<1>2. ASSUME NEW r \in Requests, Commit(r) PROVE RenewsTheLive'
  BY <1>0, <1>2 DEF Commit, CancelRefresh, Unaborted, Renewal
<1>3. ASSUME NEW r \in Requests, SignOut(r) PROVE RenewsTheLive'
  BY <1>0, <1>3 DEF SignOut, CancelRefresh, Unaborted
<1>4. ASSUME NEW w \in renewals, RenewalAnswers(w) PROVE RenewsTheLive'
  BY <1>0, <1>4 DEF RenewalAnswers
<1>5. ASSUME NEW w \in renewals, RenewalLands(w) PROVE RenewsTheLive'
  BY <1>0, <1>5 DEF RenewalLands
<1> QED BY <1>1, <1>2, <1>3, <1>4, <1>5
        DEF SignInNext, HandlerStep, signInVars, Send, TakeSlot, NextGeneration, AcquireMutation,
            StartLogin, EnterPort, BrowserEnds, ExchangeEnds, Drop, Report, Say, SayTest, Banned

LEMMA GenerationsNext ==
    ASSUME SignInInv, [SignInNext]_signInVars
    PROVE  GenerationsDiffer'
<1> USE DEF SignInTypeOK, GenerationsDiffer, slotVars, portVars
<1>0. SignInTypeOK /\ GenerationsDiffer
  BY DEF SignInInv
<1>1. CASE UNCHANGED <<pc, gen, generation>>
  BY <1>0, <1>1
<1>2. ASSUME NEW r \in Requests, NEW place \in Places, Go(r, place),
             pc[r] \notin {"idle", "spawned", "outdate"},
             place \notin {"idle", "spawned", "outdate"}, UNCHANGED <<gen, generation>>
      PROVE  GenerationsDiffer'
  BY <1>0, <1>2 DEF Go
<1>3. ASSUME NEW r \in Requests, NEW k \in Kinds, NEW remember \in BOOLEAN, Send(r, k, remember)
      PROVE  GenerationsDiffer'
  BY <1>0, <1>3 DEF Send, Go
<1>4. ASSUME NEW r \in Requests, TakeSlot(r) PROVE GenerationsDiffer'
  BY <1>0, <1>4 DEF TakeSlot, Go
<1>5. ASSUME NEW r \in Requests, NextGeneration(r) PROVE GenerationsDiffer'
  BY <1>0, <1>5 DEF NextGeneration, Go
<1>6. ASSUME NEW r \in Requests,
             \/ AcquireMutation(r) \/ StartLogin(r) \/ EnterPort(r) \/ BrowserEnds(r)
             \/ ExchangeEnds(r) \/ Commit(r) \/ Drop(r) \/ Report(r) \/ SignOut(r)
             \/ Say(r) \/ SayTest(r)
      PROVE  GenerationsDiffer'
  <2>1. PICK place \in Places : Go(r, place) /\ place \notin {"idle", "spawned", "outdate"}
    BY <1>6 DEF AcquireMutation, StartLogin, EnterPort, BrowserEnds, ExchangeEnds, Commit, Drop,
                Report, SignOut, Say, SayTest, Go, Finish, Places
  <2>2. pc[r] \notin {"idle", "spawned", "outdate"} /\ UNCHANGED <<gen, generation>>
    BY <1>6 DEF AcquireMutation, StartLogin, EnterPort, BrowserEnds, ExchangeEnds, Commit, Drop,
                Report, SignOut, Say, SayTest
  <2> QED BY <2>1, <2>2, <1>2
<1> QED BY <1>1, <1>3, <1>4, <1>5, <1>6
        DEF SignInNext, HandlerStep, signInVars, Banned, RenewalAnswers, RenewalLands

LEMMA NextSignIn == SignInInv /\ [SignInNext]_signInVars => SignInInv'
BY TypesNext, ExclusiveNext, RenewalsNext, GenerationsNext DEF SignInInv

-----------------------------------------------------------------------------

THEOREM SignInInvariant == SignInSpec => []SignInInv
<1>1. SignInInit => SignInInv
  BY InitSignIn
<1>2. SignInInv /\ [SignInNext]_signInVars => SignInInv'
  BY NextSignIn
<1> QED BY <1>1, <1>2, PTL DEF SignInSpec

(* An access token that becomes live was staged, and a refresh token is     *)
(* written only for the live session: what RenewalLands takes under the     *)
(* epoch lock is the session that is live already.                          *)
LEMMA CredentialsStep ==
    ASSUME SignInInv, [SignInNext]_signInVars
    PROVE  [ /\ live' \notin {live, Nobody} => live' = pending
             /\ saved' \notin {saved, Nobody} => saved' = live' ]_signInVars
<1>1. CASE UNCHANGED <<live, saved>>
  BY <1>1
<1>2. ASSUME NEW r \in Requests, EnterPort(r) \/ Commit(r) \/ SignOut(r)
      PROVE  /\ live' \notin {live, Nobody} => live' = pending
             /\ saved' \notin {saved, Nobody} => saved' = live'
  BY <1>2 DEF EnterPort, Commit, SignOut
<1>3. ASSUME NEW w \in renewals, RenewalLands(w)
      PROVE  /\ live' \notin {live, Nobody} => live' = pending
             /\ saved' \notin {saved, Nobody} => saved' = live'
  BY <1>3 DEF RenewalLands, SignInInv, RenewsTheLive
<1> QED BY <1>1, <1>2, <1>3
        DEF SignInNext, HandlerStep, signInVars, slotVars, portVars, Send, TakeSlot,
            NextGeneration, AcquireMutation, StartLogin, BrowserEnds, ExchangeEnds, Drop, Report,
            Say, SayTest, Banned, RenewalAnswers

THEOREM CredentialsComeFromCommits == SignInSpec => CredentialsFollowCommits
<1>1. SignInInv /\ [SignInNext]_signInVars =>
        [ /\ live' \notin {live, Nobody} => live' = pending
          /\ saved' \notin {saved, Nobody} => saved' = live' ]_signInVars
  BY CredentialsStep
<1> QED BY <1>1, SignInInvariant, PTL DEF SignInSpec, CredentialsFollowCommits

(* Only a commit announces an account, and only that of a request no other  *)
(* is newer than: one that is done was older.                               *)
LEMMA DecisionStep ==
    ASSUME SignInInv, [SignInNext]_signInVars
    PROVE  [ \A r \in Requests :
               /\ auth'.status = "loggedIn" /\ auth'.mode = "account" /\ auth' # auth
               /\ mutex = r /\ pc'[r] = "done"
               => \A s \in Requests : pc[s] = "done" => gen[s] < gen[r] ]_signInVars
<1> DEFINE Stands ==
      \A r \in Requests :
          /\ auth'.status = "loggedIn" /\ auth'.mode = "account" /\ auth' # auth
          /\ mutex = r /\ pc'[r] = "done"
          => \A s \in Requests : pc[s] = "done" => gen[s] < gen[r]
<1>1. CASE UNCHANGED auth
  BY <1>1
<1>2. ASSUME NEW r \in Requests, Commit(r) PROVE Stands
  <2>1. CASE CalledOff(r)
    BY <1>2, <2>1 DEF Commit
  <2>2. CASE ~CalledOff(r)
    <3>1. mutex = r /\ pc[r] = "commit" /\ gen[r] = generation
      BY <1>2, <2>2 DEF Commit, CalledOff, IsCurrent, SignInInv, PortIsExclusive, Inside
    <3>2. \A s \in Requests : pc[s] = "done" => gen[s] < gen[r]
      BY <3>1 DEF SignInInv, SignInTypeOK, GenerationsDiffer
    <3> QED BY <3>1, <3>2
  <2> QED BY <2>1, <2>2
<1>3. ASSUME NEW r \in Requests, StartLogin(r) \/ Report(r) \/ Say(r) \/ SayTest(r) PROVE Stands
  BY <1>3 DEF StartLogin, Report, Say, SayTest, Emit, Shown, LoggedOut
<1>4. CASE Banned
  BY <1>4 DEF Banned, Emit, Shown
<1> QED BY <1>1, <1>2, <1>3, <1>4
        DEF SignInNext, HandlerStep, signInVars, slotVars, portVars, Send, TakeSlot,
            NextGeneration, AcquireMutation, EnterPort, BrowserEnds, ExchangeEnds, Drop, SignOut,
            RenewalAnswers, RenewalLands

THEOREM LateAttemptsStaySilent == SignInSpec => NewerDecisionStands
<1>1. SignInInv /\ [SignInNext]_signInVars =>
        [ \A r \in Requests :
            /\ auth'.status = "loggedIn" /\ auth'.mode = "account" /\ auth' # auth
            /\ mutex = r /\ pc'[r] = "done"
            => \A s \in Requests : pc[s] = "done" => gen[s] < gen[r] ]_signInVars
  BY DecisionStep
<1> QED BY <1>1, SignInInvariant, PTL DEF SignInSpec, NewerDecisionStands

-----------------------------------------------------------------------------
(* A signed-in account has its session.  SignOut takes the session before   *)
(* the slice is told, and leaves the telling to a newer command when there  *)
(* is one, so what is kept is who will still speak for the slice.           *)

AccountShown == auth.status = "loggedIn" /\ auth.mode = "account"

(* r is going to change the slice, or a command newer than r will.          *)
Speaks(r) ==
    \/ pc[r] \in {"outdate", "report", "say"}
    \/ /\ pc[r] \in {"queue", "start", "signOut"}
       /\ kind[r] \in {"login", "logout"} /\ IsCurrent(r)

(* An account that is shown without its session, or is about to lose it, is *)
(* going to be spoken for.                                                  *)
LossIsTold ==
    AccountShown =>
        /\ auth.who # Nobody
        /\ \/ live = auth.who /\ \A r \in Requests : pc[r] # "signOut"
           \/ \E r \in Requests : Speaks(r)

(* Only a token that has been in the slot is cancelled, and by a command    *)
(* whose generation is about to be the newest.                              *)
CancelsOutdate ==
    /\ \A r \in Requests : slot = r => pc[r] \notin {"idle", "spawned"}
    /\ \A r \in cancelled : /\ pc[r] \notin {"idle", "spawned", "outdate"}
                            /\ IsCurrent(r) => \E s \in Requests : pc[s] = "outdate"

LEMMA CancelsNext ==
    ASSUME SignInInv, CancelsOutdate, [SignInNext]_signInVars
    PROVE  CancelsOutdate'
<1> USE NobodyIsNoRequest DEF SignInTypeOK, CancelsOutdate, IsCurrent, slotVars, portVars
<1>0. SignInTypeOK /\ GenerationsDiffer
  BY DEF SignInInv
<1>1. CASE UNCHANGED <<pc, slotVars>>
  BY <1>0, <1>1
<1>2. ASSUME NEW r \in Requests, NEW place \in Places, Go(r, place),
             pc[r] \notin {"idle", "spawned", "outdate"},
             place \notin {"idle", "spawned", "outdate"}, UNCHANGED slotVars
      PROVE  CancelsOutdate'
  BY <1>0, <1>2 DEF Go
<1>3. ASSUME NEW r \in Requests, NEW k \in Kinds, NEW remember \in BOOLEAN, Send(r, k, remember)
      PROVE  CancelsOutdate'
  BY <1>0, <1>3 DEF Send, Go
<1>4. ASSUME NEW r \in Requests, TakeSlot(r) PROVE CancelsOutdate'
  <2>1. pc'[r] = "outdate" /\ \A s \in Requests \ {r} : pc'[s] = pc[s]
    BY <1>0, <1>4 DEF TakeSlot, Go
  <2>2. \A s \in Requests : slot' = s => s = r
    BY <1>4 DEF TakeSlot
  <2>3. \A s \in cancelled' : pc[s] \notin {"idle", "spawned", "outdate"}
    BY <1>0, <1>4 DEF TakeSlot, SlotFree, Sessions
  <2>4. \A s \in cancelled' : s \in Requests /\ s # r
    BY <1>0, <1>4, <2>3 DEF TakeSlot, Sessions
  <2> QED BY <2>1, <2>2, <2>3, <2>4
<1>5. ASSUME NEW r \in Requests, NextGeneration(r) PROVE CancelsOutdate'
  <2>1. r \notin cancelled
    BY <1>5 DEF NextGeneration
  <2>2. \A s \in cancelled : gen'[s] < generation'
    BY <1>0, <1>5, <2>1 DEF NextGeneration, GenerationsDiffer
  <2> QED BY <1>0, <1>5, <2>1, <2>2 DEF NextGeneration, Go
<1>6. ASSUME NEW r \in Requests,
             \/ AcquireMutation(r) \/ StartLogin(r) \/ EnterPort(r) \/ BrowserEnds(r)
             \/ ExchangeEnds(r) \/ Commit(r) \/ Drop(r) \/ Report(r) \/ SignOut(r)
             \/ Say(r) \/ SayTest(r)
      PROVE  CancelsOutdate'
  <2>1. PICK place \in Places : Go(r, place) /\ place \notin {"idle", "spawned", "outdate"}
    BY <1>6 DEF AcquireMutation, StartLogin, EnterPort, BrowserEnds, ExchangeEnds, Commit, Drop,
                Report, SignOut, Say, SayTest, Go, Finish, Places
  <2>2. pc[r] \notin {"idle", "spawned", "outdate"} /\ UNCHANGED slotVars
    BY <1>6 DEF AcquireMutation, StartLogin, EnterPort, BrowserEnds, ExchangeEnds, Commit, Drop,
                Report, SignOut, Say, SayTest
  <2> QED BY <2>1, <2>2, <1>2
<1> QED BY <1>1, <1>3, <1>4, <1>5, <1>6
        DEF SignInNext, HandlerStep, signInVars, Banned, RenewalAnswers, RenewalLands

(* A step that leaves the slice and the session alone, begins no sign-out   *)
(* and silences nobody keeps the promise.                                   *)
LEMMA SilentStep ==
    ASSUME LossIsTold, UNCHANGED <<auth, live>>,
           \A r \in Requests : pc'[r] = "signOut" => pc[r] = "signOut" \/ Speaks(r)',
           (\E r \in Requests : Speaks(r)) => (\E r \in Requests : Speaks(r))'
    PROVE  LossIsTold'
BY DEF LossIsTold, AccountShown

LEMMA ToldNext ==
    ASSUME SignInInv, CancelsOutdate, LossIsTold, [SignInNext]_signInVars
    PROVE  LossIsTold'
<1> USE DEF SignInTypeOK, IsCurrent, slotVars, portVars
<1>0. SignInTypeOK /\ LossIsTold
  BY DEF SignInInv
<1>1. CASE UNCHANGED signInVars
  BY <1>0, <1>1 DEF signInVars, LossIsTold, AccountShown, Speaks
<1>2. ASSUME NEW r \in Requests, NEW k \in Kinds, NEW remember \in BOOLEAN, Send(r, k, remember)
      PROVE  LossIsTold'
  <2>1. \A s \in Requests : Speaks(s) => Speaks(s)'
    BY <1>0, <1>2 DEF Send, Go, Speaks
  <2>2. \A s \in Requests : pc'[s] = "signOut" => pc[s] = "signOut"
    BY <1>0, <1>2 DEF Send, Go
  <2> QED BY <1>0, <1>2, <2>1, <2>2, SilentStep DEF Send
<1>3. ASSUME NEW r \in Requests, TakeSlot(r) PROVE LossIsTold'
  <2>1. Speaks(r)'
    BY <1>0, <1>3 DEF TakeSlot, Go, Speaks
  <2>2. \A s \in Requests : pc'[s] = "signOut" => pc[s] = "signOut"
    BY <1>0, <1>3 DEF TakeSlot, Go
  <2> QED BY <1>0, <1>3, <2>1, <2>2, SilentStep DEF TakeSlot
<1>4. ASSUME NEW r \in Requests, NextGeneration(r) PROVE LossIsTold'
  <2>1. Speaks(r)'
    BY <1>0, <1>4 DEF NextGeneration, Go, Speaks
  <2>2. \A s \in Requests : pc'[s] = "signOut" => pc[s] = "signOut"
    BY <1>0, <1>4 DEF NextGeneration, Go
  <2> QED BY <1>0, <1>4, <2>1, <2>2, SilentStep DEF NextGeneration
<1>5. ASSUME NEW r \in Requests, AcquireMutation(r) PROVE LossIsTold'
  <2>1. \A s \in Requests : Speaks(s) /\ s # r => Speaks(s)'
    BY <1>0, <1>5 DEF AcquireMutation, Go, Finish, Speaks
  <2>2. CASE CalledOff(r) \/ kind[r] = "restore"
    <3>1. ~Speaks(r) \/ \E s \in Requests : pc[s] = "outdate" /\ s # r
      BY <1>5, <2>2 DEF AcquireMutation, CalledOff, Speaks, CancelsOutdate
    <3>2. (\E s \in Requests : Speaks(s)) => (\E s \in Requests : Speaks(s))'
      BY <2>1, <3>1 DEF Speaks
    <3>3. \A s \in Requests : pc'[s] = "signOut" => pc[s] = "signOut" \/ Speaks(s)'
      BY <1>0, <1>5 DEF AcquireMutation, Go, Finish, Speaks, CalledOff
    <3> QED BY <1>0, <1>5, <3>2, <3>3, SilentStep DEF AcquireMutation
  <2>3. CASE ~CalledOff(r) /\ kind[r] # "restore"
    <3>1. Speaks(r) => Speaks(r)'
      BY <1>0, <1>5, <2>3 DEF AcquireMutation, Go, Speaks, CalledOff
    <3>2. \A s \in Requests : pc'[s] = "signOut" => pc[s] = "signOut" \/ Speaks(s)'
      BY <1>0, <1>5 DEF AcquireMutation, Go, Finish, Speaks, CalledOff
    <3> QED BY <1>0, <1>5, <2>1, <3>1, <3>2, SilentStep DEF AcquireMutation
  <2> QED BY <2>2, <2>3
<1>6. ASSUME NEW r \in Requests, StartLogin(r) \/ Report(r) \/ Say(r) \/ SayTest(r)
      PROVE  LossIsTold'
  <2>1. ~AccountShown'
    BY <1>6 DEF StartLogin, Report, Say, SayTest, Emit, Shown, LoggedOut, AccountShown
  <2> QED BY <2>1 DEF LossIsTold
<1>7. ASSUME NEW r \in Requests, EnterPort(r) \/ BrowserEnds(r) \/ ExchangeEnds(r) \/ Drop(r)
      PROVE  LossIsTold'
  <2>1. ~Speaks(r)
    BY <1>7 DEF EnterPort, BrowserEnds, ExchangeEnds, Drop, Speaks
  <2>2. \A s \in Requests : Speaks(s) /\ s # r => Speaks(s)'
    BY <1>0, <1>7 DEF EnterPort, BrowserEnds, ExchangeEnds, Drop, Go, Finish, Speaks
  <2>3. \A s \in Requests : pc'[s] = "signOut" => pc[s] = "signOut"
    BY <1>0, <1>7 DEF EnterPort, BrowserEnds, ExchangeEnds, Drop, Go, Finish
  <2>4. UNCHANGED <<auth, live>>
    BY <1>7 DEF EnterPort, BrowserEnds, ExchangeEnds, Drop
  <2> QED BY <1>0, <2>1, <2>2, <2>3, <2>4, SilentStep
<1>8. ASSUME NEW r \in Requests, Commit(r) PROVE LossIsTold'
  <2>1. \A s \in Requests : pc'[s] # "signOut"
    BY <1>0, <1>8 DEF Commit, Go, Finish, SignInInv, PortIsExclusive, Inside
  <2>2. pc[r] = "commit" /\ pending # Nobody
    BY <1>8 DEF Commit, SignInInv, PortIsExclusive
  <2>3. CASE CalledOff(r)
    <3>1. \A s \in Requests : Speaks(s) => Speaks(s)'
      BY <1>0, <1>8, <2>2 DEF Commit, Go, Finish, Speaks
    <3> QED BY <1>0, <1>8, <2>1, <2>3, <3>1, SilentStep DEF Commit
  <2>4. CASE ~CalledOff(r)
    BY <1>8, <2>1, <2>2, <2>4 DEF Commit, Emit, Shown, LossIsTold, AccountShown
  <2> QED BY <2>3, <2>4
<1>9. ASSUME NEW r \in Requests, SignOut(r) PROVE LossIsTold'
  <2>1. pc[r] = "signOut" /\ UNCHANGED <<auth, kind, gen, generation>>
    BY <1>9 DEF SignOut
  <2>2. IsCurrent(r) => Speaks(r)'
    BY <1>0, <1>9 DEF SignOut, Go, Speaks
  <2>3. \A s \in Requests : Speaks(s) /\ s # r => Speaks(s)'
    BY <1>0, <1>9 DEF SignOut, Go, Finish, Speaks
  <2>4. ~IsCurrent(r) => ~Speaks(r)
    BY <2>1 DEF Speaks
  <2>5. AccountShown => \E s \in Requests : Speaks(s)'
    BY <1>0, <2>1, <2>2, <2>3, <2>4 DEF LossIsTold
  <2> QED BY <1>0, <2>1, <2>5 DEF LossIsTold, AccountShown
<1>10. CASE Banned
  BY <1>10 DEF Banned, Emit, Shown, LossIsTold, AccountShown
<1>11. ASSUME NEW w \in renewals, RenewalAnswers(w) \/ RenewalLands(w) PROVE LossIsTold'
  <2>1. UNCHANGED <<auth, live, pc, kind, gen, generation>>
    BY <1>11 DEF RenewalAnswers, RenewalLands, SignInInv, RenewsTheLive
  <2> QED BY <1>0, <2>1 DEF LossIsTold, AccountShown, Speaks
<1> QED BY <1>1, <1>2, <1>3, <1>4, <1>5, <1>6, <1>7, <1>8, <1>9, <1>10, <1>11
        DEF SignInNext, HandlerStep

(* Once nothing is under way nobody is left to speak, so the account the    *)
(* slice shows is the one the token store answers with.                     *)
THEOREM ShownAccountsHaveSessions == SignInSpec => []ShownSessionIsLive
<1> DEFINE Inv == SignInInv /\ CancelsOutdate /\ LossIsTold
<1>1. SignInInit => Inv
  BY InitSignIn, NobodyIsNoRequest
  DEF SignInInit, CancelsOutdate, LossIsTold, AccountShown, LoggedOut, Shown
<1>2. Inv /\ [SignInNext]_signInVars => Inv'
  BY NextSignIn, CancelsNext, ToldNext
<1>3. Inv => ShownSessionIsLive
  BY DEF SignInInv, SignInTypeOK, LossIsTold, AccountShown, Speaks, ShownSessionIsLive, Quiet
<1> QED BY <1>1, <1>2, <1>3, PTL DEF SignInSpec

-----------------------------------------------------------------------------
(* The variables of SignIn keep their types.                                *)
THEOREM SignInTypes == SignInSpec => []SignInTypeOK
<1>1. SignInInv => SignInTypeOK
  BY DEF SignInInv
<1> QED BY <1>1, SignInInvariant, PTL

-----------------------------------------------------------------------------
(* The links: their invariant.                                              *)

(* The guard is held for the account of the one attempt that got it.        *)
OneHolder ==
    \A t \in Tasks : At(t) \in Holding =>
        /\ guard = Acct(t) /\ Acct(t) # NoAccount
        /\ \A s \in Tasks \ {t} : At(s) \notin Holding

(* Accounts only move on, so an attempt that was cancelled stays it.        *)
NoLaterAccount == \A t \in Tasks : Acct(t) <= account

(* An attempt that has not dialled yet has no socket.                       *)
NotDialled ==
    \A t \in Tasks : At(t) \in {"called", "acquire", "check", "dial"} => socket[t] = "none"

(* A session that was not told to end is in the slot and has its reader,    *)
(* which leaves it only for an account that has ended.                      *)
HasReader ==
    \A t \in Tasks : Running(t) /\ t \notin cut =>
        /\ holder = t
        /\ At(t) \in {"loop", "handle", "ending"}
        /\ At(t) = "ending" => Cancelled(t)

(* What is being handled is in the inbox.                                   *)
HandlesOne == \A t \in Tasks : At(t) = "handle" => inbox[t] # <<>>

LinksInv ==
    LinksTypeOK /\ OneHolder /\ NoLaterAccount /\ NotDialled /\ HasReader /\ HandlesOne

LEMMA InitLinks == LinksInit => LinksInv
<1> SUFFICES ASSUME LinksInit PROVE LinksInv
  OBVIOUS
<1> USE LinksAssumption DEF LinksInit, NoAccount
<1>1. \A t \in Tasks : /\ attempt[t].at = "idle" /\ attempt[t].acct = 0
                       /\ socket[t] = "none" /\ inbox[t] = <<>>
  BY DEF NoAttempt
<1>2. NoAttempt \in Attempts /\ <<>> \in Seq(Updates)
  BY DEF NoAttempt, Attempts, LinkPlaces
<1>3. LinksTypeOK
  <2>1. NoRetry \in [attempts : 0 .. MaxBackoff, countdown : 0 .. MaxBackoff]
    BY DEF NoRetry
  <2>2. attempt \in [Tasks -> Attempts] /\ inbox \in [Tasks -> Seq(Updates)]
    BY <1>2
  <2>3. /\ account \in 1 .. MaxAccount /\ guard \in 0 .. MaxAccount /\ faults \in 0 .. MaxFaults
        /\ retry \in [attempts : 0 .. MaxBackoff, countdown : 0 .. MaxBackoff]
    BY <2>1
  <2>4. /\ socket \in [Tasks -> {"none", "dialing", "open", "ended"}]
        /\ cut \subseteq Tasks /\ holder \in Tasks \cup {NoTask}
    OBVIOUS
  <2> QED BY <2>2, <2>3, <2>4 DEF LinksTypeOK
<1> QED BY <1>1, <1>3 DEF LinksInv, OneHolder, NoLaterAccount, NotDialled, HasReader,
           HandlesOne, At, Acct, Running, Holding

-----------------------------------------------------------------------------
(* Every step keeps it.                                                     *)

LEMMA GoingTyped ==
    ASSUME attempt \in [Tasks -> Attempts], NEW t \in Tasks, NEW place \in LinkPlaces,
           Goto(t, place)
    PROVE  attempt' \in [Tasks -> Attempts]
<1>1. attempt' = [attempt EXCEPT ![t] = [attempt[t] EXCEPT !.at = place]]
  BY DEF Goto
<1>2. [attempt[t] EXCEPT !.at = place] \in Attempts
  BY DEF Attempts
<1> QED BY <1>1, <1>2

LEMMA ReturnTyped ==
    ASSUME attempt \in [Tasks -> Attempts], NEW t \in Tasks, Return(t)
    PROVE  attempt' \in [Tasks -> Attempts]
<1>1. NoAttempt \in Attempts
  BY LinksAssumption DEF NoAttempt, Attempts, NoAccount, LinkPlaces
<1> QED BY <1>1 DEF Return

LEMMA LinkTypesNext ==
    ASSUME LinksInv, [LinksNext]_linksVars
    PROVE  LinksTypeOK'
<1> USE LinksAssumption DEF LinksTypeOK, worldVars, userVars, attemptVars, socketVars, NoAccount
<1>0. LinksTypeOK
  BY DEF LinksInv
<1>1. CASE UNCHANGED linksVars
  BY <1>0, <1>1 DEF linksVars
<1>2. CASE SwitchAccount
  BY <1>0, <1>2 DEF SwitchAccount
<1>3. CASE Disarm
  BY <1>0, <1>3 DEF Disarm
<1>4. CASE HangUp
  BY <1>0, <1>4 DEF HangUp, Disconnect, Cut
<1>5. ASSUME NEW t \in Tasks, CallConnect(t) PROVE LinksTypeOK'
  <2>1. [NoAttempt EXCEPT !.at = "called", !.user = account] \in Attempts
    <3>1. NoAttempt \in Attempts
      BY DEF NoAttempt, Attempts, LinkPlaces
    <3>2. account \in 0 .. MaxAccount /\ "called" \in LinkPlaces
      BY <1>0 DEF LinkPlaces
    <3> QED BY <3>1, <3>2 DEF Attempts
  <2> QED BY <1>0, <1>5, <2>1 DEF CallConnect
<1>6. ASSUME NEW t \in Tasks, Tick(t) PROVE LinksTypeOK'
  <2>1. CASE retry' = NoRetry /\ UNCHANGED attemptVars
    BY <1>0, <1>6, <2>1 DEF Tick, NoRetry
  <2>2. CASE retry.countdown > 0 /\ retry' = [retry EXCEPT !.countdown = @ - 1]
                                 /\ UNCHANGED attemptVars
    <3>1. [retry EXCEPT !.countdown = @ - 1]
             \in [attempts : 0 .. MaxBackoff, countdown : 0 .. MaxBackoff]
      BY SMTT(40), <1>0, <2>2
    <3> QED BY <1>0, <1>6, <2>2, <3>1 DEF Tick
  <2>3. CASE /\ retry' = [attempts |-> BackoffAfter(retry.attempts),
                          countdown |-> BackoffAfter(retry.attempts)]
             /\ attempt' = [attempt EXCEPT ![t] =
                    [at |-> "acquire", acct |-> account, user |-> account, ifArmed |-> TRUE]]
             /\ UNCHANGED guard
    <3>1. BackoffAfter(retry.attempts) \in 0 .. MaxBackoff
      BY <1>0 DEF BackoffAfter
    <3>2. [at |-> "acquire", acct |-> account, user |-> account, ifArmed |-> TRUE] \in Attempts
      BY <1>0 DEF Attempts, LinkPlaces
    <3> QED BY <1>0, <1>6, <2>3, <3>1, <3>2 DEF Tick
  <2> QED BY <1>6, <2>1, <2>2, <2>3 DEF Tick
<1>7. ASSUME NEW t \in Tasks, BeginConnect(t) PROVE LinksTypeOK'
  <2>1. attempt' = [attempt EXCEPT ![t] =
            [attempt[t] EXCEPT !.at = "acquire", !.acct = account]]
    BY <1>7 DEF BeginConnect
  <2>2. [attempt[t] EXCEPT !.at = "acquire", !.acct = account] \in Attempts
    <3>1. attempt[t] \in Attempts /\ account \in 0 .. MaxAccount /\ "acquire" \in LinkPlaces
      BY <1>0 DEF LinkPlaces
    <3> QED BY <3>1 DEF Attempts
  <2> QED BY <1>0, <1>7, <2>1, <2>2 DEF BeginConnect
<1>8. ASSUME NEW t \in Tasks, Acquire(t) PROVE LinksTypeOK'
  BY SMTT(40), <1>0, <1>8, GoingTyped, ReturnTyped DEF Acquire, Cancelled, Acct, Attempts, LinkPlaces
<1>9. ASSUME NEW t \in Tasks, Check(t) PROVE LinksTypeOK'
  BY <1>0, <1>9, GoingTyped, ReturnTyped DEF Check, Show, LinkPlaces
<1>10. ASSUME NEW t \in Tasks, Dial(t) PROVE LinksTypeOK'
  <2>1. attempt' \in [Tasks -> Attempts]
    BY <1>0, <1>10, GoingTyped DEF Dial, LinkPlaces
  <2>2. <<>> \in Seq(Updates)
    OBVIOUS
  <2> QED BY ZenonT(40), <1>0, <1>10, <2>1, <2>2 DEF Dial, Disconnect, Cut
<1>11. ASSUME NEW t \in Tasks, Receive(t) PROVE LinksTypeOK'
  BY <1>0, <1>11, GoingTyped DEF Receive, LinkPlaces
<1>12. ASSUME NEW t \in Tasks, Handle(t) PROVE LinksTypeOK'
  <2>1. inbox[t] \in Seq(Updates) /\ inbox[t] # <<>>
    BY <1>0, <1>12 DEF Handle, LinksInv, HandlesOne
  <2>2. /\ Head(inbox[t]) \in Updates
        /\ Tail(inbox[t]) \in Seq(Updates)
    BY <2>1
  <2>3. attempt' \in [Tasks -> Attempts]
    BY <1>0, <1>12, GoingTyped DEF Handle, LinkPlaces
  <2>4. /\ inbox' \in [Tasks -> Seq(Updates)]
        /\ shown' \in {"down", "pending", "up"}
    BY <1>0, <1>12, <2>2 DEF Handle, Show, Updates
  <2> QED BY <1>0, <1>12, <2>3, <2>4 DEF Handle, Disconnect, Cut
<1>13. ASSUME NEW t \in Tasks, EndLoop(t) PROVE LinksTypeOK'
  BY <1>0, <1>13, GoingTyped DEF EndLoop, Disconnect, Cut, LinkPlaces
<1>14. ASSUME NEW t \in Tasks, Announce(t) PROVE LinksTypeOK'
  BY <1>0, <1>14, GoingTyped DEF Announce, Show, LinkPlaces
<1>15. ASSUME NEW t \in Tasks, Release(t) PROVE LinksTypeOK'
  BY <1>0, <1>15, ReturnTyped DEF Release
<1>16. ASSUME NEW t \in Tasks, NEW u \in Seq(Updates), Deliver(t, u)
       PROVE  inbox' \in [Tasks -> Seq(Updates)]
  BY <1>0, <1>16 DEF Deliver
<1>u. /\ <<"up">> \in Seq(Updates) /\ <<"kick">> \in Seq(Updates)
      /\ Lost \in Seq(Updates) /\ Lost \o <<"pending">> \in Seq(Updates)
  <2>1. <<"down">> \in Seq(Updates) /\ <<"pending">> \in Seq(Updates) /\ <<>> \in Seq(Updates)
    BY DEF Updates
  <2>2. Lost \in Seq(Updates)
    BY <2>1 DEF Lost
  <2>3. Lost \o <<"pending">> \in Seq(Updates)
    BY <2>1, <2>2
  <2> QED BY <2>2, <2>3 DEF Updates
<1>17. ASSUME NEW t \in Tasks, Opens(t) PROVE LinksTypeOK'
  BY <1>0, <1>16, <1>u, <1>17 DEF Opens
<1>18. ASSUME NEW t \in Tasks, Drops(t) PROVE LinksTypeOK'
  <2>1. inbox' \in [Tasks -> Seq(Updates)]
    BY <1>16, <1>u, <1>18 DEF Drops
  <2>2. faults' \in 0 .. MaxFaults
    BY <1>0, <1>18 DEF Drops, Fault
  <2> QED BY <1>0, <1>18, <2>1, <2>2 DEF Drops
<1>19. ASSUME NEW t \in Tasks, Kicks(t) PROVE LinksTypeOK'
  <2>1. inbox' \in [Tasks -> Seq(Updates)]
    BY <1>16, <1>u, <1>19 DEF Kicks
  <2> QED BY <1>0, <1>19, <2>1 DEF Kicks, Fault
<1>20. ASSUME NEW t \in Tasks, GivesUp(t) PROVE LinksTypeOK'
  BY <1>0, <1>16, <1>u, <1>20 DEF GivesUp, Fault
<1>21. ASSUME NEW t \in Tasks, Closes(t) PROVE LinksTypeOK'
  BY <1>0, <1>21, EmptySeq DEF Closes
<1> QED BY <1>1, <1>2, <1>3, <1>4, <1>5, <1>6, <1>7, <1>8, <1>9, <1>10, <1>11, <1>12, <1>13,
           <1>14, <1>15, <1>17, <1>18, <1>19, <1>20, <1>21
        DEF LinksNext, AttemptStep, SocketStep

(* What an attempt's step does to where it is and for whom.                 *)
LEMMA GoingThere ==
    ASSUME attempt \in [Tasks -> Attempts], NEW t \in Tasks, NEW place, Goto(t, place)
    PROVE  /\ At(t)' = place /\ Acct(t)' = Acct(t)
           /\ \A s \in Tasks \ {t} : At(s)' = At(s) /\ Acct(s)' = Acct(s)
BY DEF Goto, At, Acct, Attempts

LEMMA Returning ==
    ASSUME attempt \in [Tasks -> Attempts], NEW t \in Tasks, Return(t)
    PROVE  /\ At(t)' = "idle" /\ Acct(t)' = NoAccount
           /\ \A s \in Tasks \ {t} : At(s)' = At(s) /\ Acct(s)' = Acct(s)
BY DEF Return, NoAttempt, At, Acct, Attempts

(* A step of an attempt, by what it does to the attempt's place.            *)
LEMMA Beginning ==
    ASSUME LinksTypeOK, NEW t \in Tasks, CallConnect(t) \/ BeginConnect(t) \/ Tick(t)
    PROVE  /\ \/ At(t) = "idle" /\ At(t)' \in {"called", "acquire"} /\ socket[t] = "none"
              \/ At(t) = "called" /\ At(t)' = "acquire"
              \/ UNCHANGED attempt
           /\ UNCHANGED attempt \/ Acct(t)' \in {account, NoAccount}
           /\ \A s \in Tasks \ {t} : At(s)' = At(s) /\ Acct(s)' = Acct(s)
           /\ UNCHANGED <<account, guard, socketVars>>
<1> USE DEF LinksTypeOK, At, Acct, worldVars, socketVars
<1>1. CASE CallConnect(t)
  BY <1>1 DEF CallConnect, Free, NoAttempt, Attempts
<1>2. CASE BeginConnect(t)
  <2>1. attempt[t] \in Attempts
    OBVIOUS
  <2>2. attempt' = [attempt EXCEPT ![t] = [attempt[t] EXCEPT !.at = "acquire", !.acct = account]]
    BY <1>2 DEF BeginConnect
  <2> QED BY SMTT(40), <1>2, <2>1, <2>2 DEF BeginConnect, Attempts
<1>3. CASE Tick(t)
  BY <1>3 DEF Tick, Free, attemptVars
<1> QED BY <1>1, <1>2, <1>3

LEMMA HolderNext ==
    ASSUME LinksInv, [LinksNext]_linksVars
    PROVE  OneHolder'
<1> USE LinksAssumption DEF OneHolder, Holding
<1>0. LinksTypeOK /\ OneHolder /\ attempt \in [Tasks -> Attempts]
  BY DEF LinksInv, LinksTypeOK
<1>1. CASE UNCHANGED attemptVars
  BY <1>0, <1>1 DEF attemptVars, At, Acct
<1>2. ASSUME NEW t \in Tasks, CallConnect(t) \/ BeginConnect(t) \/ Tick(t) PROVE OneHolder'
  <2>1. CASE UNCHANGED attempt
    BY <1>0, <1>2, <2>1, Beginning DEF At, Acct
  <2> QED BY <1>0, <1>2, <2>1, Beginning
<1>3. ASSUME NEW t \in Tasks, Acquire(t) PROVE OneHolder'
  <2>1. CASE Return(t) /\ UNCHANGED guard
    BY <1>0, <2>1, Returning
  <2>2. CASE ~Cancelled(t) /\ guard = NoAccount /\ guard' = Acct(t) /\ Goto(t, "check")
    <3>1. Acct(t) # NoAccount
      BY <1>0, <2>2 DEF Cancelled, NoAccount, LinksTypeOK
    <3>2. \A s \in Tasks : At(s) \notin Holding
      BY <1>0, <2>2
    <3> QED BY <1>0, <2>2, <3>1, <3>2, GoingThere
  <2> QED BY <1>3, <2>1, <2>2 DEF Acquire
<1>4. ASSUME NEW t \in Tasks, Check(t) PROVE OneHolder'
  <2>1. CASE Return(t)
    BY <1>0, <1>4, <2>1, Returning DEF Check
  <2>2. CASE Goto(t, "dial") /\ UNCHANGED guard
    BY <1>0, <1>4, <2>2, GoingThere DEF Check
  <2> QED BY <1>4, <2>1, <2>2 DEF Check
<1>5. ASSUME NEW t \in Tasks,
             Dial(t) \/ Receive(t) \/ Handle(t) \/ EndLoop(t) \/ Announce(t)
      PROVE  OneHolder'
  <2>1. \E place \in {"announce", "release", "loop", "ending", "handle"} : Goto(t, place)
    BY <1>5 DEF Dial, Receive, Handle, EndLoop, Announce
  <2>2. guard' = guard /\ At(t) \in Holding
    BY <1>5 DEF Dial, Receive, Handle, EndLoop, Announce
  <2> QED BY <1>0, <2>1, <2>2, GoingThere
<1>6. ASSUME NEW t \in Tasks, Release(t) PROVE OneHolder'
  BY <1>0, <1>6, Returning DEF Release
<1>7. CASE SwitchAccount \/ Disarm \/ HangUp
  BY <1>1, <1>7 DEF SwitchAccount, Disarm, HangUp
<1>8. ASSUME NEW t \in Tasks, Opens(t) \/ SocketStep(t) \/ Closes(t) PROVE OneHolder'
  BY <1>1, <1>8 DEF Opens, SocketStep, Drops, Kicks, GivesUp, Closes
<1> QED BY <1>1, <1>2, <1>3, <1>4, <1>5, <1>6, <1>7, <1>8
        DEF LinksNext, AttemptStep, linksVars

LEMMA AccountsNext ==
    ASSUME LinksInv, [LinksNext]_linksVars
    PROVE  NoLaterAccount'
<1> USE LinksAssumption DEF NoLaterAccount
<1>0. /\ LinksTypeOK /\ NoLaterAccount /\ attempt \in [Tasks -> Attempts]
      /\ account \in Nat \ {0} /\ \A t \in Tasks : Acct(t) \in Nat
  BY DEF LinksInv, LinksTypeOK, Acct, Attempts
<1>1. CASE attempt' = attempt /\ account' = account
  BY <1>0, <1>1 DEF Acct
<1>2. ASSUME NEW t \in Tasks, CallConnect(t) \/ BeginConnect(t) \/ Tick(t) PROVE NoLaterAccount'
  BY <1>0, <1>1, <1>2, Beginning DEF NoAccount
<1>3. ASSUME NEW t \in Tasks, Acquire(t) \/ Check(t) \/ Release(t) PROVE NoLaterAccount'
  <2>1. Return(t) \/ Goto(t, "check") \/ Goto(t, "dial")
    BY <1>3 DEF Acquire, Check, Release
  <2>2. account' = account
    BY <1>3 DEF Acquire, Check, Release, worldVars
  <2> QED BY <1>0, <2>1, <2>2, GoingThere, Returning DEF NoAccount
<1>4. ASSUME NEW t \in Tasks,
             Dial(t) \/ Receive(t) \/ Handle(t) \/ EndLoop(t) \/ Announce(t)
      PROVE  NoLaterAccount'
  <2>1. \E place \in {"announce", "release", "loop", "ending", "handle"} : Goto(t, place)
    BY <1>4 DEF Dial, Receive, Handle, EndLoop, Announce
  <2>2. account' = account
    BY <1>4 DEF Dial, Receive, Handle, EndLoop, Announce, worldVars
  <2> QED BY <1>0, <2>1, <2>2, GoingThere
<1>5. CASE SwitchAccount
  <2>1. attempt' = attempt /\ account' = account + 1
    BY <1>5 DEF SwitchAccount, attemptVars
  <2> QED BY <1>0, <2>1 DEF Acct
<1>6. CASE Disarm \/ HangUp
  BY <1>1, <1>6 DEF Disarm, HangUp, worldVars, attemptVars
<1>7. ASSUME NEW t \in Tasks, Opens(t) \/ SocketStep(t) \/ Closes(t) PROVE NoLaterAccount'
  BY <1>1, <1>7 DEF Opens, SocketStep, Drops, Kicks, GivesUp, Closes, worldVars, attemptVars
<1>8. CASE UNCHANGED linksVars
  BY <1>1, <1>8 DEF linksVars, worldVars, attemptVars
<1> QED BY <1>2, <1>3, <1>4, <1>5, <1>6, <1>7, <1>8 DEF LinksNext, AttemptStep

LEMMA SocketsNext ==
    ASSUME LinksInv, [LinksNext]_linksVars
    PROVE  NotDialled'
<1> USE LinksAssumption DEF NotDialled
<1>0. /\ LinksTypeOK /\ NotDialled /\ attempt \in [Tasks -> Attempts]
      /\ socket \in [Tasks -> {"none", "dialing", "open", "ended"}]
  BY DEF LinksInv, LinksTypeOK
<1>1. CASE attempt' = attempt /\ socket' = socket
  BY <1>0, <1>1 DEF At
<1>2. ASSUME NEW t \in Tasks, CallConnect(t) \/ BeginConnect(t) \/ Tick(t) PROVE NotDialled'
  BY <1>0, <1>1, <1>2, Beginning DEF socketVars
<1>3. ASSUME NEW t \in Tasks, Acquire(t) \/ Check(t) \/ Release(t) PROVE NotDialled'
  <2>1. \/ Return(t)
        \/ At(t) = "acquire" /\ Goto(t, "check")
        \/ At(t) = "check" /\ Goto(t, "dial")
    BY <1>3 DEF Acquire, Check, Release
  <2>2. socket' = socket
    BY <1>3 DEF Acquire, Check, Release, socketVars
  <2> QED BY <1>0, <2>1, <2>2, GoingThere, Returning
<1>4. ASSUME NEW t \in Tasks,
             Dial(t) \/ Receive(t) \/ Handle(t) \/ EndLoop(t) \/ Announce(t)
      PROVE  NotDialled'
  <2>1. \E place \in {"announce", "release", "loop", "ending", "handle"} : Goto(t, place)
    BY <1>4 DEF Dial, Receive, Handle, EndLoop, Announce
  <2>2. \A s \in Tasks \ {t} : socket'[s] = socket[s]
    BY <1>0, <1>4 DEF Dial, Receive, Handle, EndLoop, Announce, socketVars
  <2> QED BY <1>0, <2>1, <2>2, GoingThere
<1>5. CASE SwitchAccount \/ Disarm \/ HangUp
  BY <1>1, <1>5 DEF SwitchAccount, Disarm, HangUp, attemptVars, socketVars
<1>6. ASSUME NEW t \in Tasks, Opens(t) \/ SocketStep(t) \/ Closes(t) PROVE NotDialled'
  <2>1. /\ attempt' = attempt /\ socket[t] # "none"
        /\ \A s \in Tasks \ {t} : socket'[s] = socket[s]
    BY <1>0, <1>6
    DEF Opens, SocketStep, Drops, Kicks, GivesUp, Closes, Running, attemptVars
  <2> QED BY <1>0, <2>1 DEF At
<1>7. CASE UNCHANGED linksVars
  BY <1>1, <1>7 DEF linksVars, attemptVars, socketVars
<1> QED BY <1>2, <1>3, <1>4, <1>5, <1>6, <1>7 DEF LinksNext, AttemptStep

LEMMA InboxNext ==
    ASSUME LinksInv, [LinksNext]_linksVars
    PROVE  HandlesOne'
<1> USE LinksAssumption DEF HandlesOne
<1>0. /\ LinksTypeOK /\ HandlesOne /\ attempt \in [Tasks -> Attempts]
      /\ inbox \in [Tasks -> Seq(Updates)]
  BY DEF LinksInv, LinksTypeOK
<1>1. CASE attempt' = attempt /\ inbox' = inbox
  BY <1>0, <1>1 DEF At
<1>2. ASSUME NEW t \in Tasks, CallConnect(t) \/ BeginConnect(t) \/ Tick(t) PROVE HandlesOne'
  BY <1>0, <1>1, <1>2, Beginning DEF socketVars
<1>3. ASSUME NEW t \in Tasks, Acquire(t) \/ Check(t) \/ Release(t) PROVE HandlesOne'
  <2>1. Return(t) \/ Goto(t, "check") \/ Goto(t, "dial")
    BY <1>3 DEF Acquire, Check, Release
  <2>2. inbox' = inbox
    BY <1>3 DEF Acquire, Check, Release, socketVars
  <2> QED BY <1>0, <2>1, <2>2, GoingThere, Returning
<1>4. ASSUME NEW t \in Tasks, Dial(t) \/ Handle(t) \/ EndLoop(t) \/ Announce(t)
      PROVE  HandlesOne'
  <2>1. \E place \in {"announce", "release", "loop"} : Goto(t, place)
    BY <1>4 DEF Dial, Handle, EndLoop, Announce
  <2>2. \A s \in Tasks \ {t} : inbox'[s] = inbox[s]
    BY <1>0, <1>4 DEF Dial, Handle, EndLoop, Announce, socketVars
  <2> QED BY <1>0, <2>1, <2>2, GoingThere
<1>5. ASSUME NEW t \in Tasks, Receive(t) PROVE HandlesOne'
  <2>1. Goto(t, "ending") \/ (Goto(t, "handle") /\ inbox[t] # <<>>)
    BY <1>5 DEF Receive
  <2>2. inbox' = inbox
    BY <1>5 DEF Receive, socketVars
  <2> QED BY <1>0, <2>1, <2>2, GoingThere
<1>6. CASE SwitchAccount \/ Disarm \/ HangUp
  BY <1>1, <1>6 DEF SwitchAccount, Disarm, HangUp, attemptVars, socketVars
<1>7. ASSUME NEW t \in Tasks, Opens(t) \/ SocketStep(t) PROVE HandlesOne'
  <2>1. attempt' = attempt
    BY <1>7 DEF Opens, SocketStep, Drops, Kicks, GivesUp, attemptVars
  <2>2. inbox' = inbox \/ \E u \in Seq(Updates) : Deliver(t, u)
    <3>1. <<"up">> \in Seq(Updates) /\ <<"kick">> \in Seq(Updates)
      BY DEF Updates
    <3>2. <<"down">> \in Seq(Updates) /\ <<"pending">> \in Seq(Updates) /\ <<>> \in Seq(Updates)
      BY DEF Updates
    <3>3. Lost \in Seq(Updates)
      BY <3>2 DEF Lost
    <3>4. Lost \o <<"pending">> \in Seq(Updates)
      BY <3>2, <3>3
    <3> QED BY <1>7, <3>1, <3>3, <3>4 DEF Opens, SocketStep, Drops, Kicks, GivesUp
  <2>3. \A s \in Tasks : inbox[s] # <<>> => inbox'[s] # <<>>
    <3>1. ASSUME NEW u \in Seq(Updates), Deliver(t, u), NEW s \in Tasks, inbox[s] # <<>>
          PROVE  inbox'[s] # <<>>
      <4>1. CASE s = t
        <5>1. inbox'[s] = inbox[s] \o u
          BY <1>0, <3>1, <4>1 DEF Deliver
        <5>2. Len(inbox[s] \o u) = Len(inbox[s]) + Len(u) /\ Len(inbox[s]) > 0 /\ Len(u) >= 0
          BY <1>0, <3>1
        <5> QED BY <5>1, <5>2
      <4>2. CASE s # t
        BY <1>0, <3>1, <4>2 DEF Deliver
      <4> QED BY <4>1, <4>2
    <3> QED BY <2>2, <3>1
  <2> QED BY <1>0, <2>1, <2>3 DEF At
<1>8. ASSUME NEW t \in Tasks, Closes(t) PROVE HandlesOne'
  <2>1. /\ attempt' = attempt
        /\ \A s \in Tasks : At(s) # "idle" => inbox'[s] = inbox[s]
    BY <1>0, <1>8 DEF Closes, attemptVars
  <2> QED BY <1>0, <2>1 DEF At
<1>9. CASE UNCHANGED linksVars
  BY <1>1, <1>9 DEF linksVars, attemptVars, socketVars
<1> QED BY <1>2, <1>3, <1>4, <1>5, <1>6, <1>7, <1>8, <1>9 DEF LinksNext, AttemptStep

(* Whoever clears the slot has told the session in it to end.               *)
LEMMA CutEndsAll ==
    ASSUME LinksTypeOK, HasReader, NEW next, Cut(next)
    PROVE  \A t \in Tasks : ~(Running(t) /\ t \notin cut')
BY DEF HasReader, Cut

LEMMA ReaderNext ==
    ASSUME LinksInv, [LinksNext]_linksVars
    PROVE  HasReader'
<1> USE LinksAssumption
<1>0. /\ LinksTypeOK /\ NoLaterAccount /\ NotDialled /\ HasReader
      /\ attempt \in [Tasks -> Attempts] /\ cut \subseteq Tasks
      /\ socket \in [Tasks -> {"none", "dialing", "open", "ended"}]
      /\ account \in Nat \ {0} /\ \A t \in Tasks : Acct(t) \in Nat
  BY DEF LinksInv, LinksTypeOK, Acct, Attempts
<1>1. CASE attempt' = attempt /\ account' = account /\ UNCHANGED <<socket, cut, holder>>
  BY <1>0, <1>1 DEF HasReader, Running, At, Acct, Cancelled
<1>2. ASSUME NEW t \in Tasks, CallConnect(t) \/ BeginConnect(t) \/ Tick(t) PROVE HasReader'
  <2>1. CASE UNCHANGED attempt
    BY <1>1, <1>2, <2>1, <1>0, Beginning DEF socketVars
  <2>2. CASE ~UNCHANGED attempt
    <3>1. socket[t] = "none" /\ UNCHANGED <<account, socket, cut, holder>>
      BY <1>0, <1>2, <2>2, Beginning DEF NotDialled, socketVars
    <3>2. \A s \in Tasks \ {t} : At(s)' = At(s) /\ Acct(s)' = Acct(s)
      BY <1>0, <1>2, Beginning
    <3> QED BY <1>0, <3>1, <3>2 DEF HasReader, Running, Cancelled
  <2> QED BY <2>1, <2>2
<1>3. ASSUME NEW t \in Tasks, Acquire(t) \/ Check(t) \/ Announce(t) \/ Release(t) PROVE HasReader'
  <2>1. Return(t) \/ \E place \in {"check", "dial", "release"} : Goto(t, place)
    BY <1>3 DEF Acquire, Check, Announce, Release
  <2>2. ~(Running(t) /\ t \notin cut) /\ UNCHANGED <<account, socket, cut, holder>>
    BY <1>0, <1>3 DEF Acquire, Check, Announce, Release, HasReader, worldVars, socketVars
  <2>3. \A s \in Tasks \ {t} : At(s)' = At(s) /\ Acct(s)' = Acct(s)
    BY <1>0, <2>1, GoingThere, Returning
  <2> QED BY <1>0, <2>2, <2>3 DEF HasReader, Running, Cancelled
<1>4. ASSUME NEW t \in Tasks, Dial(t) PROVE HasReader'
  <2>1. CASE Disconnect /\ socket' = socket
    BY <1>0, <2>1, CutEndsAll DEF Disconnect, HasReader, Running
  <2>2. CASE Cut(t) /\ socket' = [socket EXCEPT ![t] = "dialing"] /\ Goto(t, "loop")
    <3>1. \A s \in Tasks \ {t} : ~(Running(s)' /\ s \notin cut')
      BY <1>0, <2>2, CutEndsAll DEF Running
    <3>2. At(t)' = "loop" /\ holder' = t
      BY <1>0, <2>2, GoingThere DEF Cut
    <3> QED BY <3>1, <3>2 DEF HasReader
  <2> QED BY <1>4, <2>1, <2>2 DEF Dial
<1>5. ASSUME NEW t \in Tasks, Receive(t) PROVE HasReader'
  <2>1. /\ UNCHANGED <<account, socket, cut, holder>> /\ At(t) = "loop"
        /\ \/ Cancelled(t) /\ Goto(t, "ending")
           \/ Goto(t, "handle")
           \/ socket[t] = "ended" /\ Goto(t, "ending")
    BY <1>5 DEF Receive, worldVars, socketVars
  <2> QED BY <1>0, <2>1, GoingThere DEF HasReader, Running, Cancelled
<1>6. ASSUME NEW t \in Tasks, Handle(t) PROVE HasReader'
  <2>1. CASE Disconnect
    BY <1>0, <1>6, <2>1, CutEndsAll DEF Handle, Disconnect, HasReader, Running
  <2>2. CASE UNCHANGED <<cut, holder>>
    <3>1. Goto(t, "loop") /\ At(t) = "handle" /\ UNCHANGED <<account, socket>>
      BY <1>6 DEF Handle, worldVars
    <3> QED BY <1>0, <2>2, <3>1, GoingThere DEF HasReader, Running, Cancelled
  <2> QED BY <1>6, <2>1, <2>2 DEF Handle
<1>7. ASSUME NEW t \in Tasks, EndLoop(t) PROVE HasReader'
  <2>1. CASE Disconnect
    BY <1>0, <1>7, <2>1, CutEndsAll DEF EndLoop, Disconnect, HasReader, Running
  <2>2. CASE ~Cancelled(t) /\ UNCHANGED <<cut, holder>>
    <3>1. Goto(t, "announce") /\ At(t) = "ending" /\ UNCHANGED <<account, socket>>
      BY <1>7 DEF EndLoop, worldVars
    <3>2. ~(Running(t) /\ t \notin cut)
      BY <1>0, <2>2, <3>1 DEF HasReader
    <3>3. \A s \in Tasks \ {t} : At(s)' = At(s) /\ Acct(s)' = Acct(s)
      BY <1>0, <3>1, GoingThere
    <3> QED BY <1>0, <2>2, <3>1, <3>2, <3>3 DEF HasReader, Running, Cancelled
  <2> QED BY <1>7, <2>1, <2>2 DEF EndLoop
<1>8. CASE SwitchAccount
  <2>1. attempt' = attempt /\ account' = account + 1 /\ UNCHANGED <<socket, cut, holder>>
    BY <1>8 DEF SwitchAccount, attemptVars, socketVars
  <2>2. \A t \in Tasks : Acct(t)' # account'
    BY <1>0, <2>1 DEF NoLaterAccount, Acct
  <2> QED BY <1>0, <2>1, <2>2 DEF HasReader, Running, Cancelled, At
<1>9. CASE Disarm
  BY <1>1, <1>9 DEF Disarm, worldVars, attemptVars, socketVars
<1>10. CASE HangUp
  BY <1>0, <1>10, CutEndsAll DEF HangUp, Disconnect, HasReader, Running
<1>11. ASSUME NEW t \in Tasks, Opens(t) \/ SocketStep(t) \/ Closes(t) PROVE HasReader'
  <2>1. attempt' = attempt /\ account' = account /\ holder' = holder
    BY <1>11 DEF Opens, SocketStep, Drops, Kicks, GivesUp, Closes, worldVars, attemptVars
  <2>2. \A s \in Tasks : Running(s)' /\ s \notin cut' => Running(s) /\ s \notin cut
    BY <1>0, <1>11 DEF Opens, SocketStep, Drops, Kicks, GivesUp, Closes, Running
  <2> QED BY <1>0, <2>1, <2>2 DEF HasReader, At, Acct, Cancelled
<1>12. CASE UNCHANGED linksVars
  BY <1>1, <1>12 DEF linksVars, worldVars, attemptVars, socketVars
<1> QED BY <1>2, <1>3, <1>4, <1>5, <1>6, <1>7, <1>8, <1>9, <1>10, <1>11, <1>12
        DEF LinksNext, AttemptStep

(* The attempt that has still to say how the connection ends.               *)
Reports(t) ==
    /\ At(t) \in {"dial", "loop", "handle", "ending", "announce"}
    /\ link = "chat" => ~Cancelled(t)

LEMMA ReporterNext ==
    ASSUME LinksInv, ShownHasReporter, [LinksNext]_linksVars
    PROVE  ShownHasReporter'
<1> USE DEF Reports, Cancelled
<1> DEFINE Reported == shown = "down" \/ \E t \in Tasks : Reports(t)
<1>0. LinksTypeOK /\ attempt \in [Tasks -> Attempts] /\ Reported
  BY DEF LinksInv, LinksTypeOK, ShownHasReporter, Holding
<1>1. SUFFICES Reported'
  BY DEF ShownHasReporter, Holding
<1>2. CASE UNCHANGED <<attempt, account, link, shown>>
  BY <1>0, <1>2 DEF At, Acct
<1>3. ASSUME NEW t \in Tasks, CallConnect(t) \/ BeginConnect(t) \/ Tick(t) PROVE Reported'
  <2>1. UNCHANGED <<account, link, shown>>
    BY <1>3 DEF CallConnect, BeginConnect, Tick, worldVars
  <2>2. UNCHANGED attempt \/ At(t) \in {"idle", "called"}
    BY <1>0, <1>3, Beginning
  <2>3. \A s \in Tasks \ {t} : At(s)' = At(s) /\ Acct(s)' = Acct(s)
    BY <1>0, <1>3, Beginning
  <2>4. CASE UNCHANGED attempt
    BY <1>2, <2>1, <2>4
  <2> QED BY <1>0, <2>1, <2>2, <2>3, <2>4
<1>4. ASSUME NEW t \in Tasks, Acquire(t) \/ Release(t) PROVE Reported'
  <2>1. UNCHANGED <<account, link, shown>> /\ At(t) \in {"acquire", "release"}
    BY <1>4 DEF Acquire, Release, worldVars
  <2>2. Return(t) \/ Goto(t, "check")
    BY <1>4 DEF Acquire, Release
  <2> QED BY <1>0, <2>1, <2>2, GoingThere, Returning
<1>5. ASSUME NEW t \in Tasks, Check(t) PROVE Reported'
  <2>1. UNCHANGED <<account, link>> /\ At(t) = "check"
    BY <1>5 DEF Check, worldVars
  <2>2. CASE Return(t) /\ UNCHANGED shown
    BY <1>0, <2>1, <2>2, Returning
  <2>3. CASE Goto(t, "dial") /\ Show(t, "pending")
    BY <1>0, <2>1, <2>3, GoingThere DEF Show
  <2> QED BY <1>5, <2>2, <2>3 DEF Check
<1>6. ASSUME NEW t \in Tasks, Dial(t) \/ Receive(t) \/ EndLoop(t) PROVE Reported'
  <2>1. UNCHANGED <<account, link, shown>>
    BY <1>6 DEF Dial, Receive, EndLoop, worldVars
  <2>2. \/ \E place \in {"announce", "loop", "handle", "ending"} : Goto(t, place)
        \/ Goto(t, "release") /\ link # "lobby" /\ Cancelled(t)
    BY <1>6 DEF Dial, Receive, EndLoop
  <2>3. link # "lobby" => link = "chat"
    BY <1>0 DEF LinksTypeOK
  <2>4. At(t) \in {"dial", "loop", "ending"}
    BY <1>6 DEF Dial, Receive, EndLoop
  <2> QED BY <1>0, <2>1, <2>2, <2>3, <2>4, GoingThere
<1>7. ASSUME NEW t \in Tasks, Handle(t) PROVE Reported'
  <2>1. UNCHANGED <<account, link>> /\ At(t) = "handle" /\ Goto(t, "loop")
    BY <1>7 DEF Handle, worldVars
  <2>2. UNCHANGED shown \/ ~(link = "chat" /\ Cancelled(t))
    BY <1>7 DEF Handle, Show
  <2> QED BY <1>0, <2>1, <2>2, GoingThere
<1>8. ASSUME NEW t \in Tasks, Announce(t) PROVE Reported'
  <2>1. UNCHANGED <<account, link>> /\ At(t) = "announce" /\ Goto(t, "release")
    BY <1>8 DEF Announce, worldVars
  <2>2. shown' = "down" \/ (UNCHANGED shown /\ ~Reports(t))
    BY <1>8 DEF Announce, Show
  <2> QED BY <1>0, <2>1, <2>2, GoingThere
<1>9. CASE SwitchAccount
  <2>1. link = "chat" => shown' = "down"
    BY <1>9 DEF SwitchAccount
  <2>2. link # "chat" => UNCHANGED <<shown, attempt, link>>
    BY <1>9 DEF SwitchAccount, attemptVars
  <2> QED BY <1>0, <2>1, <2>2 DEF At
<1>10. CASE Disarm \/ HangUp
  BY <1>2, <1>10 DEF Disarm, HangUp, worldVars, attemptVars
<1>11. ASSUME NEW t \in Tasks, Opens(t) \/ SocketStep(t) \/ Closes(t) PROVE Reported'
  BY <1>2, <1>11 DEF Opens, SocketStep, Drops, Kicks, GivesUp, Closes, worldVars, attemptVars
<1>12. CASE UNCHANGED linksVars
  BY <1>2, <1>12 DEF linksVars, worldVars, attemptVars
<1> HIDE DEF Reported
<1> QED BY <1>3, <1>4, <1>5, <1>6, <1>7, <1>8, <1>9, <1>10, <1>11, <1>12
        DEF LinksNext, AttemptStep

-----------------------------------------------------------------------------
(* The theorems.                                                            *)

(* The invariant holds throughout: one attempt holds the connection, and    *)
(* every open session has it for its reader.                                *)
THEOREM LinksInvariant == LinksSpec => []LinksInv
<1>1. LinksInv /\ [LinksNext]_linksVars => LinksInv'
  BY LinkTypesNext, HolderNext, AccountsNext, SocketsNext, ReaderNext, InboxNext DEF LinksInv
<1> QED BY InitLinks, <1>1, PTL DEF LinksSpec

(* No socket stays open without the one attempt that reads it, in the name  *)
(* of the account it was opened for: connect_with and the ports' slots.     *)
THEOREM EverySocketIsRead == LinksSpec => []NoOrphanSocket
<1>1. LinksInv => NoOrphanSocket
  BY DEF LinksInv, OneHolder, HasReader, NoOrphanSocket, Holding
<1> QED BY LinksInvariant, <1>1, PTL

(* No status outlives its connection: one that is not "down" belongs to an  *)
(* attempt that has still to announce its end, for chat one of the account  *)
(* that is signed in, whose sink emit_event still listens to.               *)
THEOREM StatusesAreReported == LinksSpec => []ShownHasReporter
<1>1. LinksInit => ShownHasReporter
  BY DEF LinksInit, ShownHasReporter
<1> QED BY LinksInvariant, ReporterNext, <1>1, PTL DEF LinksSpec

(* The variables of a link keep their types.                                *)
THEOREM LinkTypes == LinksSpec => []LinksTypeOK
<1>1. LinksInv => LinksTypeOK
  BY DEF LinksInv
<1> QED BY LinksInvariant, <1>1, PTL

-----------------------------------------------------------------------------
(* Links implements AccountSocket.                                          *)

Opened(t) == Running(t) /\ t \notin cut

(* A socket that is open is the one of the guard's account.                 *)
LEMMA OpenIsOwners ==
    ASSUME LinksInv
    PROVE  /\ OpenFor \subseteq {guard}
           /\ guard = NoAccount => OpenFor = {}
           /\ \A t \in Tasks : At(t) \in {"check", "dial", "announce", "release"} => OpenFor = {}
<1>1. \A t \in Tasks : Opened(t) =>
        /\ At(t) \in {"loop", "handle", "ending"}
        /\ guard = Acct(t) /\ Acct(t) # NoAccount
        /\ \A s \in Tasks \ {t} : At(s) \notin Holding
  BY DEF LinksInv, HasReader, OneHolder, Opened, Holding
<1> QED BY <1>1 DEF OpenFor, Opened, Holding

(* A step that opens nothing is a close at most.                            *)
LEMMA OnlyCloses ==
    ASSUME LinksInv, UNCHANGED <<account, guard>>,
           \A t \in Tasks : Opened(t)' => Opened(t) /\ Acct(t)' = Acct(t)
    PROVE  [Connection!Next]_<<account, guard, OpenFor>>
<1>1. OpenFor' \subseteq OpenFor
  BY DEF OpenFor, Opened
<1>2. OpenFor' = OpenFor \/ (OpenFor # {} /\ OpenFor' = {})
  BY <1>1, OpenIsOwners
<1> QED BY <1>2 DEF Connection!Next, Connection!Close

LEMMA ConnectionStep ==
    ASSUME LinksInv, [LinksNext]_linksVars
    PROVE  [Connection!Next]_<<account, guard, OpenFor>>
<1> USE LinksAssumption
<1>0. /\ LinksTypeOK /\ NotDialled /\ HasReader
      /\ attempt \in [Tasks -> Attempts] /\ cut \subseteq Tasks
      /\ socket \in [Tasks -> {"none", "dialing", "open", "ended"}]
  BY DEF LinksInv, LinksTypeOK
<1>1. CASE UNCHANGED <<attempt, account, guard, socket, cut>>
  BY <1>1, OnlyCloses DEF Opened, Running, Acct
<1>2. CASE SwitchAccount
  <2>1. UNCHANGED <<guard, OpenFor>> /\ account' = account + 1
    BY <1>2 DEF SwitchAccount, attemptVars, socketVars, OpenFor, Acct, Running
  <2> QED BY <2>1 DEF Connection!Next, Connection!Switch
<1>3. ASSUME NEW t \in Tasks, CallConnect(t) \/ BeginConnect(t) \/ Tick(t)
      PROVE  [Connection!Next]_<<account, guard, OpenFor>>
  <2>1. UNCHANGED <<account, guard, socket, cut>>
    BY <1>3 DEF CallConnect, BeginConnect, Tick, worldVars, attemptVars, socketVars
  <2>2. CASE UNCHANGED attempt
    BY <1>1, <2>1, <2>2
  <2>3. CASE ~UNCHANGED attempt
    <3>1. socket[t] = "none" /\ \A s \in Tasks \ {t} : Acct(s)' = Acct(s)
      BY <1>0, <1>3, <2>3, Beginning DEF NotDialled
    <3> QED BY <2>1, <3>1, OnlyCloses DEF Opened, Running
  <2> QED BY <2>2, <2>3
<1>4. ASSUME NEW t \in Tasks, At(t) \in {"acquire", "check", "announce", "release"},
             UNCHANGED <<account, socket, cut>>,
             Return(t) \/ \E place \in LinkPlaces : Goto(t, place)
      PROVE  /\ OpenFor' = OpenFor
             /\ guard' = guard => [Connection!Next]_<<account, guard, OpenFor>>
  <2>1. ~Opened(t) /\ ~Opened(t)'
    BY <1>0, <1>4 DEF HasReader, Opened, Running
  <2>2. \A s \in Tasks \ {t} : Acct(s)' = Acct(s)
    BY <1>0, <1>4, GoingThere, Returning
  <2>3. \A s \in Tasks : Opened(s)' = Opened(s) /\ (Opened(s) => Acct(s)' = Acct(s))
    BY <1>4, <2>1, <2>2 DEF Opened, Running
  <2>4. OpenFor' = OpenFor
    BY <2>3 DEF OpenFor, Opened
  <2> QED BY <1>4, <2>4
<1>5. ASSUME NEW t \in Tasks, Acquire(t) PROVE [Connection!Next]_<<account, guard, OpenFor>>
  <2>1. OpenFor' = OpenFor /\ account' = account
    BY <1>4, <1>5 DEF Acquire, worldVars, socketVars, LinkPlaces
  <2>2. guard' = guard \/ (guard = NoAccount /\ guard' = account)
    BY <1>5 DEF Acquire, Cancelled
  <2> QED BY <2>1, <2>2 DEF Connection!Next, Connection!Claim, Connection!Nobody, NoAccount
<1>6. ASSUME NEW t \in Tasks, Check(t) \/ Announce(t) \/ Release(t)
      PROVE  [Connection!Next]_<<account, guard, OpenFor>>
  <2>1. At(t) \in {"check", "announce", "release"} /\ account' = account
    BY <1>6 DEF Check, Announce, Release, worldVars
  <2>2. OpenFor' = OpenFor /\ OpenFor = {}
    BY <1>4, <1>6, <2>1, OpenIsOwners
    DEF Check, Announce, Release, worldVars, socketVars, LinkPlaces
  <2>3. guard' = guard \/ guard' = NoAccount
    BY <1>6 DEF Check, Announce, Release
  <2> QED BY <2>1, <2>2, <2>3 DEF Connection!Next, Connection!Release, Connection!Nobody, NoAccount
<1>7. ASSUME NEW t \in Tasks, Dial(t) PROVE [Connection!Next]_<<account, guard, OpenFor>>
  <2>1. At(t) = "dial" /\ OpenFor = {} /\ UNCHANGED <<account, guard>>
    BY <1>7, OpenIsOwners DEF Dial, worldVars
  <2>2. guard = Acct(t) /\ Acct(t)' = Acct(t)
    BY <1>0, <1>7, GoingThere DEF Dial, LinksInv, OneHolder, Holding
  <2>3. CASE Disconnect /\ socket' = socket
    <3>1. \A s \in Tasks : ~Opened(s)'
      BY <1>0, <2>3, CutEndsAll DEF Disconnect, Opened, Running
    <3> QED BY <2>1, <3>1, OnlyCloses
  <2>4. CASE /\ ~Cancelled(t) /\ Cut(t) /\ socket' = [socket EXCEPT ![t] = "dialing"]
    <3>1. \A s \in Tasks \ {t} : ~Opened(s)'
      BY <1>0, <2>4, CutEndsAll DEF Opened, Running
    <3>2. OpenFor' \subseteq {guard} /\ guard = account
      BY <2>2, <2>4, <3>1 DEF OpenFor, Opened, Cancelled
    <3>3. OpenFor' = OpenFor \/ OpenFor' = {guard}
      BY <2>1, <3>2
    <3> QED BY <2>1, <3>2, <3>3 DEF Connection!Next, Connection!Open
  <2> QED BY <1>7, <2>3, <2>4 DEF Dial
<1>8. ASSUME NEW t \in Tasks, Receive(t) \/ Handle(t) \/ EndLoop(t)
      PROVE  [Connection!Next]_<<account, guard, OpenFor>>
  <2>1. /\ UNCHANGED <<account, guard, socket>> /\ cut \subseteq cut'
        /\ \E place \in LinkPlaces : Goto(t, place)
    BY <1>8 DEF Receive, Handle, EndLoop, Disconnect, Cut, worldVars, socketVars, LinkPlaces
  <2>2. \A s \in Tasks : Acct(s)' = Acct(s)
    BY <1>0, <2>1, GoingThere
  <2> QED BY <2>1, <2>2, OnlyCloses DEF Opened, Running
<1>9. CASE Disarm
  BY <1>1, <1>9 DEF Disarm, worldVars, attemptVars, socketVars
<1>10. CASE HangUp
  <2>1. UNCHANGED <<attempt, account, guard, socket>> /\ cut \subseteq cut'
    BY <1>10 DEF HangUp, Disconnect, Cut, worldVars, attemptVars
  <2> QED BY <2>1, OnlyCloses DEF Opened, Running, Acct
<1>11. ASSUME NEW t \in Tasks, Opens(t) \/ SocketStep(t) \/ Closes(t)
       PROVE  [Connection!Next]_<<account, guard, OpenFor>>
  <2>1. UNCHANGED <<attempt, account, guard>>
    BY <1>11 DEF Opens, SocketStep, Drops, Kicks, GivesUp, Closes, worldVars, attemptVars
  <2>2. \A s \in Tasks : Opened(s)' => Opened(s)
    BY <1>0, <1>11 DEF Opens, SocketStep, Drops, Kicks, GivesUp, Closes, Running, Opened
  <2> QED BY <2>1, <2>2, OnlyCloses DEF Acct
<1>12. CASE UNCHANGED linksVars
  BY <1>1, <1>12 DEF linksVars, worldVars, attemptVars, socketVars
<1> QED BY <1>2, <1>3, <1>5, <1>6, <1>7, <1>8, <1>9, <1>10, <1>11, <1>12
        DEF LinksNext, AttemptStep

(* The connection implements AccountSocket: no socket opens beside another  *)
(* or for an account that has ended, and the guard never passes on over one *)
(* not told to close (AccountConnection, connect_with, the ports' slots).   *)
THEOREM LinksAreOneSocket == LinksSpec => OneSocket
<1>1. LinksInit => LinksInv /\ Connection!Init
  <2>1. LinksInit => OpenFor = {}
    BY DEF LinksInit, OpenFor, Running
  <2> QED BY <2>1, InitLinks DEF LinksInit, Connection!Init, Connection!Nobody, NoAccount
<1>2. LinksInv /\ [LinksNext]_linksVars => [Connection!Next]_<<account, guard, OpenFor>>
  BY ConnectionStep
<1> QED BY <1>1, <1>2, LinksInvariant, PTL DEF LinksSpec, OneSocket, Connection!Spec

=============================================================================
