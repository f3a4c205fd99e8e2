------------------------------- MODULE SignIn -------------------------------
(***************************************************************************)
(* Signing in and out: the handlers of services/auth.rs, the auth slice    *)
(* they report into, and the OAuth port behind them (infra/oauth.rs) with  *)
(* its staged session, its token store, its keyring entry and its renewal  *)
(* loop.                                                                   *)
(*                                                                         *)
(* Every command runs on a task of its own.  What keeps two of them apart  *)
(* is the generation ("only the newest may land"), the cancellation slot,  *)
(* whose lock is the commit boundary, and the mutation lock, under which   *)
(* the port is used.  An action is what a task does between two points     *)
(* where another thread can step in; a critical section is one action.     *)
(***************************************************************************)
EXTENDS Naturals, FiniteSets

CONSTANTS
    Requests,   \* the commands of one run, by the task that handles each
    Boot,       \* the Restore the start of the client dispatches
    Offered,    \* the commands the pages of this build can send
    MaxRacing   \* bound: handlers at work when a page sends another command

Nobody == "nobody"          \* no session, no holder

ASSUME SignInAssumption ==
    /\ IsFiniteSet(Requests) /\ Nobody \notin Requests
    /\ Boot \in Requests /\ MaxRacing \in Nat
    /\ Offered \subseteq {"login", "cancel", "offline", "test", "logout", "logoutTest"}

Kinds == {"login", "cancel", "offline", "test", "logout", "logoutTest", "restore"}
Sessions == Requests \cup {Nobody}

VARIABLES
    kind,        \* what each request asks for
    pc,          \* where its handler is
    keep,        \* "remember me" of a login
    failed,      \* the port answered a login with an error
    gen,         \* the generation each request was given
    generation,  \* the newest one
    slot,        \* whose token the cancellation slot holds
    cancelled,   \* the tokens that were cancelled
    mutex,       \* who holds the mutation lock
    auth,        \* the auth slice: status, mode and the session it shows
    pending,     \* the session the port staged
    live,        \* the session the token store answers with
    saved,       \* the session whose refresh token the keyring holds
    epoch,       \* the refresh epoch
    renewals     \* the renewal loops that still run

portVars == <<pending, live, saved, epoch, renewals>>
slotVars == <<gen, generation, slot, cancelled>>
signInVars == <<kind, pc, keep, failed, slotVars, mutex, auth, portVars>>

Places == {"idle", "spawned", "outdate", "queue", "start", "enter", "browser",
           "exchange", "commit", "drop", "report", "say", "sayTest", "signOut", "done"}
Shown(status, mode, who) == [status |-> status, mode |-> mode, who |-> who]
LoggedOut == Shown("loggedOut", "account", Nobody)
Renewal(who, persist, e, place) ==
    [who |-> who, persist |-> persist, epoch |-> e, at |-> place]

SignInTypeOK ==
    /\ kind \in [Requests -> Kinds]
    /\ pc \in [Requests -> Places]
    /\ keep \in [Requests -> BOOLEAN]
    /\ failed \in [Requests -> BOOLEAN]
    /\ gen \in [Requests -> Nat]
    /\ generation \in Nat
    /\ slot \in Sessions
    /\ cancelled \subseteq Requests
    /\ mutex \in Sessions
    /\ auth \in [status : {"loggedOut", "loggingIn", "loggedIn", "failed"},
                 mode : {"account", "offline", "test"}, who : Sessions]
    /\ pending \in Sessions /\ live \in Sessions /\ saved \in Sessions
    /\ epoch \in Nat
    /\ renewals \subseteq [who : Requests, persist : BOOLEAN, epoch : Nat,
                           at : {"waiting", "answered"}]

(* The client has started: settings are read and the restore has begun.    *)
SignInInit ==
    /\ kind = [r \in Requests |-> "restore"]
    /\ pc = [r \in Requests |-> IF r = Boot THEN "queue" ELSE "idle"]
    /\ keep = [r \in Requests |-> r = Boot]
    /\ failed = [r \in Requests |-> FALSE]
    /\ gen = [r \in Requests |-> IF r = Boot THEN 1 ELSE 0]
    /\ generation = 1
    /\ slot = Nobody /\ cancelled = {} /\ mutex = Nobody
    /\ auth = LoggedOut
    /\ pending = Nobody /\ live = Nobody
    /\ saved \in {Boot, Nobody}
    /\ epoch = 0 /\ renewals = {}

-----------------------------------------------------------------------------
(* What the handlers share.                                                *)

IsCurrent(r) == gen[r] = generation

(* Faulty: a login looks at its token only, a restore at nothing.          *)
FaultyCalledOff(r) == r \in cancelled
CalledOff(r) == ~IsCurrent(r) \/ r \in cancelled

(* The cancellation lock is held from the cancelled token to the new       *)
(* generation.                                                             *)
SlotFree == \A r \in Requests : pc[r] # "outdate"

Go(r, place) == pc' = [pc EXCEPT ![r] = place]
Finish(r) == Go(r, "done") /\ mutex' = (IF mutex = r THEN Nobody ELSE mutex)

Emit(status, mode, who) == auth' = Shown(status, mode, who)

(* cancel_refresh: a loop that is asleep is aborted; one whose answer has  *)
(* just arrived still runs up to its epoch check.                          *)
CancelRefresh == epoch' = epoch + 1
Unaborted == {w \in renewals : w.at = "answered"}

-----------------------------------------------------------------------------
(* A page sends a command it offers, however far the handlers of the       *)
(* earlier ones are, while no more than MaxRacing of them do anything but  *)
(* wait.  Its task races with theirs; which task it is makes no difference. *)

Waiting(r) ==
    \/ pc[r] \in {"idle", "done", "exchange"}
    \/ pc[r] = "queue" /\ mutex # Nobody
    \/ pc[r] = "browser" /\ r \notin cancelled

OffersOn(shown) ==
    CASE shown.status = "loggingIn" -> {"cancel"}
      [] shown.status = "loggedIn" ->
            IF shown.mode = "account" THEN {"logout"} ELSE {"logoutTest"}
      [] OTHER -> {"login", "offline", "test"}

Send(r, k, remember) ==
    /\ Cardinality({s \in Requests : ~Waiting(s)}) <= MaxRacing
    /\ pc[r] = "idle" /\ r = CHOOSE s \in Requests : pc[s] = "idle"
    /\ k \in Offered \cap OffersOn(auth)
    /\ remember => k = "login"
    /\ kind' = [kind EXCEPT ![r] = k]
    /\ keep' = [keep EXCEPT ![r] = remember]
    /\ Go(r, "spawned")
    /\ UNCHANGED <<failed, slotVars, mutex, auth, portVars>>

(* The first half of the critical section every command but a restore      *)
(* opens with: the login in flight is cancelled, a new one takes its slot. *)
TakeSlot(r) ==
    /\ pc[r] = "spawned" /\ SlotFree
    /\ cancelled' = cancelled \cup ({slot} \ {Nobody})
    /\ slot' = IF kind[r] = "login" THEN r ELSE Nobody
    /\ Go(r, "outdate")
    /\ UNCHANGED <<kind, keep, failed, gen, generation, mutex, auth, portVars>>

(* The second half: everything older is stale from here on.                *)
NextGeneration(r) ==
    /\ pc[r] = "outdate"
    /\ generation' = generation + 1
    /\ gen' = [gen EXCEPT ![r] = generation + 1]
    /\ Go(r, IF kind[r] \in {"login", "logout"} THEN "queue" ELSE "say")
    /\ UNCHANGED <<kind, keep, failed, slot, cancelled, mutex, auth, portVars>>

(* The mutation lock, and the check that follows it.  A restore also       *)
(* returns when the player turned automatic sign-in off.                   *)
AcquireMutation(r) ==
    /\ pc[r] = "queue" /\ mutex = Nobody
    /\ \/ /\ CalledOff(r) \/ kind[r] = "restore"
          /\ Finish(r)
       \/ /\ ~CalledOff(r)
          /\ mutex' = r
          /\ Go(r, CASE kind[r] = "login" -> "start"
                     [] kind[r] = "logout" -> "signOut"
                     [] OTHER -> "exchange")
    /\ UNCHANGED <<kind, keep, failed, slotVars, auth, portVars>>

-----------------------------------------------------------------------------
(* Login.                                                                  *)

StartLogin(r) ==
    /\ pc[r] = "start"
    /\ Emit("loggingIn", auth.mode, Nobody)
    /\ Go(r, "enter")
    /\ UNCHANGED <<kind, keep, failed, slotVars, mutex, portVars>>

(* The port forgets what an earlier attempt staged and what an earlier     *)
(* start remembered, then waits for the browser.  The select may look at   *)
(* the token first and never call it.                                      *)
EnterPort(r) ==
    /\ pc[r] = "enter"
    /\ \/ /\ Go(r, "browser")
          /\ pending' = Nobody /\ saved' = Nobody
       \/ /\ r \in cancelled
          /\ Go(r, "drop")
          /\ UNCHANGED <<pending, saved>>
    /\ UNCHANGED <<kind, keep, failed, slotVars, mutex, auth, live, epoch, renewals>>

(* The browser and the token exchange succeed and the session is staged,   *)
(* or they fail or time out, or the login's token is cancelled first.      *)
BrowserEnds(r) ==
    /\ pc[r] = "browser"
    /\ \/ /\ pending' = r
          /\ Go(r, "commit")
          /\ UNCHANGED failed
       \/ /\ failed' = [failed EXCEPT ![r] = TRUE]
          /\ Go(r, "drop")
          /\ UNCHANGED pending
       \/ /\ r \in cancelled
          /\ Go(r, "drop")
          /\ UNCHANGED <<failed, pending>>
    /\ UNCHANGED <<kind, keep, slotVars, mutex, auth, live, saved, epoch, renewals>>

(* A restore trades the refresh token for a session, if there is one.      *)
ExchangeEnds(r) ==
    /\ pc[r] = "exchange"
    /\ \/ /\ saved # Nobody
          /\ pending' = saved
          /\ Go(r, "commit")
       \/ /\ pending' = Nobody
          /\ Go(r, "drop")
    /\ UNCHANGED <<kind, keep, failed, slotVars, mutex, auth, live, saved, epoch, renewals>>

(* commit_if_current: the check, the publication and the announcement, all *)
(* under the cancellation lock.                                            *)
Commit(r) ==
    /\ pc[r] = "commit" /\ SlotFree
    /\ IF CalledOff(r)
       THEN UNCHANGED <<auth, live, saved, epoch, renewals>>
       ELSE /\ live' = pending
            /\ saved' = IF keep[r] THEN pending ELSE saved
            /\ CancelRefresh
            /\ renewals' = Unaborted \cup {Renewal(pending, keep[r], epoch + 1, "waiting")}
            /\ Emit("loggedIn", "account", pending)
    /\ pending' = Nobody
    /\ Finish(r)
    /\ UNCHANGED <<kind, keep, failed, slotVars>>

(* Faulty: an attempt that is not current any more returns with the lock.  *)
FaultyDrop(r) ==
    /\ pc[r] = "drop"
    /\ pending' = Nobody
    /\ Go(r, IF kind[r] = "login" /\ IsCurrent(r) THEN "report" ELSE "done")
    /\ UNCHANGED <<kind, keep, failed, slotVars, mutex, auth, live, saved, epoch, renewals>>

(* An attempt that ended without a session drops what it staged; only a    *)
(* login that is still current says how it ended.                          *)
Drop(r) ==
    /\ pc[r] = "drop"
    /\ pending' = Nobody
    /\ IF kind[r] = "login" /\ IsCurrent(r)
       THEN Go(r, "report") /\ UNCHANGED mutex
       ELSE Finish(r)
    /\ UNCHANGED <<kind, keep, failed, slotVars, auth, live, saved, epoch, renewals>>

Report(r) ==
    /\ pc[r] = "report"
    /\ IF failed[r] THEN Emit("failed", auth.mode, Nobody) ELSE auth' = LoggedOut
    /\ Finish(r)
    /\ UNCHANGED <<kind, keep, failed, slotVars, portVars>>

-----------------------------------------------------------------------------
(* The other commands.                                                     *)

(* Faulty: the session ends, and only its own renewal would say so.        *)
FaultySignOut(r) ==
    /\ pc[r] = "signOut"
    /\ pending' = Nobody /\ live' = Nobody /\ saved' = Nobody
    /\ CancelRefresh /\ renewals' = Unaborted
    /\ Finish(r)
    /\ UNCHANGED <<kind, keep, failed, slotVars, auth>>

(* The port's logout: nothing of the session is left.  A newer command     *)
(* speaks for the slice itself.                                            *)
SignOut(r) ==
    /\ pc[r] = "signOut"
    /\ pending' = Nobody /\ live' = Nobody /\ saved' = Nobody
    /\ CancelRefresh /\ renewals' = Unaborted
    /\ IF IsCurrent(r) THEN Go(r, "report") /\ UNCHANGED mutex ELSE Finish(r)
    /\ UNCHANGED <<kind, keep, failed, slotVars, auth>>

(* Those that call the sign-in off and say what the screen shows instead.  *)
Say(r) ==
    /\ pc[r] = "say"
    /\ \/ /\ kind[r] \in {"cancel", "logoutTest"}
          /\ auth' = LoggedOut /\ Finish(r)
       \/ /\ kind[r] = "offline"
          /\ Emit("loggedIn", "offline", Nobody) /\ Finish(r)
       \/ /\ kind[r] = "test"
          /\ Emit("loggingIn", auth.mode, Nobody)
          /\ Go(r, "sayTest") /\ UNCHANGED mutex
    /\ UNCHANGED <<kind, keep, failed, slotVars, portVars>>

SayTest(r) ==
    /\ pc[r] = "sayTest"
    /\ Emit("loggedIn", "test", Nobody)
    /\ Finish(r)
    /\ UNCHANGED <<kind, keep, failed, slotVars, portVars>>

-----------------------------------------------------------------------------
(* The world around the handlers.                                          *)

(* The lobby server bans the account: the session carries on as an offline *)
(* one.  The notice comes from the account's own connection, so it reaches *)
(* the slice only while that account is the one shown.                     *)
Banned ==
    /\ auth.status = "loggedIn" /\ auth.mode = "account"
    /\ Emit("loggedIn", "offline", Nobody)
    /\ UNCHANGED <<kind, pc, keep, failed, slotVars, mutex, portVars>>

(* A renewal's answer arrives (a failed one only waits again), and is then *)
(* taken under the epoch lock, if the epoch is still its own.              *)
RenewalAnswers(w) ==
    /\ w.at = "waiting"
    /\ renewals' = (renewals \ {w}) \cup {[w EXCEPT !.at = "answered"]}
    /\ UNCHANGED <<kind, pc, keep, failed, slotVars, mutex, auth, pending, live, saved, epoch>>

(* Faulty: an answer that has arrived is taken, whatever happened since.   *)
FaultyRenewalLands(w) ==
    /\ w.at = "answered"
    /\ live' = w.who
    /\ saved' = IF w.persist THEN w.who ELSE saved
    /\ renewals' = (renewals \ {w}) \cup {[w EXCEPT !.at = "waiting"]}
    /\ UNCHANGED <<kind, pc, keep, failed, slotVars, mutex, auth, pending, epoch>>

RenewalLands(w) ==
    /\ w.at = "answered"
    /\ IF w.epoch = epoch
       THEN /\ live' = w.who
            /\ saved' = IF w.persist THEN w.who ELSE saved
            /\ renewals' = (renewals \ {w}) \cup {[w EXCEPT !.at = "waiting"]}
       ELSE /\ renewals' = renewals \ {w}
            /\ UNCHANGED <<live, saved>>
    /\ UNCHANGED <<kind, pc, keep, failed, slotVars, mutex, auth, pending, epoch>>

-----------------------------------------------------------------------------

HandlerStep(r) ==
    \/ TakeSlot(r) \/ NextGeneration(r) \/ AcquireMutation(r)
    \/ StartLogin(r) \/ EnterPort(r) \/ BrowserEnds(r) \/ ExchangeEnds(r)
    \/ Commit(r) \/ Drop(r) \/ Report(r)
    \/ SignOut(r) \/ Say(r) \/ SayTest(r)

SignInNext ==
    \/ \E r \in Requests, k \in Kinds, remember \in BOOLEAN : Send(r, k, remember)
    \/ \E r \in Requests : HandlerStep(r)
    \/ Banned
    \/ \E w \in renewals : RenewalAnswers(w) \/ RenewalLands(w)

SignInSpec == SignInInit /\ [][SignInNext]_signInVars

(* Tasks run, and what the port awaits ends: the browser wait is bounded   *)
(* by LOGIN_TIMEOUT, the requests by the client's own timeouts.            *)
SignInFairness == \A r \in Requests : WF_signInVars(HandlerStep(r))

-----------------------------------------------------------------------------
(* What the sign-in promises.                                              *)

Quiet == \A r \in Requests : pc[r] \in {"idle", "done"}

(* A signed-in account has its session: once nothing is under way, the     *)
(* account the slice shows as signed in is the one whose access token the  *)
(* port answers with.  A log out whose announcement a newer command took   *)
(* over, a restore that answers late or a renewal must not leave a shell   *)
(* open over an empty token store.                                         *)
ShownSessionIsLive ==
    Quiet /\ auth.status = "loggedIn" /\ auth.mode = "account"
        => auth.who # Nobody /\ live = auth.who

(* Credentials come from a commit and from nowhere else: a token that      *)
(* starts to be live was staged, and a refresh token is written only for   *)
(* the session that is live.  A renewal that was already answered when its *)
(* session ended brings neither back.                                      *)
CredentialsFollowCommits ==
    [][ /\ live' \notin {live, Nobody} => live' = pending
        /\ saved' \notin {saved, Nobody} => saved' = live' ]_signInVars

(* Nobody is signed in over a later decision: an attempt never announces   *)
(* its session once a command newer than it has finished, however late its *)
(* answer comes.                                                           *)
NewerDecisionStands ==
    [][ \A r \in Requests :
          /\ auth'.status = "loggedIn" /\ auth'.mode = "account" /\ auth' # auth
          /\ mutex = r /\ pc'[r] = "done"
          => \A s \in Requests : pc[s] = "done" => gen[s] < gen[r] ]_signInVars

(* No handler keeps the mutation lock: whatever way one ends (a browser    *)
(* that never comes back, a cancel, an older generation), the lock is let  *)
(* go, and the next sign-in can begin.                                     *)
LockIsReturned == []<>(mutex = Nobody)

(* What commit_if_current is said to rule out: that a cancel leaves a live *)
(* session behind a login screen.                                          *)
NoSessionBehindLoginScreen ==
    Quiet /\ (\E r \in Requests : kind[r] = "cancel" /\ gen[r] = generation)
        => live = Nobody

=============================================================================
