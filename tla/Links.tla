------------------------------- MODULE Links -------------------------------
(***************************************************************************)
(* One long-lived socket (the lobby's or the chat's) across accounts,      *)
(* drops, hang-ups and the reconnect watchdog: AccountConnection           *)
(* (runtime/account.rs), connect_with and connect (services/lobby/         *)
(* connection.rs, services/chat.rs), Retry and run (services/reconnect.rs),*)
(* the account scope of EventSink (runtime/mod.rs), and the cancel slot    *)
(* and session task of the socket ports (infra/lobby_ws.rs, infra/irc.rs). *)
(*                                                                         *)
(* An account token is its number: it is cancelled once the account has    *)
(* moved on.  The task that opened a socket gives the socket its name.     *)
(***************************************************************************)
EXTENDS Naturals, FiniteSets, Sequences

CONSTANTS
    Tasks,          \* connection attempts under way at once
    MaxAccount,     \* how often the account changes in one run
    MaxFaults,      \* how often a socket drops or gives up in one run
    MaxBackoff      \* MAX_BACKOFF_TICKS

NoTask == "no task"

ASSUME LinksAssumption ==
    /\ IsFiniteSet(Tasks) /\ NoTask \notin Tasks
    /\ MaxAccount \in Nat \ {0} /\ MaxFaults \in Nat /\ MaxBackoff \in Nat \ {0}

NoAccount == 0

VARIABLES
    link,       \* which of the two sockets this is
    account,    \* the account session events belong to now
    signedIn,   \* it is a FAF account that is signed in
    armed,      \* AutoReconnect
    hanging,    \* a Disconnect is between its two halves
    shown,      \* the status in the slice
    retry,      \* the watchdog's backoff
    guard,      \* whose account holds the connection guard
    attempt,    \* where each attempt is, and what it was begun with
    socket, cut, holder,        \* the sessions of the port, its cancel slot
    inbox,      \* updates a session sent that nobody handled yet
    faults      \* drops so far

worldVars == <<link, account, signedIn, faults>>
userVars == <<armed, hanging>>
attemptVars == <<attempt, guard>>
socketVars == <<socket, cut, holder, inbox>>
linksVars == <<worldVars, userVars, shown, retry, attemptVars, socketVars>>

InboxLimit == 3
NoAttempt == [at |-> "idle", acct |-> NoAccount, user |-> NoAccount, ifArmed |-> FALSE]
LinkPlaces == {"idle", "called", "acquire", "check", "dial", "loop", "handle",
               "ending", "announce", "release"}
Attempts == [at : LinkPlaces, acct : 0 .. MaxAccount, user : 0 .. MaxAccount, ifArmed : BOOLEAN]
Updates == {"up", "pending", "down", "kick"}

LinksTypeOK ==
    /\ link \in {"lobby", "chat"}
    /\ account \in 1 .. MaxAccount /\ signedIn \in BOOLEAN
    /\ armed \in BOOLEAN /\ hanging \in BOOLEAN
    /\ shown \in {"down", "pending", "up"}
    /\ retry \in [attempts : 0 .. MaxBackoff, countdown : 0 .. MaxBackoff]
    /\ guard \in 0 .. MaxAccount
    /\ attempt \in [Tasks -> Attempts]
    /\ socket \in [Tasks -> {"none", "dialing", "open", "ended"}]
    /\ cut \subseteq Tasks
    /\ holder \in Tasks \cup {NoTask}
    /\ inbox \in [Tasks -> Seq(Updates)]
    /\ faults \in 0 .. MaxFaults

NoRetry == [attempts |-> 0, countdown |-> 0]

LinksInit ==
    /\ link \in {"lobby", "chat"}
    /\ account = 1 /\ signedIn = TRUE
    /\ armed = FALSE /\ hanging = FALSE
    /\ shown = "down" /\ retry = NoRetry
    /\ guard = NoAccount
    /\ attempt = [t \in Tasks |-> NoAttempt]
    /\ socket = [t \in Tasks |-> "none"]
    /\ cut = {} /\ holder = NoTask
    /\ inbox = [t \in Tasks |-> <<>>]
    /\ faults = 0

-----------------------------------------------------------------------------

At(t) == attempt[t].at
Acct(t) == attempt[t].acct
Cancelled(t) == Acct(t) # account
Free(t) == At(t) = "idle" /\ socket[t] = "none"
Goto(t, place) == attempt' = [attempt EXCEPT ![t].at = place]
Return(t) == attempt' = [attempt EXCEPT ![t] = NoAttempt]

(* Faulty: any sink is listened to.                                        *)
FaultyShow(t, status) == shown' = status

(* emit_event: what a former account's sink says about chat is dropped;    *)
(* what it says about the lobby is not.                                    *)
Show(t, status) ==
    shown' = IF link = "chat" /\ Cancelled(t) THEN shown ELSE status

Running(t) == socket[t] \in {"dialing", "open"}

(* The session in the port's slot is told to end; its token is without     *)
(* effect once the session is over.                                        *)
Cut(next) ==
    /\ cut' = cut \cup {t \in Tasks : t = holder /\ Running(t)}
    /\ holder' = next

(* The ports' disconnect.                                                  *)
Disconnect == Cut(NoTask)

-----------------------------------------------------------------------------
(* The user and the accounts.                                              *)

(* An auth event ends the account session: its token is cancelled and the  *)
(* chat slice starts afresh.                                               *)
SwitchAccount ==
    /\ account < MaxAccount
    /\ account' = account + 1
    /\ signedIn' \in BOOLEAN
    /\ shown' = IF link = "chat" THEN "down" ELSE shown
    /\ UNCHANGED <<link, faults, userVars, retry, attemptVars, socketVars>>

(* The user is slower than code that waits for nothing, though not than a  *)
(* retry of the watchdog, whose moment nobody sees.                        *)
Noticed ==
    \A t \in Tasks : \/ attempt[t].ifArmed
                     \/ At(t) \notin {"called", "acquire", "check", "dial"}
                     \/ At(t) = "acquire" /\ guard \notin {NoAccount, account}

(* A page asks for the connection: on sign-in, or by its button.           *)
CallConnect(t) ==
    /\ Noticed
    /\ signedIn /\ Free(t)
    /\ attempt' = [attempt EXCEPT ![t] = [NoAttempt EXCEPT !.at = "called", !.user = account]]
    /\ UNCHANGED <<worldVars, armed, hanging, shown, retry, guard, socketVars>>

(* Disconnect disarms the watchdog, then closes what the port has open.    *)
Disarm ==
    /\ Noticed
    /\ ~hanging
    /\ armed' = FALSE /\ hanging' = TRUE
    /\ UNCHANGED <<worldVars, shown, retry, attemptVars, socketVars>>

HangUp ==
    /\ hanging
    /\ hanging' = FALSE
    /\ Disconnect
    /\ UNCHANGED <<worldVars, armed, shown, retry, attemptVars, socket, inbox>>

-----------------------------------------------------------------------------
(* The watchdog: one tick of run for this socket.                          *)

(* The next pause, in ticks; faulty: it grows without end.                 *)
FaultyBackoffAfter(attempts) == attempts + 1
BackoffAfter(attempts) == IF attempts < MaxBackoff THEN attempts + 1 ELSE MaxBackoff

Tick(t) ==
    /\ Free(t)
    /\ IF ~signedIn \/ ~armed \/ shown = "up"
       THEN retry' = NoRetry /\ UNCHANGED attemptVars
       ELSE /\ shown = "down"
            /\ IF retry.countdown > 0
               THEN /\ retry' = [retry EXCEPT !.countdown = @ - 1]
                    /\ UNCHANGED attemptVars
               ELSE LET n == BackoffAfter(retry.attempts)
                    IN /\ retry' = [attempts |-> n, countdown |-> n]
                       /\ attempt' = [attempt EXCEPT ![t] =
                              [at |-> "acquire", acct |-> account,
                               user |-> account, ifArmed |-> TRUE]]
                       /\ UNCHANGED guard
    /\ UNCHANGED <<worldVars, userVars, shown, socketVars>>

-----------------------------------------------------------------------------
(* A connection attempt.                                                   *)

(* Connect arms the watchdog and takes the account of this moment.         *)
BeginConnect(t) ==
    /\ At(t) = "called"
    /\ armed' = TRUE
    /\ attempt' = [attempt EXCEPT ![t].at = "acquire", ![t].acct = account]
    /\ UNCHANGED <<worldVars, hanging, shown, retry, guard, socketVars>>

(* AccountConnection::acquire: a former account's attempt and a duplicate  *)
(* of this account's return; behind a former account's connection the      *)
(* attempt waits for its release.                                          *)
Acquire(t) ==
    /\ At(t) = "acquire"
    /\ \/ /\ Cancelled(t) \/ guard = account
          /\ Return(t)
          /\ UNCHANGED guard
       \/ /\ ~Cancelled(t) /\ guard = NoAccount
          /\ guard' = Acct(t)
          /\ Goto(t, "check")
    /\ UNCHANGED <<worldVars, userVars, shown, retry, socketVars>>

(* A retry the user hung up on in the meantime gives the guard back, and   *)
(* so does a chat connection asked for under another name.                 *)
Check(t) ==
    /\ At(t) = "check"
    /\ IF \/ attempt[t].ifArmed /\ ~armed
          \/ link = "chat" /\ signedIn /\ attempt[t].user # account
       THEN Return(t) /\ guard' = NoAccount /\ UNCHANGED shown
       ELSE Goto(t, "dial") /\ Show(t, "pending") /\ UNCHANGED guard
    /\ UNCHANGED <<worldVars, userVars, retry, socketVars>>

(* The port's connect replaces whatever its slot held.                     *)
Dial(t) ==
    /\ At(t) = "dial"
    /\ IF Cancelled(t)
       THEN /\ Disconnect
            /\ Goto(t, IF link = "lobby" THEN "announce" ELSE "release")
            /\ UNCHANGED <<socket, inbox>>
       ELSE /\ Cut(t)
            /\ socket' = [socket EXCEPT ![t] = "dialing"]
            /\ inbox' = [inbox EXCEPT ![t] = <<>>]
            /\ Goto(t, "loop")
    /\ UNCHANGED <<worldVars, userVars, shown, retry, guard>>

(* The loop takes the next update, or learns that the account or the       *)
(* session has ended.                                                      *)
Receive(t) ==
    /\ At(t) = "loop"
    /\ \/ Cancelled(t) /\ Goto(t, "ending")
       \/ ~Cancelled(t) /\ inbox[t] # <<>> /\ Goto(t, "handle")
       \/ inbox[t] = <<>> /\ socket[t] = "ended" /\ Goto(t, "ending")
    /\ UNCHANGED <<worldVars, userVars, shown, retry, guard, socketVars>>

(* handle_update.  A kick is the server's hang-up: not a drop.             *)
Handle(t) ==
    /\ At(t) = "handle"
    /\ LET update == Head(inbox[t]) IN
       IF update = "kick"
       THEN /\ armed' = FALSE
            /\ Disconnect
            /\ UNCHANGED shown
       ELSE Show(t, update) /\ UNCHANGED <<armed, cut, holder>>
    /\ inbox' = [inbox EXCEPT ![t] = Tail(@)]
    /\ Goto(t, "loop")
    /\ UNCHANGED <<worldVars, hanging, retry, guard, socket>>

(* Faulty: the socket of an account that ended is left to its server.      *)
FaultyEndLoop(t) ==
    /\ At(t) = "ending"
    /\ Goto(t, "announce")
    /\ UNCHANGED <<worldVars, userVars, shown, retry, guard, socketVars>>

(* The loop is over: an account that ended takes its socket with it.  The  *)
(* lobby then waits for a launch under way.                                *)
EndLoop(t) ==
    /\ At(t) = "ending"
    /\ IF Cancelled(t) THEN Disconnect ELSE UNCHANGED <<cut, holder>>
    /\ Goto(t, "announce")
    /\ UNCHANGED <<worldVars, userVars, shown, retry, guard, socket, inbox>>

Announce(t) ==
    /\ At(t) = "announce"
    /\ Show(t, "down")
    /\ Goto(t, "release")
    /\ UNCHANGED <<worldVars, userVars, retry, guard, socketVars>>

Release(t) ==
    /\ At(t) = "release"
    /\ guard' = NoAccount
    /\ Return(t)
    /\ UNCHANGED <<worldVars, userVars, shown, retry, socketVars>>

-----------------------------------------------------------------------------
(* The port's session task, with its own retry around one session.         *)

Deliver(t, updates) == inbox' = [inbox EXCEPT ![t] = @ \o updates]
HasRoom(t, n) == Len(inbox[t]) + n <= InboxLimit
Fault == faults < MaxFaults /\ faults' = faults + 1

(* Faulty: what it has to say is not sent.                                 *)
FaultyOpens(t) ==
    /\ socket[t] = "dialing" /\ t \notin cut /\ signedIn
    /\ socket' = [socket EXCEPT ![t] = "open"]
    /\ UNCHANGED <<worldVars, userVars, shown, retry, attemptVars, cut, holder, inbox>>

Opens(t) ==
    /\ socket[t] = "dialing" /\ t \notin cut /\ signedIn /\ HasRoom(t, 1)
    /\ socket' = [socket EXCEPT ![t] = "open"]
    /\ Deliver(t, <<"up">>)
    /\ UNCHANGED <<worldVars, userVars, shown, retry, attemptVars, cut, holder>>

(* Chat reports the end of every session it had; the lobby's port says     *)
(* that it connects again, or nothing at all if it gives up.               *)
Lost == IF link = "chat" THEN <<"down">> ELSE <<>>

Drops(t) ==
    /\ socket[t] = "open" /\ t \notin cut /\ HasRoom(t, Len(Lost) + 1)
    /\ Fault
    /\ socket' = [socket EXCEPT ![t] = "dialing"]
    /\ Deliver(t, Lost \o <<"pending">>)
    /\ UNCHANGED <<link, account, signedIn, userVars, shown, retry, attemptVars, cut, holder>>

Kicks(t) ==
    /\ link = "lobby"
    /\ socket[t] = "open" /\ t \notin cut /\ HasRoom(t, 1)
    /\ Fault
    /\ Deliver(t, <<"kick">>)
    /\ UNCHANGED <<link, account, signedIn, userVars, shown, retry, attemptVars, socket,
                   cut, holder>>

(* A session gives up after too many failures, or at once without a token. *)
GivesUp(t) ==
    /\ Running(t) /\ t \notin cut
    /\ \/ Fault /\ HasRoom(t, Len(Lost)) /\ Deliver(t, Lost)
       \/ ~signedIn /\ socket[t] = "dialing" /\ UNCHANGED <<faults, inbox>>
    /\ socket' = [socket EXCEPT ![t] = "ended"]
    /\ UNCHANGED <<link, account, signedIn, userVars, shown, retry, attemptVars, cut, holder>>

(* A session that was cut closes its socket; one nobody reads is gone.     *)
Closes(t) ==
    /\ \/ t \in cut /\ Running(t)
       \/ socket[t] = "ended" /\ At(t) = "idle"
    /\ socket' = [socket EXCEPT ![t] = IF At(t) = "idle" THEN "none" ELSE "ended"]
    /\ cut' = cut \ {t}
    /\ inbox' = IF At(t) = "idle" THEN [inbox EXCEPT ![t] = <<>>] ELSE inbox
    /\ UNCHANGED <<worldVars, userVars, shown, retry, attemptVars, holder>>

-----------------------------------------------------------------------------

AttemptStep(t) ==
    \/ BeginConnect(t) \/ Acquire(t) \/ Check(t) \/ Dial(t) \/ Receive(t)
    \/ Handle(t) \/ EndLoop(t) \/ Announce(t) \/ Release(t)

SocketStep(t) == Drops(t) \/ Kicks(t) \/ GivesUp(t)

LinksNext ==
    \/ SwitchAccount \/ Disarm \/ HangUp
    \/ \E t \in Tasks : \/ CallConnect(t) \/ Tick(t) \/ AttemptStep(t)
                        \/ Opens(t) \/ Closes(t) \/ SocketStep(t)

LinksSpec == LinksInit /\ [][LinksNext]_linksVars

(* The watchdog's timer goes on ticking, tasks run, a socket that can be   *)
(* opened is opened and one that was cut closes.  Nothing is assumed of    *)
(* the user, of the accounts or of faults.                                 *)
LinksFairness ==
    /\ SF_linksVars(\E t \in Tasks : Tick(t))
    /\ WF_linksVars(HangUp)
    /\ \A t \in Tasks : /\ WF_linksVars(AttemptStep(t))
                        /\ WF_linksVars(Opens(t))
                        /\ WF_linksVars(Closes(t))

-----------------------------------------------------------------------------

Holding == {"check", "dial", "loop", "handle", "ending", "announce", "release"}

(* No socket without a reader: a session that was not told to end is in    *)
(* the port's slot and is read by the one attempt that holds the guard,    *)
(* under that attempt's account.  Otherwise the player stays connected, in *)
(* a former account's name, behind a screen that cannot hang it up.        *)
NoOrphanSocket ==
    \A t \in Tasks :
        Running(t) /\ t \notin cut =>
            /\ holder = t
            /\ At(t) \in {"loop", "handle", "ending"}
            /\ guard = Acct(t)
            /\ \A s \in Tasks \ {t} : At(s) \notin Holding

(* A status that is not "down" is on its way down: some attempt is still   *)
(* going to say how it ended.  For chat it has to be one of the current    *)
(* account, whatever a former one has left to say.                         *)
ShownHasReporter ==
    shown # "down" =>
        \E t \in Tasks : /\ At(t) \in Holding \ {"check", "release"}
                         /\ link = "chat" => ~Cancelled(t)

(* The accounts that a session which was not told to end was opened for.   *)
OpenFor == {Acct(t) : t \in {u \in Tasks : Running(u) /\ u \notin cut}}

Connection == INSTANCE AccountSocket WITH owner <- guard, open <- OpenFor

(* One socket, one account: however attempts, hang-ups, drops and account  *)
(* switches meet, no socket opens beside another or for an account that    *)
(* has ended, and the guard never passes on over one not told to close.    *)
OneSocket == Connection!Spec

(* The watchdog brings the link back: signed in and wanted, it does not    *)
(* stay down, through drops, give-ups and a Connect that met a connection  *)
(* just ending.                                                            *)
ComesBack == []<>(shown = "up" \/ ~armed \/ ~signedIn)

=============================================================================
