------------------------------ MODULE MCClient ------------------------------
(***************************************************************************)
(* Six components of the client that share no state: the first step of a   *)
(* behaviour has chosen which of them moves, the others rest where a       *)
(* freshly started client leaves them.  Each is explored exactly as its    *)
(* own specification describes it, and its properties are those of its     *)
(* module.                                                                 *)
(***************************************************************************)
EXTENDS SignIn, Links, FolderSwap, SettingsFile, GameSession, ReplayReads

CONSTANT Parts      \* the components of this run

VARIABLE part       \* the one that moves

clientVars == <<part, signInVars, linksVars, swapVars, settingsVars, sessionVars, readVars>>

(* Where several initial states are possible a resting component has one.  *)
Resting ==
    /\ part # "SignIn" => saved = Nobody
    /\ part # "Links" => link = "lobby"
    /\ part # "SettingsFile" => file = Missing

ClientInit ==
    /\ part \in Parts
    /\ SignInInit /\ LinksInit /\ SwapInit /\ SettingsInit /\ SessionInit /\ ReadsInit
    /\ Resting

Others(name) ==
    /\ part = name /\ UNCHANGED part
    /\ name # "SignIn" => UNCHANGED signInVars
    /\ name # "Links" => UNCHANGED linksVars
    /\ name # "FolderSwap" => UNCHANGED swapVars
    /\ name # "SettingsFile" => UNCHANGED settingsVars
    /\ name # "GameSession" => UNCHANGED sessionVars
    /\ name # "ReplayReads" => UNCHANGED readVars

ClientNext ==
    \/ Others("SignIn") /\ SignInNext
    \/ Others("Links") /\ LinksNext
    \/ Others("FolderSwap") /\ SwapNext
    \/ Others("SettingsFile") /\ SettingsNext
    \/ Others("GameSession") /\ SessionNext
    \/ Others("ReplayReads") /\ ReadsNext

(* The fairness of the two components that promise progress, of each while *)
(* it is the one that moves.                                               *)
ClientFairness ==
    /\ \A r \in Requests : WF_signInVars(part = "SignIn" /\ HandlerStep(r))
    /\ SF_linksVars(part = "Links" /\ \E t \in Tasks : Tick(t))
    /\ WF_linksVars(part = "Links" /\ HangUp)
    /\ \A t \in Tasks : /\ WF_linksVars(part = "Links" /\ AttemptStep(t))
                        /\ WF_linksVars(part = "Links" /\ Opens(t))
                        /\ WF_linksVars(part = "Links" /\ Closes(t))

ClientSpec == ClientInit /\ [][ClientNext]_clientVars /\ ClientFairness

(* Every component keeps the types of its variables.                       *)
ClientTypeOK ==
    /\ SignInTypeOK /\ LinksTypeOK /\ SwapTypeOK
    /\ SettingsTypeOK /\ SessionTypeOK /\ ReadsTypeOK

=============================================================================
