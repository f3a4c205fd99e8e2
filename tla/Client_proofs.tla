---------------------------- MODULE Client_proofs ----------------------------
(* Theorems about the run that joins six components: each moves in it as its*)
(* own specification says, so what is proved of them holds of the run.      *)
EXTENDS MCClient, Account_proofs, Disk_proofs, Play_proofs, TLAPS

-----------------------------------------------------------------------------

(* Every behaviour of the run is one of each of its components.             *)
THEOREM ClientIsItsParts ==
    ClientSpec => /\ SignInSpec /\ LinksSpec
                  /\ SettingsSpec /\ SwapSpec
                  /\ SessionSpec /\ ReadsSpec
<1>1. ClientInit => /\ SignInInit /\ LinksInit
                    /\ SettingsInit /\ SwapInit
                    /\ SessionInit /\ ReadsInit
  BY DEF ClientInit
<1>2. ASSUME [ClientNext]_clientVars
      PROVE  /\ [SignInNext]_signInVars /\ [LinksNext]_linksVars
             /\ [SettingsNext]_settingsVars /\ [SwapNext]_swapVars
             /\ [SessionNext]_sessionVars /\ [ReadsNext]_readVars
  <2>1. CASE UNCHANGED clientVars
    BY <2>1 DEF clientVars
  <2>2. CASE ClientNext
    BY <2>2 DEF ClientNext, Others
  <2> QED BY <1>2, <2>1, <2>2
<1> QED BY <1>1, <1>2, PTL DEF ClientSpec, SignInSpec, LinksSpec, SettingsSpec, SwapSpec,
                               SessionSpec, ReadsSpec

(* Every component keeps the types of its variables.                        *)
THEOREM ClientTypes == ClientSpec => []ClientTypeOK
<1>1. /\ SignInTypeOK /\ LinksTypeOK /\ SwapTypeOK
      /\ SettingsTypeOK /\ SessionTypeOK /\ ReadsTypeOK
      => ClientTypeOK
  BY DEF ClientTypeOK
<1> QED BY <1>1, ClientIsItsParts, SignInTypes, LinkTypes, SwapTypes, SettingsTypes, SessionTypes,
           ReadsTypes, PTL

=============================================================================
