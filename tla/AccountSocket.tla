--------------------------- MODULE AccountSocket ---------------------------
(***************************************************************************)
(* What AccountConnection (runtime/account.rs) promises of a long-lived    *)
(* socket: it belongs to one account at a time, opens only while that      *)
(* account is the current one, and is told to close, if it has not ended,  *)
(* before the connection is anybody else's.                                *)
(***************************************************************************)
EXTENDS Naturals

VARIABLES
    account,    \* the current account
    owner,      \* the account whose connection it is, if any
    open        \* the accounts of the sockets that run and were not told to close

Nobody == 0

Init == account = 1 /\ owner = Nobody /\ open = {}

Switch ==
    /\ account' = account + 1
    /\ UNCHANGED <<owner, open>>

Claim ==
    /\ owner = Nobody
    /\ owner' = account
    /\ UNCHANGED <<account, open>>

Open ==
    /\ owner = account /\ open = {}
    /\ open' = {owner}
    /\ UNCHANGED <<account, owner>>

Close ==
    /\ open # {} /\ open' = {}
    /\ UNCHANGED <<account, owner>>

Release ==
    /\ owner # Nobody /\ open = {}
    /\ owner' = Nobody
    /\ UNCHANGED <<account, open>>

Next == Switch \/ Claim \/ Open \/ Close \/ Release

Spec == Init /\ [][Next]_<<account, owner, open>>

=============================================================================
