---------------------------- MODULE AtomicUpdate ----------------------------
(***************************************************************************)
(* What the installer promises of the versions of one mod                  *)
(* (infra/vault_install.rs): an operation brings its archive in one step,  *)
(* in which the version it replaces goes, and which others there are does  *)
(* not matter to it; a removal takes one version; an operation that fails  *)
(* or is cut short by a crash changes nothing.                             *)
(***************************************************************************)
EXTENDS Naturals

CONSTANT Versions   \* archives, numbered in the order they are fetched

VARIABLES
    have,       \* the versions the player has
    pending,    \* the archive an operation is about to bring
    over,       \* the version it takes the place of, or takes away
    sure        \* no copy an earlier operation left behind is taken for this one's

NoArchive == 0

Init == have = {} /\ pending = NoArchive /\ over = {} /\ sure = TRUE

Begin(v) ==
    /\ pending = NoArchive /\ over = {} /\ \A w \in have : w < v
    /\ pending' = v
    /\ over' \subseteq have /\ \A w, x \in over' : w = x
    /\ UNCHANGED have

BeginRemoval(v) ==
    /\ pending = NoArchive /\ over = {}
    /\ over' = {v} /\ v \in have
    /\ UNCHANGED <<have, pending>>

Commit ==
    /\ pending # NoArchive
    /\ have' = (have \ over) \cup {pending}
    /\ pending' = NoArchive /\ over' = {}

Remove ==
    /\ pending = NoArchive /\ over # {}
    /\ have' = have \ over
    /\ over' = {} /\ UNCHANGED pending

Abort ==
    /\ pending' = NoArchive /\ over' = {}
    /\ UNCHANGED have

(* Beside such a copy nothing is promised any more.                        *)
Unsure ==
    /\ ~sure'
    /\ have' \subseteq Versions /\ over' \subseteq Versions
    /\ pending' \in Versions \cup {NoArchive}

Step == (\E v \in Versions : Begin(v) \/ BeginRemoval(v)) \/ Commit \/ Remove \/ Abort

Next ==
    \/ sure /\ sure' /\ Step
    \/ Unsure

Spec == Init /\ [][Next]_<<have, pending, over, sure>>

=============================================================================
