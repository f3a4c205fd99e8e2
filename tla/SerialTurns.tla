------------------------------ MODULE SerialTurns ------------------------------
(* What a serial key promises (runtime/command_policy.rs, Admission::Serial): *)
(* commands under it run one at a time, in the order they were admitted,      *)
(* whoever gives up on the way.                                               *)

CONSTANT Cmds

VARIABLES
    line,    \* the commands admitted and not over
    ahead,   \* per command, those that were in the line when it was admitted
    busy     \* the one that runs, if any

Init == line = {} /\ ahead = [c \in Cmds |-> {}] /\ busy = {}

Admit(c) ==
    /\ c \notin line
    /\ line' = line \cup {c}
    /\ ahead' = [ahead EXCEPT ![c] = line]
    /\ UNCHANGED busy

Begin(c) ==
    /\ c \in line /\ ahead[c] \cap line = {}
    /\ busy = {} /\ busy' = {c}
    /\ UNCHANGED <<line, ahead>>

Leave(c) ==
    /\ c \in line
    /\ line' = line \ {c} /\ busy' = busy \ {c}
    /\ UNCHANGED ahead

Next == \E c \in Cmds : Admit(c) \/ Begin(c) \/ Leave(c)

Spec == Init /\ [][Next]_<<line, ahead, busy>>
=============================================================================
