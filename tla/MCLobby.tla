------------------------------ MODULE MCLobby ------------------------------
(***************************************************************************)
(* Two parts of the lobby service that share no state of these models: the *)
(* joins that are called off, and the matchmaker search.  The first state  *)
(* has chosen which of them moves, the other rests where a freshly started *)
(* client leaves it.  Each is explored exactly as its own specification    *)
(* describes it, and its properties are those of its module.               *)
(***************************************************************************)
EXTENDS JoinFlow, Matchmaking

CONSTANT Parts      \* the parts of this run

VARIABLE part       \* the one that moves

lobbyVars == <<part, vars, mmVars>>

LobbyInit == part \in Parts /\ Init /\ MatchmakingInit

(* Bound: of two games each is joined once, a single one up to three times. *)
Joins == {o \in Ops : flow'[o].kind = "join"}
FewJoins == Cardinality(Joins) + Cardinality({flow'[o].game : o \in Joins}) <= 4

LobbyNext ==
    \/ part = "JoinFlow" /\ Next /\ FewJoins /\ UNCHANGED <<part, mmVars>>
    \/ part = "Matchmaking" /\ MatchmakingNext /\ UNCHANGED <<part, vars>>

LobbySpec == LobbyInit /\ [][LobbyNext]_lobbyVars

(* The part that moves keeps the types of its variables.                   *)
LobbyTypeOK ==
    /\ part = "JoinFlow" => TypeOK
    /\ part = "Matchmaking" => MatchmakingTypeOK

=============================================================================
