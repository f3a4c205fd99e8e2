-------------------------- MODULE LobbyOperations --------------------------
(* The record every custom join, host request and launch order shares      *)
(* (runtime/policies.rs, LobbyOperations): who is current, who holds the   *)
(* join slot, and which join requests the user gave up after they went     *)
(* out. Each operator below is one critical section or one atomic access   *)
(* of the code; JoinFlow interleaves them.                                 *)
EXTENDS Naturals

CONSTANTS
    Games,    \* the ids of custom games the user may join
    NoGame,   \* the id zero: a message that names no game, or a game of nobody's list
    MaxOps    \* bound: how many operations are issued

ASSUME OperationsAssumption == NoGame \notin Games /\ MaxOps \in Nat \ {0}

VARIABLES
    issued,     \* the last operation id handed out
    current,    \* the current operation and whether it was called off: one word
    slot,       \* the claim on the join slot
    calledOff   \* per game, the requests that went out and were then called off

opVars == <<issued, current, slot, calledOff>>

Ops == 1..MaxOps
NoOp == 0

NoClaim == [op |-> NoOp, game |-> NoGame, sent |-> FALSE]
Claims == [op : Ops, game : Games, sent : BOOLEAN] \cup {NoClaim}

OperationsInit ==
    /\ issued = NoOp
    /\ current = [op |-> NoOp, off |-> FALSE]
    /\ slot = NoClaim
    /\ calledOff = [g \in Games |-> 0]

OperationsTypeOK ==
    /\ issued \in 0..MaxOps
    /\ current \in [op : 0..MaxOps, off : BOOLEAN]
    /\ slot \in Claims
    /\ calledOff \in [Games -> Nat]

(* Some operators come twice: beside the one translated from the code, a   *)
(* variant named Faulty... that brings back a mistake, most of them ones   *)
(* the comments of the code report. No action uses them: they show that    *)
(* the properties of JoinFlow notice.                                      *)

(* is_live: one load of the word. Faulty: the single flag that every       *)
(* operation shared before they had ids.                                   *)
FaultySharedFlag(op) == op # NoOp /\ ~current.off
IsLive(op) == current = [op |-> op, off |-> FALSE]

(* issue: a fresh id, never handed out before.                             *)
Issue(op) == op = issued + 1 /\ op \in Ops /\ issued' = op

(* make_current, under the token lock: whatever was current is superseded. *)
(* Faulty: the counter's next value is taken for the id just handed out.   *)
FaultyMakeCurrent(op) == current' = [op |-> op + 1, off |-> FALSE]
MakeCurrent(op) == current' = [op |-> op, off |-> FALSE]

(* cancel, under the token lock: flag whichever operation is current.      *)
Cancel == current' = [current EXCEPT !.off = TRUE]

(* The first half of try_begin_join: under the join lock, take the free    *)
(* slot for a fresh id. MakeCurrent follows with the join lock still held. *)
TakeSlot(op, g) ==
    /\ slot = NoClaim
    /\ Issue(op)
    /\ slot' = [op |-> op, game |-> g, sent |-> FALSE]

(* try_mark_join_sent: the only gate before the request.                   *)
MayMarkSent(op) == slot.op = op /\ IsLive(op)
MarkSent(op) == MayMarkSent(op) /\ slot' = [slot EXCEPT !.sent = TRUE]

(* release_join: a cleanup frees the slot only if it is its own. Faulty:   *)
(* whoever holds it; or not at all.                                        *)
FaultyReleaseWhoever(op) == slot' = NoClaim
FaultyReleaseNothing(op) == UNCHANGED slot
ReleaseJoin(op) == slot' = IF slot.op = op THEN NoClaim ELSE slot

(* call_off_join: free the slot; remember a request that already went out. *)
(* Faulty: it is not remembered.                                           *)
FaultyCallOff == slot' = NoClaim /\ UNCHANGED calledOff
CallOffJoin ==
    /\ slot' = NoClaim
    /\ calledOff' = IF slot.sent
                    THEN [calledOff EXCEPT ![slot.game] = @ + 1]
                    ELSE calledOff

(* release_any_join: forget every join.                                    *)
ReleaseAnyJoin == slot' = NoClaim /\ calledOff' = [g \in Games |-> 0]

(* take_called_off: the record of one given-up request, if there is one.   *)
(* The entries of one game cannot be told apart, so a count stands for the *)
(* oldest-first list.                                                      *)
Remembered(g) == g \in Games /\ calledOff[g] > 0
DropRecord(g) == calledOff' = [calledOff EXCEPT ![g] = @ - 1]

(* release_join_for_game: whether the refusal is the holder's, and what it *)
(* does to the record. Faulty: matched by the game alone.                  *)
FaultyRefusalByGame(g) == g = NoGame \/ (slot.op # NoOp /\ slot.game = g)
RefusalIsOurs(g) == ~Remembered(g) /\ (g = NoGame \/ (slot.op # NoOp /\ slot.game = g))
RefusalOf(g) ==
    /\ IF Remembered(g) THEN DropRecord(g) ELSE UNCHANGED calledOff
    /\ slot' = IF RefusalIsOurs(g) THEN NoClaim ELSE slot

(* take_called_off_launch: the record is consumed either way; the launch   *)
(* is turned away unless the user is joining that game again. Faulty: the  *)
(* record is kept; the launch is not turned away.                          *)
FaultyKeepRecord(g) == UNCHANGED calledOff
TakeRecord(g) == IF Remembered(g) THEN DropRecord(g) ELSE UNCHANGED calledOff
FaultyWanted(g) == FALSE
LaunchUnwanted(g) == Remembered(g) /\ slot.game # g

(* release_join_launched: the join waiting for this game has its answer;   *)
(* no record is consumed.                                                  *)
ReleaseLaunched(g) ==
    /\ slot' = IF slot.op # NoOp /\ slot.game = g THEN NoClaim ELSE slot
    /\ UNCHANGED calledOff
=============================================================================
