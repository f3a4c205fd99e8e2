---------------------------- MODULE ReplayReads ----------------------------
(***************************************************************************)
(* What an open replay panel reads from its file, end to end: the panel    *)
(* (ui/src/features/replays/useReplayDetailResources.ts), the stamp every  *)
(* command is given and the newest read each kind keeps (ReleaseOrder of   *)
(* runtime/mod.rs), the two queues, the services that begin, run and       *)
(* cancel a read (services/replays.rs), and the slice both sides reduce    *)
(* (ui/src/store/reducers/replays.ts).                                     *)
(*                                                                         *)
(* Every command crosses the bridge in a call of its own                   *)
(* (app/src/commands.rs, dispatch), so they are stamped in any order: a    *)
(* close overtakes the reads it closes or arrives after those of the next  *)
(* panel, and a read is stamped after that of a later request.             *)
(***************************************************************************)
EXTENDS Naturals, FiniteSets, Sequences

CONSTANTS
    Keys,           \* read keys of the replays
    MaxRequests,    \* panels opened in one run
    MaxCommands     \* commands sent in one run

NoKey == "no replay"

ASSUME ReplayReadsAssumption ==
    /\ IsFiniteSet(Keys)
    /\ NoKey \notin Keys /\ MaxRequests \in Nat /\ MaxCommands \in Nat

AnyKey == Keys \cup {NoKey}
Reads == {"details", "analysis"}

VARIABLES
    panel,      \* the panel: its replay, its request id, what it waits for
    requests,   \* request ids handed out
    bridge,     \* commands sent and not dispatched yet
    stamps,     \* commands dispatched
    newest,     \* the read slot of each kind
    queue,      \* the ordinary queue
    closes,     \* the cancels in the priority queue
    runs,       \* the read tasks
    active,     \* AnalysisSlot::running, as the stamp of its task
    view,       \* the slice
    outrun      \* history: a read was stamped after one of a later request

readVars == <<panel, requests, bridge, stamps, newest, queue, closes, runs, active, view, outrun>>

Commands == [what : Reads \cup {"cancel"}, key : Keys, req : 1 .. MaxRequests]
Closed == [key |-> NoKey, req |-> 0, waits |-> {}]
Empty == [seq |-> 0, key |-> NoKey, req |-> 0, off |-> FALSE]
NoView == [loading |-> [r \in Reads |-> NoKey], error |-> [r \in Reads |-> NoKey],
           details |-> {}, analysis |-> NoKey]
Stamped == 0 .. MaxCommands

ReadsTypeOK ==
    /\ panel \in [key : AnyKey, req : 0 .. MaxRequests, waits : SUBSET Reads]
    /\ requests \in 0 .. MaxRequests
    /\ bridge \in Seq(Commands)
    /\ stamps \in Stamped
    /\ newest \in [Reads -> [seq : Stamped, key : AnyKey, req : 0 .. MaxRequests, off : BOOLEAN]]
    /\ queue \in Seq([what : Reads, key : Keys, req : 1 .. MaxRequests, seq : Stamped])
    /\ closes \subseteq Commands
    /\ runs \subseteq [what : Reads, key : Keys, req : 1 .. MaxRequests, seq : Stamped,
                       off : BOOLEAN]
    /\ active \in Stamped /\ outrun \in BOOLEAN
    /\ view \in [loading : [Reads -> AnyKey], error : [Reads -> AnyKey],
                 details : SUBSET Keys, analysis : AnyKey]

ReadsInit ==
    /\ panel = Closed /\ requests = 0
    /\ bridge = <<>> /\ stamps = 0
    /\ newest = [r \in Reads |-> Empty]
    /\ queue = <<>> /\ closes = {} /\ runs = {} /\ active = 0
    /\ view = NoView /\ outrun = FALSE

-----------------------------------------------------------------------------
(* The slice: reduceReplays.                                               *)

Has(v, read, k) == IF read = "details" THEN k \in v.details ELSE v.analysis = k
Clear(held, k) == IF held = k THEN NoKey ELSE held

Loading(v, read, k) ==
    [v EXCEPT !.loading[read] = k, !.error[read] = NoKey,
              !.analysis = IF read = "analysis" THEN (IF @ = k THEN k ELSE NoKey) ELSE @]

(* Details are kept per replay; one analysis is, and only the newest       *)
(* request's may land.                                                     *)
Landed(v, read, k) ==
    IF read = "details"
    THEN [v EXCEPT !.details = @ \cup {k}, !.loading[read] = Clear(@, k),
                   !.error[read] = Clear(@, k)]
    ELSE IF v.loading[read] = k
         THEN [v EXCEPT !.analysis = k, !.loading[read] = NoKey, !.error[read] = NoKey]
         ELSE v
Failed(v, read, k) ==
    IF v.loading[read] = k THEN [v EXCEPT !.loading[read] = NoKey, !.error[read] = k] ELSE v
ReadsCancelled(v, k) == [v EXCEPT !.loading = [r \in Reads |-> Clear(@[r], k)]]

-----------------------------------------------------------------------------
(* The panel.                                                              *)

(* The panel sees the new slice: what it has an answer to it waits for no  *)
(* longer.                                                                 *)
Answered(v, k) == {r \in Reads : Has(v, r, k) \/ v.error[r] = k}
ShowSlice(v) ==
    /\ view' = v
    /\ panel' = IF v = view THEN panel ELSE [panel EXCEPT !.waits = @ \ Answered(v, panel.key)]

Command(what, k, r) == [what |-> what, key |-> k, req |-> r]
SendAll(commands) ==
    /\ stamps + Len(bridge) + Len(commands) <= MaxCommands
    /\ bridge' = bridge \o commands

(* requestInsights, by the button that opens the panel or by its Retry.    *)
RequestInsights(k) ==
    /\ panel.key \in {NoKey, k}
    /\ LET claimed == panel.req # 0
           r == IF claimed THEN panel.req ELSE requests + 1
           Wanted(read) == ~Has(view, read, k) /\ (view.loading[read] # k \/ ~claimed)
           Ask(read) == IF Wanted(read) THEN <<Command(read, k, r)>> ELSE <<>>
           wanted == {read \in Reads : Wanted(read)}
       IN /\ wanted # {} /\ r <= MaxRequests
          /\ requests' = IF claimed THEN requests ELSE r
          /\ panel' = [key |-> k, req |-> r, waits |-> panel.waits \cup wanted]
          /\ SendAll(Ask("details") \o Ask("analysis"))
    /\ UNCHANGED <<stamps, newest, queue, closes, runs, active, view, outrun>>

(* Closing it, or turning to another replay, cancels what it waits for.    *)
CancelReads ==
    /\ panel # Closed
    /\ IF panel.waits # {}
       THEN SendAll(<<Command("cancel", panel.key, panel.req)>>)
       ELSE UNCHANGED bridge
    /\ panel' = Closed
    /\ UNCHANGED <<requests, stamps, newest, queue, closes, runs, active, view, outrun>>

-----------------------------------------------------------------------------
(* The runtime: stamp, and the queue.                                      *)

Without(s, i) == SubSeq(s, 1, i - 1) \o SubSeq(s, i + 1, Len(s))

(* A later request's read of this kind has been stamped already, and is    *)
(* superseded by this one.                                                 *)
Outruns(c) == c.what \in Reads /\ newest[c.what].req > c.req

Dispatch(i) ==
    /\ i \in 1 .. Len(bridge)
    /\ bridge' = Without(bridge, i)
    /\ stamps' = stamps + 1
    /\ outrun' = (outrun \/ Outruns(bridge[i]))
    /\ LET c == bridge[i] IN
       IF c.what = "cancel"
       THEN /\ closes' = closes \cup {c}
            /\ newest' = [r \in Reads |->
                   IF newest[r].key = c.key /\ newest[r].req = c.req
                   THEN [newest[r] EXCEPT !.off = TRUE] ELSE newest[r]]
            /\ UNCHANGED queue
       ELSE /\ queue' = Append(queue, [what |-> c.what, key |-> c.key, req |-> c.req,
                                       seq |-> stamps'])
            /\ newest' = [newest EXCEPT ![c.what] =
                   [seq |-> stamps', key |-> c.key, req |-> c.req, off |-> FALSE]]
            /\ UNCHANGED closes
    /\ UNCHANGED <<panel, requests, runs, active, view>>

Superseded(c) == newest[c.what].seq # c.seq \/ newest[c.what].off

(* begin_details and begin_analysis, as the command leaves its queue: a    *)
(* read of the same replay is replaced, of analyses any other; an analysis *)
(* the same panel already runs is joined.                                  *)
Replaces(c, run) == run.what = c.what /\ (c.what = "details" => run.key = c.key)
Task(c) == [what |-> c.what, key |-> c.key, req |-> c.req, seq |-> c.seq, off |-> FALSE]
CallOff(which) == {[run EXCEPT !.off = @ \/ run \in which] : run \in runs}
Joined(c) ==
    c.what = "analysis"
        /\ \E run \in runs : run.seq = active /\ run.key = c.key /\ run.req = c.req

Leave ==
    /\ queue # <<>>
    /\ queue' = Tail(queue)
    /\ LET c == Head(queue) IN
       IF Superseded(c) \/ Joined(c)
       THEN UNCHANGED <<runs, active, view, panel>>
       ELSE /\ runs' = CallOff({run \in runs : Replaces(c, run)}) \cup {Task(c)}
            /\ active' = IF c.what = "analysis" THEN c.seq ELSE active
            /\ ShowSlice(Loading(view, c.what, c.key))
    /\ UNCHANGED <<requests, bridge, stamps, newest, closes, outrun>>

(* A read ends: called off, with its answer, or with a failure. An         *)
(* analysis that was replaced is not the slot's any more.                  *)
Ends(run) ==
    /\ run \in runs
    /\ runs' = runs \ {run}
    /\ active' = IF run.seq = active THEN 0 ELSE active
    /\ IF run.off
       THEN UNCHANGED <<view, panel>>
       ELSE \E v \in {Landed(view, run.what, run.key), Failed(view, run.what, run.key)} :
                ShowSlice(v)
    /\ UNCHANGED <<requests, bridge, stamps, newest, queue, closes, outrun>>

(* Faulty: a close ends whatever reads its replay.                         *)
FaultyCancelRun(c) ==
    /\ c \in closes
    /\ closes' = closes \ {c}
    /\ runs' = CallOff({run \in runs : run.key = c.key})
    /\ active' = IF \E run \in runs : run.seq = active /\ run.key = c.key THEN 0 ELSE active
    /\ ShowSlice(ReadsCancelled(view, c.key))
    /\ UNCHANGED <<requests, bridge, stamps, newest, queue, outrun>>

(* cancel_reads: the request's own reads and no others; the slice is told  *)
(* unless a newer panel reads the same replay.                             *)
CancelRun(c) ==
    /\ c \in closes
    /\ closes' = closes \ {c}
    /\ LET own == {run \in runs : run.key = c.key /\ run.req = c.req
                                     /\ (run.what = "analysis" => run.seq = active)}
           left == {run \in runs \ own : run.key = c.key /\ ~run.off
                                     /\ (run.what = "analysis" => run.seq = active)}
       IN /\ runs' = CallOff(own)
          /\ active' = IF \E run \in own : run.what = "analysis" THEN 0 ELSE active
          /\ IF own # {} /\ left = {} THEN ShowSlice(ReadsCancelled(view, c.key))
                                      ELSE UNCHANGED <<view, panel>>
    /\ UNCHANGED <<requests, bridge, stamps, newest, queue, outrun>>

-----------------------------------------------------------------------------

ReadsNext ==
    \/ \E k \in Keys : RequestInsights(k)
    \/ CancelReads
    \/ \E i \in 1 .. Len(bridge) : Dispatch(i)
    \/ Leave
    \/ \E run \in runs : Ends(run)
    \/ \E c \in closes : CancelRun(c)

ReadsSpec == ReadsInit /\ [][ReadsNext]_readVars

-----------------------------------------------------------------------------

(* Nothing the panels sent is still on its way.                            *)
AllHandled == bridge = <<>> /\ queue = <<>> /\ closes = {}

(* No panel waits for nothing: once what was sent has been handled, what   *)
(* an open panel still waits for is being read, whatever was cancelled,    *)
(* replaced, joined or dropped on the way, and in whatever order the       *)
(* bridge's calls were stamped. Left out are the runs in which a read was  *)
(* stamped after the same read of a later request: the code takes the      *)
(* later stamp for the newer request, and the open panel's read is dropped.*)
AwaitedIsRead ==
    AllHandled /\ ~outrun => \A r \in panel.waits :
        \E run \in runs : run.what = r /\ run.key = panel.key /\ ~run.off

=============================================================================
