----------------------------- MODULE MemoryGraph -----------------------------
(***************************************************************************)
(* The knowledge graph of one pod, fed by observations: the bounded queue  *)
(* and its drainer (internal/memory Service), the ingest of an observation *)
(* as the separate statements it is, the pass that closes stale edges, and *)
(* the write-back of an investigation's pattern.  Every statement may fail *)
(* and most failures are only logged.                                      *)
(***************************************************************************)
EXTENDS Integers, Sequences, FiniteSets

CONSTANTS
    Nodes,          \* nodes the pod may run on
    Gone,           \* the pod is not there
    ObsQueue,       \* MEMORY_OBS_QUEUE_MAXSIZE
    BeforeDegraded, \* ingestFailuresBeforeDegraded
    MaxMoves, MaxOutages, MaxFailures, \* bounds: moves of the pod, watches lost, failed statements
    Investigations  \* turns that write their pattern back

ASSUME GraphBounds == ObsQueue \in Nat \ {0} /\ BeforeDegraded \in Nat \ {0} /\ Gone \notin Nodes

VARIABLES
    place,      \* where the pod runs, or Gone
    watching,   \* the watch is connected
    obsQueue, dropped,
    ingest,     \* the observation in hand and the statement it has come to
    failures, state,
    podSeen,    \* the pod entity: "none", "fresh" or "stale" (last_seen over 24 h ago)
    runsOn, owned, \* the open edges Pod runs_on Node and Workload owns Pod
    oldEdges,   \* open runs_on edges whose valid_from is over 24 h ago
    sweep,      \* the stale pass under way: the edges it will close
    exhibits,   \* open edges Cluster exhibits Pattern, by the attributes they carry
    writeback,  \* each investigation's write-back
    moves, outages, broken \* counters of the bounds

graphVars == <<place, watching, obsQueue, dropped, ingest, failures, state, podSeen, runsOn, owned, oldEdges, sweep,
               exhibits, writeback, moves, outages, broken>>
world == <<place, watching, moves, outages>>
graph == <<podSeen, runsOn, owned, oldEdges>>
health == <<failures, state>>
writebackVars == <<exhibits, writeback>>

AtRest == [pc |-> "idle"]
Quiet == [pc |-> "idle"]
GraphInit ==
    /\ place \in Nodes /\ watching = TRUE /\ obsQueue = << >> /\ dropped = 0
    /\ ingest = AtRest /\ failures = 0 /\ state = "ready"
    /\ podSeen = "none" /\ runsOn = {} /\ owned = FALSE /\ oldEdges = {} /\ sweep = Quiet
    /\ exhibits = {} /\ writeback = [i \in Investigations |-> "begin"]
    /\ moves = 0 /\ outages = 0 /\ broken = 0

Breaks == broken < MaxFailures /\ broken' = broken + 1
Works == UNCHANGED broken
-----------------------------------------------------------------------------
(* Service.Enqueue: what does not fit is counted and gone.                 *)
Enqueued(q, o) == IF Len(q) < ObsQueue THEN Append(q, o) ELSE q
Enqueue(o) ==
    /\ obsQueue' = Enqueued(obsQueue, o)
    /\ dropped' = IF obsQueue' = obsQueue THEN dropped + 1 ELSE dropped

(* The watch tells of a change while it is connected, and lists the pod    *)
(* again when it reconnects; a pod deleted meanwhile is simply not listed. *)
Move(p) ==
    /\ moves < MaxMoves /\ p \in Nodes \cup {Gone} /\ p # place /\ place # Gone
    /\ place' = p /\ moves' = moves + 1
    /\ IF watching THEN Enqueue(p) ELSE UNCHANGED <<obsQueue, dropped>>
    /\ UNCHANGED <<watching, outages, ingest, graph, health, sweep, broken, writebackVars>>
WatchLost ==
    /\ watching /\ outages < MaxOutages /\ watching' = FALSE /\ outages' = outages + 1
    /\ UNCHANGED <<place, moves, obsQueue, dropped, ingest, graph, health, sweep, broken, writebackVars>>
WatchBack ==
    /\ ~watching /\ watching' = TRUE
    /\ IF place \in Nodes THEN Enqueue(place) ELSE UNCHANGED <<obsQueue, dropped>>
    /\ UNCHANGED <<place, moves, outages, ingest, graph, health, sweep, broken, writebackVars>>
(* The kubelet updates the status of a pod that runs.                      *)
StatusUpdate ==
    /\ watching /\ place \in Nodes /\ obsQueue = << >>
    /\ Enqueue(place)
    /\ UNCHANGED <<world, ingest, graph, health, sweep, broken, writebackVars>>
(* A day in which nobody told of the pod.                                  *)
DayPasses ==
    /\ obsQueue = << >> /\ ingest = AtRest /\ (~watching \/ place = Gone)
    /\ podSeen = "fresh" /\ podSeen' = "stale" /\ oldEdges' = runsOn
    /\ UNCHANGED <<world, obsQueue, dropped, ingest, runsOn, owned, health, sweep, broken, writebackVars>>
-----------------------------------------------------------------------------
(* Service.Drain and IngestPodObservation, a statement at a time.  Only a  *)
(* pod entity that could not be written is an error to the drainer.        *)

DrainFrame == UNCHANGED <<world, sweep, writebackVars, dropped>>
Goto(s) == ingest' = [ingest EXCEPT !.pc = s]
Ingested ==
    /\ ingest' = AtRest /\ failures' = 0
    /\ state' = IF failures > 0 /\ state = "degraded" THEN "ready" ELSE state
Take ==
    /\ ingest = AtRest /\ obsQueue # << >>
    /\ ingest' = [pc |-> "pod", node |-> Head(obsQueue), cur |-> Gone] /\ obsQueue' = Tail(obsQueue)
    /\ UNCHANGED <<graph, health, broken>> /\ DrainFrame
PodWritten ==
    /\ ingest.pc = "pod" /\ podSeen' = "fresh"
    /\ Goto(IF ingest.node = Gone THEN "closeAll" ELSE "node")
    /\ UNCHANGED <<runsOn, owned, oldEdges, health, obsQueue>> /\ Works /\ DrainFrame
PodNotWritten ==
    /\ ingest.pc = "pod" /\ Breaks
    /\ ingest' = AtRest /\ failures' = IF failures < BeforeDegraded THEN failures + 1 ELSE failures
    /\ state' = IF failures' >= BeforeDegraded /\ state = "ready" THEN "degraded" ELSE state
    /\ UNCHANGED <<graph, obsQueue>> /\ DrainFrame
CloseAll ==
    /\ ingest.pc = "closeAll" /\ Ingested
    /\ \/ runsOn' = {} /\ owned' = FALSE /\ oldEdges' = {} /\ Works
       \/ UNCHANGED <<runsOn, owned, oldEdges>> /\ Breaks
    /\ UNCHANGED <<podSeen, obsQueue>> /\ DrainFrame
NodeWritten ==
    /\ ingest.pc = "node"
    /\ \/ Goto("cur") /\ Works
       \/ Goto("owner") /\ Breaks
    /\ UNCHANGED <<graph, health, obsQueue>> /\ DrainFrame
(* openRunsOnDst: one open edge, any; a read that failed found none.       *)
ReadCurrent ==
    /\ ingest.pc = "cur"
    /\ \/ \E n \in IF runsOn = {} THEN {Gone} ELSE runsOn : ingest' = [ingest EXCEPT !.pc = "close", !.cur = n] /\ Works
       \/ ingest' = [ingest EXCEPT !.pc = "close", !.cur = Gone] /\ Breaks
    /\ UNCHANGED <<graph, health, obsQueue>> /\ DrainFrame
(* The pod moved: CloseEdge without a destination closes them all.         *)
Moved == ingest.cur # Gone /\ ingest.cur # ingest.node
CloseMoved ==
    /\ ingest.pc = "close" /\ Goto("open")
    /\ IF Moved
       THEN \/ runsOn' = {} /\ oldEdges' = {} /\ Works
            \/ UNCHANGED <<runsOn, oldEdges>> /\ Breaks
       ELSE UNCHANGED <<runsOn, oldEdges>> /\ Works
    /\ UNCHANGED <<podSeen, owned, health, obsQueue>> /\ DrainFrame
(* OpenEdge: an edge that is open is left alone.                           *)
Opened(edges, n) == edges \cup {n}
OpenRunsOn ==
    /\ ingest.pc = "open" /\ Goto("owner")
    /\ \/ runsOn' = Opened(runsOn, ingest.node) /\ Works
       \/ UNCHANGED runsOn /\ Breaks
    /\ UNCHANGED <<podSeen, owned, oldEdges, health, obsQueue>> /\ DrainFrame
OpenOwns ==
    /\ ingest.pc = "owner" /\ Ingested
    /\ \/ owned' = TRUE /\ Works
       \/ UNCHANGED owned /\ Breaks
    /\ UNCHANGED <<podSeen, runsOn, oldEdges, obsQueue>> /\ DrainFrame
-----------------------------------------------------------------------------
(* CloseStaleEdges: the stale pods are read, then their outgoing edges     *)
(* older than the cutoff are closed, whatever was observed in between.     *)

SweepFrame == UNCHANGED <<world, obsQueue, dropped, ingest, health, podSeen, owned, writebackVars>>
SweepReads ==
    /\ sweep = Quiet /\ podSeen = "stale" /\ sweep' = [pc |-> "close", old |-> oldEdges]
    /\ UNCHANGED <<runsOn, oldEdges, broken>> /\ SweepFrame
(* A variant has the comparison with the cutoff the wrong way round.       *)
SweptNewer(edges, old) == edges \ {n \in old : n \notin oldEdges}
Swept(edges, old) == edges \ {n \in old : n \in oldEdges}
SweepCloses ==
    /\ sweep.pc = "close" /\ sweep' = Quiet
    /\ \/ runsOn' = Swept(runsOn, sweep.old) /\ oldEdges' = oldEdges \ sweep.old /\ Works
       \/ UNCHANGED <<runsOn, oldEdges>> /\ Breaks
    /\ SweepFrame
-----------------------------------------------------------------------------
(* ApplyWriteback: a confirm signal, reconciled with the edge that is      *)
(* open.  The read and the insert are two statements of each turn.         *)

WriteFrame == UNCHANGED <<world, graph, health, obsQueue, dropped, ingest, sweep>>
Reconcile(i) ==
    /\ writeback[i] = "begin"
    /\ \/ /\ Works /\ UNCHANGED exhibits
          /\ writeback' = [writeback EXCEPT ![i] = IF exhibits = {} THEN "insert" ELSE "NOOP"]
       \/ Breaks /\ UNCHANGED exhibits /\ \E t \in {"ERROR", "NOOP"} : writeback' = [writeback EXCEPT ![i] = t]
    /\ WriteFrame
InsertEdge(i) ==
    /\ writeback[i] = "insert" /\ writeback' = [writeback EXCEPT ![i] = "ADD"]
    /\ \/ exhibits' = exhibits \cup {i} /\ Works
       \/ UNCHANGED exhibits /\ Breaks
    /\ WriteFrame

GraphNext ==
    \/ \E p \in Nodes \cup {Gone} : Move(p)
    \/ WatchLost \/ WatchBack \/ StatusUpdate \/ DayPasses
    \/ Take \/ PodWritten \/ PodNotWritten \/ CloseAll \/ NodeWritten \/ ReadCurrent \/ CloseMoved \/ OpenRunsOn \/ OpenOwns
    \/ SweepReads \/ SweepCloses
WritebackNext == \E i \in Investigations : Reconcile(i) \/ InsertEdge(i)

Drains == Take \/ PodWritten \/ CloseAll \/ NodeWritten \/ ReadCurrent \/ CloseMoved \/ OpenRunsOn \/ OpenOwns
(* The drainer and the consolidation pass run for the life of the process, *)
(* a lost watch is dialled again, a pod that runs reports its status again *)
(* and again, and days pass.                                               *)
GraphFairness ==
    /\ WF_graphVars(Drains) /\ WF_graphVars(SweepReads \/ SweepCloses)
    /\ WF_graphVars(WatchBack) /\ WF_graphVars(StatusUpdate) /\ WF_graphVars(DayPasses)
-----------------------------------------------------------------------------
(* The graph heals: once the pod stays where it is, the edge to its node   *)
(* is open from some time on, and once the pod is gone none of its runs_on *)
(* edges is open for good, whatever observations were shed and whatever    *)
(* statements failed before.                                               *)
GraphHeals ==
    /\ \A n \in Nodes : <>[](place = n) => <>[](n \in runsOn)
    /\ <>[](place = Gone) => <>[](runsOn = {})
(* With nothing failing, only the current node's edge: what the comment of *)
(* functionalRels says of runs_on.                                         *)
OneNode == <>[](Cardinality(runsOn) <= 1)
=============================================================================
