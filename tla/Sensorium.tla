----------------------------- MODULE Sensorium -----------------------------
(***************************************************************************)
(* The kubectl watch streams and the observation queue between them and    *)
(* the detectors (internal/sensorium).  One stream per resource and        *)
(* watched namespace: kubectl lists the objects when it connects, then     *)
(* writes one document per change; the reader normalises each document and *)
(* queues it without ever blocking.  A full queue sheds its oldest entry.  *)
(* The cluster itself is the environment: `cluster` is what is true, and   *)
(* the documents in a pipe are what kubectl has written and nobody read.   *)
(***************************************************************************)
EXTENDS Integers, Sequences, SequencesExt, FiniteSets

CONSTANTS
    Pods,      \* pods
    NsOf,         \* the namespace of each
    PodStates,    \* the pod documents the cluster may hold, see DisplayStatus
    EventReasons, \* reasons of the Events the cluster may emit
    QueueSize,    \* SENSORIUM_QUEUE_MAXSIZE
    Deployments,  \* settings a behaviour may run under, see below
    PipeBound,    \* bound: documents written and not read, per stream
    MaxLag        \* bound: clock ticks an observation waits in the queue

Gone == [phase |-> "Gone"]
AllNamespaces == "-A"
(* A deployment is a record: objects, the pods that exist in it; watched,  *)
(* SENSORIUM_WATCH_NAMESPACES ({} is all); kubectl, whether the binary is  *)
(* on the server; the flags authoring, predictive and consolidation; and   *)
(* three bounds: changes of pods, Events and connections lost.             *)

ASSUME SensoriumAssumption ==
    /\ QueueSize \in Nat \ {0}
    /\ {PipeBound, MaxLag} \subseteq Nat
    /\ Gone \notin PodStates /\ IsFiniteSet(EventReasons)
    /\ \A d \in Deployments : 
        /\ d.objects \subseteq Pods /\ IsFiniteSet(d.objects)
        /\ AllNamespaces \notin d.watched
        /\ {d.kubectl, d.authoring, d.predictive, d.consolidation} \subseteq BOOLEAN
        /\ {d.changes, d.events, d.losses} \subseteq Nat

VARIABLES
    dep,       \* the deployment
    cluster,   \* cluster[o]: the pod document, or Gone
    history,   \* Events the API server still keeps
    stream,    \* stream[s]: "idle", "connected", "draining", "backoff" or "stopped"
    pipe,      \* pipe[s]: documents written by kubectl and not yet read
    queue,     \* observations on their way to the detectors
    shed,      \* observations dropped by a full queue
    changes, events, losses    \* what the bounds count

sensoriumVars == <<dep, cluster, history, stream, pipe, queue, shed, changes, events, losses>>

Resources == {"pods", "events"}
Namespaces == {NsOf[o] : o \in Pods}
(* Watcher.specs: one stream per resource, and per namespace when scoped. *)
specs(d) == Resources \X (IF d.watched = {} THEN {AllNamespaces} ELSE d.watched)
Streams == Resources \X (Namespaces \cup {AllNamespaces})
Covers(s, o) == s[2] \in {AllNamespaces, NsOf[o]}
ConnectedStates == {"connected", "draining"}
AnyConnected == \E s \in specs(dep) : stream[s] \in ConnectedStates

-----------------------------------------------------------------------------
(* What a document says. *)

Waiting(r) == [kind |-> "waiting", reason |-> r]
Terminated(r) == [kind |-> "terminated", reason |-> r]   \* "" with a code: ExitCode:n
RunningReady == [kind |-> "running", ready |-> TRUE]

(* The STATUS column: the phase, then status.reason, then the first init   *)
(* container that has not completed, else the containers in reverse so     *)
(* that the first has the last word, and last the deletion override.       *)
ContainerReason(c) ==
    CASE c.kind = "waiting" /\ c.reason # "" -> c.reason
      [] c.kind = "terminated" -> IF c.reason # "" THEN c.reason ELSE "ExitCode"
      [] OTHER -> ""

displayStatus(p) ==
    LET base == IF p.reason # "" THEN p.reason ELSE IF p.phase = "" THEN "Unknown" ELSE p.phase
        open == {i \in DOMAIN p.init : ~(p.init[i].kind = "terminated" /\ p.init[i].reason = "Completed")}
        first == CHOOSE i \in open : \A j \in open : i <= j
        inits == IF open = {} THEN base
                 ELSE IF ContainerReason(p.init[first]) \in {"", "PodInitializing"} THEN "Init:n/m"
                 ELSE "Init:" \o ContainerReason(p.init[first])
        said == {i \in DOMAIN p.containers : ContainerReason(p.containers[i]) # ""}
        worst == IF said = {} THEN inits
                 ELSE ContainerReason(p.containers[CHOOSE i \in said : \A j \in said : i <= j])
        hasRunning == \E i \in DOMAIN p.containers : p.containers[i] = RunningReady
        column == IF open # {} /\ ~p.initialized THEN inits
                  ELSE IF worst = "Completed" /\ hasRunning
                       THEN (IF p.ready THEN "Running" ELSE "NotReady")
                  ELSE worst
    IN  CASE p.deleting /\ p.reason = "NodeLost" -> "Unknown"
          [] p.deleting /\ p.phase \notin {"Succeeded", "Failed"} -> "Terminating"
          [] OTHER -> column

podObservation(doc) ==
    [kind |-> "pod_status", object |-> doc.object, status |-> displayStatus(doc.body), type |-> doc.type, lag |-> 0]
eventObservation(doc) ==
    [kind |-> "event", object |-> doc.object, status |-> doc.body.reason, type |-> "ADDED", lag |-> 0]

PodDoc(o, p, type) == [object |-> o, body |-> p, type |-> type]
EventDoc(e) == [object |-> e.object, body |-> e, type |-> "ADDED"]

(* An Event older than the start of Run, less a grace, is replayed history *)
(* and is dropped; one without a readable age is kept.  The start of Run   *)
(* does not move when a stream reconnects.                                 *)
IsStale(e) == e.age = "before"
normalise(s, doc) ==
    IF s[1] = "pods" THEN <<podObservation(doc)>>
    ELSE IF IsStale(doc.body) THEN << >> ELSE <<eventObservation(doc)>>

(* enqueue without the shedding. *)
enqueueKeepsAll(q, obs) == Append(q, obs)

(* enqueue never blocks: the oldest observation makes room. *)
enqueue(q, obs) == IF Len(q) < QueueSize THEN Append(q, obs) ELSE Append(Tail(q), obs)
-----------------------------------------------------------------------------
(* The environment: pods and Events change under the watch. *)

HasRoom(r, o) == \A s \in specs(dep) : s[1] = r /\ Covers(s, o) => Len(pipe[s]) < PipeBound
StreamsOf(r, o) == {s \in specs(dep) : s[1] = r /\ Covers(s, o)}
Written(r, o, doc) ==
    pipe' = [s \in DOMAIN pipe |->
                IF s \in StreamsOf(r, o) /\ stream[s] = "connected" THEN Append(pipe[s], doc) ELSE pipe[s]]

(* A deleted pod's last document is the object as it was, marked DELETED.  *)
PodChanges(o, p) ==
    /\ changes < dep.changes /\ o \in dep.objects /\ p # cluster[o] /\ HasRoom("pods", o)
    /\ changes' = changes + 1
    /\ cluster' = [cluster EXCEPT ![o] = p]
    /\ Written("pods", o,
               IF p = Gone THEN PodDoc(o, cluster[o], "DELETED")
               ELSE PodDoc(o, p, IF cluster[o] = Gone THEN "ADDED" ELSE "MODIFIED"))
    /\ UNCHANGED <<dep, history, stream, queue, shed, events, losses>>

EventOccurs(o, r) ==
    /\ events < dep.events /\ o \in dep.objects /\ HasRoom("events", o)
    /\ events' = events + 1
    /\ LET e == [object |-> o, reason |-> r, age |-> "after"]
       IN  history' = history \cup {e} /\ Written("events", o, EventDoc(e))
    /\ UNCHANGED <<dep, cluster, stream, queue, shed, changes, losses>>

(* kubectl loses its connection: what it has written is still read. *)
Lose(s) ==
    /\ losses < dep.losses /\ stream[s] = "connected"
    /\ losses' = losses + 1
    /\ stream' = [stream EXCEPT ![s] = "draining"]
    /\ UNCHANGED <<dep, cluster, history, pipe, queue, shed, changes, events>>
-----------------------------------------------------------------------------
(* Watcher.watch. *)

Listing(s) ==
    IF s[1] = "pods"
    THEN SetToSeq({PodDoc(o, cluster[o], "ADDED") : o \in {x \in dep.objects : Covers(s, x) /\ cluster[x] # Gone}})
    ELSE SetToSeq({EventDoc(e) : e \in {x \in history : Covers(s, x.object)}})

(* The command starts: its first documents are the whole current list.     *)
(* Without the binary the stream gives up for the life of the process.     *)
Connect(s) ==
    /\ stream[s] \in {"idle", "backoff"}
    /\ IF dep.kubectl
       THEN stream' = [stream EXCEPT ![s] = "connected"] /\ pipe' = [pipe EXCEPT ![s] = Listing(s)]
       ELSE stream' = [stream EXCEPT ![s] = "stopped"] /\ UNCHANGED pipe
    /\ UNCHANGED <<dep, cluster, history, queue, shed, changes, events, losses>>

Close(s) ==
    /\ stream[s] = "draining" /\ pipe[s] = << >>
    /\ stream' = [stream EXCEPT ![s] = "backoff"]
    /\ UNCHANGED <<dep, cluster, history, pipe, queue, shed, changes, events, losses>>

(* Watcher.read and enqueue. *)
Read(s) ==
    /\ stream[s] \in ConnectedStates /\ pipe[s] # << >>
    /\ pipe' = [pipe EXCEPT ![s] = Tail(@)]
    /\ LET obs == normalise(s, Head(pipe[s]))
       IN  IF obs = << >> THEN UNCHANGED <<queue, shed>>
           ELSE /\ queue' = enqueue(queue, obs[1])
                /\ shed' = IF Len(queue) = QueueSize THEN shed + 1 ELSE shed
    /\ UNCHANGED <<dep, cluster, history, stream, changes, events, losses>>

SensoriumInit ==
    /\ dep \in Deployments
    /\ cluster \in [Pods -> PodStates \cup {Gone}]
    /\ \A o \in Pods : o \notin dep.objects => cluster[o] = Gone
    /\ history = IF dep.events = 0 THEN {} ELSE {[object |-> o, reason |-> r, age |-> "before"] : o \in dep.objects, r \in EventReasons}
    /\ stream = [s \in specs(dep) |-> "idle"]
    /\ pipe = [s \in specs(dep) |-> << >>]
    /\ queue = << >> /\ shed = 0 /\ changes = 0 /\ events = 0 /\ losses = 0

Environment ==
    \/ \E o \in dep.objects, p \in PodStates \cup {Gone} : PodChanges(o, p)
    \/ \E o \in dep.objects, r \in EventReasons : EventOccurs(o, r)
    \/ \E s \in specs(dep) : Lose(s)
Watch == \E s \in specs(dep) : Connect(s) \/ Close(s) \/ Read(s)
=============================================================================
