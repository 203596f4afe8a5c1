----------------------------- MODULE Perception -----------------------------
(***************************************************************************)
(* The perception stack of one replica (internal/perception): the streams  *)
(* feed the queue, a single consumer feeds the engine, the tick loops run  *)
(* beside it and the refresh swaps stored detectors in under all of them.  *)
(* State and Gaps say whether an empty list of findings is evidence.       *)
(* A panic on a loop of the engine takes the process down; a fresh one     *)
(* starts with empty memory and reads the table again.                     *)
(***************************************************************************)
EXTENDS DetectorStore

CONSTANTS
    BaseBlocks,   \* the compiled block of each base detector
    Legacy        \* rows the table may hold from before: {[status, raw]}

ASSUME LegacyAssumption ==
    Legacy \subseteq [status : {"shadow", "candidate", "active", "demoted"}, raw : {r.raw : r \in Legacy}]

VARIABLES
    running,      \* the process is up
    reported      \* <<detector, pod>>: present failures the engine has reported

perceptionVars == <<sensoriumVars, engineVars, storeVars, running, reported>>

-----------------------------------------------------------------------------
(* Failing: base detector n matches the pod as it stands. *)
Failing(n, o) ==
    /\ n \in BaseSet /\ cluster[o] # Gone
    /\ \E p \in BaseBlocks[n].watch : p.kind = "Pod" /\ displayStatus(cluster[o]) \in p.matches

(* A report stands for the failure it was made about: it is withdrawn when *)
(* the pod recovers while its stream could have said so.                   *)
Watched(o) == \E s \in StreamsOf("pods", o) : stream[s] = "connected"
WithReports(ks) == reported' = reported \cup ks

(* The single consumer of the queue. *)
Consume ==
    /\ queue # << >>
    /\ queue' = Tail(queue)
    /\ Process(Head(queue))
    /\ WithReports(Firing(keys, BaseSet, Head(queue)) \X {Head(queue).object})
    /\ UNCHANGED <<dep, cluster, history, stream, pipe, shed, changes, events, losses, storeVars>>

(* A clock tick: everything known by its age grows older. *)
Elapse ==
    /\ \A i \in DOMAIN queue : queue[i].lag < MaxLag
    /\ queue' = [i \in DOMAIN queue |-> [queue[i] EXCEPT !.lag = @ + 1]]
    /\ keys' = Aged(keys) /\ shadowKeys' = Aged(shadowKeys)
    /\ predicted' = [k \in DOMAIN predicted |-> Cap(predicted[k] + 1)]
    /\ UNCHANGED <<dep, cluster, history, stream, pipe, shed, changes, events, losses, loaded, blocks, blind, sweep,
                   findings, shadowSeen, storeVars, reported>>

EngineTick ==
    /\ Tick
    /\ WithReports({k \in BaseSet \X Pods : Key(k[1], k[2]) \in DueKeys(keys, loaded.active)})
    /\ UNCHANGED <<sensoriumVars, storeVars>>
Sweep ==
    /\ \/ SweepStart \/ SweepNext
       \/ \E a \in Trends, o \in dep.objects : SweepAnswer(a, o)
    /\ UNCHANGED <<sensoriumVars, storeVars, reported>>
Refresh ==
    /\ refreshFails \/ \E reached \in SUBSET ToSet(Stored) : refreshStored(reached)
    /\ UNCHANGED <<sensoriumVars, reported>>

World ==
    /\ Environment
    /\ reported' = {k \in reported : cluster'[k[2]] = cluster[k[2]] \/ Failing(k[1], k[2])' \/ ~Watched(k[2])}
    /\ UNCHANGED <<engineVars, storeVars>>

Streaming == Watch /\ UNCHANGED <<engineVars, storeVars, reported>>
Reviewing == StoreStep /\ UNCHANGED <<sensoriumVars, engineVars, reported>>

(* The process goes down with its goroutine; a new one starts from Run.    *)
Fresh ==
    /\ stream' = [s \in specs(dep) |-> "idle"]
    /\ pipe' = [s \in specs(dep) |-> << >>]
    /\ queue' = << >> /\ shed' = 0
    /\ keys' = << >> /\ shadowKeys' = << >> /\ predicted' = << >>
    /\ blind' = FALSE /\ sweep' = NoSweep /\ shadowSeen' = {}
    /\ loaded' = [active |-> BaseNames, shadow |-> << >>]
Crash ==
    /\ running /\ sweep.pc = "panic"
    /\ running' = FALSE
    /\ review' = [p \in Reviewers |-> NoReview]
    /\ UNCHANGED <<sensoriumVars, engineVars, rows, refreshed, unread, approved, reviews, reported>>
Restart ==
    /\ ~running
    /\ running' = TRUE
    /\ Fresh
    /\ refreshed' = [n \in ToSet(Stored) |-> "absent"] /\ unread' = ToSet(Stored)
    /\ UNCHANGED <<dep, cluster, history, changes, events, losses, blocks, findings, rows, review, approved, reviews, reported>>

PerceptionInit ==
    /\ SensoriumInit
    /\ loaded = [active |-> BaseNames, shadow |-> << >>]
    /\ blocks = [n \in Names |-> IF n \in BaseSet THEN BaseBlocks[n] ELSE NoBlock]
    /\ keys = << >> /\ shadowKeys = << >> /\ predicted = << >>
    /\ blind = FALSE /\ sweep = NoSweep /\ findings = {} /\ shadowSeen = {}
    /\ (IF dep.authoring THEN StoreInit(Legacy) ELSE StoreInit({}))
    /\ running = TRUE /\ reported = {}

Alive == running /\ sweep.pc # "panic"
Up(A) == Alive /\ A /\ UNCHANGED running
PerceptionNext ==
    \/ Up(World)
    \/ Up(Streaming)
    \/ Up(Consume)
    \/ Up(Elapse)
    \/ Up(EngineTick)
    \/ Up(Sweep)
    \/ Up(Refresh)
    \/ Up(Reviewing)
    \/ Crash
    \/ Restart
PerceptionSpec == PerceptionInit /\ [][PerceptionNext]_perceptionVars

(* The goroutines of the stack are scheduled: readers, the consumer, the   *)
(* ticker and the clock behind it, the sweep and the refresh.              *)
FairPerception ==
    /\ PerceptionSpec
    /\ WF_perceptionVars(Up(Streaming \/ Consume))
    /\ WF_perceptionVars(Up(Elapse))
    /\ WF_perceptionVars(Up(EngineTick))
    /\ WF_perceptionVars(Crash \/ Restart)

-----------------------------------------------------------------------------
(* What the stack says of itself. *)
Sensorium ==
    CASE ~running -> "disabled"
      [] running /\ AnyConnected -> "active"
      [] running /\ ~AnyConnected /\ (\A s \in specs(dep) : stream[s] = "stopped") -> "stopped"
      [] OTHER -> "reconnecting"
Predictive ==
    IF ~dep.predictive \/ \A i \in DOMAIN loaded.active : BlockOf(loaded.active[i]).trend = {} THEN "off"
    ELSE IF blind THEN "blind" ELSE "active"
Gaps ==
    {g \in {"disabled", "stopped", "reconnecting"} : g = Sensorium}
    \cup {g \in {"blind"} : Predictive = "blind"}
    \cup {g \in {"scoped"} : dep.watched # {}}
    \cup {g \in {"shed"} : shed > 0}

(* Nothing failing escapes a caught-up watch: when a pod's stream is       *)
(* connected and everything it wrote has been read and processed, a pod a  *)
(* base detector matches is armed or has been reported, or the gaps say    *)
(* that observations were shed (engine.go advance and Tick, watcher.go     *)
(* read and enqueue, perception.go Gaps).  A detector is excused while a   *)
(* stored one of its name has ever been promoted: the two share their keys *)
(* (see NamesakesMissNothing).                                             *)
CaughtUp(o) ==
    /\ Alive /\ Watched(o) /\ queue = << >>
    /\ \A s \in StreamsOf("pods", o) : stream[s] = "connected" /\ pipe[s] = << >>
NameIsItsOwn(n) == \A m \in approved : Playbook[m] # Playbook[n]
Noticed(n, o) == <<n, o>> \in reported \/ HasKey(keys, n, o) \/ "shed" \in Gaps
NothingMissed ==
    \A n \in BaseSet, o \in dep.objects : CaughtUp(o) /\ Failing(n, o) /\ NameIsItsOwn(n) => Noticed(n, o)

(* The same of every detector (engine.go, Engine: "A match arms (playbook, *)
(* namespace, object); it fires only if still armed after                  *)
(* DebounceSeconds").                                                      *)
NamesakesMissNothing ==
    \A n \in BaseSet, o \in dep.objects : CaughtUp(o) /\ Failing(n, o) => Noticed(n, o)

(* Only a base detector or one a person promoted ever reaches the          *)
(* watchtower: a shadow candidate cannot act (engine.go emitShadow,        *)
(* store.go Load, perception.go refreshStored).                            *)
OnlyPromotedActs == \A f \in findings : f.detector \in BaseSet \cup approved

(* Every stored detector in the engine can fire on some object: dead       *)
(* predicates are refused one by one, whatever wrote the row, and a row of *)
(* dead predicates is not loaded at all (store.go Load).                   *)
LoadedCanFire ==
    \A n \in ToSet(Stored) :
        n \in ToSet(loaded.active) \cup ToSet(loaded.shadow) =>
            /\ BlockOf(n) # NoBlock
            /\ \A p \in BlockOf(n).watch : ~NeverMatches(p)
            /\ \A t \in BlockOf(n).trend : ~TrendNeverFires(t)

(* A read disarms only by what it says: a row last read as active, whose   *)
(* predicates can fire, is in the engine unless the read the engine runs   *)
(* on broke off before that row (store.go Load, perception.go              *)
(* refreshStored).                                                         *)
Promotable(n) == running /\ refreshed[n] = "active" /\ LivePart(rows[n].raw) # NoBlock
RefreshNeverDisarms ==
    \A n \in ToSet(Stored) : Promotable(n) => n \in ToSet(loaded.active) \cup unread

(* What was promoted stays in the engine, and can fire there, through      *)
(* failed, cut and stale refreshes.                                        *)
DetectorsStayLoaded == LoadedCanFire /\ RefreshNeverDisarms

(* The same of a read that broke off (perception.go refreshStored: "A      *)
(* failed read keeps the set already loaded").                             *)
FailedReadKeepsTheSet ==
    \A n \in ToSet(Stored) : Promotable(n) => n \in ToSet(loaded.active)

(* A pod that stays failing in the eyes of a base detector, on a stream    *)
(* that stays connected and with nothing shed, is in the end reported by   *)
(* that detector, and the report stands (engine.go Tick: debounce expiry). *)
StuckIsReported ==
    \A n \in BaseSet, o \in Pods :
        <>[](running /\ o \in dep.objects /\ Watched(o) /\ Failing(n, o) /\ shed = 0 /\ NameIsItsOwn(n))
            => <>[](<<n, o>> \in reported)

(* The sweep of the metrics never takes the process down (engine.go:       *)
(* EvaluateTrends, "It fails open (an outage yields no findings and no     *)
(* panic)").                                                               *)
SweepNeverPanics == sweep.pc # "panic"

=============================================================================
