----------------------------- MODULE Singletons -----------------------------
(***************************************************************************)
(* The background workers of each replica under the election: internal/app *)
(* (runSingletons, stopSingletons, Close), internal/perception (Start and  *)
(* Stop) and the investigations a finding sets off in the watchtower.      *)
(*                                                                         *)
(* Every acquisition gives the workers a new context, numbered here.       *)
(* Perception.Start runs in a goroutine of its own: it publishes the       *)
(* engine under the lock, starts the engine's loops, loads the stored      *)
(* detectors from the database, starts the watcher and only then records   *)
(* that it is running.  Stop records its reason, cancels and then waits.   *)
(* The watchtower is bound to the context of the process, not to the       *)
(* workers'.                                                               *)
(***************************************************************************)
EXTENDS LeaderElection, Functions

CONSTANTS
  MaxStarts,    (* bound: acquisitions by one replica                        *)
  MaxFindings   (* bound: findings accepted by all the replicas              *)

ASSUME SingletonsAssumption == {MaxStarts, MaxFindings} \subseteq Nat

VARIABLES
  acquired,    (* contexts given so far, one per acquisition                 *)
  stopWorkers, (* App.stopWorkers: the context it cancels, or NoContext      *)
  phase,       (* how far the Perception.Start of each context is            *)
  running,     (* contexts whose engine and watcher goroutines are alive     *)
  cancelled,   (* contexts that are cancelled, in themselves or as runCtx    *)
  engine,      (* Service.engine, named by the context of its Start          *)
  cancel,      (* Service.cancel, likewise                                   *)
  reason,      (* Service.reason                                             *)
  halting,     (* how far OnLose or Close is                                 *)
  found,       (* findings accepted so far                                   *)
  queued,      (* investigations that wait for a slot                        *)
  active       (* investigations that run                                    *)

perceptionVars == <<phase, running, engine, cancel, reason>>
workerVars     == <<acquired, stopWorkers, cancelled, halting>>
towerVars      == <<found, queued, active>>
vars == <<electionVars, workerVars, perceptionVars, towerVars>>

NoContext == 0
MaxConcurrent == 2   (* slots of the watchtower                             *)
Contexts  == 1 .. MaxStarts
Phases    == {"none", "spawned", "published", "loading", "done"}
Reasons   == {"not_started", "standby", "running", "stopped"}

Fresh(f, r, v) == [f EXCEPT ![r] = v]

Init ==
  /\ ElectionInit
  /\ acquired = [r \in Replicas |-> 0]
  /\ stopWorkers = [r \in Replicas |-> NoContext]
  /\ phase = [r \in Replicas |-> [g \in Contexts |-> "none"]]
  /\ running = [r \in Replicas |-> {}]
  /\ cancelled = [r \in Replicas |-> {}]
  /\ engine = [r \in Replicas |-> NoContext]
  /\ cancel = [r \in Replicas |-> NoContext]
  /\ reason = [r \in Replicas |-> "not_started"]
  /\ halting = [r \in Replicas |-> "no"]
  /\ found = [r \in Replicas |-> 0]
  /\ queued = [r \in Replicas |-> 0]
  /\ active = [r \in Replicas |-> 0]

(***************************************************************************)
(* The process: startWorkers, and its end.                                 *)
(***************************************************************************)
(* A new process: RecordStandby, then the election.                        *)
BootReplica(r) ==
  /\ Boot(r)
  /\ acquired' = Fresh(acquired, r, 0)
  /\ stopWorkers' = Fresh(stopWorkers, r, NoContext)
  /\ phase' = Fresh(phase, r, [g \in Contexts |-> "none"])
  /\ cancelled' = Fresh(cancelled, r, {})
  /\ engine' = Fresh(engine, r, NoContext)
  /\ cancel' = Fresh(cancel, r, NoContext)
  /\ reason' = Fresh(reason, r, "standby")
  /\ UNCHANGED <<running, halting, towerVars>>

(* The process is gone with all its goroutines.                            *)
CrashReplica(r) ==
  /\ Crash(r)
  /\ running' = Fresh(running, r, {})
  /\ phase' = Fresh(phase, r, [g \in Contexts |-> "none"])
  /\ halting' = Fresh(halting, r, "no")
  /\ queued' = Fresh(queued, r, 0)
  /\ active' = Fresh(active, r, 0)
  /\ UNCHANGED <<acquired, stopWorkers, cancelled, engine, cancel, reason, found>>

(* The context of the process ends, and with it every context under it;    *)
(* investigations that wait for a slot return.                             *)
CancelReplica(r) ==
  /\ Cancelled(r)
  /\ cancelled' = Fresh(cancelled, r, Contexts)
  /\ queued' = Fresh(queued, r, 0)
  /\ UNCHANGED <<acquired, stopWorkers, halting, perceptionVars, found, active>>

(***************************************************************************)
(* OnAcquire: runSingletons.                                               *)
(***************************************************************************)
(* Variant of NextContext that keeps the first context.                    *)
FirstContext(r) == 1

(* context.WithCancel: every acquisition has a context of its own.         *)
NextContext(r) == acquired[r] + 1

RunSingletons(r) ==
  /\ Acquire(r)
  /\ acquired[r] < MaxStarts
  /\ acquired' = [acquired EXCEPT ![r] = @ + 1]
  /\ LET g == NextContext(r)
     IN /\ stopWorkers' = Fresh(stopWorkers, r, g)
        /\ phase' = [phase EXCEPT ![r][g] = "spawned"]
  /\ UNCHANGED <<running, cancelled, engine, cancel, reason, halting, towerVars>>

(***************************************************************************)
(* Perception.Start in its goroutine.                                      *)
(***************************************************************************)
(* The critical section, the cluster identity included.                    *)
Publish(r, g) ==
  /\ phase[r][g] = "spawned"
  /\ engine' = Fresh(engine, r, g)
  /\ cancel' = Fresh(cancel, r, g)
  /\ phase' = [phase EXCEPT ![r][g] = "published"]
  /\ UNCHANGED <<electionVars, workerVars, running, reason, towerVars>>

(* done.Add and the engine's loops; the stored detectors are next.         *)
StartLoops(r, g) ==
  /\ phase[r][g] = "published"
  /\ running' = [running EXCEPT ![r] = @ \cup {g}]
  /\ phase' = [phase EXCEPT ![r][g] = "loading"]
  /\ UNCHANGED <<electionVars, workerVars, engine, cancel, reason, towerVars>>

(* The watcher starts and the reason is recorded.                          *)
RecordRunning(r, g) ==
  /\ phase[r][g] = "loading"
  /\ reason' = Fresh(reason, r, "running")
  /\ phase' = [phase EXCEPT ![r][g] = "done"]
  /\ UNCHANGED <<electionVars, workerVars, running, engine, cancel, towerVars>>

(* The goroutines of a cancelled run return.                               *)
RunEnds(r, g) ==
  /\ g \in running[r] \cap cancelled[r]
  /\ phase[r][g] = "done"
  /\ running' = [running EXCEPT ![r] = @ \ {g}]
  /\ UNCHANGED <<electionVars, workerVars, phase, engine, cancel, reason, towerVars>>

(***************************************************************************)
(* OnLose (stopSingletons) and Close.                                      *)
(***************************************************************************)
(* Leadership is dropped; stopSingletons is next.                          *)
LoseLeadership(r) ==
  /\ StepDown(r)
  /\ halting' = Fresh(halting, r, "cancel")
  /\ UNCHANGED <<acquired, stopWorkers, cancelled, perceptionVars, towerVars>>

(* Variant of CancelledByStop that leaves the workers to Perception.Stop.  *)
NoneCancelled(r) == {}

(* What stopSingletons cancels before it stops perception.                 *)
CancelledByStop(r) == {stopWorkers[r]} \ {NoContext}

CancelWorkers(r) ==
  /\ halting[r] = "cancel"
  /\ cancelled' = [cancelled EXCEPT ![r] = @ \cup CancelledByStop(r)]
  /\ stopWorkers' = Fresh(stopWorkers, r, NoContext)
  /\ halting' = Fresh(halting, r, "stop")
  /\ UNCHANGED <<electionVars, acquired, perceptionVars, towerVars>>

(* Perception.Stop up to its wait.                                         *)
StopPerception(r) ==
  /\ halting[r] = "stop"
  /\ cancelled' = [cancelled EXCEPT ![r] = @ \cup ({cancel[r]} \ {NoContext})]
  /\ engine' = Fresh(engine, r, NoContext)
  /\ cancel' = Fresh(cancel, r, NoContext)
  /\ reason' = Fresh(reason, r, IF loop[r] = "closed" THEN "stopped" ELSE "standby")
  /\ halting' = Fresh(halting, r, "wait")
  /\ UNCHANGED <<electionVars, acquired, stopWorkers, phase, running, towerVars>>

(* done.Wait returns once no run is left.                                  *)
Waited(r) == halting[r] = "wait" /\ running[r] = {}

(* OnLose returns.                                                         *)
LossDone(r) ==
  /\ Waited(r)
  /\ LossHandled(r)
  /\ halting' = Fresh(halting, r, "no")
  /\ UNCHANGED <<acquired, stopWorkers, cancelled, perceptionVars, towerVars>>

(* Close: the election first, then perception.                             *)
StopElection(r) ==
  /\ Stop(r)
  /\ halting' = Fresh(halting, r, "stop")
  /\ UNCHANGED <<acquired, stopWorkers, cancelled, perceptionVars, towerVars>>

(* Close waits for the investigations as well, and the process ends.       *)
ExitReplica(r) ==
  /\ Waited(r)
  /\ active[r] = 0
  /\ Exit(r)
  /\ halting' = Fresh(halting, r, "no")
  /\ phase' = Fresh(phase, r, [g \in Contexts |-> "none"])
  /\ UNCHANGED <<acquired, stopWorkers, cancelled, running, engine, cancel, reason>>
  /\ UNCHANGED towerVars

(***************************************************************************)
(* Findings and investigations.                                            *)
(***************************************************************************)
(* An engine whose loops are alive fires; the watchtower queues an         *)
(* investigation.                                                          *)
Finding(r) ==
  /\ running[r] # {}
  /\ FoldFunction(+, 0, found) < MaxFindings
  /\ found' = [found EXCEPT ![r] = @ + 1]
  /\ queued' = IF ending[r] THEN queued ELSE [queued EXCEPT ![r] = @ + 1]
  /\ UNCHANGED <<electionVars, workerVars, perceptionVars, active>>

(* A slot is free and the context of the process is not done.              *)
Investigate(r) ==
  /\ queued[r] > 0 /\ ~ending[r]
  /\ active[r] < MaxConcurrent
  /\ queued' = [queued EXCEPT ![r] = @ - 1]
  /\ active' = [active EXCEPT ![r] = @ + 1]
  /\ UNCHANGED <<electionVars, workerVars, perceptionVars, found>>

InvestigationEnds(r) ==
  /\ active[r] > 0
  /\ active' = [active EXCEPT ![r] = @ - 1]
  /\ UNCHANGED <<electionVars, workerVars, perceptionVars, found, queued>>

(* Steps of the election that no worker notices.                           *)
ElectionOnly(r) ==
  /\ Refused(r) \/ AttemptFails(r) \/ ReplyLost(r) \/ Cut(r) \/ SessionEnds(r)
  /\ UNCHANGED <<workerVars, perceptionVars, towerVars>>

StartSteps(r, g) ==
  Publish(r, g) \/ StartLoops(r, g) \/ RecordRunning(r, g) \/ RunEnds(r, g)

HaltSteps(r) ==
  CancelWorkers(r) \/ StopPerception(r) \/ LossDone(r) \/ StopElection(r) \/ ExitReplica(r)

ReplicaStep(r) ==
  \/ BootReplica(r) \/ CrashReplica(r) \/ CancelReplica(r)
  \/ RunSingletons(r) \/ LoseLeadership(r)
  \/ \E g \in Contexts : StartSteps(r, g)
  \/ HaltSteps(r)
  \/ Finding(r) \/ Investigate(r) \/ InvestigationEnds(r)
  \/ ElectionOnly(r)

Next == \E r \in Replicas : ReplicaStep(r)

Spec == Init /\ [][Next]_vars

(* The election's fairness; goroutines that can go on do.                  *)
Fairness ==
  \A r \in Replicas :
     /\ WF_vars(BootReplica(r))
     /\ WF_vars(RunSingletons(r) \/ LoseLeadership(r)
                \/ (AttemptFails(r) /\ UNCHANGED <<workerVars, perceptionVars, towerVars>>))
     /\ WF_vars(SessionEnds(r) /\ UNCHANGED <<workerVars, perceptionVars, towerVars>>)
     /\ \A g \in Contexts : WF_vars(StartSteps(r, g))
     /\ WF_vars(HaltSteps(r))
     /\ WF_vars(InvestigationEnds(r))

FairSpec == Spec /\ Fairness

(***************************************************************************)
(* Properties.                                                             *)
(***************************************************************************)
(* Every variable has its type.                                            *)
TypeOK ==
  /\ ElectionTypeOK
  /\ acquired \in [Replicas -> 0 .. MaxStarts]
  /\ stopWorkers \in [Replicas -> Contexts \cup {NoContext}]
  /\ phase \in [Replicas -> [Contexts -> Phases]]
  /\ running \in [Replicas -> SUBSET Contexts]
  /\ cancelled \in [Replicas -> SUBSET Contexts]
  /\ engine \in [Replicas -> Contexts \cup {NoContext}]
  /\ cancel \in [Replicas -> Contexts \cup {NoContext}]
  /\ reason \in [Replicas -> Reasons]
  /\ halting \in [Replicas -> {"no", "cancel", "stop", "wait"}]
  /\ found \in [Replicas -> 0 .. MaxFindings]
  /\ queued \in [Replicas -> Nat] /\ active \in [Replicas -> Nat]

(* The engines of r that observe the cluster.                              *)
Perceiving(r) == running[r] \ cancelled[r]

(* A replica that does not lead, once it has handled the loss, does not    *)
(* perceive, however late a start it had begun goes on.                    *)
StandbyIsBlind ==
  \A r \in Replicas : ~leader[r] /\ halting[r] = "no" => Perceiving(r) = {}

(* One process never runs two engines, which would fire every finding      *)
(* twice, whatever it lost and acquired in between.                        *)
OneEngine == \A r \in Replicas : Cardinality(Perceiving(r)) <= 1

(* Replicas with a live session to the database never both perceive.       *)
ConnectedReplicasShareNothing ==
  \A r, s \in Replicas :
     Perceiving(r) # {} /\ Perceiving(s) # {} /\ conn[r] = "open" /\ conn[s] = "open"
       => r = s

(* One observer: never two engines in a process, never two processes with  *)
(* a live session (app.go 278-279: "two replicas never duplicate").        *)
OneObserver == OneEngine /\ ConnectedReplicasShareNothing

(* A replica that perceives without the lock stops, or gets it back.       *)
DroppedWorkersStop ==
  \A r \in Replicas : Perceiving(r) # {} /\ lock # Current(r) ~> Perceiving(r) = {}

(* However replicas and connections failed, once they stop failing one of *)
(* the replicas leads and its engine observes, unless the bound on         *)
(* acquisitions stands in the way.                                         *)
SomeonePerceives ==
  \/ <>[](\E r \in Replicas : leader[r] /\ Perceiving(r) # {})
  \/ <>(\E r \in Replicas : acquired[r] = MaxStarts)

(* Perception follows the lock: who lost it stops, and in the end its      *)
(* holder perceives.                                                       *)
PerceptionMovesOn == DroppedWorkersStop /\ SomeonePerceives

(* Expected to fail, see README.                                           *)
(* "On Postgres they run only on the elected leader, so two replicas never *)
(* duplicate autonomous action" (app.go 278-279): a replica that has       *)
(* handled the loss of leadership begins no investigation.                 *)
StandbyBeginsNothing ==
  [][\A r \in Replicas :
       active'[r] > active[r] => leader[r] \/ halting[r] # "no"]_vars
=============================================================================
