-------------------------- MODULE SingletonsProofs --------------------------
(***************************************************************************)
(* Theorems about Singletons and the election below it, for every set of   *)
(* replicas, any number of acquisitions and any faults.                    *)
(*                                                                         *)
(* OneConnectedLeader is not inductive: that a second replica is refused   *)
(* follows from where the lock is, so the inductive invariant ties a       *)
(* leader's connection to the lock (LeaderHoldsLock), and ElectionTypeOK   *)
(* ties leading to the poll loop and to a connection not yet closed.       *)
(*                                                                         *)
(* The workers only ever take the election's own steps, so the election's  *)
(* theorems carry over.  What a replica observes follows from Supervised:  *)
(* a context that is alive is cancelled or is the one App.stopWorkers      *)
(* still refers to, and a replica that has dropped leadership keeps no     *)
(* context of the second kind.                                             *)
(***************************************************************************)
EXTENDS Singletons, FiniteSetTheorems, TLAPS

ElectionInv == ElectionTypeOK /\ LeaderHoldsLock

LEMMA SessionsDiffer ==
  ASSUME NEW r, NEW s
  PROVE  /\ Current(r) # Free /\ Orphan(r) # Free
         /\ Current(r) # Orphan(s)
         /\ Current(r) = Current(s) => r = s
  BY DEF Current, Orphan, Free

(* A closed connection, unlocked first or not, never gives the lock to     *)
(* another replica: for a replica that is not leading afterwards.          *)
LEMMA CloseKeepsLock ==
  ASSUME ElectionInv, NEW r \in Replicas,
         conn' = [conn EXCEPT ![r] = "none"],
         lock' \in {LockAfterClose(r), LockAfterUnlock(r)},
         leader' \in [Replicas -> BOOLEAN], ~leader'[r],
         \A s \in Replicas \ {r} : leader'[s] = leader[s]
  PROVE  /\ conn' \in [Replicas -> ConnStates]
         /\ lock' \in Sessions
         /\ \A s \in Replicas \ {r} : conn'[s] = conn[s]
         /\ LeaderHoldsLock'
<1>1. /\ conn' \in [Replicas -> ConnStates]
      /\ \A s \in Replicas \ {r} : conn'[s] = conn[s]
  BY DEF ElectionInv, ElectionTypeOK, ConnStates
<1>2. lock' \in Sessions
  BY DEF ElectionInv, ElectionTypeOK, LockAfterClose, LockAfterUnlock, Sessions
<1>3. ASSUME NEW s \in Replicas, leader'[s], conn'[s] = "open"
      PROVE  lock' = Current(s)
  <2>1. s # r
    BY <1>3
  <2>2. lock = Current(s)
    BY <1>1, <1>3, <2>1 DEF ElectionInv, LeaderHoldsLock
  <2>3. lock # Current(r)
    BY <2>1, <2>2, SessionsDiffer
  <2>4. QED
    BY <2>2, <2>3 DEF LockAfterClose, LockAfterUnlock
<1>4. QED
  BY <1>1, <1>2, <1>3 DEF LeaderHoldsLock

LEMMA ElectionStepInv ==
  ASSUME ElectionInv, NEW r \in Replicas, ElectionStep(r)
  PROVE  ElectionInv'
<1> USE FaultsAssumption DEF ElectionInv, ElectionTypeOK, LoopStates
<1>1. CASE Boot(r)
  BY <1>1 DEF Boot, LeaderHoldsLock
<1>2. CASE Acquire(r)
  <2>1. /\ lock' = Current(r) /\ lock' \in Sessions
        /\ lock \in {Free, Current(r)}
    BY <1>2 DEF Acquire, Granted, Sessions
  <2>2. conn' \in [Replicas -> ConnStates] /\ leader' \in [Replicas -> BOOLEAN]
    BY <1>2 DEF Acquire, ConnStates
  <2>3. ASSUME NEW s \in Replicas, s # r, leader'[s], conn'[s] = "open"
        PROVE  FALSE
    <3>1. lock = Current(s)
      BY <1>2, <2>3 DEF Acquire, LeaderHoldsLock
    <3>2. QED
      BY <2>1, <2>3, <3>1, SessionsDiffer
  <2>4. LeaderHoldsLock'
    BY <2>1, <2>3 DEF LeaderHoldsLock
  <2>5. \A s \in Replicas : leader'[s] => conn'[s] # "none" /\ loop'[s] = "polling"
    BY <1>2 DEF Acquire, Attempts
  <2>6. QED
    BY <1>2, <2>1, <2>2, <2>4, <2>5 DEF Acquire
<1>3. CASE Refused(r)
  BY <1>3 DEF Refused, Attempts, ConnStates, LeaderHoldsLock
<1>4. CASE AttemptFails(r)
  <2>1. ~leader'[r] /\ UNCHANGED leader /\ CloseConn(r)
    BY <1>4 DEF AttemptFails, Attempts
  <2>2. /\ conn' \in [Replicas -> ConnStates] /\ lock' \in Sessions
        /\ \A s \in Replicas \ {r} : conn'[s] = conn[s]
        /\ LeaderHoldsLock'
    BY <2>1, CloseKeepsLock DEF CloseConn
  <2>3. QED
    BY <1>4, <2>1, <2>2 DEF AttemptFails
<1>5. CASE ReplyLost(r)
  <2>1. /\ conn' \in [Replicas -> ConnStates]
        /\ lock' \in Sessions /\ faults' \in Nat
        /\ \A s \in Replicas \ {r} : conn'[s] = conn[s]
    BY <1>5 DEF ReplyLost, ConnStates, Sessions, Fault
  <2>2. \A s \in Replicas : leader[s] => s # r
    BY <1>5 DEF ReplyLost, Attempts
  <2>3. \A s \in Replicas : ~(leader'[s] /\ conn'[s] = "open")
    BY <1>5, <2>1, <2>2, SessionsDiffer DEF ReplyLost, LeaderHoldsLock
  <2>4. QED
    BY <1>5, <2>1, <2>2, <2>3 DEF ReplyLost, LeaderHoldsLock
<1>6. CASE StepDown(r)
  <2>1. /\ leader' \in [Replicas -> BOOLEAN] /\ ~leader'[r] /\ CloseConn(r)
        /\ \A s \in Replicas \ {r} : leader'[s] = leader[s]
    BY <1>6 DEF StepDown, LeadersAfterLoss
  <2>2. /\ conn' \in [Replicas -> ConnStates] /\ lock' \in Sessions
        /\ \A s \in Replicas \ {r} : conn'[s] = conn[s]
        /\ LeaderHoldsLock'
    BY <2>1, CloseKeepsLock DEF CloseConn
  <2>3. QED
    BY <1>6, <2>1, <2>2 DEF StepDown
<1>7. CASE LossHandled(r)
  BY <1>7 DEF LossHandled, LeaderHoldsLock
<1>8. CASE Cancelled(r)
  BY <1>8 DEF Cancelled, Fault, LeaderHoldsLock
<1>9. CASE Stop(r)
  <2>1. /\ leader' \in [Replicas -> BOOLEAN] /\ ~leader'[r]
        /\ conn' = [conn EXCEPT ![r] = "none"] /\ lock' = LockAfterUnlock(r)
        /\ \A s \in Replicas \ {r} : leader'[s] = leader[s]
    BY <1>9 DEF Stop
  <2>2. /\ conn' \in [Replicas -> ConnStates] /\ lock' \in Sessions
        /\ \A s \in Replicas \ {r} : conn'[s] = conn[s]
        /\ LeaderHoldsLock'
    BY <2>1, CloseKeepsLock DEF CloseConn
  <2>3. QED
    BY <1>9, <2>1, <2>2 DEF Stop
<1>10. CASE Exit(r)
  BY <1>10 DEF Exit, LeaderHoldsLock
<1>11. CASE Crash(r)
  <2>1. /\ leader' \in [Replicas -> BOOLEAN] /\ ~leader'[r]
        /\ conn' \in [Replicas -> ConnStates]
        /\ loop' \in [Replicas -> LoopStates]
        /\ faults' \in Nat
        /\ \A s \in Replicas \ {r} : /\ leader'[s] = leader[s] /\ conn'[s] = conn[s]
                                     /\ loop'[s] = loop[s]
    BY <1>11 DEF Crash, Fault, ConnStates
  <2>2. lock' \in Sessions
    BY <1>11 DEF Crash, LockAfterClose, Sessions
  <2>3. ASSUME NEW s \in Replicas, leader'[s], conn'[s] = "open"
        PROVE  lock' = Current(s)
    BY <1>11, <2>1, <2>3, SessionsDiffer DEF Crash, LockAfterClose, LeaderHoldsLock
  <2>4. QED
    BY <1>11, <2>1, <2>2, <2>3 DEF Crash, LeaderHoldsLock
<1>12. CASE Cut(r)
  BY <1>12 DEF Cut, Fault, ConnStates, LeaderHoldsLock
<1>13. CASE SessionEnds(r)
  <2>1. \A s \in Replicas : ~(leader[s] /\ conn[s] = "open")
    BY <1>13, SessionsDiffer DEF SessionEnds, LeaderHoldsLock
  <2>2. QED
    BY <1>13, <2>1 DEF SessionEnds, LeaderHoldsLock, Sessions
<1>14. QED
  BY <1>1, <1>2, <1>3, <1>4, <1>5, <1>6, <1>7, <1>8, <1>9, <1>10, <1>11,
     <1>12, <1>13 DEF ElectionStep

LEMMA ElectionInvariant == ElectionSpec => []ElectionInv
<1>1. ElectionInit => ElectionInv
  BY DEF ElectionInit, ElectionInv, ElectionTypeOK, LeaderHoldsLock, LoopStates,
         ConnStates, Sessions
<1>2. ElectionInv /\ [ElectionNext]_electionVars => ElectionInv'
  <2> SUFFICES ASSUME ElectionInv, [ElectionNext]_electionVars PROVE ElectionInv'
    OBVIOUS
  <2>1. CASE ElectionNext
    BY <2>1, ElectionStepInv DEF ElectionNext
  <2>2. CASE UNCHANGED electionVars
    BY <2>2 DEF electionVars, ElectionInv, ElectionTypeOK, LeaderHoldsLock
  <2>3. QED
    BY <2>1, <2>2
<1>3. QED
  BY <1>1, <1>2, PTL DEF ElectionSpec

(* Every variable keeps its type, and nobody leads outside its poll loop   *)
(* or without a connection (leader.go, the whole of Election).             *)
THEOREM ElectionTypeCorrect == ElectionSpec => []ElectionTypeOK
<1>1. ElectionInv => ElectionTypeOK
  BY DEF ElectionInv
<1>2. QED
  BY <1>1, ElectionInvariant, PTL

(* Two replicas never both lead over an open connection: the advisory lock *)
(* of leader.go elects at most one among those that can reach the          *)
(* database.                                                               *)
THEOREM AtMostOneConnectedLeader == ElectionSpec => []OneConnectedLeader
<1>1. ElectionInv => OneConnectedLeader
  BY SessionsDiffer DEF ElectionInv, LeaderHoldsLock, OneConnectedLeader
<1>2. QED
  BY <1>1, ElectionInvariant, PTL

(* A replica that leads over an open connection holds the lock, whatever   *)
(* was cut, crashed, stopped or lost before (leader.go, the whole of       *)
(* Election).                                                              *)
THEOREM LeaderAlwaysHoldsLock == ElectionSpec => []LeaderHoldsLock
<1>1. ElectionInv => LeaderHoldsLock
  BY DEF ElectionInv
<1>2. QED
  BY <1>1, ElectionInvariant, PTL

(***************************************************************************)
(* The workers of a replica.                                               *)
(***************************************************************************)
LEMMA StepElects ==
  ASSUME NEW r \in Replicas, ReplicaStep(r)
  PROVE  ElectionStep(r) \/ UNCHANGED electionVars
  BY DEF ReplicaStep, BootReplica, CrashReplica, CancelReplica, RunSingletons,
         LoseLeadership, StartSteps, Publish, StartLoops, RecordRunning, RunEnds,
         HaltSteps, CancelWorkers, StopPerception, LossDone, StopElection, ExitReplica,
         Finding, Investigate, InvestigationEnds, ElectionOnly, ElectionStep

(* Whatever the workers do, the election they run under is that of         *)
(* LeaderElection: each of their steps is one of its steps or none.        *)
THEOREM WorkersElect == Spec => ElectionSpec
<1>1. Init => ElectionInit
  BY DEF Init
<1>2. [Next]_vars => [ElectionNext]_electionVars
  BY StepElects DEF Next, ElectionNext, vars
<1>3. QED
  BY <1>1, <1>2, PTL DEF Spec, ElectionSpec

(***************************************************************************)
(* The contexts of the workers.                                            *)
(***************************************************************************)
WorkersTyped ==
  /\ acquired \in [Replicas -> Nat]
  /\ stopWorkers \in [Replicas -> Contexts \cup {NoContext}]
  /\ phase \in [Replicas -> [Contexts -> Phases]]
  /\ running \in [Replicas -> SUBSET Contexts]
  /\ cancelled \in [Replicas -> SUBSET Contexts]
  /\ cancel \in [Replicas -> Contexts \cup {NoContext}]
  /\ halting \in [Replicas -> {"no", "cancel", "stop", "wait"}]

(* The contexts of r whose Start or whose goroutines go on.                *)
Alive(r) == running[r] \cup {g \in Contexts : phase[r][g] # "none"}

Supervised(r) ==
  /\ halting[r] # "no" <=> loop[r] \in {"losing", "closed"}
  /\ halting[r] # "no" => conn[r] = "none"
  /\ halting[r] = "cancel" => loop[r] = "losing"
  /\ loop[r] = "off" => Alive(r) = {}
  /\ ending[r] => Contexts \subseteq cancelled[r]
  /\ Alive(r) \subseteq cancelled[r] \cup {stopWorkers[r]}
  /\ ~leader[r] /\ halting[r] # "cancel" => Alive(r) \subseteq cancelled[r]

WorkersInv == WorkersTyped /\ \A r \in Replicas : Supervised(r)

LEMMA InitSupervised == Init => WorkersInv
  BY DEF Init, ElectionInit, WorkersInv, WorkersTyped, Supervised, Alive, NoContext, Phases

(* What an election step of r leaves alone of the other replicas.          *)
LEMMA ElectionLocal ==
  ASSUME ElectionTypeOK, NEW r \in Replicas, ElectionStep(r) \/ UNCHANGED electionVars,
         NEW s \in Replicas, s # r
  PROVE  /\ loop'[s] = loop[s] /\ conn'[s] = conn[s]
         /\ ending'[s] = ending[s] /\ leader'[s] = leader[s]
  BY DEF ElectionTypeOK, ElectionStep, Boot, Acquire, Refused, AttemptFails, ReplyLost,
         StepDown, LossHandled, Cancelled, Stop, Exit, Crash, Cut, SessionEnds, CloseConn,
         LeadersAfterLoss, electionVars

(* The same of a step of the workers; and each keeps its type.             *)
LEMMA WorkersLocal ==
  ASSUME WorkersTyped, NEW r \in Replicas, ReplicaStep(r)
  PROVE  /\ WorkersTyped'
         /\ \A s \in Replicas \ {r} :
              /\ halting'[s] = halting[s] /\ phase'[s] = phase[s]
              /\ running'[s] = running[s] /\ stopWorkers'[s] = stopWorkers[s]
              /\ cancelled[s] \subseteq cancelled'[s]
<1> USE DEF WorkersTyped, Fresh, workerVars, perceptionVars, towerVars, NoContext, Phases
<1>1. CASE BootReplica(r)
  BY <1>1 DEF BootReplica
<1>2. CASE CrashReplica(r)
  BY <1>2 DEF CrashReplica
<1>3. CASE CancelReplica(r)
  BY <1>3 DEF CancelReplica
<1>4. CASE RunSingletons(r)
  <2>1. acquired[r] + 1 \in Nat /\ acquired[r] + 1 \in Contexts
    BY <1>4, SingletonsAssumption DEF RunSingletons, Contexts
  <2>2. /\ acquired' \in [Replicas -> Nat]
        /\ stopWorkers' \in [Replicas -> Contexts \cup {NoContext}]
        /\ \A s \in Replicas \ {r} : stopWorkers'[s] = stopWorkers[s]
    BY <1>4, <2>1 DEF RunSingletons, NextContext
  <2>3. /\ phase' \in [Replicas -> [Contexts -> Phases]]
        /\ \A s \in Replicas \ {r} : phase'[s] = phase[s]
    BY <1>4 DEF RunSingletons
  <2>4. UNCHANGED <<running, cancelled, cancel, halting>>
    BY <1>4 DEF RunSingletons
  <2>5. QED
    BY <2>2, <2>3, <2>4
<1>5. CASE LoseLeadership(r) \/ StopElection(r) \/ LossDone(r)
  BY <1>5 DEF LoseLeadership, StopElection, LossDone
<1>6. CASE \E g \in Contexts : StartSteps(r, g)
  <2>1. PICK g \in Contexts : StartSteps(r, g)
    BY <1>6
  <2>2. CASE Publish(r, g)
    BY <2>2 DEF Publish
  <2>3. CASE StartLoops(r, g)
    BY <2>3 DEF StartLoops
  <2>4. CASE RecordRunning(r, g)
    BY <2>4 DEF RecordRunning
  <2>5. CASE RunEnds(r, g)
    BY <2>5 DEF RunEnds
  <2>6. QED
    BY <2>1, <2>2, <2>3, <2>4, <2>5 DEF StartSteps
<1>7. CASE CancelWorkers(r)
  BY <1>7 DEF CancelWorkers, CancelledByStop
<1>8. CASE StopPerception(r)
  BY <1>8 DEF StopPerception
<1>9. CASE ExitReplica(r)
  BY <1>9 DEF ExitReplica
<1>10. CASE UNCHANGED <<workerVars, perceptionVars>>
  BY <1>10
<1>11. QED
  BY <1>1, <1>2, <1>3, <1>4, <1>5, <1>6, <1>7, <1>8, <1>9, <1>10
     DEF ReplicaStep, HaltSteps, Finding, Investigate, InvestigationEnds, ElectionOnly

(* The replicas that take no step stay supervised.                         *)
LEMMA OthersSupervised ==
  ASSUME ElectionInv, WorkersInv, NEW r \in Replicas, ReplicaStep(r),
         NEW s \in Replicas \ {r}
  PROVE  Supervised(s)'
<1>1. /\ loop'[s] = loop[s] /\ conn'[s] = conn[s]
      /\ ending'[s] = ending[s] /\ leader'[s] = leader[s]
  BY StepElects, ElectionLocal DEF ElectionInv
<1>2. /\ halting'[s] = halting[s] /\ phase'[s] = phase[s]
      /\ running'[s] = running[s] /\ stopWorkers'[s] = stopWorkers[s]
      /\ cancelled[s] \subseteq cancelled'[s]
  BY WorkersLocal DEF WorkersInv
<1>3. Alive(s)' = Alive(s)
  BY <1>2 DEF Alive
<1>4. QED
  BY <1>1, <1>2, <1>3 DEF WorkersInv, Supervised

(* The replica that takes the step.                                        *)
LEMMA SelfSupervised ==
  ASSUME ElectionInv, ElectionInv', WorkersInv, NEW r \in Replicas, ReplicaStep(r)
  PROVE  Supervised(r)'
<1> USE DEF ElectionInv, ElectionTypeOK, WorkersInv, WorkersTyped, Supervised, Alive,
            Fresh, NoContext, workerVars, perceptionVars, electionVars
<1>1. CASE BootReplica(r)
  <2>1. /\ loop[r] = "off" /\ loop'[r] = "polling" /\ ~ending'[r] /\ UNCHANGED halting
        /\ running[r] = {} /\ UNCHANGED running /\ phase'[r] = [g \in Contexts |-> "none"]
    BY <1>1 DEF BootReplica, Boot
  <2>2. halting[r] = "no"
    BY <2>1
  <2>3. \A g \in Contexts : phase'[r][g] = "none"
    BY <2>1
  <2>4. Alive(r)' = {}
    BY <2>1, <2>3
  <2>5. QED
    BY <2>1, <2>2, <2>4
<1>2. CASE CrashReplica(r)
  BY <1>2 DEF CrashReplica, Crash
<1>3. CASE CancelReplica(r)
  BY <1>3 DEF CancelReplica, Cancelled
<1>4. CASE RunSingletons(r)
  BY SMTT(30), <1>4 DEF RunSingletons, NextContext, Acquire, Attempts
<1>5. CASE LoseLeadership(r)
  BY <1>5 DEF LoseLeadership, StepDown, CloseConn, LeadersAfterLoss
<1>6. CASE StopElection(r)
  BY <1>6 DEF StopElection, Stop
<1>7. CASE LossDone(r)
  <2>1. /\ loop[r] = "losing" /\ loop'[r] = "polling" /\ halting[r] = "wait"
        /\ halting'[r] = "no"
        /\ UNCHANGED <<phase, running, cancelled, stopWorkers, ending, leader, conn>>
    BY <1>7 DEF LossDone, LossHandled, Waited
  <2>2. ~leader[r] /\ Alive(r)' = Alive(r)
    BY <2>1
  <2>3. QED
    BY <2>1, <2>2
<1>8. CASE \E g \in Contexts : StartSteps(r, g)
  BY <1>8 DEF StartSteps, Publish, StartLoops, RecordRunning, RunEnds
<1>9. CASE CancelWorkers(r)
  <2>1. /\ halting[r] = "cancel" /\ halting'[r] = "stop"
        /\ cancelled'[r] = cancelled[r] \cup ({stopWorkers[r]} \ {NoContext})
        /\ stopWorkers'[r] = NoContext
        /\ UNCHANGED <<phase, running, loop, ending, leader, conn>>
    BY <1>9 DEF CancelWorkers, CancelledByStop
  <2>2. Alive(r)' = Alive(r) /\ NoContext \notin Alive(r)
    BY <2>1 DEF Contexts
  <2>3. Alive(r) \subseteq cancelled'[r]
    BY <2>1, <2>2
  <2>4. QED
    BY <2>1, <2>2, <2>3
<1>10. CASE StopPerception(r)
  BY <1>10 DEF StopPerception
<1>11. CASE ExitReplica(r)
  BY <1>11 DEF ExitReplica, Waited, Exit
<1>12. CASE UNCHANGED <<electionVars, workerVars, perceptionVars>>
  BY <1>12
<1>13. CASE ElectionOnly(r)
  BY <1>13 DEF ElectionOnly, Refused, AttemptFails, ReplyLost, Cut, SessionEnds, CloseConn,
               Attempts
<1>14. QED
  BY <1>1, <1>2, <1>3, <1>4, <1>5, <1>6, <1>7, <1>8, <1>9, <1>10, <1>11, <1>12, <1>13
     DEF ReplicaStep, HaltSteps, Finding, Investigate, InvestigationEnds

LEMMA AlwaysSupervised == Spec => []WorkersInv
<1>1. ElectionInv /\ ElectionInv' /\ WorkersInv /\ [Next]_vars => WorkersInv'
  <2> SUFFICES ASSUME ElectionInv, ElectionInv', WorkersInv, [Next]_vars
               PROVE  WorkersInv'
    OBVIOUS
  <2>1. ASSUME NEW r \in Replicas, ReplicaStep(r)
        PROVE  WorkersInv'
    <3>1. WorkersTyped'
      BY <2>1, WorkersLocal DEF WorkersInv
    <3>2. ASSUME NEW s \in Replicas PROVE Supervised(s)'
      <4>1. CASE s = r
        BY <2>1, <4>1, SelfSupervised
      <4>2. CASE s # r
        BY <2>1, <4>2, OthersSupervised
      <4>3. QED
        BY <4>1, <4>2
    <3>3. QED
      BY <3>1, <3>2 DEF WorkersInv
  <2>2. CASE UNCHANGED vars
    BY <2>2 DEF vars, electionVars, workerVars, perceptionVars, WorkersInv, WorkersTyped,
                Supervised, Alive
  <2>3. QED
    BY <2>1, <2>2 DEF Next
<1>2. QED
  BY <1>1, InitSupervised, WorkersElect, ElectionInvariant, PTL DEF Spec

(* A replica that does not lead and has handled the loss observes nothing, *)
(* however late a Start begun under its leadership goes on (app.go,        *)
(* stopSingletons; perception.go, Start).                                  *)
THEOREM StandbyAlwaysBlind == Spec => []StandbyIsBlind
<1>1. WorkersInv => StandbyIsBlind
  BY DEF WorkersInv, Supervised, Alive, StandbyIsBlind, Perceiving
<1>2. QED
  BY <1>1, AlwaysSupervised, PTL

(* A process never runs two engines: of its live contexts at most the one  *)
(* App.stopWorkers refers to is not cancelled.                             *)
THEOREM OneEngineEver == Spec => []OneEngine
<1>1. ASSUME WorkersInv, NEW r \in Replicas
      PROVE  Cardinality(Perceiving(r)) <= 1
  <2>1. Perceiving(r) \subseteq {stopWorkers[r]}
    BY <1>1 DEF WorkersInv, Supervised, Alive, Perceiving
  <2>2. Perceiving(r) = {} \/ Perceiving(r) = {stopWorkers[r]}
    BY <2>1
  <2>3. Cardinality({}) = 0 /\ Cardinality({stopWorkers[r]}) = 1
    BY FS_EmptySet, FS_Singleton
  <2>4. QED
    BY <2>2, <2>3
<1>2. WorkersInv => OneEngine
  BY <1>1 DEF OneEngine
<1>3. QED
  BY <1>2, AlwaysSupervised, PTL

(* Two replicas with a live session to the database never both observe:    *)
(* until a dropped leader has stopped its workers it has no connection.    *)
THEOREM NeverTwoConnectedObservers == Spec => []ConnectedReplicasShareNothing
<1>1. ASSUME WorkersInv, NEW r \in Replicas, Perceiving(r) # {}, conn[r] = "open"
      PROVE  leader[r]
  BY <1>1 DEF WorkersInv, Supervised, Alive, Perceiving
<1>2. ElectionInv => OneConnectedLeader
  BY SessionsDiffer DEF ElectionInv, LeaderHoldsLock, OneConnectedLeader
<1>3. WorkersInv /\ ElectionInv => ConnectedReplicasShareNothing
  BY <1>1, <1>2 DEF OneConnectedLeader, ConnectedReplicasShareNothing
<1>4. QED
  BY <1>3, AlwaysSupervised, WorkersElect, ElectionInvariant, PTL

(* One observer: the two facts together, for any number of replicas, lost  *)
(* replies and overlapping starts (app.go, runSingletons).                 *)
THEOREM OneObserverEver == Spec => []OneObserver
<1>1. OneEngine /\ ConnectedReplicasShareNothing => OneObserver
  BY DEF OneObserver
<1>2. QED
  BY <1>1, OneEngineEver, NeverTwoConnectedObservers, PTL
=============================================================================
