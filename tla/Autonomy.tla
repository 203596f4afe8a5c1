------------------------------ MODULE Autonomy ------------------------------
(***************************************************************************)
(* Unattended action (internal/autonomy, app/trust.go, app/recheck.go,     *)
(* memory/prospective.go).  A detector's finding spawns an investigation   *)
(* on the replica whose engine fired; at level A3, for an allowlisted      *)
(* pair, the investigation may write without approval.  Three brakes can   *)
(* stop the write: operator settings, the recorded outcomes of earlier     *)
(* writes and the kind of the finding.  The turn files the verified        *)
(* outcome of its write later, off the request path, and its end leaves a  *)
(* re-check in the database that the leader's consolidation pass claims,   *)
(* grades against the cluster and closes.                                  *)
(*                                                                         *)
(* Leadership moves (LeaderElection has the lock itself): the old leader's *)
(* detector and passes stop, its running investigations do not.            *)
(***************************************************************************)
EXTENDS AutonomyStats

CONSTANTS
    Replicas,
    Findings,        \* [playbook, namespace, object, severity] the engine may fire
    NoNamespace,     \* the namespace of a cluster scoped object
    BlockedNamespaces,
    NsLevels,        \* per namespace overrides: a function on some namespaces
    DefaultLevel,    \* AUTONOMY_LEVEL: 0..3, or -1 for a value that is no level
    A3Allowlist,     \* {[playbook, namespaces]}: a glob is the set it matches
    Deployments,     \* settings: {[promotion, prospective]}, the two feature flags
    RetentionDays,   \* MEMORY_RETENTION_DAYS, 0 is off
    OutcomeFloorDays,            \* FloorDays of promotion_outcomes
    MaxConcurrent, Cooldown, RecheckDelay, FireBatch,
    Epoch,           \* the clock's first reading, in ticks since 1970
    MaxTime,         \* bound: the clock's last reading
    MaxInv,          \* bound: investigations spawned in a behaviour
    MaxRechecked,    \* bound: the same where fixes are re-checked
    MaxFaults        \* bound: changes of leader and restarts

Keys == {[playbook |-> f.playbook, namespace |-> f.namespace, object |-> f.object] : f \in Findings}
InvIds == 1 .. MaxInv
Never == -1
Nobody == "nobody"
NoRow == [status |-> "none", due |-> 0, created |-> 0, gen |-> 0, outcome |-> "none", lookedGen |-> 0]
NoInv == [replica |-> Nobody, finding |-> CHOOSE f \in Findings : TRUE, auto |-> FALSE,
          stage |-> "none", verdict |-> "none", filedAt |-> 0, clean |-> TRUE]
NoLook == [gen |-> 0, outcome |-> "none"]

ASSUME AutonomyAssumption ==
    /\ {Cooldown, RecheckDelay, RetentionDays, OutcomeFloorDays, Epoch, MaxTime, MaxInv, MaxRechecked, MaxFaults} \subseteq Nat
    /\ {MaxConcurrent, FireBatch} \subseteq Nat \ {0}
    /\ Epoch <= MaxTime /\ Replicas # {} /\ Findings # {}
    /\ DefaultLevel \in -1 .. 3
    /\ \A n \in DOMAIN NsLevels : NsLevels[n] \in 0 .. 3
    /\ Nobody \notin Replicas
    /\ Deployments \subseteq [promotion : BOOLEAN, prospective : BOOLEAN]
    /\ \A f \in Findings : f.severity \in {"warning", "critical", "predicted"}

VARIABLES
    now,       \* ticks
    leader,    \* the replica whose singletons run, or Nobody
    recent,    \* recent[r][k]: when r last spawned an investigation of k
    inv,       \* inv[i]: [replica, finding, auto, stage, verdict, ...]
    outcomes,  \* promotion_outcomes: {[at, ok, id, kind, critical, created]}
    rows,      \* prospective_memory by dedup key
    claims,    \* claims[r]: [key, gen] the pass of r claimed and has not closed
    look,      \* look[r]: the dispatch result r has in hand, by key
    stopped,   \* stopped[r]: r was started with the kill switch or a freeze on
    faults,    \* changes of leader and restarts so far
    flags      \* the deployment's feature flags

vars == <<now, leader, recent, inv, outcomes, rows, claims, look, stopped, faults, flags>>

-----------------------------------------------------------------------------
(* The ladder.                                                             *)

LevelFor(ns) ==
    LET named == IF ns \in DOMAIN NsLevels THEN NsLevels[ns] ELSE DefaultLevel
        level == IF named < 0 THEN 1 ELSE named
    IN  IF ns \in BlockedNamespaces THEN 0
        ELSE IF ns = NoNamespace /\ level > 1 THEN 1
        ELSE level

AtLeast(level, floor) == level >= floor

A3Allowed(playbook, ns) ==
    /\ ns # NoNamespace
    /\ LevelFor(ns) = 3
    /\ \E e \in A3Allowlist : e.playbook = playbook /\ ns \in e.namespaces

(* The settings driven brake of the budget.                                *)
AutoWritePermitted(r) == ~stopped[r]

(* A variant acts on a prediction, too.                                    *)
shouldFixAhead(r, f) == A3Allowed(f.playbook, f.namespace) /\ AutoWritePermitted(r)
shouldAutoFix(r, f) ==
    /\ f.severity # "predicted"
    /\ A3Allowed(f.playbook, f.namespace)
    /\ AutoWritePermitted(r)

(* The statistical brake: an unreadable store revokes.                     *)
autofixRevoked(readable) ==
    flags.promotion /\ (~readable \/ AutofixRevocation(outcomes, now))

-----------------------------------------------------------------------------
KeyOf(f) == [playbook |-> f.playbook, namespace |-> f.namespace, object |-> f.object]
Spawned == {i \in InvIds : inv[i].stage # "none"}
NotReleased(r) == {i \in InvIds : inv[i].replica = r /\ inv[i].stage \in {"running", "done"}} \* a variant
Running(r) == {i \in InvIds : inv[i].replica = r /\ inv[i].stage = "running"}

Init ==
    /\ now = Epoch
    /\ leader = CHOOSE r \in Replicas : TRUE
    /\ recent = [r \in Replicas |-> [k \in Keys |-> Never]]
    /\ inv = [i \in InvIds |-> NoInv]
    /\ outcomes = {}
    /\ rows = [k \in Keys |-> NoRow]
    /\ claims = [r \in Replicas |-> {}]
    /\ look = [r \in Replicas |-> [k \in Keys |-> NoLook]]
    /\ stopped = [r \in Replicas |-> FALSE]
    /\ faults = 0
    /\ flags \in Deployments

Tick ==
    /\ now < MaxTime
    /\ now' = now + 1
    /\ UNCHANGED <<leader, recent, inv, outcomes, rows, claims, look, stopped, faults, flags>>

(* The engine of the leader fires.  The cooldown table is in memory.       *)
OnFinding(f) ==
    /\ AtLeast(LevelFor(f.namespace), 1)
    /\ LET r == leader
           k == KeyOf(f)
           i == Cardinality(Spawned) + 1
       IN  /\ i <= IF flags.prospective THEN MaxRechecked ELSE MaxInv
           /\ recent[r][k] = Never \/ now - recent[r][k] >= Cooldown
           /\ recent' = [recent EXCEPT ![r][k] = now]
           /\ inv' = [inv EXCEPT ![i] = [NoInv EXCEPT !.replica = r, !.finding = f, !.stage = "spawned"]]
    /\ UNCHANGED <<now, leader, outcomes, rows, claims, look, stopped, faults, flags>>

(* The goroutine decides on the write before it waits for a slot.          *)
DecideFix(i) ==
    /\ inv[i].stage = "spawned"
    /\ \E readable \in BOOLEAN :
          LET auto == shouldAutoFix(inv[i].replica, inv[i].finding) /\ ~autofixRevoked(readable) IN
          inv' = [inv EXCEPT ![i].stage = "queued", ![i].auto = auto,
                             ![i].clean = auto => ~AutofixRevocation(outcomes, now)]
    /\ UNCHANGED <<now, leader, recent, outcomes, rows, claims, look, stopped, faults, flags>>

Acquire(i) ==
    /\ inv[i].stage = "queued"
    /\ Cardinality(Running(inv[i].replica)) < MaxConcurrent
    /\ inv' = [inv EXCEPT ![i].stage = "running"]
    /\ UNCHANGED <<now, leader, recent, outcomes, rows, claims, look, stopped, faults, flags>>

(* The turn writes; without the bypass a write waits for a human (AgentTurn). *)
Fix(i) ==
    /\ inv[i].stage = "running" /\ inv[i].auto /\ inv[i].verdict = "none"
    /\ inv' = [inv EXCEPT ![i].verdict = "pending"]
    /\ UNCHANGED <<now, leader, recent, outcomes, rows, claims, look, stopped, faults, flags>>

(* recordAsync: the write is verified and its outcome filed.  "unknown"    *)
(* stands for a cluster that could not be read and for a database that     *)
(* refused the row: neither leaves a sample.                               *)
FileOutcome(i) ==
    /\ inv[i].verdict = "pending"
    /\ \E verdict \in {"unknown"} \union (IF flags.promotion THEN {"held", "failed"} ELSE {}) :
          /\ outcomes' = IF verdict = "unknown" THEN outcomes
                         ELSE outcomes \union
                              {[at |-> now, ok |-> verdict = "held", id |-> i, critical |-> FALSE,
                                kind |-> inv[i].finding.playbook, created |-> now \div DayTicks]}
          /\ inv' = [inv EXCEPT ![i].verdict = verdict,
                             ![i].filedAt = IF verdict = "unknown" THEN @ ELSE now]
    /\ UNCHANGED <<now, leader, recent, rows, claims, look, stopped, faults, flags>>

(* ON CONFLICT (dedup_key) DO UPDATE: reopens a row, keeps created_at.     *)
ScheduleRecheck(k, stored) ==
    rows' = IF ~flags.prospective \/ ~stored THEN rows
            ELSE [rows EXCEPT ![k] =
                    [status |-> "pending", due |-> now + RecheckDelay, outcome |-> "none",
                     created |-> IF @.status = "none" THEN now ELSE @.created,
                     gen |-> @.gen + 1, lookedGen |-> @.lookedGen]]

(* The turn returns: AfterFix follows an unattended fix, then the slot is  *)
(* released.  A turn that panicked releases the slot and schedules nothing. *)
Return(i) ==
    /\ inv[i].stage = "running"
    /\ inv' = [inv EXCEPT ![i].stage = "done"]
    /\ \E panicked, stored \in BOOLEAN :
          IF inv[i].auto /\ ~panicked THEN ScheduleRecheck(KeyOf(inv[i].finding), stored)
          ELSE rows' = rows
    /\ UNCHANGED <<now, leader, recent, outcomes, claims, look, stopped, faults, flags>>

-----------------------------------------------------------------------------
(* The prospective pass of the leader.                                     *)

DueLater == {k \in Keys : rows[k].status = "pending" /\ rows[k].due < now - 1} \* a variant
Due == {k \in Keys : rows[k].status = "pending" /\ rows[k].due <= now}

(* A variant reads the due rows and flips none.                            *)
claimOpen(r) ==
    /\ flags.prospective
    /\ leader = r /\ claims[r] = {} /\ Due # {}
    /\ claims' = [claims EXCEPT ![r] = {[key |-> k, gen |-> rows[k].gen] : k \in Due}]
    /\ UNCHANGED <<now, leader, recent, inv, outcomes, rows, look, stopped, faults, flags>>
(* One statement flips the due rows to fired and returns them.             *)
claimDue(r) ==
    /\ flags.prospective
    /\ leader = r /\ claims[r] = {}
    /\ \E batch \in SUBSET Due :
          /\ batch # {} /\ Cardinality(batch) <= FireBatch
          /\ batch = Due \/ Cardinality(batch) = FireBatch
          /\ \A k \in batch, other \in Due \ batch : rows[k].due <= rows[other].due
          /\ claims' = [claims EXCEPT ![r] = {[key |-> k, gen |-> rows[k].gen] : k \in batch}]
          /\ rows' = [k \in Keys |-> IF k \in batch THEN [rows[k] EXCEPT !.status = "fired"] ELSE rows[k]]
    /\ UNCHANGED <<now, leader, recent, inv, outcomes, look, stopped, faults, flags>>

(* recheckDispatch: what the cluster read says; A0 namespaces are skipped. *)
DispatchOutcomes(k) ==
    IF AtLeast(LevelFor(k.namespace), 1) THEN {"resolved", "still_broken", "unverified"}
    ELSE {"skipped_a0"}

Dispatch(r) ==
    /\ leader = r
    /\ \A k \in Keys : look[r][k] = NoLook
    /\ \E c \in claims[r], o \in {"resolved", "still_broken", "unverified", "skipped_a0"} :
          /\ o \in DispatchOutcomes(c.key)
          /\ look' = [look EXCEPT ![r][c.key] = [gen |-> c.gen, outcome |-> o]]
    /\ UNCHANGED <<now, leader, recent, inv, outcomes, rows, claims, stopped, faults, flags>>

terminal == [o \in {"resolved", "still_broken", "skipped_a0"} |->
                IF o = "skipped_a0" THEN "cancelled" ELSE "done"]

(* UPDATE ... WHERE id: not conditional on the row still being fired.      *)
Grade(r) ==
    /\ leader = r
    /\ \E c \in claims[r] :
          LET k == c.key
              o == look[r][k].outcome
          IN  /\ look[r][k] # NoLook
              /\ rows' = [rows EXCEPT ![k] = IF @.status = "none" THEN @ ELSE
                            [@ EXCEPT !.outcome = o, !.lookedGen = look[r][k].gen,
                                      !.status = IF o \in DOMAIN terminal THEN terminal[o] ELSE "pending"]]
              /\ look' = [look EXCEPT ![r][k] = NoLook]
              /\ claims' = [claims EXCEPT ![r] = @ \ {c}]
    /\ UNCHANGED <<now, leader, recent, inv, outcomes, stopped, faults, flags>>

(* Retention.  Both created columns are read as seconds; outcomes carry    *)
(* the clock of wireTrust, which counts days.                              *)
EffectiveDays(floor) == IF floor > RetentionDays THEN floor ELSE RetentionDays
Cutoff(floor) == now - EffectiveDays(floor) * DayTicks

PruneOnce(r) ==
    /\ leader = r /\ claims[r] = {}
    /\ RetentionDays > 0
    /\ outcomes' = {o \in outcomes : o.created >= Cutoff(OutcomeFloorDays)}
    /\ rows' = [k \in Keys |->
                  IF rows[k].status \in {"done", "cancelled"} /\ rows[k].created < Cutoff(0)
                  THEN [NoRow EXCEPT !.gen = rows[k].gen, !.lookedGen = rows[k].lookedGen] ELSE rows[k]]
    /\ UNCHANGED <<now, leader, recent, inv, claims, look, stopped, faults, flags>>

-----------------------------------------------------------------------------
(* Losing the lead cancels the pass: its remaining updates fail and the    *)
(* rows it claimed stay fired.  Investigations run on the process context. *)
DropPass(r) ==
    /\ claims' = [claims EXCEPT ![r] = {}]
    /\ look' = [look EXCEPT ![r] = [k \in Keys |-> NoLook]]

Failover(r) ==
    /\ leader # r
    /\ faults < MaxFaults
    /\ faults' = faults + 1
    /\ DropPass(leader)
    /\ leader' = r
    /\ UNCHANGED <<now, recent, inv, outcomes, rows, stopped, flags>>

(* A crash and restart: memory is gone, the database is not.  The settings *)
(* are read again, which is how an operator's brake reaches a process.     *)
Lost(r) == {i \in InvIds : /\ inv[i].replica = r
                           /\ inv[i].stage # "done" \/ inv[i].verdict = "pending"}

Restart(r) ==
    /\ faults < MaxFaults
    /\ faults' = faults + 1
    /\ recent' = [recent EXCEPT ![r] = [k \in Keys |-> Never]]
    /\ inv' = [i \in InvIds |-> IF i \in Lost(r)
                  THEN [inv[i] EXCEPT !.stage = "done",
                                      !.verdict = IF @ = "pending" THEN "unknown" ELSE @]
                  ELSE inv[i]]
    /\ DropPass(r)
    /\ \E setting \in BOOLEAN : stopped' = [stopped EXCEPT ![r] = setting]
    /\ \E next \in Replicas : leader' = IF leader = r THEN next ELSE leader
    /\ UNCHANGED <<now, outcomes, rows, flags>>

Watch(i) == DecideFix(i) \/ Acquire(i) \/ Fix(i) \/ FileOutcome(i) \/ Return(i)
Pass(r) == claimDue(r) \/ Dispatch(r) \/ Grade(r)

Next ==
    \/ Tick
    \/ \E f \in Findings : OnFinding(f)
    \/ \E i \in InvIds : Watch(i)
    \/ \E r \in Replicas : Pass(r) \/ PruneOnce(r) \/ Failover(r) \/ Restart(r)

Spec == Init /\ [][Next]_vars

CanRead(r) == Dispatch(r) /\ \E k \in Keys : look'[r][k].outcome \in DOMAIN terminal

(* Goroutines run, turns return (they are bounded: AgentTurn) and the      *)
(* consolidation loop ticks.  The cluster is readable now and then         *)
(* (CanRead).                                                              *)
Fairness ==
    /\ WF_vars(Tick)
    /\ WF_vars(\E i \in InvIds : DecideFix(i) \/ Acquire(i) \/ Return(i))
    /\ WF_vars(\E r \in Replicas : claimDue(r) \/ Grade(r))
    /\ SF_vars(\E r \in Replicas : CanRead(r))

FairSpec == Spec /\ Fairness

-----------------------------------------------------------------------------
Stages == {"none", "spawned", "queued", "running", "done"}
Verdicts == {"none", "pending", "held", "failed", "unknown"}
Statuses == {"none", "pending", "fired", "done", "cancelled"}
Results == {"none", "resolved", "still_broken", "unverified", "skipped_a0"}

Investigation ==
    [replica : Replicas \union {Nobody}, finding : Findings, auto : BOOLEAN,
     stage : Stages, verdict : Verdicts, filedAt : Nat, clean : BOOLEAN]
Row == [status : Statuses, due : Nat, created : Nat, gen : Nat, outcome : Results, lookedGen : Nat]
Claim == [key : Keys, gen : Nat]
Look == [gen : Nat, outcome : Results]

(* The type invariant.                                                     *)
TypeOK ==
    /\ now \in Epoch .. MaxTime /\ faults \in 0 .. MaxFaults
    /\ leader \in Replicas /\ stopped \in [Replicas -> BOOLEAN]
    /\ recent \in [Replicas -> [Keys -> {Never} \union (Epoch .. MaxTime)]]
    /\ inv \in [InvIds -> Investigation]
    /\ \A o \in outcomes : o.at \in Epoch .. MaxTime /\ o.id \in InvIds /\ o.ok \in BOOLEAN
    /\ rows \in [Keys -> Row]
    /\ claims \in [Replicas -> SUBSET Claim]
    /\ look \in [Replicas -> [Keys -> Look]]

(* Nothing writes unattended unless the operator licensed exactly that: a  *)
(* realised failure, in a namespace named by an allowlist entry for the    *)
(* playbook and raised to A3 (never a blocked one, never a cluster scoped  *)
(* object), on a process started with its brakes off, with the recorded    *)
(* outcomes in good standing when the decision was made.                   *)
UnattendedIsLicensed ==
    \A i \in InvIds : inv[i].verdict # "none" =>
        LET f == inv[i].finding IN
        /\ f.severity \in {"warning", "critical"}
        /\ f.namespace \notin BlockedNamespaces \union {NoNamespace}
        /\ \E e \in A3Allowlist : f.namespace \in e.namespaces /\ f.playbook = e.playbook
        /\ IF f.namespace \in DOMAIN NsLevels THEN NsLevels[f.namespace] = 3 ELSE DefaultLevel = 3
        /\ flags.promotion => inv[i].clean
        /\ inv[i].stage = "running" => ~stopped[inv[i].replica]

(* Two unattended fixes that failed within a day, both in the store, end   *)
(* unattended writing: no later investigation is given the authority, on   *)
(* any replica, while they stay in the window.                             *)
TwoFailuresRevoke ==
    [][flags.promotion =>
       \A i \in InvIds : ~inv[i].auto /\ inv'[i].auto =>
          ~\E a, b \in outcomes :
              /\ a.id # b.id /\ ~a.ok /\ ~b.ok
              /\ now - a.at <= WindowMaxDays * DayTicks /\ now - b.at <= WindowMaxDays * DayTicks
              /\ a.at <= b.at /\ b.at <= a.at + DayTicks]_vars

(* The same of the failures that were filed, stored or not: housekeeping   *)
(* does not give the authority back.                                       *)
FiledFailuresRevoke ==
    [][flags.promotion =>
       \A i \in InvIds : ~inv[i].auto /\ inv'[i].auto =>
          ~\E j, l \in InvIds :
              /\ j # l /\ inv[j].verdict = "failed" /\ inv[l].verdict = "failed"
              /\ now - inv[j].filedAt <= WindowMaxDays * DayTicks
              /\ inv[l].filedAt \in inv[j].filedAt .. (inv[j].filedAt + DayTicks)]_vars

(* One unattended investigation per object: replicas never duplicate an    *)
(* autonomous action.                                                      *)
NeverDuplicated ==
    \A i, j \in InvIds :
        /\ inv[i].auto /\ inv[j].auto /\ inv[i].stage = "running" /\ inv[j].stage = "running"
        /\ KeyOf(inv[i].finding) = KeyOf(inv[j].finding)
        => i = j

(* A re-check is in the hands of one pass at a time per scheduling, and a  *)
(* row that is claimed is not claimable.                                   *)
ClaimedOnce ==
    \A r, s \in Replicas : \A c \in claims[r], d \in claims[s] :
        /\ c.key = d.key /\ c.gen = d.gen => r = s /\ c = d
        /\ rows[c.key].gen = c.gen => rows[c.key].status = "fired"

(* A row closes as done only on a look that could read the cluster, made   *)
(* for a scheduling of that row; "we could not look" never closes one.     *)
ClosedByALook ==
    \A k \in Keys : rows[k].status = "done" =>
        rows[k].outcome \in {"resolved", "still_broken"} /\ rows[k].lookedGen \in 1 .. rows[k].gen

(* Re-checks are claimed once and closed by what was seen.                 *)
RechecksAreSound == ClaimedOnce /\ ClosedByALook

(* ... and the look answers the last scheduling: a fix re-scheduled while  *)
(* an earlier check ran is still re-checked.                               *)
GradeIsCurrent ==
    \A k \in Keys : rows[k].status = "done" => rows[k].lookedGen = rows[k].gen

(* Every finding that was taken up ends: a slot is never leaked, whatever  *)
(* the turns in it did.                                                    *)
InvestigationsEnd ==
    (\E i \in InvIds : inv[i].stage = "spawned")
        ~> (\A i \in InvIds : inv[i].stage \in {"none", "done"})

(* A scheduled re-check does not stay open while the cluster can be read   *)
(* now and then: it closes, unless the pass that claimed it was lost.      *)
Orphaned(k) == rows[k].status = "fired" /\ \A r \in Replicas : \A c \in claims[r] : c.key # k
Settled(k) ==
    rows[k].status \in {"none", "done", "cancelled"} \/ Orphaned(k) \/ rows[k].due > MaxTime
ScheduledIsGraded ==
    (\E k \in Keys : rows[k].status = "pending") ~> (\A k \in Keys : Settled(k))
=============================================================================
