--------------------------- MODULE AutonomyProofs ---------------------------
(***************************************************************************)
(* Unattended writes are licensed and re-checks are sound, for every       *)
(* number of replicas, findings, settings, failovers and restarts:         *)
(* Autonomy!UnattendedIsLicensed and Autonomy!RechecksAreSound.            *)
(*                                                                         *)
(* The authority is given when an investigation is decided and used when   *)
(* it writes.  FixInv carries the licence from one to the other, over the  *)
(* wait for a slot: a restart, the only way to change the brakes, ends     *)
(* every investigation of its process.  PassInv ties what a pass has in    *)
(* hand to the rows: only the leader claims, the row of a claim that is    *)
(* still current is fired, and a look never answers a later scheduling     *)
(* than the row has had.  FiledInv counts the stored outcomes: one for an  *)
(* investigation, so that two failures of a day are two in the window.     *)
(***************************************************************************)
EXTENDS Autonomy, FiniteSetTheorems, TLAPS

AutoLicensed(i) ==
    LET f == inv[i].finding IN
    /\ f.severity \in {"warning", "critical"}
    /\ f.namespace \notin BlockedNamespaces \union {NoNamespace}
    /\ \E e \in A3Allowlist : f.namespace \in e.namespaces /\ f.playbook = e.playbook
    /\ IF f.namespace \in DOMAIN NsLevels THEN NsLevels[f.namespace] = 3 ELSE DefaultLevel = 3
    /\ flags.promotion => inv[i].clean

InvTyped ==
    /\ inv \in [InvIds -> Investigation]
    /\ now \in Nat
    /\ stopped \in [Replicas -> BOOLEAN]
    /\ leader \in Replicas
    /\ \A i \in InvIds : inv[i].stage # "none" => inv[i].replica \in Replicas

(* The licence of an unattended investigation, from the decision on.       *)
FixInv ==
    /\ InvTyped
    /\ \A i \in InvIds :
          /\ inv[i].verdict # "none" => inv[i].auto /\ inv[i].stage \in {"running", "done"}
          /\ inv[i].auto => AutoLicensed(i)
          /\ inv[i].auto /\ inv[i].stage \in {"queued", "running"} => ~stopped[inv[i].replica]

-----------------------------------------------------------------------------
(* The ladder gives A3 only where the settings name it.                    *)
LEMMA LadderNamesA3 ==
    ASSUME NEW p, NEW ns, A3Allowed(p, ns)
    PROVE  /\ ns \notin BlockedNamespaces \union {NoNamespace}
           /\ \E e \in A3Allowlist : ns \in e.namespaces /\ p = e.playbook
           /\ IF ns \in DOMAIN NsLevels THEN NsLevels[ns] = 3 ELSE DefaultLevel = 3
<1>1. ns # NoNamespace /\ LevelFor(ns) = 3
  BY DEF A3Allowed
<1>2. ns \notin BlockedNamespaces
  BY <1>1 DEF LevelFor
<1>3. (IF ns \in DOMAIN NsLevels THEN NsLevels[ns] ELSE DefaultLevel) = 3
  BY <1>1, <1>2 DEF LevelFor
<1>4. QED
  BY <1>1, <1>2, <1>3 DEF A3Allowed

(* A step that changes one investigation keeps FixInv if that one keeps    *)
(* its licence.                                                            *)
LEMMA OneChanged ==
    ASSUME FixInv, NEW i \in InvIds,
           NEW new \in Investigation,
           inv' = [inv EXCEPT ![i] = new], UNCHANGED <<now, leader, stopped, flags>>,
           new.replica \in Replicas,
           new.verdict # "none" => new.auto /\ new.stage \in {"running", "done"},
           new.auto => AutoLicensed(i)',
           new.auto /\ new.stage \in {"queued", "running"} => ~stopped[new.replica]
    PROVE  FixInv'
<1>1. \A j \in InvIds : inv'[j] = IF j = i THEN new ELSE inv[j]
  BY DEF FixInv, InvTyped
<1>2. InvTyped'
  BY <1>1 DEF FixInv, InvTyped
<1>3. ASSUME NEW j \in InvIds
      PROVE  /\ inv'[j].verdict # "none" => inv'[j].auto /\ inv'[j].stage \in {"running", "done"}
             /\ inv'[j].auto => AutoLicensed(j)'
             /\ inv'[j].auto /\ inv'[j].stage \in {"queued", "running"} => ~stopped'[inv'[j].replica]
  <2>1. CASE j = i
    BY <1>1, <2>1
  <2>2. CASE j # i
    <3>1. inv'[j] = inv[j]
      BY <1>1, <2>2
    <3>2. AutoLicensed(j)' <=> AutoLicensed(j)
      BY <3>1 DEF AutoLicensed
    <3>3. QED
      BY <3>1, <3>2 DEF FixInv
  <2>3. QED
    BY <2>1, <2>2
<1>4. QED
  BY <1>2, <1>3 DEF FixInv

(* A step that leaves the investigations alone keeps FixInv.               *)
LEMMA NoneChanged ==
    ASSUME FixInv, UNCHANGED <<inv, stopped, flags>>, now' \in Nat, leader' \in Replicas
    PROVE  FixInv'
  BY DEF FixInv, InvTyped, AutoLicensed

LEMMA SpawnKeeps == ASSUME FixInv, NEW f \in Findings, OnFinding(f) PROVE FixInv'
<1> DEFINE i == Cardinality(Spawned) + 1
           new == [NoInv EXCEPT !.replica = leader, !.finding = f, !.stage = "spawned"]
<1>1. inv' = [inv EXCEPT ![i] = new] /\ UNCHANGED <<now, leader, stopped, flags>>
  BY DEF OnFinding
<1>2. /\ new \in Investigation /\ new.verdict = "none" /\ ~new.auto
      /\ new.stage = "spawned" /\ new.replica = leader /\ leader \in Replicas
  BY DEF NoInv, Investigation, Stages, Verdicts, FixInv, InvTyped
<1>3. CASE i \in InvIds
  BY <1>1, <1>2, <1>3, OneChanged
<1>4. CASE i \notin InvIds
  <2>1. inv' = inv
    BY <1>1, <1>4 DEF FixInv, InvTyped
  <2>2. QED
    BY <1>1, <2>1, NoneChanged DEF FixInv, InvTyped
<1>5. QED
  BY <1>3, <1>4

(* The decision: the settings and the record, at this moment.              *)
LEMMA DecisionKeeps == ASSUME FixInv, NEW i \in InvIds, DecideFix(i) PROVE FixInv'
<1>1. PICK readable \in BOOLEAN :
          inv' = [inv EXCEPT ![i].stage = "queued",
                     ![i].auto = shouldAutoFix(inv[i].replica, inv[i].finding) /\ ~autofixRevoked(readable),
                     ![i].clean = (shouldAutoFix(inv[i].replica, inv[i].finding) /\ ~autofixRevoked(readable))
                                      => ~AutofixRevocation(outcomes, now)]
  BY DEF DecideFix
<1> DEFINE auto == shouldAutoFix(inv[i].replica, inv[i].finding) /\ ~autofixRevoked(readable)
           clean == auto => ~AutofixRevocation(outcomes, now)
           new == [inv[i] EXCEPT !.stage = "queued", !.auto = auto, !.clean = clean]
<1>2. inv' = [inv EXCEPT ![i] = new] /\ UNCHANGED <<now, leader, stopped, flags>>
  BY <1>1 DEF DecideFix, FixInv, InvTyped
<1>3. inv[i] \in Investigation /\ inv[i].stage = "spawned"
  BY DEF DecideFix, FixInv, InvTyped
<1>4. auto \in BOOLEAN /\ clean \in BOOLEAN
  BY DEF shouldAutoFix, autofixRevoked, A3Allowed, AutoWritePermitted
<1>5. /\ new \in Investigation /\ new.auto = auto /\ new.clean = clean
      /\ new.verdict = inv[i].verdict /\ new.finding = inv[i].finding /\ new.replica = inv[i].replica
  BY <1>3, <1>4 DEF Investigation, Stages
<1>6. new.verdict = "none" /\ new.stage = "queued" /\ new.replica \in Replicas
  BY <1>3, <1>5 DEF FixInv, InvTyped, Investigation
<1>7. ASSUME auto
      PROVE  AutoLicensed(i)' /\ ~stopped[new.replica]
  <2> DEFINE f == inv[i].finding
  <2>1. /\ f.severity # "predicted" /\ A3Allowed(f.playbook, f.namespace)
        /\ ~stopped[inv[i].replica]
        /\ flags.promotion => ~AutofixRevocation(outcomes, now)
    BY <1>7 DEF shouldAutoFix, AutoWritePermitted, autofixRevoked
  <2>2. f \in Findings /\ f.severity \in {"warning", "critical"}
    BY <1>3, <2>1, AutonomyAssumption DEF Investigation
  <2>3. /\ f.namespace \notin BlockedNamespaces \union {NoNamespace}
        /\ \E e \in A3Allowlist : f.namespace \in e.namespaces /\ f.playbook = e.playbook
        /\ IF f.namespace \in DOMAIN NsLevels THEN NsLevels[f.namespace] = 3 ELSE DefaultLevel = 3
    BY <2>1, LadderNamesA3
  <2>4. inv'[i].finding = f /\ inv'[i].clean = clean /\ flags' = flags
    BY <1>2, <1>5 DEF FixInv, InvTyped
  <2>5. flags.promotion => clean
    BY <2>1
  <2>6. QED
    BY <1>5, <2>1, <2>2, <2>3, <2>4, <2>5 DEF AutoLicensed
<1>8. QED
  BY <1>2, <1>5, <1>6, <1>7, OneChanged

(* The turn keeps the licence it was given.                                *)
LEMMA Progress ==
    ASSUME FixInv, NEW i \in InvIds, NEW new \in Investigation,
           inv' = [inv EXCEPT ![i] = new], UNCHANGED <<now, leader, stopped, flags>>,
           inv[i].stage # "none",
           new.finding = inv[i].finding, new.clean = inv[i].clean,
           new.auto = inv[i].auto, new.replica = inv[i].replica,
           new.stage \in {"queued", "running"} => inv[i].stage \in {"queued", "running"},
           new.verdict # "none" => inv[i].auto /\ new.stage \in {"running", "done"}
    PROVE  FixInv'
<1>1. inv'[i] = new
  BY DEF FixInv, InvTyped
<1>2. AutoLicensed(i)' <=> AutoLicensed(i)
  BY <1>1 DEF AutoLicensed
<1>3. new.replica \in Replicas
  BY DEF FixInv, InvTyped
<1>4. QED
  BY <1>2, <1>3, OneChanged DEF FixInv

LEMMA TurnKeeps ==
    ASSUME FixInv, NEW i \in InvIds, Acquire(i) \/ Fix(i) \/ FileOutcome(i) \/ Return(i)
    PROVE  FixInv'
<1>1. inv[i] \in Investigation /\ now \in Nat
  BY DEF FixInv, InvTyped
<1>2. /\ UNCHANGED <<now, leader, stopped, flags>>
      /\ inv[i].verdict # "none" => inv[i].auto /\ inv[i].stage \in {"running", "done"}
  BY DEF Acquire, Fix, FileOutcome, Return, FixInv
<1>3. CASE Acquire(i)
  <2> DEFINE e == [inv[i] EXCEPT !.stage = "running"]
  <2>1. inv' = [inv EXCEPT ![i] = e] /\ inv[i].stage = "queued"
    BY <1>3 DEF Acquire, FixInv, InvTyped
  <2>2. /\ e \in Investigation /\ e.finding = inv[i].finding /\ e.clean = inv[i].clean
        /\ e.auto = inv[i].auto /\ e.replica = inv[i].replica
        /\ e.stage = "running" /\ e.verdict = inv[i].verdict
    BY <1>1 DEF Investigation, Stages
  <2>3. QED
    BY <1>2, <2>1, <2>2, Progress
<1>4. CASE Fix(i)
  <2> DEFINE e == [inv[i] EXCEPT !.verdict = "pending"]
  <2>1. inv' = [inv EXCEPT ![i] = e] /\ inv[i].stage = "running" /\ inv[i].auto
    BY <1>4 DEF Fix, FixInv, InvTyped
  <2>2. /\ e \in Investigation /\ e.finding = inv[i].finding /\ e.clean = inv[i].clean
        /\ e.auto = inv[i].auto /\ e.replica = inv[i].replica
        /\ e.stage = inv[i].stage
    BY <1>1 DEF Investigation, Verdicts
  <2>3. QED
    BY <1>2, <2>1, <2>2, Progress
<1>5. CASE FileOutcome(i)
  <2>1. PICK v \in {"unknown", "held", "failed"} :
           inv' = [inv EXCEPT ![i].verdict = v, ![i].filedAt = IF v = "unknown" THEN @ ELSE now]
    BY <1>5 DEF FileOutcome
  <2> DEFINE e == [inv[i] EXCEPT !.verdict = v, !.filedAt = IF v = "unknown" THEN @ ELSE now]
  <2>2. inv' = [inv EXCEPT ![i] = e] /\ inv[i].verdict = "pending"
    BY <1>5, <2>1 DEF FileOutcome, FixInv, InvTyped
  <2>3. /\ e \in Investigation /\ e.finding = inv[i].finding /\ e.clean = inv[i].clean
        /\ e.auto = inv[i].auto /\ e.replica = inv[i].replica
        /\ e.stage = inv[i].stage
    BY <1>1 DEF Investigation, Verdicts
  <2>4. inv[i].auto /\ inv[i].stage \in {"running", "done"}
    BY <1>2, <2>2
  <2>5. QED
    BY <1>2, <2>2, <2>3, <2>4, Progress
<1>6. CASE Return(i)
  <2> DEFINE e == [inv[i] EXCEPT !.stage = "done"]
  <2>1. inv' = [inv EXCEPT ![i] = e] /\ inv[i].stage = "running"
    BY <1>6 DEF Return, FixInv, InvTyped
  <2>2. /\ e \in Investigation /\ e.finding = inv[i].finding /\ e.clean = inv[i].clean
        /\ e.auto = inv[i].auto /\ e.replica = inv[i].replica
        /\ e.stage = "done" /\ e.verdict = inv[i].verdict
    BY <1>1 DEF Investigation, Stages
  <2>3. QED
    BY <1>2, <2>1, <2>2, Progress
<1>7. QED
  BY <1>3, <1>4, <1>5, <1>6

(* A restart ends what its process had under way and then reads the brakes. *)
LEMMA RestartKeeps == ASSUME FixInv, NEW r \in Replicas, Restart(r) PROVE FixInv'
<1>1. \A i \in InvIds : inv'[i] = IF i \in Lost(r)
          THEN [inv[i] EXCEPT !.stage = "done", !.verdict = IF @ = "pending" THEN "unknown" ELSE @]
          ELSE inv[i]
  BY DEF Restart
<1>2. /\ now' = now /\ flags' = flags
      /\ stopped' \in [Replicas -> BOOLEAN]
      /\ \A p \in Replicas : p # r => stopped'[p] = stopped[p]
      /\ leader' \in Replicas
  BY DEF Restart, FixInv, InvTyped
<1>3. ASSUME NEW i \in InvIds
      PROVE  /\ inv'[i] \in Investigation
             /\ inv'[i].auto = inv[i].auto /\ inv'[i].finding = inv[i].finding
             /\ inv'[i].clean = inv[i].clean /\ inv'[i].replica = inv[i].replica
             /\ inv'[i].verdict # "none" => inv[i].verdict # "none"
             /\ inv'[i].stage \in {"queued", "running"} =>
                    inv'[i].stage = inv[i].stage /\ inv[i].replica # r
             /\ inv'[i].stage = inv[i].stage \/ inv'[i].stage = "done"
             /\ inv'[i].stage # "none" => inv'[i].replica \in Replicas
  <2>1. inv[i] \in Investigation /\ (inv[i].stage # "none" => inv[i].replica \in Replicas)
    BY DEF FixInv, InvTyped
  <2>2. CASE i \in Lost(r)
    <3> DEFINE e == [inv[i] EXCEPT !.stage = "done", !.verdict = IF @ = "pending" THEN "unknown" ELSE @]
    <3>1. inv'[i] = e
      BY <1>1, <2>2
    <3>2. /\ e \in Investigation /\ e.finding = inv[i].finding /\ e.clean = inv[i].clean
          /\ e.auto = inv[i].auto /\ e.replica = inv[i].replica /\ e.stage = "done"
          /\ e.verdict # "none" => inv[i].verdict # "none"
      BY <2>1 DEF Investigation, Stages, Verdicts
    <3>3. inv[i].replica = r
      BY <2>2 DEF Lost
    <3>4. QED
      BY <3>1, <3>2, <3>3
  <2>3. CASE i \notin Lost(r)
    <3>1. inv'[i] = inv[i]
      BY <1>1, <2>3
    <3>2. inv[i].stage \in {"queued", "running"} => inv[i].replica # r
      BY <2>3 DEF Lost
    <3>3. QED
      BY <2>1, <3>1, <3>2
  <2>4. QED
    BY <2>2, <2>3
<1>4. InvTyped'
  <2>1. inv' \in [InvIds -> Investigation]
    BY <1>3 DEF Restart
  <2>2. QED
    BY <1>2, <1>3, <2>1 DEF FixInv, InvTyped
<1>5. ASSUME NEW i \in InvIds
      PROVE  /\ inv'[i].verdict # "none" => inv'[i].auto /\ inv'[i].stage \in {"running", "done"}
             /\ inv'[i].auto => AutoLicensed(i)'
             /\ inv'[i].auto /\ inv'[i].stage \in {"queued", "running"} => ~stopped'[inv'[i].replica]
  <2>1. AutoLicensed(i)' <=> AutoLicensed(i)
    BY <1>2, <1>3 DEF AutoLicensed
  <2>2. inv[i].verdict # "none" => inv[i].auto /\ inv[i].stage \in {"running", "done"}
    BY DEF FixInv
  <2>3. inv'[i].auto /\ inv'[i].stage \in {"queued", "running"} => ~stopped'[inv'[i].replica]
    <3>1. SUFFICES ASSUME inv'[i].auto, inv'[i].stage \in {"queued", "running"}
                   PROVE  ~stopped'[inv'[i].replica]
      OBVIOUS
    <3>2. inv'[i].replica = inv[i].replica /\ inv[i].replica \in Replicas /\ inv[i].replica # r
      BY <1>3, <3>1
    <3>3. ~stopped[inv[i].replica]
      BY <1>3, <3>1 DEF FixInv
    <3>4. QED
      BY <1>2, <3>2, <3>3
  <2>4. QED
    BY <1>3, <2>1, <2>2, <2>3 DEF FixInv
<1>6. QED
  BY <1>4, <1>5 DEF FixInv

LEMMA FixInit == ASSUME Init PROVE FixInv
<1>1. NoInv \in Investigation /\ NoInv.verdict = "none" /\ ~NoInv.auto /\ NoInv.stage = "none"
  BY AutonomyAssumption DEF NoInv, Investigation, Stages, Verdicts
<1>2. now \in Nat /\ leader \in Replicas
  BY AutonomyAssumption DEF Init
<1>3. QED
  BY <1>1, <1>2 DEF Init, FixInv, InvTyped

LEMMA FixStep == ASSUME FixInv, [Next]_vars PROVE FixInv'
<1>1. CASE Tick
  BY <1>1, NoneChanged DEF Tick, FixInv, InvTyped
<1>2. ASSUME NEW f \in Findings, OnFinding(f) PROVE FixInv'
  BY <1>2, SpawnKeeps
<1>3. ASSUME NEW i \in InvIds, Watch(i) PROVE FixInv'
  BY <1>3, DecisionKeeps, TurnKeeps DEF Watch
<1>4. ASSUME NEW r \in Replicas, Pass(r) PROVE FixInv'
  <2>1. UNCHANGED <<now, leader, inv, stopped, flags>>
    BY <1>4 DEF Pass, claimDue, Dispatch, Grade
  <2>2. QED
    BY <2>1, NoneChanged DEF FixInv, InvTyped
<1>5. ASSUME NEW r \in Replicas, PruneOnce(r) PROVE FixInv'
  BY <1>5, NoneChanged DEF PruneOnce, FixInv, InvTyped
<1>6. ASSUME NEW r \in Replicas, Failover(r) PROVE FixInv'
  BY <1>6, NoneChanged DEF Failover, FixInv, InvTyped
<1>7. ASSUME NEW r \in Replicas, Restart(r) PROVE FixInv'
  BY <1>7, RestartKeeps
<1>8. CASE UNCHANGED vars
  BY <1>8, NoneChanged DEF vars, FixInv, InvTyped
<1>9. QED
  BY <1>1, <1>2, <1>3, <1>4, <1>5, <1>6, <1>7, <1>8 DEF Next

LEMMA FixInvariant == Spec => []FixInv
  BY FixInit, FixStep, PTL DEF Spec

(* Nothing writes unattended but what the operator licensed (trust.go,     *)
(* watchtower.go): Autonomy!UnattendedIsLicensed.                          *)
THEOREM UnattendedAlwaysLicensed == Spec => []UnattendedIsLicensed
<1>1. FixInv => UnattendedIsLicensed
  BY DEF FixInv, AutoLicensed, UnattendedIsLicensed
<1>2. QED
  BY <1>1, FixInvariant, PTL

-----------------------------------------------------------------------------
RowOK(k) ==
    /\ rows[k].status = "pending" => rows[k].gen >= 1
    /\ rows[k].status = "done" => /\ rows[k].outcome \in {"resolved", "still_broken"}
                                  /\ rows[k].lookedGen \in 1 .. rows[k].gen

PassTyped ==
    /\ rows \in [Keys -> Row]
    /\ claims \in [Replicas -> SUBSET Claim]
    /\ look \in [Replicas -> [Keys -> Look]]

(* What a pass has in hand, against the rows.                              *)
PassInv ==
    /\ PassTyped
    /\ \A r \in Replicas : claims[r] # {} => leader = r
    /\ \A r \in Replicas : \A c, d \in claims[r] : c.key = d.key => c = d
    /\ \A r \in Replicas : \A c \in claims[r] :
          /\ c.gen \in 1 .. rows[c.key].gen
          /\ rows[c.key].gen = c.gen => rows[c.key].status = "fired"
    /\ \A r \in Replicas, k \in Keys :
          look[r][k] # NoLook => look[r][k].gen \in 1 .. rows[k].gen
    /\ \A k \in Keys : RowOK(k)

(* Rows may only move on: a scheduling is never taken back, and a fired    *)
(* row is left fired or scheduled anew.                                    *)
LEMMA RowsMoveOn ==
    ASSUME PassInv, UNCHANGED <<claims, look, leader>>, rows' \in [Keys -> Row],
           \A k \in Keys : /\ rows'[k].gen >= rows[k].gen
                           /\ rows'[k].gen = rows[k].gen /\ rows[k].status = "fired"
                                  => rows'[k].status = "fired"
                           /\ RowOK(k)'
    PROVE  PassInv'
<1>1. \A k \in Keys : rows[k].gen \in Nat /\ rows'[k].gen \in Nat /\ rows'[k].gen >= rows[k].gen
  BY DEF PassInv, PassTyped, Row
<1>2. PassTyped'
  BY DEF PassInv, PassTyped
<1>3. ASSUME NEW r \in Replicas, NEW c \in claims[r]
      PROVE  /\ c.gen \in 1 .. rows'[c.key].gen
             /\ rows'[c.key].gen = c.gen => rows'[c.key].status = "fired"
  <2>1. c.key \in Keys /\ c.gen \in Nat
    BY DEF PassInv, PassTyped, Claim
  <2>2. /\ c.gen \in 1 .. rows[c.key].gen
        /\ rows[c.key].gen = c.gen => rows[c.key].status = "fired"
    BY DEF PassInv
  <2>3. QED
    BY <1>1, <2>1, <2>2
<1>4. ASSUME NEW r \in Replicas, NEW k \in Keys, look[r][k] # NoLook
      PROVE  look[r][k].gen \in 1 .. rows'[k].gen
  <2>1. look[r][k].gen \in 1 .. rows[k].gen
    BY <1>4 DEF PassInv
  <2>2. QED
    BY <1>1, <2>1
<1>5. QED
  BY <1>2, <1>3, <1>4 DEF PassInv

(* A pass that is dropped leaves the rows as they are.                     *)
LEMMA WorkIsDropped ==
    ASSUME PassInv, rows' = rows,
           claims' \in [Replicas -> SUBSET Claim], look' \in [Replicas -> [Keys -> Look]],
           \A r \in Replicas : claims'[r] \subseteq claims[r] /\ (claims'[r] # {} => leader' = r),
           \A r \in Replicas, k \in Keys : look'[r][k] \in {look[r][k], NoLook}
    PROVE  PassInv'
<1>1. PassTyped'
  BY DEF PassInv, PassTyped
<1>2. \A r \in Replicas : \A c, d \in claims'[r] : c.key = d.key => c = d
  BY DEF PassInv
<1>3. ASSUME NEW r \in Replicas, NEW c \in claims'[r]
      PROVE  /\ c.gen \in 1 .. rows[c.key].gen
             /\ rows[c.key].gen = c.gen => rows[c.key].status = "fired"
  BY DEF PassInv
<1>4. \A r \in Replicas, k \in Keys : look'[r][k] # NoLook => look'[r][k].gen \in 1 .. rows[k].gen
  BY DEF PassInv
<1>5. \A k \in Keys : RowOK(k)'
  BY DEF PassInv, RowOK
<1>6. QED
  BY <1>1, <1>2, <1>3, <1>4, <1>5 DEF PassInv

LEMMA PassIdle ==
    ASSUME PassInv, UNCHANGED <<rows, claims, look, leader>>
    PROVE  PassInv'
  BY DEF PassInv, PassTyped, RowOK

LEMMA NoLookTyped == NoLook \in Look /\ NoRow \in Row
  BY DEF NoLook, Look, Results, NoRow, Row, Statuses

LEMMA PassDropped ==
    ASSUME PassInv, NEW r \in Replicas, DropPass(r), rows' = rows,
           \A q \in Replicas : q # r /\ claims[q] # {} => leader' = q
    PROVE  PassInv'
<1>1. /\ claims' = [claims EXCEPT ![r] = {}]
      /\ look' = [look EXCEPT ![r] = [k \in Keys |-> NoLook]]
  BY DEF DropPass
<1>2. /\ claims' \in [Replicas -> SUBSET Claim]
      /\ \A q \in Replicas : claims'[q] \subseteq claims[q] /\ (claims'[q] # {} => leader' = q)
  BY <1>1 DEF PassInv, PassTyped
<1>3. look' \in [Replicas -> [Keys -> Look]]
  BY <1>1, NoLookTyped DEF PassInv, PassTyped
<1>4. \A q \in Replicas, k \in Keys : look'[q][k] \in {look[q][k], NoLook}
  BY <1>1 DEF PassInv, PassTyped
<1>5. QED
  BY <1>2, <1>3, <1>4, WorkIsDropped

LEMMA ReturnKeepsPass == ASSUME FixInv, PassInv, NEW i \in InvIds, Return(i) PROVE PassInv'
<1>1. UNCHANGED <<claims, look, leader>>
  BY DEF Return
<1>2. CASE rows' = rows
  BY <1>1, <1>2, PassIdle
<1>3. CASE rows' # rows
  <2> DEFINE k == KeyOf(inv[i].finding)
             e == [status |-> "pending", due |-> now + RecheckDelay, outcome |-> "none",
                   created |-> IF rows[k].status = "none" THEN now ELSE rows[k].created,
                   gen |-> rows[k].gen + 1, lookedGen |-> rows[k].lookedGen]
  <2>1. rows' = [rows EXCEPT ![k] = e]
    BY <1>3 DEF Return, ScheduleRecheck
  <2>2. k \in Keys
    BY DEF FixInv, InvTyped, Investigation, Keys, KeyOf
  <2>3. rows[k] \in Row
    BY <2>2 DEF PassInv, PassTyped
  <2>4. now \in Nat /\ RecheckDelay \in Nat
    BY AutonomyAssumption DEF FixInv, InvTyped
  <2>5. e \in Row /\ e.gen = rows[k].gen + 1 /\ e.status = "pending"
    BY <2>3, <2>4 DEF Row, Statuses, Results
  <2> HIDE DEF e
  <2>6. rows' \in [Keys -> Row]
    BY <2>1, <2>5 DEF PassInv, PassTyped
  <2>7. ASSUME NEW q \in Keys
        PROVE  /\ rows'[q].gen >= rows[q].gen
               /\ rows'[q].gen = rows[q].gen /\ rows[q].status = "fired"
                      => rows'[q].status = "fired"
               /\ RowOK(q)'
    <3>1. CASE q = k
      <4>1. rows'[q] = e /\ rows[q].gen \in Nat
        BY <2>1, <2>2, <2>3, <3>1 DEF Row, PassInv, PassTyped
      <4>2. QED
        BY <2>5, <3>1, <4>1 DEF RowOK
    <3>2. CASE q # k
      <4>1. rows'[q] = rows[q] /\ rows[q].gen \in Nat
        BY <2>1, <3>2 DEF Row, PassInv, PassTyped
      <4>2. RowOK(q)
        BY DEF PassInv
      <4>3. QED
        BY <4>1, <4>2 DEF RowOK
    <3>3. QED
      BY <3>1, <3>2
  <2>8. QED
    BY <1>1, <2>6, <2>7, RowsMoveOn
<1>4. QED
  BY <1>2, <1>3

LEMMA PruneKeepsPass == ASSUME PassInv, NEW r \in Replicas, PruneOnce(r) PROVE PassInv'
<1>1. UNCHANGED <<claims, look, leader>>
  BY DEF PruneOnce
<1>2. ASSUME NEW q \in Keys
      PROVE  /\ rows'[q] \in Row
             /\ rows'[q].gen >= rows[q].gen
             /\ rows'[q].gen = rows[q].gen /\ rows[q].status = "fired"
                    => rows'[q].status = "fired"
             /\ RowOK(q)'
  <2> DEFINE e == [NoRow EXCEPT !.gen = rows[q].gen, !.lookedGen = rows[q].lookedGen]
  <2>1. rows[q] \in Row /\ RowOK(q)
    BY DEF PassInv, PassTyped
  <2>2. e \in Row /\ e.gen = rows[q].gen /\ e.status = "none"
    BY <2>1 DEF NoRow, Row, Statuses, Results
  <2>3. \/ rows'[q] = rows[q]
        \/ rows'[q] = e /\ rows[q].status \in {"done", "cancelled"}
    BY DEF PruneOnce
  <2>4. rows[q].gen \in Nat
    BY <2>1 DEF Row
  <2> HIDE DEF e
  <2>5. CASE rows'[q] = rows[q]
    BY <2>1, <2>4, <2>5 DEF RowOK
  <2>6. CASE rows'[q] = e /\ rows[q].status \in {"done", "cancelled"}
    BY <2>2, <2>4, <2>6 DEF RowOK
  <2>7. QED
    BY <2>3, <2>5, <2>6
<1>3. rows' \in [Keys -> Row]
  BY <1>2 DEF PruneOnce
<1>4. QED
  BY <1>1, <1>2, <1>3, RowsMoveOn

(* The leader claims: the other replicas have nothing in hand.             *)
LEMMA ClaimKeepsPass == ASSUME PassInv, NEW r \in Replicas, claimDue(r) PROVE PassInv'
<1>1. PICK batch \in SUBSET Due :
         /\ claims' = [claims EXCEPT ![r] = {[key |-> k, gen |-> rows[k].gen] : k \in batch}]
         /\ rows' = [k \in Keys |-> IF k \in batch THEN [rows[k] EXCEPT !.status = "fired"] ELSE rows[k]]
  BY DEF claimDue
<1>2. leader = r /\ leader' = r /\ look' = look /\ \A q \in Replicas : q # r => claims[q] = {}
  BY DEF claimDue, PassInv
<1>3. ASSUME NEW k \in Keys
      PROVE  /\ rows'[k] \in Row /\ rows'[k].gen = rows[k].gen /\ rows[k].gen \in Nat
             /\ k \in batch => rows'[k].status = "fired" /\ rows[k].gen >= 1
             /\ RowOK(k)'
  <2>1. rows[k] \in Row /\ RowOK(k)
    BY DEF PassInv, PassTyped
  <2>2. CASE k \in batch
    <3> DEFINE e == [rows[k] EXCEPT !.status = "fired"]
    <3>1. rows'[k] = e /\ rows[k].status = "pending"
      BY <1>1, <2>2 DEF Due
    <3>2. e \in Row /\ e.gen = rows[k].gen /\ e.status = "fired" /\ rows[k].gen \in Nat
      BY <2>1 DEF Row, Statuses
    <3>3. QED
      BY <2>1, <3>1, <3>2 DEF RowOK
  <2>3. CASE k \notin batch
    <3>1. rows'[k] = rows[k] /\ rows[k].gen \in Nat
      BY <1>1, <2>1, <2>3 DEF Row
    <3>2. QED
      BY <2>1, <2>3, <3>1 DEF RowOK
  <2>4. QED
    BY <2>2, <2>3
<1>4. batch \subseteq Keys
  BY DEF Due
<1>5. \A c \in claims'[r] : \E k \in batch : c = [key |-> k, gen |-> rows[k].gen]
  BY <1>1 DEF PassInv, PassTyped
<1>6. \A q \in Replicas : q # r => claims'[q] = {}
  BY <1>1, <1>2 DEF PassInv, PassTyped
<1>7. ASSUME NEW c \in claims'[r]
      PROVE  /\ c \in Claim /\ c.gen \in 1 .. rows'[c.key].gen /\ rows'[c.key].status = "fired"
             /\ c.gen = rows[c.key].gen
  <2>1. PICK k \in batch : c = [key |-> k, gen |-> rows[k].gen]
    BY <1>5
  <2>2. k \in Keys /\ c.key = k /\ c.gen = rows[k].gen
    BY <1>4, <2>1
  <2>3. QED
    BY <1>3, <2>1, <2>2 DEF Claim
<1>8. \A c, d \in claims'[r] : c.key = d.key => c = d
  <2>1. SUFFICES ASSUME NEW c \in claims'[r], NEW d \in claims'[r], c.key = d.key PROVE c = d
    OBVIOUS
  <2>2. c \in Claim /\ d \in Claim /\ c.gen = d.gen
    BY <1>7, <2>1
  <2>3. QED
    BY <2>1, <2>2 DEF Claim
<1>9. PassTyped'
  <2>1. rows' \in [Keys -> Row]
    BY <1>1, <1>3
  <2>2. claims' \in [Replicas -> SUBSET Claim]
    BY <1>1, <1>6, <1>7 DEF PassInv, PassTyped
  <2>3. QED
    BY <1>2, <2>1, <2>2 DEF PassInv, PassTyped
<1>10. \A q \in Replicas, k \in Keys : look'[q][k] # NoLook => look'[q][k].gen \in 1 .. rows'[k].gen
  BY <1>2, <1>3 DEF PassInv
<1>11. \A q \in Replicas : claims'[q] # {} => leader' = q
  BY <1>2, <1>6
<1>12. \A q \in Replicas : \A c, d \in claims'[q] : c.key = d.key => c = d
  BY <1>6, <1>8
<1>13. \A q \in Replicas : \A c \in claims'[q] :
          /\ c.gen \in 1 .. rows'[c.key].gen
          /\ rows'[c.key].gen = c.gen => rows'[c.key].status = "fired"
  BY <1>6, <1>7
<1>14. QED
  BY <1>3, <1>9, <1>10, <1>11, <1>12, <1>13 DEF PassInv

LEMMA DispatchKeepsPass == ASSUME PassInv, NEW r \in Replicas, Dispatch(r) PROVE PassInv'
<1>1. PICK c \in claims[r], o \in {"resolved", "still_broken", "unverified", "skipped_a0"} :
         look' = [look EXCEPT ![r][c.key] = [gen |-> c.gen, outcome |-> o]]
  BY DEF Dispatch
<1>2. UNCHANGED <<rows, claims, leader>>
  BY DEF Dispatch
<1>3. c.key \in Keys /\ c.gen \in Nat /\ c.gen \in 1 .. rows[c.key].gen
  BY DEF PassInv, PassTyped, Claim
<1> DEFINE e == [gen |-> c.gen, outcome |-> o]
<1>4. e \in Look /\ e.gen = c.gen
  BY <1>3 DEF Look, Results
<1> HIDE DEF e
<1>5. look' = [look EXCEPT ![r][c.key] = e]
  BY <1>1 DEF e
<1>6. look' \in [Replicas -> [Keys -> Look]]
  BY <1>3, <1>4, <1>5 DEF PassInv, PassTyped
<1>7. \A q \in Replicas, k \in Keys :
         look'[q][k] = IF q = r /\ k = c.key THEN e ELSE look[q][k]
  BY <1>5 DEF PassInv, PassTyped
<1>8. \A q \in Replicas, k \in Keys : look'[q][k] # NoLook => look'[q][k].gen \in 1 .. rows[k].gen
  BY <1>3, <1>4, <1>7 DEF PassInv
<1>9. QED
  BY <1>2, <1>6, <1>8 DEF PassInv, PassTyped, RowOK

(* The grade closes the row of the claim it drops; no other claim is on it. *)
LEMMA GradeKeepsPass == ASSUME PassInv, NEW r \in Replicas, Grade(r) PROVE PassInv'
<1>1. PICK c \in claims[r] :
         /\ look[r][c.key] # NoLook
         /\ rows' = [rows EXCEPT ![c.key] = IF @.status = "none" THEN @ ELSE
                 [@ EXCEPT !.outcome = look[r][c.key].outcome, !.lookedGen = look[r][c.key].gen,
                           !.status = IF look[r][c.key].outcome \in DOMAIN terminal
                                      THEN terminal[look[r][c.key].outcome] ELSE "pending"]]
         /\ look' = [look EXCEPT ![r][c.key] = NoLook]
         /\ claims' = [claims EXCEPT ![r] = @ \ {c}]
  BY DEF Grade
<1> DEFINE k == c.key
           l == look[r][k]
           status == IF l.outcome \in DOMAIN terminal THEN terminal[l.outcome] ELSE "pending"
           e == IF rows[k].status = "none" THEN rows[k]
                ELSE [rows[k] EXCEPT !.outcome = l.outcome, !.lookedGen = l.gen, !.status = status]
<1>2. leader = r /\ leader' = r /\ \A q \in Replicas : q # r => claims[q] = {}
  BY DEF Grade, PassInv
<1>3. k \in Keys /\ c.gen \in 1 .. rows[k].gen /\ rows[k] \in Row /\ l \in Look /\ l.gen \in 1 .. rows[k].gen
  BY <1>1 DEF PassInv, PassTyped, Claim
<1>4. status \in {"pending", "done", "cancelled"} /\ (status = "done" => l.outcome \in {"resolved", "still_broken"})
  BY DEF terminal
<1> HIDE DEF status
<1>5. /\ e \in Row /\ e.gen = rows[k].gen /\ rows[k].gen \in Nat /\ rows[k].gen >= 1
      /\ e.status = "done" => e.outcome \in {"resolved", "still_broken"} /\ e.lookedGen \in 1 .. e.gen
  <2>1. rows[k].gen \in Nat /\ rows[k].gen >= 1
    BY <1>3 DEF Row
  <2>2. RowOK(k)
    BY <1>3 DEF PassInv
  <2>3. CASE rows[k].status = "none"
    BY <1>3, <2>1, <2>3
  <2>4. CASE rows[k].status # "none"
    <3> DEFINE f == [rows[k] EXCEPT !.outcome = l.outcome, !.lookedGen = l.gen, !.status = status]
    <3>1. /\ f \in Row /\ f.gen = rows[k].gen /\ f.status = status
          /\ f.outcome = l.outcome /\ f.lookedGen = l.gen
      BY <1>3, <1>4 DEF Row, Statuses, Look
    <3>2. e = f
      BY <2>4
    <3>3. QED
      BY <1>3, <1>4, <2>1, <3>1, <3>2
  <2>5. QED
    BY <2>3, <2>4
<1>6. rows' = [rows EXCEPT ![k] = e]
  BY <1>1 DEF status
<1> HIDE DEF e
<1>7. \A q \in Keys : rows'[q] = IF q = k THEN e ELSE rows[q]
  BY <1>6 DEF PassInv, PassTyped
<1>8. \A q \in Keys : rows'[q].gen = rows[q].gen
  BY <1>5, <1>7
<1>9. PassTyped'
  <2>1. rows' \in [Keys -> Row]
    BY <1>5, <1>6 DEF PassInv, PassTyped
  <2>2. claims' \in [Replicas -> SUBSET Claim]
    BY <1>1 DEF PassInv, PassTyped
  <2>3. look' \in [Replicas -> [Keys -> Look]]
    BY <1>1, <1>3, NoLookTyped DEF PassInv, PassTyped
  <2>4. QED
    BY <2>1, <2>2, <2>3 DEF PassTyped
<1>10. claims'[r] = claims[r] \ {c} /\ \A q \in Replicas : q # r => claims'[q] = {}
  BY <1>1, <1>2 DEF PassInv, PassTyped
<1>11. ASSUME NEW d \in claims'[r]
       PROVE  /\ d.gen \in 1 .. rows'[d.key].gen
              /\ rows'[d.key].gen = d.gen => rows'[d.key].status = "fired"
  <2>1. d \in claims[r] /\ d # c
    BY <1>10
  <2>2. d.key # k /\ d.key \in Keys
    BY <2>1 DEF PassInv, PassTyped, Claim
  <2>3. rows'[d.key] = rows[d.key]
    BY <1>7, <2>2
  <2>4. QED
    BY <2>1, <2>3 DEF PassInv
<1>12. \A q \in Replicas, p \in Keys : look'[q][p] # NoLook => look'[q][p].gen \in 1 .. rows'[p].gen
  <2>1. \A q \in Replicas, p \in Keys : look'[q][p] \in {look[q][p], NoLook}
    BY <1>1 DEF PassInv, PassTyped
  <2>2. QED
    BY <1>8, <2>1 DEF PassInv
<1>13. ASSUME NEW q \in Keys PROVE RowOK(q)'
  <2>1. CASE q = k
    <3>1. rows'[q] = e
      BY <1>3, <1>7, <2>1
    <3>2. QED
      BY <1>5, <3>1 DEF RowOK
  <2>2. CASE q # k
    <3>1. rows'[q] = rows[q] /\ RowOK(q)
      BY <1>7, <2>2 DEF PassInv
    <3>2. QED
      BY <3>1 DEF RowOK
  <2>3. QED
    BY <2>1, <2>2
<1>14. \A q \in Replicas : claims'[q] # {} => leader' = q
  BY <1>2, <1>10
<1>15. \A q \in Replicas : \A a, b \in claims'[q] : a.key = b.key => a = b
  BY <1>10 DEF PassInv
<1>16. QED
  BY <1>9, <1>10, <1>11, <1>12, <1>13, <1>14, <1>15 DEF PassInv

LEMMA PassInit == ASSUME Init PROVE PassInv
  BY NoLookTyped DEF Init, PassInv, PassTyped, RowOK, NoRow

LEMMA PassStep == ASSUME FixInv, PassInv, [Next]_vars PROVE PassInv'
<1>1. CASE Tick
  BY <1>1, PassIdle DEF Tick
<1>2. ASSUME NEW f \in Findings, OnFinding(f) PROVE PassInv'
  BY <1>2, PassIdle DEF OnFinding
<1>3. ASSUME NEW i \in InvIds, Watch(i) PROVE PassInv'
  <2>1. CASE Return(i)
    BY <2>1, ReturnKeepsPass
  <2>2. CASE DecideFix(i) \/ Acquire(i) \/ Fix(i) \/ FileOutcome(i)
    <3>1. UNCHANGED <<rows, claims, look, leader>>
      BY <2>2 DEF DecideFix, Acquire, Fix, FileOutcome
    <3>2. QED
      BY <3>1, PassIdle
  <2>3. QED
    BY <1>3, <2>1, <2>2 DEF Watch
<1>4. ASSUME NEW r \in Replicas, Pass(r) PROVE PassInv'
  BY <1>4, ClaimKeepsPass, DispatchKeepsPass, GradeKeepsPass DEF Pass
<1>5. ASSUME NEW r \in Replicas, PruneOnce(r) PROVE PassInv'
  BY <1>5, PruneKeepsPass
<1>6. ASSUME NEW r \in Replicas, Failover(r) PROVE PassInv'
  <2>1. leader \in Replicas /\ DropPass(leader) /\ rows' = rows
    BY <1>6 DEF Failover, FixInv, InvTyped
  <2>2. \A q \in Replicas : q # leader => claims[q] = {}
    BY DEF PassInv
  <2>3. QED
    BY <2>1, <2>2, PassDropped
<1>7. ASSUME NEW r \in Replicas, Restart(r) PROVE PassInv'
  <2>1. DropPass(r) /\ rows' = rows /\ (leader # r => leader' = leader)
    BY <1>7 DEF Restart
  <2>2. \A q \in Replicas : q # r /\ claims[q] # {} => leader' = q
    BY <2>1 DEF PassInv
  <2>3. QED
    BY <2>1, <2>2, PassDropped
<1>8. CASE UNCHANGED vars
  BY <1>8, PassIdle DEF vars
<1>9. QED
  BY <1>1, <1>2, <1>3, <1>4, <1>5, <1>6, <1>7, <1>8 DEF Next

LEMMA PassInvariant == Spec => []PassInv
<1>1. PassInv /\ FixInv /\ [Next]_vars => PassInv'
  BY PassStep
<1>2. QED
  BY PassInit, FixInvariant, <1>1, PTL DEF Spec

(* A re-check is claimed by one pass at a time and closed only by a look   *)
(* made for a scheduling of it (prospective.go): Autonomy!RechecksAreSound. *)
THEOREM RechecksAlwaysSound == Spec => []RechecksAreSound
<1>1. PassInv => RechecksAreSound
  <2>1. ASSUME PassInv PROVE ClaimedOnce
    BY <2>1 DEF PassInv, ClaimedOnce
  <2>2. ASSUME PassInv PROVE ClosedByALook
    BY <2>2 DEF PassInv, RowOK, ClosedByALook
  <2>3. QED
    BY <2>1, <2>2 DEF RechecksAreSound
<1>2. QED
  BY <1>1, PassInvariant, PTL

-----------------------------------------------------------------------------
(* What the two invariants do not type.                                    *)
ClockTyped ==
    /\ now \in Epoch .. MaxTime /\ faults \in 0 .. MaxFaults
    /\ recent \in [Replicas -> [Keys -> {Never} \union (Epoch .. MaxTime)]]
    /\ \A o \in outcomes : o.at \in Epoch .. MaxTime /\ o.id \in InvIds /\ o.ok \in BOOLEAN

LEMMA ClockInit == ASSUME Init PROVE ClockTyped
  BY AutonomyAssumption DEF Init, ClockTyped

LEMMA ClockStep == ASSUME FixInv, ClockTyped, [Next]_vars PROVE ClockTyped'
<1>1. {Epoch, MaxTime, MaxFaults} \subseteq Nat /\ now \in Nat /\ faults \in Nat
  BY AutonomyAssumption DEF ClockTyped
<1>2. CASE Tick
  BY <1>1, <1>2 DEF Tick, ClockTyped
<1>3. ASSUME NEW f \in Findings, OnFinding(f) PROVE ClockTyped'
  <2>1. KeyOf(f) \in Keys /\ leader \in Replicas
    BY DEF KeyOf, Keys, FixInv, InvTyped
  <2>2. recent' = [recent EXCEPT ![leader][KeyOf(f)] = now] /\ UNCHANGED <<now, faults, outcomes>>
    BY <1>3 DEF OnFinding
  <2>3. QED
    BY <2>1, <2>2 DEF ClockTyped
<1>4. ASSUME NEW i \in InvIds, Watch(i) PROVE ClockTyped'
  <2>1. CASE FileOutcome(i)
    <3>1. PICK v \in {"unknown", "held", "failed"} :
             outcomes' = IF v = "unknown" THEN outcomes
                         ELSE outcomes \union
                              {[at |-> now, ok |-> v = "held", id |-> i, critical |-> FALSE,
                                kind |-> inv[i].finding.playbook, created |-> now \div DayTicks]}
      BY <2>1 DEF FileOutcome
    <3> DEFINE e == [at |-> now, ok |-> v = "held", id |-> i, critical |-> FALSE,
                     kind |-> inv[i].finding.playbook, created |-> now \div DayTicks]
    <3>2. e.at = now /\ e.ok \in BOOLEAN /\ e.id = i
      OBVIOUS
    <3>3. outcomes' \subseteq outcomes \union {e}
      BY <3>1
    <3> HIDE DEF e
    <3>4. UNCHANGED <<now, faults, recent>>
      BY <2>1 DEF FileOutcome
    <3>5. \A o \in outcomes' : o.at \in Epoch .. MaxTime /\ o.id \in InvIds /\ o.ok \in BOOLEAN
      BY <3>2, <3>3 DEF ClockTyped
    <3>6. QED
      BY <3>4, <3>5 DEF ClockTyped
  <2>2. CASE DecideFix(i) \/ Acquire(i) \/ Fix(i) \/ Return(i)
    <3>1. UNCHANGED <<now, faults, recent, outcomes>>
      BY <2>2 DEF DecideFix, Acquire, Fix, Return
    <3>2. QED
      BY <3>1 DEF ClockTyped
  <2>3. QED
    BY <1>4, <2>1, <2>2 DEF Watch
<1>5. ASSUME NEW r \in Replicas, Pass(r) PROVE ClockTyped'
  BY <1>5 DEF Pass, claimDue, Dispatch, Grade, ClockTyped
<1>6. ASSUME NEW r \in Replicas, PruneOnce(r) PROVE ClockTyped'
  BY <1>6 DEF PruneOnce, ClockTyped
<1>7. ASSUME NEW r \in Replicas, Failover(r) PROVE ClockTyped'
  BY <1>1, <1>7 DEF Failover, ClockTyped
<1>8. ASSUME NEW r \in Replicas, Restart(r) PROVE ClockTyped'
  <2>1. faults' \in 0 .. MaxFaults
    <3>1. faults < MaxFaults /\ faults' = faults + 1
      BY <1>8 DEF Restart
    <3>2. QED
      BY <1>1, <3>1 DEF ClockTyped
  <2>2. UNCHANGED <<now, outcomes>>
    BY <1>8 DEF Restart
  <2>3. recent' = [recent EXCEPT ![r] = [k \in Keys |-> Never]]
    BY <1>8 DEF Restart
  <2>4. recent' \in [Replicas -> [Keys -> {Never} \union (Epoch .. MaxTime)]]
    <3>1. [k \in Keys |-> Never] \in [Keys -> {Never} \union (Epoch .. MaxTime)]
      OBVIOUS
    <3>2. QED
      BY <2>3, <3>1 DEF ClockTyped
  <2>5. QED
    BY <2>1, <2>2, <2>4 DEF ClockTyped
<1>9. CASE UNCHANGED vars
  BY <1>9 DEF vars, ClockTyped
<1>10. QED
  BY <1>2, <1>3, <1>4, <1>5, <1>6, <1>7, <1>8, <1>9 DEF Next

(* Every variable of unattended action keeps its type: Autonomy!TypeOK.    *)
THEOREM AutonomyTypeCorrect == Spec => []TypeOK
<1>1. FixInv /\ PassInv /\ ClockTyped => TypeOK
  BY DEF FixInv, InvTyped, PassInv, PassTyped, ClockTyped, TypeOK
<1>2. FixInv /\ ClockTyped /\ [Next]_vars => ClockTyped'
  BY ClockStep
<1>3. Spec => []ClockTyped
  BY ClockInit, FixInvariant, <1>2, PTL DEF Spec
<1>4. QED
  BY <1>1, <1>3, FixInvariant, PassInvariant, PTL

-----------------------------------------------------------------------------
(* Two failed outcomes within a day, in the window of the statistics.      *)
FailedTogether(events, a, b) ==
    /\ a \in events /\ b \in events
    /\ a.id # b.id /\ ~a.ok /\ ~b.ok
    /\ a.at <= b.at /\ b.at <= a.at + DayTicks

(* CUSUM counts them both from the earlier one, whatever else the window   *)
(* holds, and no other trigger or gate comes before it.                    *)
LEMMA TogetherRevoke ==
    ASSUME NEW events, NEW time \in Int, IsFiniteSet(events), \A e \in events : e.at \in Int,
           CusumFails <= 2, CusumWindowDays = 1,
           NEW a, NEW b, FailedTogether(window(events, time), a, b)
    PROVE  AutofixRevocation(events, time)
<1> DEFINE win == window(events, time)
           near == {f \in Failed(win) : f.at >= a.at /\ f.at - a.at <= CusumWindowDays * DayTicks}
<1>1. win \subseteq events
  BY DEF window, lastOf
<1>2. a \in Failed(win) /\ b \in Failed(win) /\ a # b
  BY DEF FailedTogether, Failed
<1>3. a.at \in Int /\ b.at \in Int
  BY <1>1, <1>2 DEF Failed
<1>4. {a, b} \subseteq near
  <2>1. CusumWindowDays * DayTicks = DayTicks /\ DayTicks \in Nat
    BY StatsAssumption
  <2>2. a.at <= b.at /\ b.at - a.at <= DayTicks
    BY <1>3, <2>1 DEF FailedTogether
  <2>3. QED
    BY <1>2, <1>3, <2>1, <2>2
<1>5. IsFiniteSet(near) /\ Cardinality({a, b}) <= Cardinality(near)
  <2>1. near \subseteq events
    BY <1>1 DEF Failed
  <2>2. IsFiniteSet(near)
    BY <2>1, FS_Subset
  <2>3. QED
    BY <1>4, <2>2, FS_Subset
<1>6. Cardinality({a, b}) = 2
  <2>1. IsFiniteSet({a}) /\ Cardinality({a}) = 1
    BY FS_Singleton
  <2>2. Cardinality({a} \cup {b}) = Cardinality({a}) + 1
    BY <1>2, <2>1, FS_AddElement
  <2>3. {a} \cup {b} = {a, b}
    OBVIOUS
  <2>4. QED
    BY <2>1, <2>2, <2>3
<1>7. Cardinality(near) >= CusumFails
  BY <1>5, <1>6, FS_CardinalityType, StatsAssumption
<1>8. CusumTrip(win)
  BY <1>2, <1>7 DEF CusumTrip
<1>9. EvaluateDemotion("L4", events, time, FALSE, FALSE, FALSE).demote
  BY <1>8 DEF EvaluateDemotion
<1>10. QED
  BY <1>9 DEF AutofixRevocation, Decide

-----------------------------------------------------------------------------
(* Which outcomes are stored: one for each investigation that filed a      *)
(* verdict, and investigations are numbered as they are spawned.           *)
SpawnedInTurn ==
    /\ \E n \in Nat : Spawned = 1 .. n
    /\ \A i \in InvIds : inv[i].stage = "none" => inv[i].replica = Nobody
OutcomesFiled ==
    /\ IsFiniteSet(outcomes)
    /\ \A o \in outcomes : inv[o.id].verdict \in {"held", "failed"}
    /\ \A o, p \in outcomes : o.id = p.id => o = p
FiledInv == ClockTyped /\ SpawnedInTurn /\ OutcomesFiled

LEMMA FiledInit == ASSUME Init PROVE FiledInv
<1>1. Spawned = {}
  BY DEF Init, Spawned, NoInv
<1>2. Spawned = 1 .. 0 /\ \A i \in InvIds : inv[i].replica = Nobody
  BY <1>1 DEF Init, NoInv
<1>3. IsFiniteSet(outcomes) /\ outcomes = {}
  BY FS_EmptySet DEF Init
<1>4. QED
  BY <1>2, <1>3, ClockInit DEF FiledInv, SpawnedInTurn, OutcomesFiled

(* A step that spawns nothing and changes no filed verdict.                *)
LEMMA FiledFrame ==
    ASSUME FixInv, FiledInv, ClockTyped', outcomes' \subseteq outcomes,
           \A i \in InvIds : /\ inv'[i].stage = "none" <=> inv[i].stage = "none"
                             /\ inv'[i].replica = inv[i].replica
                             /\ inv[i].verdict \in {"held", "failed"} => inv'[i].verdict = inv[i].verdict
    PROVE  FiledInv'
<1>1. Spawned' = Spawned
  BY DEF Spawned
<1>2. IsFiniteSet(outcomes')
  BY FS_Subset DEF FiledInv, OutcomesFiled
<1>3. \A o \in outcomes' : o.id \in InvIds /\ inv'[o.id].verdict \in {"held", "failed"}
  BY DEF FiledInv, OutcomesFiled, ClockTyped
<1>4. QED
  BY <1>1, <1>2, <1>3 DEF FiledInv, SpawnedInTurn, OutcomesFiled

LEMMA FiledSpawn == ASSUME FixInv, FiledInv, ClockTyped', NEW f \in Findings, OnFinding(f) PROVE FiledInv'
<1> DEFINE i == Cardinality(Spawned) + 1
           new == [NoInv EXCEPT !.replica = leader, !.finding = f, !.stage = "spawned"]
<1>1. inv' = [inv EXCEPT ![i] = new] /\ new.stage = "spawned" /\ outcomes' = outcomes
      /\ i <= (IF flags.prospective THEN MaxRechecked ELSE MaxInv)
  BY DEF OnFinding, NoInv
<1>2. PICK n \in Nat : Spawned = 1 .. n
  BY DEF FiledInv, SpawnedInTurn
<1>3. i = n + 1
  <2>1. Cardinality(1 .. n) = n
    BY FS_Interval
  <2>2. QED
    BY <1>2, <2>1
<1> HIDE DEF new, i
<1>4. \A j \in InvIds : inv'[j] = IF j = i THEN new ELSE inv[j]
  BY <1>1 DEF FixInv, InvTyped
<1>5. i \notin Spawned
  BY <1>2, <1>3
<1>6. \A o \in outcomes : o.id \in InvIds /\ o.id # i
  <2>1. \A o \in outcomes : o.id \in InvIds /\ inv[o.id].verdict \in {"held", "failed"}
    BY DEF FiledInv, ClockTyped, OutcomesFiled
  <2>2. \A o \in outcomes : inv[o.id].stage # "none"
    BY <2>1 DEF FixInv
  <2>3. QED
    BY <1>5, <2>1, <2>2 DEF Spawned
<1>7. OutcomesFiled' /\ \A j \in InvIds : inv'[j].stage = "none" => inv'[j].replica = Nobody
  BY <1>1, <1>4, <1>6 DEF FiledInv, OutcomesFiled, SpawnedInTurn
<1>8. SpawnedInTurn'
  <2>1. CASE i \in InvIds
    <3>1. Spawned' = Spawned \cup {i}
      BY <1>1, <1>4, <2>1 DEF Spawned
    <3>2. Spawned' = 1 .. (n + 1)
      BY <1>2, <1>3, <3>1
    <3>3. QED
      BY <1>7, <3>2 DEF SpawnedInTurn
  <2>2. CASE i \notin InvIds
    <3>1. Spawned' = Spawned
      BY <1>4, <2>2 DEF Spawned
    <3>2. QED
      BY <1>2, <1>7, <3>1 DEF SpawnedInTurn
  <2>3. QED
    BY <2>1, <2>2
<1>9. QED
  BY <1>7, <1>8 DEF FiledInv

LEMMA FiledOutcome == ASSUME FixInv, FiledInv, ClockTyped', NEW i \in InvIds, FileOutcome(i) PROVE FiledInv'
<1>1. PICK v \in {"unknown", "held", "failed"} :
         /\ outcomes' = IF v = "unknown" THEN outcomes
                        ELSE outcomes \union
                              {[at |-> now, ok |-> v = "held", id |-> i, critical |-> FALSE,
                                kind |-> inv[i].finding.playbook, created |-> now \div DayTicks]}
         /\ inv' = [inv EXCEPT ![i].verdict = v, ![i].filedAt = IF v = "unknown" THEN @ ELSE now]
  BY DEF FileOutcome
<1> DEFINE e == [at |-> now, ok |-> v = "held", id |-> i, critical |-> FALSE,
                 kind |-> inv[i].finding.playbook, created |-> now \div DayTicks]
<1>2. e.id = i
  OBVIOUS
<1>3. inv[i].verdict = "pending"
  BY DEF FileOutcome
<1>4. outcomes' = (IF v = "unknown" THEN outcomes ELSE outcomes \cup {e})
  BY <1>1
<1> HIDE DEF e
<1>5. \A j \in InvIds : /\ inv'[j].stage = inv[j].stage /\ inv'[j].replica = inv[j].replica
                        /\ inv'[j].verdict = IF j = i THEN v ELSE inv[j].verdict
  BY <1>1 DEF FixInv, InvTyped, Investigation
<1>6. \A o \in outcomes : o.id \in InvIds /\ o.id # i
  BY <1>3 DEF FiledInv, OutcomesFiled, ClockTyped
<1>7. Spawned' = Spawned
  BY <1>5 DEF Spawned
<1>8. IsFiniteSet(outcomes')
  BY <1>4, FS_AddElement DEF FiledInv, OutcomesFiled
<1>9. \A o \in outcomes' : inv'[o.id].verdict \in {"held", "failed"}
  BY <1>2, <1>4, <1>5, <1>6 DEF FiledInv, OutcomesFiled
<1>10. \A o, p \in outcomes' : o.id = p.id => o = p
  BY <1>2, <1>4, <1>6 DEF FiledInv, OutcomesFiled
<1>11. QED
  BY <1>5, <1>7, <1>8, <1>9, <1>10 DEF FiledInv, SpawnedInTurn, OutcomesFiled

LEMMA FiledStep == ASSUME FixInv, FiledInv, [Next]_vars PROVE FiledInv'
<1>0. ClockTyped'
  BY ClockStep DEF FiledInv
<1>1. CASE UNCHANGED <<inv, outcomes>>
  BY <1>0, <1>1, FiledFrame
<1>2. ASSUME NEW f \in Findings, OnFinding(f) PROVE FiledInv'
  BY <1>0, <1>2, FiledSpawn
<1>3. ASSUME NEW i \in InvIds, Watch(i) PROVE FiledInv'
  <2>1. CASE FileOutcome(i)
    BY <1>0, <2>1, FiledOutcome
  <2>2. CASE DecideFix(i) \/ Acquire(i) \/ Fix(i) \/ Return(i)
    <3>1. outcomes' = outcomes
      BY <2>2 DEF DecideFix, Acquire, Fix, Return
    <3>2. PICK stage \in Stages \ {"none"} :
             \A j \in InvIds : /\ inv'[j].stage = IF j = i THEN stage ELSE inv[j].stage
                               /\ inv'[j].replica = inv[j].replica
      <4>1. CASE DecideFix(i)
        BY <4>1 DEF DecideFix, FixInv, InvTyped, Investigation, Stages
      <4>2. CASE Acquire(i)
        BY <4>2 DEF Acquire, FixInv, InvTyped, Investigation, Stages
      <4>3. CASE Fix(i)
        BY <4>3 DEF Fix, FixInv, InvTyped, Investigation, Stages
      <4>4. CASE Return(i)
        BY <4>4 DEF Return, FixInv, InvTyped, Investigation, Stages
      <4>5. QED
        BY <2>2, <4>1, <4>2, <4>3, <4>4
    <3>3. inv[i].stage # "none"
      BY <2>2, AutonomyAssumption DEF DecideFix, Acquire, Fix, Return
    <3>4. \A j \in InvIds : inv[j].verdict \in {"held", "failed"} => inv'[j].verdict = inv[j].verdict
      <4>1. CASE DecideFix(i)
        BY <4>1 DEF DecideFix, FixInv, InvTyped, Investigation
      <4>2. CASE Acquire(i)
        BY <4>2 DEF Acquire, FixInv, InvTyped, Investigation
      <4>3. CASE Fix(i)
        BY <4>3 DEF Fix, FixInv, InvTyped, Investigation
      <4>4. CASE Return(i)
        BY <4>4 DEF Return, FixInv, InvTyped, Investigation
      <4>5. QED
        BY <2>2, <4>1, <4>2, <4>3, <4>4
    <3>5. \A j \in InvIds : inv'[j].stage = "none" <=> inv[j].stage = "none"
      BY <3>2, <3>3
    <3>6. QED
      BY <1>0, <3>1, <3>2, <3>4, <3>5, FiledFrame
  <2>3. QED
    BY <1>3, <2>1, <2>2 DEF Watch
<1>4. ASSUME NEW r \in Replicas, PruneOnce(r) PROVE FiledInv'
  <2>1. outcomes' \subseteq outcomes /\ inv' = inv
    BY <1>4 DEF PruneOnce
  <2>2. QED
    BY <1>0, <2>1, FiledFrame
<1>5. ASSUME NEW r \in Replicas, Restart(r) PROVE FiledInv'
  <2>1. /\ outcomes' = outcomes
        /\ inv' = [i \in InvIds |-> IF i \in Lost(r)
                     THEN [inv[i] EXCEPT !.stage = "done", !.verdict = IF @ = "pending" THEN "unknown" ELSE @]
                     ELSE inv[i]]
    BY <1>5 DEF Restart
  <2>2. \A i \in Lost(r) : inv[i].stage # "none"
    BY AutonomyAssumption DEF Lost, FiledInv, SpawnedInTurn
  <2>3. \A j \in InvIds : /\ inv'[j].stage = "none" <=> inv[j].stage = "none"
                          /\ inv'[j].replica = inv[j].replica
                          /\ inv[j].verdict \in {"held", "failed"} => inv'[j].verdict = inv[j].verdict
    BY <2>1, <2>2 DEF FixInv, InvTyped, Investigation
  <2>4. QED
    BY <1>0, <2>1, <2>3, FiledFrame
<1>6. CASE Tick \/ (\E r \in Replicas : Pass(r) \/ Failover(r)) \/ UNCHANGED vars
  <2>1. UNCHANGED <<inv, outcomes>>
    BY <1>6 DEF Tick, Pass, claimDue, Dispatch, Grade, Failover, vars
  <2>2. QED
    BY <1>1, <2>1
<1>7. QED
  BY <1>2, <1>3, <1>4, <1>5, <1>6 DEF Next

LEMMA FiledInvariant == Spec => []FiledInv
<1>1. FixInv /\ FiledInv /\ [Next]_vars => FiledInv'
  BY FiledStep
<1>2. QED
  BY FiledInit, FixInvariant, <1>1, PTL DEF Spec

(* Authority is given by a decision only, and not against the record.      *)
LEMMA GivenByDecision ==
    ASSUME FixInv, [Next]_vars, NEW i \in InvIds, ~inv[i].auto, inv'[i].auto, flags.promotion
    PROVE  ~AutofixRevocation(outcomes, now)
<1>1. CASE DecideFix(i)
  <2>1. PICK readable \in BOOLEAN :
          inv' = [inv EXCEPT ![i].stage = "queued",
                     ![i].auto = shouldAutoFix(inv[i].replica, inv[i].finding) /\ ~autofixRevoked(readable),
                     ![i].clean = (shouldAutoFix(inv[i].replica, inv[i].finding) /\ ~autofixRevoked(readable))
                                      => ~AutofixRevocation(outcomes, now)]
    BY <1>1 DEF DecideFix
  <2>2. PICK auto, clean :
          /\ inv' = [inv EXCEPT ![i].stage = "queued", ![i].auto = auto, ![i].clean = clean]
          /\ auto => ~autofixRevoked(readable)
    BY <2>1
  <2>3. inv'[i].auto = auto
    BY <2>2 DEF FixInv, InvTyped, Investigation
  <2>4. QED
    BY <2>2, <2>3 DEF autofixRevoked
<1>2. ASSUME NEW f \in Findings, OnFinding(f) PROVE FALSE
  <2> DEFINE k == Cardinality(Spawned) + 1
             new == [NoInv EXCEPT !.replica = leader, !.finding = f, !.stage = "spawned"]
  <2>1. inv' = [inv EXCEPT ![k] = new] /\ ~new.auto
    BY <1>2 DEF OnFinding, NoInv
  <2> HIDE DEF k, new
  <2>2. inv'[i] = IF i = k THEN new ELSE inv[i]
    BY <2>1 DEF FixInv, InvTyped
  <2>3. QED
    BY <2>1, <2>2
<1>3. ASSUME NEW j \in InvIds, Watch(j), ~DecideFix(i) PROVE FALSE
  <2>1. CASE DecideFix(j)
    <3>1. j # i /\ inv'[i] = inv[i]
      BY <1>3, <2>1 DEF DecideFix, FixInv, InvTyped
    <3>2. QED
      BY <3>1
  <2>2. CASE Acquire(j) \/ Fix(j) \/ FileOutcome(j) \/ Return(j)
    <3>1. inv'[i].auto = inv[i].auto
      <4>1. CASE Acquire(j)
        BY <4>1 DEF Acquire, FixInv, InvTyped, Investigation
      <4>2. CASE Fix(j)
        BY <4>2 DEF Fix, FixInv, InvTyped, Investigation
      <4>3. CASE FileOutcome(j)
        BY <4>3 DEF FileOutcome, FixInv, InvTyped, Investigation
      <4>4. CASE Return(j)
        BY <4>4 DEF Return, FixInv, InvTyped, Investigation
      <4>5. QED
        BY <2>2, <4>1, <4>2, <4>3, <4>4
    <3>2. QED
      BY <3>1
  <2>3. QED
    BY <1>3, <2>1, <2>2 DEF Watch
<1>4. ASSUME NEW r \in Replicas, Restart(r) PROVE FALSE
  <2>1. inv'[i] = IF i \in Lost(r)
                  THEN [inv[i] EXCEPT !.stage = "done", !.verdict = IF @ = "pending" THEN "unknown" ELSE @]
                  ELSE inv[i]
    BY <1>4 DEF Restart
  <2>2. inv'[i].auto = inv[i].auto
    BY <2>1 DEF FixInv, InvTyped, Investigation
  <2>3. QED
    BY <2>2
<1>5. CASE Tick \/ (\E r \in Replicas : Pass(r) \/ PruneOnce(r) \/ Failover(r)) \/ UNCHANGED vars
  BY <1>5 DEF Tick, Pass, claimDue, Dispatch, Grade, PruneOnce, Failover, vars
<1>6. QED
  BY <1>1, <1>2, <1>3, <1>4, <1>5 DEF Next

(* No decision gives the authority while two failures inside a day are in  *)
(* the window (stats.go CUSUMTrip, promotion.go EvaluateDemotion, trust.go *)
(* autofixRevoked).                                                        *)
FailuresInWindowRevoke ==
    [][flags.promotion =>
       \A i \in InvIds : ~inv[i].auto /\ inv'[i].auto =>
          ~\E a, b \in outcomes : FailedTogether(window(outcomes, now), a, b)]_vars

(* With the trigger the code has, it holds however many outcomes, replicas *)
(* and days there are.                                                     *)
THEOREM WindowAlwaysRevokes ==
    ASSUME CusumFails <= 2, CusumWindowDays = 1
    PROVE  Spec => FailuresInWindowRevoke
<1>1. FixInv /\ FiledInv /\ [Next]_vars =>
         [flags.promotion =>
            \A i \in InvIds : ~inv[i].auto /\ inv'[i].auto =>
               ~\E a, b \in outcomes : FailedTogether(window(outcomes, now), a, b)]_vars
  <2> SUFFICES ASSUME FixInv, FiledInv, [Next]_vars, flags.promotion,
                      NEW i \in InvIds, ~inv[i].auto, inv'[i].auto,
                      NEW a \in outcomes, NEW b \in outcomes, FailedTogether(window(outcomes, now), a, b)
               PROVE  FALSE
    OBVIOUS
  <2>1. now \in Int /\ IsFiniteSet(outcomes) /\ \A e \in outcomes : e.at \in Int
    BY AutonomyAssumption DEF FiledInv, ClockTyped, OutcomesFiled
  <2>2. AutofixRevocation(outcomes, now)
    BY <2>1, TogetherRevoke
  <2>3. QED
    BY <2>2, GivenByDecision
<1>2. QED
  BY <1>1, FixInvariant, FiledInvariant, PTL DEF Spec, FailuresInWindowRevoke

(* No more outcomes than the window holds: it holds all of its days.       *)
LEMMA WindowHoldsAll ==
    ASSUME FiledInv, MaxInv <= WindowMaxEvents, NEW a \in outcomes, now - a.at <= WindowMaxDays * DayTicks
    PROVE  a \in window(outcomes, now)
<1> DEFINE recents == {e \in outcomes : now - e.at <= WindowMaxDays * DayTicks}
           later == {f \in recents : Later(a, f)}
<1>1. IsFiniteSet(outcomes) /\ later \subseteq outcomes \ {a}
  <2>1. a.at \in Int /\ a.id \in Int
    BY AutonomyAssumption DEF FiledInv, ClockTyped, InvIds
  <2>2. ~Later(a, a)
    BY <2>1 DEF Later
  <2>3. a \notin later
    BY <2>2
  <2>4. QED
    BY <2>3 DEF FiledInv, OutcomesFiled
<1>2. Cardinality(outcomes) <= MaxInv
  <2>0. MaxInv \in Nat
    BY AutonomyAssumption
  <2>1. IsFiniteSet(1 .. MaxInv) /\ Cardinality(1 .. MaxInv) = MaxInv
    BY <2>0, FS_Interval
  <2> DEFINE g == [o \in outcomes |-> o.id]
  <2>2. g \in Injection(outcomes, 1 .. MaxInv)
    BY DEF FiledInv, ClockTyped, OutcomesFiled, InvIds, Injection, IsInjective
  <2>3. Cardinality(outcomes) <= Cardinality(1 .. MaxInv)
    BY <2>1, <2>2, FS_Injection
  <2>4. QED
    BY <2>1, <2>3
<1>3. Cardinality(later) < MaxInv
  <2>1. IsFiniteSet(outcomes \ {a}) /\ Cardinality(outcomes \ {a}) = Cardinality(outcomes) - 1
    BY <1>1, FS_RemoveElement
  <2>2. IsFiniteSet(later) /\ Cardinality(later) <= Cardinality(outcomes \ {a})
    BY <1>1, <2>1, FS_Subset
  <2>3. {Cardinality(later), Cardinality(outcomes), MaxInv} \subseteq Int
    BY <1>1, <2>2, FS_CardinalityType, AutonomyAssumption
  <2>4. QED
    BY <1>2, <2>1, <2>2, <2>3
<1>4. Cardinality(later) < WindowMaxEvents
  <2>1. Cardinality(later) \in Int /\ MaxInv \in Int /\ WindowMaxEvents \in Int
    <3>1. IsFiniteSet(later)
      BY <1>1, FS_Subset
    <3>2. QED
      BY <3>1, FS_CardinalityType, AutonomyAssumption, StatsAssumption
  <2>2. QED
    BY <1>3, <2>1
<1>5. a \in recents
  OBVIOUS
<1>6. a \in lastOf(recents, WindowMaxEvents)
  BY <1>4, <1>5 DEF lastOf
<1>7. QED
  BY <1>6 DEF window

(* The same of every two failures that are in the store and recent, as     *)
(* long as the window has room for them: an outcome that 200 later ones    *)
(* have pushed out of it no longer counts.  Autonomy!TwoFailuresRevoke.    *)
THEOREM TwoFailuresAlwaysRevoke ==
    ASSUME CusumFails <= 2, CusumWindowDays = 1, MaxInv <= WindowMaxEvents
    PROVE  Spec => TwoFailuresRevoke
<1>1. FiledInv /\ [flags.promotion =>
            \A i \in InvIds : ~inv[i].auto /\ inv'[i].auto =>
               ~\E a, b \in outcomes : FailedTogether(window(outcomes, now), a, b)]_vars
        => [flags.promotion =>
            \A i \in InvIds : ~inv[i].auto /\ inv'[i].auto =>
              ~\E a, b \in outcomes :
                 /\ a.id # b.id /\ ~a.ok /\ ~b.ok
                 /\ now - a.at <= WindowMaxDays * DayTicks /\ now - b.at <= WindowMaxDays * DayTicks
                 /\ a.at <= b.at /\ b.at <= a.at + DayTicks]_vars
  BY WindowHoldsAll DEF FailedTogether
<1>2. QED
  BY <1>1, WindowAlwaysRevokes, FiledInvariant, PTL DEF TwoFailuresRevoke, FailuresInWindowRevoke
=============================================================================
