--------------------------- MODULE DetectorEngine ---------------------------
(***************************************************************************)
(* The detector engine (internal/detect/engine.go, models.go): predicates  *)
(* evaluated over observations, debounce, transition dedup, the one second *)
(* tick that fires armed keys and forgets old ones, and the slower sweep   *)
(* that projects metrics.  Detectors of the compiled playbooks are joined  *)
(* by the stored ones: active ones act, shadow ones only leave a trace.    *)
(*                                                                         *)
(* Times are ages in clock ticks, saturated at AgeCap: only differences up *)
(* to the debounce and the time to live are ever compared.                 *)
(***************************************************************************)
EXTENDS Sensorium

CONSTANTS
    Names,        \* detectors
    Playbook,     \* Playbook[n]: the name detector n bears, by which the engine keys its state
    BaseNames,    \* a sequence: those of the compiled playbooks
    Debounce,     \* Debounce[n], ticks
    ArmTTL,       \* eventArmTTL
    RefireTTL,    \* predictedRefireTTL
    Trends,       \* answers of the metrics source: "quiet", "crossing" or "down"
    ProtectedNamespaces

BaseSet == ToSet(BaseNames)
AgeCap == 1 + ArmTTL + RefireTTL + MaxLag
Cap(a) == IF a > AgeCap THEN AgeCap ELSE a
NoKey == [armed |-> 0, quiet |-> 0, fired |-> FALSE, evidence |-> "none"]
Key(n, o) == <<Playbook[n], o>>
HasKey(ks, n, o) == Key(n, o) \in DOMAIN ks
NoSweep == [pc |-> "idle", i |-> 1, n |-> 0, block |-> "none"]

ASSUME EngineAssumption ==
    /\ BaseNames \in Seq(Names)
    /\ \A n, m \in BaseSet : Playbook[n] = Playbook[m] => n = m
    /\ \A n \in Names : Debounce[n] \in Nat
    /\ {ArmTTL, RefireTTL} \subseteq Nat
    /\ Trends \subseteq {"quiet", "crossing", "down"}

VARIABLES
    loaded,      \* Engine.Detectors and Shadow: [active, shadow], sequences of names
    blocks,      \* the block each loaded stored detector was compiled to
    keys,        \* states: keys[<<playbook, object>>] of the acting detectors
    shadowKeys,  \* shadowStates
    predicted,   \* predictedFired: age of the last prediction per key
    blind,       \* blindSince # 0: the last metrics query failed
    sweep,       \* EvaluateTrends: where its loop stands
    findings,    \* findings handed to OnFinding: {[detector, object, source, evidence]}
    shadowSeen   \* findings of the shadow ring

engineVars == <<loaded, blocks, keys, shadowKeys, predicted, blind, sweep, findings, shadowSeen>>

-----------------------------------------------------------------------------
(* Predicates.  A status or reason pattern is the set it matches, and the  *)
(* set of the strings it can produce; a trend is known by its answers.     *)

Matches(p, obs) ==
    \/ p.kind = "Pod" /\ obs.kind = "pod_status" /\ obs.status \in p.matches
    \/ p.kind = "Event" /\ obs.kind = "event" /\ obs.status \in p.matches
BlockOf(n) == blocks[n]
matches(n, obs) == \E p \in BlockOf(n).watch : Matches(p, obs)
hasStatusKind(n) == \E p \in BlockOf(n).watch : p.kind \in {"Pod", "Node"}

(* Event text of a protected namespace is withheld from the evidence. *)
summarise(obs) ==
    IF obs.kind = "event"
    THEN IF NsOf[obs.object] \in ProtectedNamespaces THEN "withheld" ELSE "message"
    ELSE "status"

DropKeys(ks, gone) == [k \in DOMAIN ks \ gone |-> ks[k]]
SetKey(ks, k, st) == [x \in DOMAIN ks \cup {k} |-> IF x = k THEN st ELSE ks[x]]
-----------------------------------------------------------------------------
(* advance: what one observation does to the key of a detector.            *)

Proof(obs) == obs.kind = "pod_status" /\ obs.type = "DELETED"
Arm(ks, n, obs) ==
    IF HasKey(ks, n, obs.object)
    THEN [ks[Key(n, obs.object)] EXCEPT !.quiet = obs.lag]
    ELSE [armed |-> obs.lag, quiet |-> obs.lag, fired |-> FALSE, evidence |-> summarise(obs)]

(* Variant of advance: any observation that does not match clears the key. *)
advanceEventClears(ks, n, obs) ==
    LET k == Key(n, obs.object)
    IN  IF ~Proof(obs) /\ matches(n, obs) THEN SetKey(ks, k, Arm(ks, n, obs)) ELSE DropKeys(ks, {k})

advance(ks, n, obs) ==
    LET k == Key(n, obs.object)
    IN  IF ~Proof(obs) /\ matches(n, obs) THEN SetKey(ks, k, Arm(ks, n, obs))
        ELSE IF obs.kind = "pod_status" /\ hasStatusKind(n) THEN DropKeys(ks, {k}) ELSE ks

(* Whether it fires on this very observation. *)
FiresNow(ks, n, obs) ==
    /\ ~Proof(obs) /\ matches(n, obs)
    /\ LET st == Arm(ks, n, obs) IN ~st.fired /\ st.armed - obs.lag >= Debounce[n]

Fired(ks, ns, o) == [k \in DOMAIN ks |-> IF k \in {Key(n, o) : n \in ns} THEN [ks[k] EXCEPT !.fired = TRUE] ELSE ks[k]]
Finding(n, o, st, source) == [detector |-> n, object |-> o, source |-> source, evidence |-> st.evidence]

(* Detectors of different names: each one's key is advanced by it alone.   *)
Bearer(ns, name) == CHOOSE n \in ns : Playbook[n] = name
AdvanceAll(ks, ns, obs) ==
    LET own == {Key(n, obs.object) : n \in ns}
        step(k) == advance(ks, Bearer(ns, k[1]), obs)
        kept == {k \in own : k \in DOMAIN step(k)}
    IN  [k \in (DOMAIN ks \ own) \cup kept |-> IF k \in own THEN step(k)[k] ELSE ks[k]]
Firing(ks, ns, obs) == {n \in ns : FiresNow(ks, n, obs)}
Pass(ks, ns, obs) == Fired(AdvanceAll(ks, ns, obs), Firing(ks, ns, obs), obs.object)
Findings(ks, ns, obs) ==
    {Finding(n, obs.object, Pass(ks, ns, obs)[Key(n, obs.object)], "watch") : n \in Firing(ks, ns, obs)}

(* Process: the detectors see the observation in the order of the list,    *)
(* the compiled ones before the stored ones, and findings of the acting    *)
(* ones are published and handed on, those of the shadow ones only kept.   *)
(* Two compiled ones have different names and so have two stored ones, but *)
(* a stored one may bear a compiled one's name: it then finds the key the  *)
(* other has just armed, and may fire it or delete it.                     *)
Process(obs) ==
    LET stored == ToSet(loaded.active) \ BaseSet
        sh == ToSet(loaded.shadow)
        met == Pass(keys, BaseSet, obs)
    IN  /\ keys' = Pass(met, stored, obs)
        /\ findings' = findings \cup Findings(keys, BaseSet, obs) \cup Findings(met, stored, obs)
        /\ shadowKeys' = Pass(shadowKeys, sh, obs)
        /\ shadowSeen' = shadowSeen \cup {<<n, obs.object>> : n \in Firing(shadowKeys, sh, obs)}
        /\ UNCHANGED <<loaded, blocks, predicted, blind, sweep>>

(* byName: the first detector of the list that bears the name.             *)
Bears(ds, i, name) == Playbook[ds[i]] = name
byName(ds, name) ==
    ds[CHOOSE i \in DOMAIN ds : Bears(ds, i, name) /\ \A j \in DOMAIN ds : Bears(ds, j, name) => i <= j]

(* Tick: armed keys past their debounce fire, fired ones without a match   *)
(* for the time to live are forgotten, and so are those of a name that is  *)
(* no longer loaded.  Unfired shadow keys and fired ones stay.             *)
(* Variant of Due that fires only on the very second of the debounce.      *)
DueExact(ks, k, n) == ~ks[k].fired /\ ks[k].armed = Debounce[n]
Due(ks, k, n) == ~ks[k].fired /\ ks[k].armed >= Debounce[n]
Expired(ks, k) == ks[k].fired /\ ks[k].quiet > ArmTTL
Orphans(ks, ds) == {k \in DOMAIN ks : \A i \in DOMAIN ds : ~Bears(ds, i, k[1])}
FireDue(ks, due) == [k \in DOMAIN ks |-> IF k \in due THEN [ks[k] EXCEPT !.fired = TRUE] ELSE ks[k]]

DueKeys(ks, ds) == {k \in DOMAIN ks \ Orphans(ks, ds) : Due(ks, k, byName(ds, k[1]))}
Tick ==
    LET due == DueKeys(keys, loaded.active)
        old == {k \in DOMAIN keys : Expired(keys, k)}
        traced == DueKeys(shadowKeys, loaded.shadow)
    IN  /\ keys' = DropKeys(FireDue(keys, due), Orphans(keys, loaded.active) \cup old)
        /\ findings' = findings \cup {Finding(byName(loaded.active, k[1]), k[2], keys[k], "watch") : k \in due}
        /\ shadowKeys' = DropKeys(FireDue(shadowKeys, traced), Orphans(shadowKeys, loaded.shadow))
        /\ shadowSeen' = shadowSeen \cup {<<byName(loaded.shadow, k[1]), k[2]>> : k \in traced}
        /\ UNCHANGED <<loaded, blocks, predicted, blind, sweep>>

Aged(ks) == [k \in DOMAIN ks |-> [ks[k] EXCEPT !.armed = Cap(@ + 1), !.quiet = Cap(@ + 1)]]
-----------------------------------------------------------------------------
(* EvaluateTrends.  The loop's length is read once; the list is read again *)
(* at every turn, without the lock, and queries run between the turns.     *)

SweepStart ==
    /\ sweep.pc = "idle" /\ dep.predictive
    /\ sweep' = [pc |-> "next", i |-> 1, n |-> Len(loaded.active), block |-> "none"]
    /\ UNCHANGED <<loaded, blocks, keys, shadowKeys, predicted, blind, findings, shadowSeen>>

InRange == sweep.i <= Len(loaded.active)
SweepNext ==
    /\ sweep.pc = "next"
    /\ sweep' = IF sweep.i > sweep.n THEN NoSweep
                ELSE IF ~InRange THEN [sweep EXCEPT !.pc = "panic"]
                ELSE IF BlockOf(loaded.active[sweep.i]).trend = {} THEN [sweep EXCEPT !.i = @ + 1]
                ELSE [sweep EXCEPT !.pc = "querying", !.block = loaded.active[sweep.i]]
    /\ UNCHANGED <<loaded, blocks, keys, shadowKeys, predicted, blind, findings, shadowSeen>>

(* The answer: a crossing inside the horizon fires, unless the key fired a *)
(* prediction less than the refire time ago.                               *)
projectSeries(n, o) == HasKey(predicted, n, o) => predicted[Key(n, o)] >= RefireTTL
SweepAnswer(answer, o) ==
    /\ sweep.pc = "querying"
    /\ sweep' = [sweep EXCEPT !.pc = "next", !.i = @ + 1, !.block = "none"]
    /\ blind' = (answer = "down")
    /\ IF answer = "crossing" /\ projectSeries(sweep.block, o)
       THEN /\ predicted' = SetKey(predicted, Key(sweep.block, o), 0)
            /\ findings' = findings \cup {Finding(sweep.block, o, [evidence |-> "predicted"], "trend")}
       ELSE UNCHANGED <<predicted, findings>>
    /\ UNCHANGED <<loaded, blocks, keys, shadowKeys, shadowSeen>>

(* Variant of SetStored: the candidates join the acting detectors.         *)
SetStoredShadowActs(active, shadow, compiled) ==
    /\ loaded' = [active |-> BaseNames \o active \o shadow, shadow |-> << >>]
    /\ blocks' = compiled
    /\ UNCHANGED <<keys, shadowKeys, predicted, blind, sweep, findings, shadowSeen>>

(* SetStoredDetectors. *)
SetStored(active, shadow, compiled) ==
    /\ loaded' = [active |-> BaseNames \o active, shadow |-> shadow]
    /\ blocks' = compiled
    /\ UNCHANGED <<keys, shadowKeys, predicted, blind, sweep, findings, shadowSeen>>
=============================================================================
