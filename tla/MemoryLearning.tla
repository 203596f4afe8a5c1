--------------------------- MODULE MemoryLearning ---------------------------
(***************************************************************************)
(* What the memory learns from finished investigations.  A turn records    *)
(* its outcome, seeds or bumps a failure pattern and writes an episode, in *)
(* that order and as separate statements; the consolidation passes turn    *)
(* them, one pass after another and each a reading followed by writes,     *)
(* into detector candidates, inferred preferences, semantic rules and      *)
(* theme summaries, while people state preferences and reject rules.       *)
(*                                                                         *)
(* One cluster, one user, one playbook: every investigation here has the   *)
(* same root cause, so all of them are one pattern, one rule, one theme.   *)
(***************************************************************************)
EXTENDS Integers, Sequences, FiniteSets

CONSTANTS
    Turns,          \* investigations
    ActivateAt,     \* DefaultActivateAt
    MinOccur,       \* PREFERENCE_MIN_OCCURRENCES
    Nothing,        \* no row
    Deployments,    \* what may be switched on, and what investigations there find
    MaxSayings,     \* bound on what people say
    MaxMishaps      \* bound on failed statements, cut readings and restarts

Findings == UNION {d.findings : d \in Deployments}
Namespaces == {f.ns : f \in Findings}
Patterns == [count : Nat, recent : BOOLEAN]
Rules == [count : Nat, status : {"candidate", "active", "demoted"}]
Preferences == [source : {"inferred", "explicit"}, value : Namespaces]

ASSUME LearningBounds ==
    /\ ActivateAt \in Nat \ {0} /\ MinOccur \in Nat \ {0}
    /\ \A f \in Findings : {f.verified, f.sure} \subseteq BOOLEAN
    /\ Nothing \notin Patterns \cup Rules \cup Preferences

VARIABLES
    deployment,     \* its features: "preferences", "promotion", "summaries"
    turns,          \* each turn: where its recording is, and what it found
    outcomes,       \* rca_outcomes: the turns recorded
    episodes,       \* the episodes, by turn and trigger kind
    pattern,        \* the failure pattern, or Nothing
    candidate,      \* the learned detector was proposed
    preference,     \* user_prefs for default_namespace, or Nothing
    rule,           \* the semantic rule, or Nothing
    summary,        \* the members the theme summary counts
    pass,           \* the consolidation pass under way and what it read
    passFailures,       \* Liveness.passFailures
    word,           \* what people last said
    sayings, mishaps

learnVars == <<deployment, turns, outcomes, episodes, pattern, candidate, preference, rule, summary, pass, passFailures, word,
               sayings, mishaps>>
records == <<turns, outcomes, episodes, pattern>>
lessons == <<candidate, preference, rule, summary>>

NotStarted == [at |-> "not started"]
Resting == [name |-> "rest"]
LearnInit ==
    /\ deployment \in Deployments
    /\ turns = [t \in Turns |-> NotStarted] /\ outcomes = {} /\ episodes = {} /\ pattern = Nothing
    /\ candidate = FALSE /\ preference = Nothing /\ rule = Nothing /\ summary = 0
    /\ pass = [name |-> "backfill"] /\ passFailures = {}
    /\ word = [namespace |-> Nothing, rejected |-> FALSE] /\ sayings = 0 /\ mishaps = 0

InvestigatedNamespaces == {f.ns : f \in deployment.findings}
Mishap == mishaps < MaxMishaps /\ mishaps' = mishaps + 1
Smoothly == UNCHANGED mishaps
-----------------------------------------------------------------------------
(* memoryAdapter.Record: RecordOutcome and then WriteEpisode.              *)

RecordFrame == UNCHANGED <<deployment, lessons, pass, passFailures, word, sayings>>
To(t, where) == turns' = [turns EXCEPT ![t].at = where]
BeginRecord(t) ==
    /\ turns[t] = NotStarted
    /\ \E f \in deployment.findings :
          turns' = [turns EXCEPT ![t] = [at |-> "outcome", verified |-> f.verified, sure |-> f.sure, ns |-> f.ns]]
    /\ UNCHANGED <<outcomes, episodes, pattern>> /\ Smoothly /\ RecordFrame
(* Confidence of 0.9, a verified resolution, and no regression.            *)
EligibleUnverified(f) == f.sure \* the variant that asks for no verification
Eligible(f) == f.sure /\ f.verified
RecordOutcome(t) ==
    /\ turns[t].at = "outcome"
    /\ \/ /\ outcomes' = outcomes \cup {t} /\ Smoothly
          /\ To(t, IF Eligible(turns[t]) THEN "look" ELSE "episode")
       \/ UNCHANGED outcomes /\ To(t, "episode") /\ Mishap
    /\ UNCHANGED <<episodes, pattern>> /\ RecordFrame
(* maybeSeedPattern reads the pattern and then writes what it decided.     *)
LookUpPattern(t) ==
    /\ turns[t].at = "look"
    /\ \/ pattern = Nothing /\ To(t, "seed") /\ Smoothly
       \/ pattern # Nothing /\ To(t, IF pattern.recent THEN "refresh" ELSE "bump") /\ Smoothly
       \/ To(t, "episode") /\ Mishap
    /\ UNCHANGED <<outcomes, episodes, pattern>> /\ RecordFrame
Seeded == IF pattern = Nothing THEN [count |-> 1, recent |-> TRUE] ELSE pattern
WritePattern(t) ==
    /\ turns[t].at \in {"seed", "refresh", "bump"} /\ To(t, "episode")
    /\ \/ turns[t].at = "seed" /\ pattern' = Seeded /\ Smoothly
       \/ turns[t].at = "refresh" /\ pattern' = [pattern EXCEPT !.recent = TRUE] /\ Smoothly
       \/ turns[t].at = "bump" /\ pattern' = [pattern EXCEPT !.recent = TRUE, !.count = @ + 1] /\ Smoothly
       \/ UNCHANGED pattern /\ Mishap
    /\ UNCHANGED <<outcomes, episodes>> /\ RecordFrame
CooldownEnds ==
    /\ pattern # Nothing /\ pattern.recent /\ pattern' = [pattern EXCEPT !.recent = FALSE]
    /\ UNCHANGED <<turns, outcomes, episodes>> /\ Smoothly /\ RecordFrame
(* WriteEpisode: a write that came from a chat may be held by the guard    *)
(* (its rate, an injection pattern), an unverified one may be dropped as   *)
(* redundant, and the insert may fail; the turn is told of none of these.  *)
Episode(t, kind) == [turn |-> t, kind |-> kind, verified |-> turns[t].verified]
WriteEpisode(t) ==
    /\ turns[t].at = "episode" /\ To(t, "done")
    /\ \/ episodes' = episodes \cup {Episode(t, "live")} /\ Smoothly
       \/ UNCHANGED episodes /\ (Smoothly \/ Mishap)
    /\ UNCHANGED <<outcomes, pattern>> /\ RecordFrame
-----------------------------------------------------------------------------
(* Consolidator.RunOnce.  A pass that fails is noted and the next one runs. *)

Order == <<"backfill", "propose", "infer", "forget", "promote", "summarise", "drain">>
Runs(name) ==
    /\ name \in {"infer", "forget"} => "preferences" \in deployment.features
    /\ name = "promote" => "promotion" \in deployment.features
    /\ name = "summarise" => "summaries" \in deployment.features
AfterPass(name) ==
    LET next == {i \in DOMAIN Order : Runs(Order[i]) /\ \E j \in 1 .. i - 1 : Order[j] = name}
    IN  Order[CHOOSE i \in next : \A k \in next : i <= k]
PassFrame == UNCHANGED <<deployment, turns, outcomes, pattern, word, sayings>>
NextPass == pass' = [name |-> AfterPass(pass.name)]
Fails(tag) == Mishap /\ passFailures' = passFailures \cup {tag} /\ NextPass
Fine == Smoothly /\ UNCHANGED passFailures

Wake ==
    /\ pass = Resting /\ pass' = [name |-> "propose"]
    /\ UNCHANGED <<episodes, lessons, passFailures, mishaps>> /\ PassFrame
(* BackfillFromRCAOutcomes, at every start: the outcomes that no backfill  *)
(* copied yet, whether or not the turn wrote an episode of its own.        *)
Backfill ==
    /\ pass.name = "backfill"
    /\ \/ episodes' = episodes \cup {Episode(t, "backfill") : t \in outcomes} /\ NextPass /\ Fine
       \/ \E some \in SUBSET outcomes :
             episodes' = episodes \cup {Episode(t, "backfill") : t \in some} /\ Fails("backfilled")
    /\ UNCHANGED lessons /\ PassFrame
(* ProposeDetectorCandidates reads the patterns worth a detector; the      *)
(* insert does nothing when the candidate is there.                        *)
Read(what) == pass' = [name |-> pass.name, read |-> what]
HasRead == "read" \in DOMAIN pass
Recurring == pattern # Nothing /\ pattern.count >= 2
ReadPatterns ==
    /\ pass.name = "propose" /\ ~HasRead
    /\ \/ Read(Recurring) /\ Fine
       \/ Fails("detector_candidates")
    /\ UNCHANGED <<episodes, lessons>> /\ PassFrame
Propose ==
    /\ pass.name = "propose" /\ HasRead /\ NextPass /\ UNCHANGED passFailures
    /\ \/ candidate' = (candidate \/ pass.read) /\ Smoothly
       \/ UNCHANGED candidate /\ Mishap
    /\ UNCHANGED <<episodes, preference, rule, summary>> /\ PassFrame
(* InferFromBehaviour: the namespace with MinOccur outcomes and 60% of     *)
(* them all.  A cursor that breaks half way is taken for a complete one.   *)
In(some, ns) == {t \in some : turns[t].ns = ns}
Concentrated(some) ==
    {ns \in InvestigatedNamespaces : /\ Cardinality(In(some, ns)) >= MinOccur
                         /\ 10 * Cardinality(In(some, ns)) >= 6 * Cardinality(some)}
ReadBehaviour ==
    /\ pass.name = "infer" /\ ~HasRead
    /\ \/ Read(Concentrated(outcomes)) /\ Fine
       \/ \E cut \in SUBSET InvestigatedNamespaces :
             Read(Concentrated({t \in outcomes : turns[t].ns \in cut})) /\ UNCHANGED passFailures /\ Mishap
       \/ Fails("prefs_inferred")
    /\ UNCHANGED <<episodes, lessons>> /\ PassFrame
(* SetPreference "inferred": never over what the operator set.             *)
(* A variant takes the latest for the truest.                              *)
InferredOver(p, ns) == [source |-> "inferred", value |-> ns]
Inferred(p, ns) ==
    IF p # Nothing /\ p.source = "explicit" THEN p ELSE [source |-> "inferred", value |-> ns]
Infer ==
    /\ pass.name = "infer" /\ HasRead /\ NextPass /\ UNCHANGED passFailures
    /\ \/ /\ Smoothly
          /\ IF pass.read = {} THEN UNCHANGED preference ELSE \E ns \in pass.read : preference' = Inferred(preference, ns)
       \/ UNCHANGED preference /\ Mishap
    /\ UNCHANGED <<episodes, candidate, rule, summary>> /\ PassFrame
(* DecayAndForget: what is inferred, below the confidence floor and old.   *)
(* A share is above the floor, so what InferFromBehaviour wrote stays.     *)
DecayAndForget ==
    /\ pass.name = "forget"
    /\ \/ NextPass /\ Fine
       \/ Fails("prefs_forgotten")
    /\ UNCHANGED <<episodes, lessons>> /\ PassFrame
(* PromoteFromEpisodes groups the verified episodes and records a rule;    *)
(* RecordRule bumps it in one statement, and a demoted rule stays demoted. *)
ReadEpisodes ==
    /\ pass.name \in {"promote", "summarise"} /\ ~HasRead
    /\ \/ Read(episodes) /\ Fine
       \/ Fails(pass.name)
    /\ UNCHANGED <<episodes, lessons>> /\ PassFrame
VerifiedIn(eps) == {e \in eps : e.verified}
Bumped(n) == IF n < ActivateAt THEN n + 1 ELSE n \* the count itself has no other use
(* A variant lets a recurrence overrule the rejection.                     *)
RecordRuleAnyway(r) ==
    IF r = Nothing THEN [count |-> 1, status |-> "candidate"]
    ELSE [count |-> Bumped(r.count), status |-> IF r.count + 1 >= ActivateAt THEN "active" ELSE r.status]
RecordRule(r) ==
    IF r = Nothing THEN [count |-> 1, status |-> "candidate"]
    ELSE [count |-> Bumped(r.count),
          status |-> IF r.status # "demoted" /\ r.count + 1 >= ActivateAt THEN "active" ELSE r.status]
Promote ==
    /\ pass.name = "promote" /\ HasRead /\ NextPass /\ UNCHANGED passFailures
    /\ \/ /\ Smoothly
          /\ rule' = IF Cardinality(VerifiedIn(pass.read)) >= ActivateAt THEN RecordRule(rule) ELSE rule
       \/ UNCHANGED rule /\ Mishap
    /\ UNCHANGED <<episodes, candidate, preference, summary>> /\ PassFrame
(* BuildSummaryTree: rewritten when the theme's member count moved.        *)
BuildSummaryTree ==
    /\ pass.name = "summarise" /\ HasRead /\ NextPass /\ UNCHANGED passFailures
    /\ \/ summary' = Cardinality(pass.read) /\ Smoothly
       \/ UNCHANGED summary /\ Mishap
    /\ UNCHANGED <<episodes, candidate, preference, rule>> /\ PassFrame
DrainPassFailures ==
    /\ pass.name = "drain" /\ pass' = Resting /\ passFailures' = {}
    /\ UNCHANGED <<episodes, lessons, mishaps>> /\ PassFrame
(* A restart loses the recordings under way and backfills again.           *)
RestartLearning ==
    /\ Mishap /\ pass' = [name |-> "backfill"] /\ passFailures' = {}
    /\ turns' = [t \in Turns |-> IF turns[t] = NotStarted THEN NotStarted ELSE [turns[t] EXCEPT !.at = "done"]]
    /\ UNCHANGED <<deployment, outcomes, episodes, pattern, lessons, word, sayings>>
-----------------------------------------------------------------------------
(* What people say: the preference endpoints, and a rule that is rejected. *)

SayFrame == UNCHANGED <<deployment, records, candidate, summary, pass, passFailures, mishaps>>
Says == sayings < MaxSayings /\ sayings' = sayings + 1
SetPreference(ns) ==
    /\ "preferences" \in deployment.features /\ Says
    /\ preference' = [source |-> "explicit", value |-> ns] /\ word' = [word EXCEPT !.namespace = ns]
    /\ UNCHANGED rule /\ SayFrame
ForgetPreference ==
    /\ "preferences" \in deployment.features /\ Says
    /\ preference' = Nothing /\ word' = [word EXCEPT !.namespace = Nothing]
    /\ UNCHANGED rule /\ SayFrame
DemoteRule ==
    /\ Says /\ rule # Nothing /\ rule' = [rule EXCEPT !.status = "demoted"] /\ word' = [word EXCEPT !.rejected = TRUE]
    /\ UNCHANGED preference /\ SayFrame

LearnNext ==
    \/ \E t \in Turns : BeginRecord(t) \/ RecordOutcome(t) \/ LookUpPattern(t) \/ WritePattern(t) \/ WriteEpisode(t)
    \/ CooldownEnds
    \/ Wake \/ Backfill \/ ReadPatterns \/ Propose \/ ReadBehaviour \/ Infer \/ DecayAndForget
    \/ ReadEpisodes \/ Promote \/ BuildSummaryTree \/ DrainPassFailures \/ RestartLearning
    \/ \E ns \in InvestigatedNamespaces : SetPreference(ns)
    \/ ForgetPreference \/ DemoteRule
LearnSpec == LearnInit /\ [][LearnNext]_learnVars
-----------------------------------------------------------------------------
(* What is learned was earned: behind a learned detector there are two     *)
(* verified, confident investigations; behind an active rule, verified     *)
(* episodes that recur; behind an inferred preference, outcomes in that    *)
(* namespace.  Races of the pattern's reading and writing may lose counts, *)
(* and never invent one.                                                   *)
LearnedIsEarned ==
    /\ candidate => Cardinality({t \in outcomes : turns[t].verified /\ turns[t].sure}) >= 2
    /\ rule # Nothing => Cardinality(VerifiedIn(episodes)) >= ActivateAt
    /\ preference # Nothing /\ preference.source = "inferred" => Cardinality(In(outcomes, preference.value)) >= MinOccur
(* What a person said stands: a stated preference is what is stored until  *)
(* they change it, whatever a pass that read the behaviour before decides; *)
(* a rejected rule is never active again.                                  *)
HumanWordStands ==
    /\ word.namespace # Nothing => preference = [source |-> "explicit", value |-> word.namespace]
    /\ word.rejected => rule.status = "demoted"
(* What rules.go promises of a rule: "verified, recurring episodes", so    *)
(* more than one investigation.                                            *)
RulesAreRecurrent ==
    rule # Nothing /\ rule.status = "active" => Cardinality({e.turn : e \in VerifiedIn(episodes)}) >= ActivateAt
=============================================================================
