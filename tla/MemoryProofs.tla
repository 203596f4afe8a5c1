----------------------------- MODULE MemoryProofs ----------------------------
(***************************************************************************)
(* Theorems about what the memory learns, what it adds to an investigation,*)
(* and what its audit says, for any number of investigations, replicas,    *)
(* thresholds, sayings and mishaps.                                        *)
(*                                                                         *)
(* Between the reading and the writing of a pass, and between the steps of *)
(* a recording, other steps happen; LearnInv therefore says of everything  *)
(* that is read and not yet written what the lesson needs (PassEarned,     *)
(* Recorded), and rests on records that only grow.  The context and the    *)
(* audit have their own invariants, ContextInv and AuditInv.               *)
(***************************************************************************)
EXTENDS MemoryLearning, MemoryContext, MemoryAudit, FiniteSetTheorems, SequenceTheorems, TLAPS

Pending == {"look", "seed", "refresh", "bump"}
Places == {"outcome", "episode", "done"} \cup Pending
Recordings == [at : Places, verified : BOOLEAN, sure : BOOLEAN, ns : Namespaces]

LearnTypeOK ==
    /\ deployment \in Deployments
    /\ turns \in [Turns -> {NotStarted} \cup Recordings]
    /\ outcomes \subseteq Turns /\ IsFiniteSet(outcomes) /\ IsFiniteSet(episodes)
    /\ pattern \in Patterns \cup {Nothing} /\ candidate \in BOOLEAN
    /\ preference \in Preferences \cup {Nothing} /\ rule \in Rules \cup {Nothing}
    /\ word \in [namespace : Namespaces \cup {Nothing}, rejected : BOOLEAN]

(* What was recorded was investigated, and stays as it was found; only     *)
(* what is worth a pattern ever looks for one.                             *)
Recorded ==
    /\ \A t \in outcomes : turns[t] # NotStarted /\ turns[t].at # "outcome"
    /\ \A t \in Turns : turns[t].at \in Pending => t \in outcomes /\ turns[t].verified /\ turns[t].sure
    /\ \A t \in Turns : turns[t].at \in {"refresh", "bump"} => pattern # Nothing

Earned == {t \in outcomes : turns[t].verified /\ turns[t].sure}
(* A recurrence is counted once at most, when its recording has passed the *)
(* pattern.                                                                *)
Counted == {t \in Earned : turns[t].at \notin Pending}
PatternEarned == pattern # Nothing => pattern.count <= Cardinality(Counted)

PassEarned ==
    HasRead =>
        /\ pass.name = "propose" => (pass.read => Cardinality(Earned) >= 2)
        /\ pass.name = "infer" => \A ns \in pass.read : ns \in Namespaces /\ Cardinality(In(outcomes, ns)) >= MinOccur
        /\ pass.name = "promote" => pass.read \subseteq episodes

RejectedRuleKept == word.rejected => rule # Nothing

LearnInv ==
    /\ LearnTypeOK /\ Recorded /\ PatternEarned /\ PassEarned
    /\ LearnedIsEarned /\ HumanWordStands /\ RejectedRuleKept

(***************************************************************************)
(* Records that grow.                                                      *)
(***************************************************************************)
RecordsGrow ==
    /\ outcomes \subseteq outcomes' /\ episodes \subseteq episodes'
    /\ \A t \in outcomes : /\ turns'[t].verified = turns[t].verified /\ turns'[t].sure = turns[t].sure
                           /\ turns'[t].ns = turns[t].ns

LEMMA NoMoreThan ==
  ASSUME NEW S, NEW T, IsFiniteSet(T), S \subseteq T
  PROVE  IsFiniteSet(S) /\ Cardinality(S) \in Nat /\ Cardinality(T) \in Nat /\ Cardinality(S) <= Cardinality(T)
  BY FS_Subset, FS_CardinalityType

LEMMA EarnedGrow ==
  ASSUME LearnTypeOK, LearnTypeOK', RecordsGrow
  PROVE  /\ Cardinality(Earned) \in Nat /\ Cardinality(Earned') \in Nat
         /\ Cardinality(Earned) <= Cardinality(Earned')
<1>1. Earned \subseteq Earned'
  BY DEF Earned, RecordsGrow
<1>2. IsFiniteSet(Earned')
  BY FS_Subset DEF LearnTypeOK, Earned
<1>3. QED
  BY <1>1, <1>2, NoMoreThan

LEMMA OutcomesGrow ==
  ASSUME LearnTypeOK, LearnTypeOK', RecordsGrow, NEW ns
  PROVE  /\ Cardinality(In(outcomes, ns)) \in Nat /\ Cardinality(In(outcomes, ns)') \in Nat
         /\ Cardinality(In(outcomes, ns)) <= Cardinality(In(outcomes, ns)')
<1>1. In(outcomes, ns) \subseteq In(outcomes, ns)'
  BY DEF In, RecordsGrow
<1>2. IsFiniteSet(In(outcomes, ns)')
  BY FS_Subset DEF LearnTypeOK, In
<1>3. QED
  BY <1>1, <1>2, NoMoreThan

LEMMA VerifiedGrow ==
  ASSUME LearnTypeOK', NEW eps, eps \subseteq episodes'
  PROVE  /\ Cardinality(VerifiedIn(eps)) \in Nat /\ Cardinality(VerifiedIn(episodes)') \in Nat
         /\ Cardinality(VerifiedIn(eps)) <= Cardinality(VerifiedIn(episodes)')
<1>1. VerifiedIn(eps) \subseteq VerifiedIn(episodes)'
  BY DEF VerifiedIn
<1>2. IsFiniteSet(VerifiedIn(episodes)')
  BY FS_Subset DEF LearnTypeOK, VerifiedIn
<1>3. QED
  BY <1>1, <1>2, NoMoreThan

(* What was learned stays earned while the records grow.                   *)
LEMMA EarnedStays ==
  ASSUME LearnInv, LearnTypeOK', RecordsGrow, UNCHANGED lessons
  PROVE  LearnedIsEarned'
<1>1. LearnTypeOK /\ LearnedIsEarned /\ candidate' = candidate /\ rule' = rule /\ preference' = preference
  BY DEF LearnInv, lessons
<1>2. candidate' => Cardinality(Earned)' >= 2
  BY <1>1, EarnedGrow DEF LearnedIsEarned, Earned
<1>3. ASSUME rule' # Nothing
      PROVE  Cardinality(VerifiedIn(episodes)') >= ActivateAt
  <2>1. Cardinality(VerifiedIn(episodes)) >= ActivateAt
    BY <1>1, <1>3 DEF LearnedIsEarned
  <2>2. /\ Cardinality(VerifiedIn(episodes)) \in Nat /\ Cardinality(VerifiedIn(episodes)') \in Nat
        /\ Cardinality(VerifiedIn(episodes)) <= Cardinality(VerifiedIn(episodes)')
    BY VerifiedGrow DEF RecordsGrow
  <2>3. QED
    BY <2>1, <2>2, LearningBounds
<1>4. ASSUME preference' # Nothing, preference'.source = "inferred"
      PROVE  Cardinality(In(outcomes, preference.value)') >= MinOccur
  <2>1. Cardinality(In(outcomes, preference.value)) >= MinOccur
    BY <1>1, <1>4 DEF LearnedIsEarned
  <2>2. PICK ns : ns = preference.value
    OBVIOUS
  <2>3. /\ Cardinality(In(outcomes, ns)) \in Nat /\ Cardinality(In(outcomes, ns)') \in Nat
        /\ Cardinality(In(outcomes, ns)) <= Cardinality(In(outcomes, ns)')
    BY <1>1, OutcomesGrow
  <2>4. QED
    BY <1>1, <2>1, <2>2, <2>3, LearningBounds DEF In
<1>5. QED
  BY <1>1, <1>2, <1>3, <1>4 DEF LearnedIsEarned, Earned, In

(* What a pass has read stays true while the records grow.                 *)
LEMMA ReadStays ==
  ASSUME LearnInv, LearnTypeOK', RecordsGrow, pass' = pass
  PROVE  PassEarned'
<1>1. LearnTypeOK /\ PassEarned
  BY DEF LearnInv
<1>2. Cardinality(Earned) >= 2 => Cardinality(Earned)' >= 2
  BY <1>1, EarnedGrow
<1>3. ASSUME NEW ns, Cardinality(In(outcomes, ns)) >= MinOccur
      PROVE  Cardinality(In(outcomes, ns)') >= MinOccur
  BY <1>1, <1>3, OutcomesGrow, LearningBounds
<1>4. QED
  BY <1>1, <1>2, <1>3 DEF PassEarned, HasRead, RecordsGrow, In

LEMMA RecordingKeeps ==
  ASSUME LearnInv, LearnTypeOK', Recorded', PatternEarned', RecordsGrow, RecordFrame
  PROVE  LearnInv'
<1>1. LearnedIsEarned' /\ PassEarned'
  BY EarnedStays, ReadStays DEF RecordFrame
<1>2. QED
  BY <1>1 DEF LearnInv, RecordFrame, lessons, HumanWordStands, RejectedRuleKept

(***************************************************************************)
(* The steps of a recording.                                               *)
(***************************************************************************)
(* A turn that changes only where its recording is.                        *)
LEMMA OnlyMoves ==
  ASSUME LearnTypeOK, NEW t \in Turns, turns[t] # NotStarted, NEW where \in Places,
         To(t, where), outcomes \subseteq outcomes', episodes \subseteq episodes'
  PROVE  /\ turns' \in [Turns -> {NotStarted} \cup Recordings]
         /\ turns'[t] # NotStarted /\ turns'[t].at = where
         /\ turns'[t].verified = turns[t].verified /\ turns'[t].sure = turns[t].sure
         /\ \A u \in Turns \ {t} : turns'[u] = turns[u]
         /\ RecordsGrow
<1>1. turns \in [Turns -> {NotStarted} \cup Recordings] /\ outcomes \subseteq Turns
  BY DEF LearnTypeOK
<1>2. turns[t] \in Recordings
  BY <1>1
<1>3. turns' = [turns EXCEPT ![t] = [turns[t] EXCEPT !.at = where]]
  BY DEF To
<1>4. /\ [turns[t] EXCEPT !.at = where] \in Recordings
      /\ [turns[t] EXCEPT !.at = where].at = where
      /\ [turns[t] EXCEPT !.at = where].verified = turns[t].verified
      /\ [turns[t] EXCEPT !.at = where].sure = turns[t].sure
      /\ [turns[t] EXCEPT !.at = where].ns = turns[t].ns
      /\ [turns[t] EXCEPT !.at = where] # NotStarted
  BY <1>2 DEF Recordings, NotStarted
<1>5. /\ turns' \in [Turns -> {NotStarted} \cup Recordings]
      /\ turns'[t] = [turns[t] EXCEPT !.at = where]
      /\ \A u \in Turns \ {t} : turns'[u] = turns[u]
  BY <1>1, <1>3, <1>4
<1>6. RecordsGrow
  BY <1>1, <1>4, <1>5 DEF RecordsGrow
<1>7. QED
  BY <1>4, <1>5, <1>6

LEMMA BeginKeeps ==
  ASSUME LearnInv, NEW t \in Turns, BeginRecord(t)
  PROVE  LearnInv'
<1>1. LearnTypeOK /\ Recorded /\ PatternEarned
  BY DEF LearnInv
<1>2. PICK f \in deployment.findings :
        turns' = [turns EXCEPT ![t] = [at |-> "outcome", verified |-> f.verified, sure |-> f.sure, ns |-> f.ns]]
  BY DEF BeginRecord
<1>3. f \in Findings /\ f.ns \in Namespaces /\ f.verified \in BOOLEAN /\ f.sure \in BOOLEAN
  <2>1. f \in Findings
    BY <1>1 DEF Findings, LearnTypeOK
  <2>2. QED
    BY <2>1, LearningBounds DEF Namespaces
<1>4. [at |-> "outcome", verified |-> f.verified, sure |-> f.sure, ns |-> f.ns] \in Recordings
  BY <1>3 DEF Recordings, Places
<1>5. /\ turns' \in [Turns -> {NotStarted} \cup Recordings]
      /\ turns'[t].at = "outcome" /\ \A u \in Turns \ {t} : turns'[u] = turns[u]
  BY <1>1, <1>2, <1>4 DEF LearnTypeOK
<1>6. outcomes' = outcomes /\ episodes' = episodes /\ pattern' = pattern /\ RecordFrame /\ turns[t] = NotStarted
  BY DEF BeginRecord
<1>7. t \notin outcomes
  BY <1>1, <1>6 DEF Recorded
<1>8. LearnTypeOK'
  BY <1>1, <1>5, <1>6 DEF LearnTypeOK, RecordFrame, lessons
<1>9. Recorded'
  BY <1>1, <1>5, <1>6, <1>7 DEF Recorded, LearnTypeOK, Pending
<1>10. RecordsGrow
  BY <1>1, <1>5, <1>6, <1>7 DEF RecordsGrow, LearnTypeOK
<1>11. Counted' = Counted
  BY <1>1, <1>5, <1>6, <1>7 DEF Counted, Earned, LearnTypeOK
<1>12. PatternEarned'
  BY <1>1, <1>6, <1>11 DEF PatternEarned
<1>13. QED
  BY <1>6, <1>8, <1>9, <1>10, <1>12, RecordingKeeps

(* What is counted stays counted, and the pattern with it.                 *)
LEMMA CountedGrow ==
  ASSUME LearnTypeOK', Counted \subseteq Counted'
  PROVE  /\ Cardinality(Counted) \in Nat /\ Cardinality(Counted)' \in Nat
         /\ Cardinality(Counted) <= Cardinality(Counted)'
<1>1. IsFiniteSet(Counted')
  BY FS_Subset DEF LearnTypeOK, Counted, Earned
<1>2. QED
  BY <1>1, NoMoreThan

LEMMA OutcomeKeeps ==
  ASSUME LearnInv, NEW t \in Turns, RecordOutcome(t)
  PROVE  LearnInv'
<1>1. LearnTypeOK /\ Recorded /\ PatternEarned
  BY DEF LearnInv
<1>2. /\ RecordFrame /\ episodes' = episodes /\ pattern' = pattern
      /\ turns[t].at = "outcome" /\ turns[t] # NotStarted
  <2>1. NotStarted.at # "outcome"
    BY DEF NotStarted
  <2>2. QED
    BY <2>1 DEF RecordOutcome
<1>3. t \notin outcomes
  BY <1>1, <1>2 DEF Recorded
<1>4. PICK where \in {"look", "episode"} :
        /\ To(t, where) /\ outcomes' \in {outcomes, outcomes \cup {t}}
        /\ where = "look" => turns[t].sure /\ turns[t].verified /\ t \in outcomes'
        /\ t \in outcomes' /\ turns[t].sure /\ turns[t].verified => where = "look"
  BY <1>3 DEF RecordOutcome, Eligible
<1>5. where \in Places /\ (where \in Pending <=> where = "look")
  BY DEF Places, Pending
<1>6. outcomes \subseteq outcomes' /\ outcomes' \subseteq Turns /\ IsFiniteSet(outcomes') /\ outcomes' \subseteq outcomes \cup {t}
  BY <1>1, <1>4, FS_AddElement DEF LearnTypeOK
<1>7. /\ turns' \in [Turns -> {NotStarted} \cup Recordings]
      /\ turns'[t] # NotStarted /\ turns'[t].at = where
      /\ turns'[t].verified = turns[t].verified /\ turns'[t].sure = turns[t].sure
      /\ \A u \in Turns \ {t} : turns'[u] = turns[u]
      /\ RecordsGrow
  BY <1>1, <1>2, <1>4, <1>5, <1>6, OnlyMoves
<1>8. LearnTypeOK'
  BY <1>1, <1>2, <1>6, <1>7 DEF LearnTypeOK, RecordFrame, lessons
<1>9. Recorded'
  BY <1>1, <1>2, <1>4, <1>5, <1>6, <1>7 DEF Recorded
<1>10. Counted \subseteq Counted'
  BY <1>1, <1>3, <1>6, <1>7 DEF Counted, Earned, LearnTypeOK
<1>11. PatternEarned'
  BY <1>1, <1>2, <1>8, <1>10, CountedGrow, LearningBounds DEF PatternEarned, LearnTypeOK, Patterns
<1>12. QED
  BY <1>2, <1>7, <1>8, <1>9, <1>11, RecordingKeeps

LEMMA LookUpKeeps ==
  ASSUME LearnInv, NEW t \in Turns, LookUpPattern(t)
  PROVE  LearnInv'
<1>1. LearnTypeOK /\ Recorded /\ PatternEarned
  BY DEF LearnInv
<1>2. /\ RecordFrame /\ outcomes' = outcomes /\ episodes' = episodes /\ pattern' = pattern
      /\ turns[t].at = "look" /\ turns[t] # NotStarted
  <2>1. NotStarted.at # "look"
    BY DEF NotStarted
  <2>2. QED
    BY <2>1 DEF LookUpPattern
<1>3. t \in outcomes /\ turns[t].verified /\ turns[t].sure
  BY <1>1, <1>2 DEF Recorded, Pending
<1>4. PICK where \in {"seed", "refresh", "bump", "episode"} :
        To(t, where) /\ (where \in {"refresh", "bump"} => pattern # Nothing)
  <2>1. CASE pattern = Nothing /\ To(t, "seed")
    BY <2>1
  <2>2. CASE To(t, "episode")
    BY <2>2
  <2>3. CASE pattern # Nothing /\ To(t, IF pattern.recent THEN "refresh" ELSE "bump")
    <3>1. CASE pattern.recent
      BY <2>3, <3>1
    <3>2. CASE ~pattern.recent
      BY <2>3, <3>2
    <3>3. QED
      BY <3>1, <3>2
  <2>4. QED
    BY <2>1, <2>2, <2>3 DEF LookUpPattern
<1>5. where \in Places /\ where # "outcome"
  BY DEF Places, Pending
<1>6. /\ turns' \in [Turns -> {NotStarted} \cup Recordings]
      /\ turns'[t] # NotStarted /\ turns'[t].at = where
      /\ turns'[t].verified = turns[t].verified /\ turns'[t].sure = turns[t].sure
      /\ \A u \in Turns \ {t} : turns'[u] = turns[u]
      /\ RecordsGrow
  BY <1>1, <1>2, <1>4, <1>5, OnlyMoves
<1>7. LearnTypeOK'
  BY <1>1, <1>2, <1>6 DEF LearnTypeOK, RecordFrame, lessons
<1>8. Recorded'
  <2>1. \A u \in Turns : turns'[u].at \in {"refresh", "bump"} => pattern' # Nothing
    BY <1>1, <1>2, <1>4, <1>6 DEF Recorded
  <2>2. \A u \in outcomes' : turns'[u] # NotStarted /\ turns'[u].at # "outcome"
    BY <1>1, <1>2, <1>5, <1>6 DEF Recorded, LearnTypeOK
  <2>3. \A u \in Turns : turns'[u].at \in Pending => u \in outcomes' /\ turns'[u].verified /\ turns'[u].sure
    BY <1>1, <1>2, <1>3, <1>6 DEF Recorded
  <2>4. QED
    BY <2>1, <2>2, <2>3 DEF Recorded
<1>9. Counted \subseteq Counted'
  BY <1>1, <1>2, <1>6 DEF Counted, Earned, LearnTypeOK, Pending
<1>10. PatternEarned'
  BY <1>1, <1>2, <1>7, <1>9, CountedGrow, LearningBounds DEF PatternEarned, LearnTypeOK, Patterns
<1>11. QED
  BY <1>2, <1>6, <1>7, <1>8, <1>10, RecordingKeeps

LEMMA Recurs ==
  ASSUME NEW p \in Patterns
  PROVE  /\ [p EXCEPT !.recent = TRUE] \in Patterns /\ [p EXCEPT !.recent = FALSE] \in Patterns
         /\ [p EXCEPT !.recent = TRUE].count = p.count /\ [p EXCEPT !.recent = FALSE].count = p.count
         /\ [p EXCEPT !.recent = TRUE, !.count = @ + 1] \in Patterns
         /\ [p EXCEPT !.recent = TRUE, !.count = @ + 1].count = p.count + 1
<1>1. /\ [p EXCEPT !.recent = TRUE] \in Patterns /\ [p EXCEPT !.recent = FALSE] \in Patterns
      /\ [p EXCEPT !.recent = TRUE].count = p.count /\ [p EXCEPT !.recent = FALSE].count = p.count
  BY DEF Patterns
<1>2. ASSUME NEW q \in Patterns
      PROVE  [q EXCEPT !.count = @ + 1] \in Patterns /\ [q EXCEPT !.count = @ + 1].count = q.count + 1
  BY DEF Patterns
<1>3. QED
  BY <1>1, <1>2

(* A seed or a bump is one more, and so is what has been counted.          *)
LEMMA WritePatternKeeps ==
  ASSUME LearnInv, NEW t \in Turns, WritePattern(t)
  PROVE  LearnInv'
<1>1. LearnTypeOK /\ Recorded /\ PatternEarned
  BY DEF LearnInv
<1>2. /\ RecordFrame /\ outcomes' = outcomes /\ episodes' = episodes
      /\ turns[t].at \in {"seed", "refresh", "bump"} /\ turns[t] # NotStarted /\ To(t, "episode")
  <2>1. NotStarted.at \notin {"seed", "refresh", "bump"}
    BY DEF NotStarted
  <2>2. QED
    BY <2>1 DEF WritePattern
<1>3. t \in outcomes /\ turns[t].verified /\ turns[t].sure /\ turns[t].at \in Pending
  BY <1>1, <1>2 DEF Recorded, Pending
<1>4. "episode" \in Places /\ "episode" \notin Pending
  BY DEF Places, Pending
<1>5. /\ turns' \in [Turns -> {NotStarted} \cup Recordings]
      /\ turns'[t] # NotStarted /\ turns'[t].at = "episode"
      /\ turns'[t].verified = turns[t].verified /\ turns'[t].sure = turns[t].sure
      /\ \A u \in Turns \ {t} : turns'[u] = turns[u]
      /\ RecordsGrow
  BY <1>1, <1>2, <1>4, OnlyMoves
<1>6. Counted' = Counted \cup {t} /\ t \notin Counted
  BY <1>1, <1>2, <1>3, <1>4, <1>5 DEF Counted, Earned, LearnTypeOK
<1>7. IsFiniteSet(Counted)
  BY <1>1, FS_Subset DEF LearnTypeOK, Counted, Earned
<1>8. Cardinality(Counted) \in Nat /\ Cardinality(Counted') = Cardinality(Counted) + 1
  BY <1>6, <1>7, FS_AddElement, FS_CardinalityType
<1>9. /\ pattern' \in Patterns \cup {Nothing} /\ (pattern # Nothing => pattern' # Nothing)
      /\ pattern' # Nothing => pattern'.count <= Cardinality(Counted) + 1
  <2>1. pattern # Nothing => pattern \in Patterns /\ pattern.count \in Nat /\ pattern.count <= Cardinality(Counted)
    BY <1>1 DEF LearnTypeOK, PatternEarned, Patterns
  <2>2. CASE pattern' = pattern
    BY <1>1, <1>8, <2>1, <2>2 DEF LearnTypeOK
  <2>3. CASE pattern' = Seeded
    BY <1>1, <1>8, <2>1, <2>3 DEF Seeded, Patterns
  <2>4. CASE turns[t].at = "refresh" /\ pattern' = [pattern EXCEPT !.recent = TRUE]
    <3>1. pattern \in Patterns
      BY <1>1, <2>1, <2>4 DEF Recorded
    <3>2. pattern' \in Patterns /\ pattern'.count = pattern.count
      BY <2>4, <3>1, Recurs
    <3>3. QED
      BY <1>8, <2>1, <3>1, <3>2, LearningBounds
  <2>5. CASE turns[t].at = "bump" /\ pattern' = [pattern EXCEPT !.recent = TRUE, !.count = @ + 1]
    <3>1. pattern \in Patterns
      BY <1>1, <2>1, <2>5 DEF Recorded
    <3>2. pattern' \in Patterns /\ pattern'.count = pattern.count + 1
      BY <2>5, <3>1, Recurs
    <3>3. QED
      BY <1>8, <2>1, <3>1, <3>2, LearningBounds
  <2>6. QED
    BY <1>2, <2>2, <2>3, <2>4, <2>5 DEF WritePattern
<1>10. LearnTypeOK'
  BY <1>1, <1>2, <1>5, <1>9 DEF LearnTypeOK, RecordFrame, lessons
<1>11. Recorded'
  <2>1. pattern # Nothing => pattern' # Nothing
    BY <1>9
  <2>2. QED
    <3>1. \A u \in Turns : turns'[u].at \in {"refresh", "bump"} => pattern' # Nothing
      BY <1>1, <1>5, <2>1 DEF Recorded
    <3>2. \A u \in outcomes' : turns'[u] # NotStarted /\ turns'[u].at # "outcome"
      BY <1>1, <1>2, <1>5 DEF Recorded, LearnTypeOK
    <3>3. \A u \in Turns : turns'[u].at \in Pending => u \in outcomes' /\ turns'[u].verified /\ turns'[u].sure
      BY <1>1, <1>2, <1>4, <1>5 DEF Recorded
    <3>4. QED
      BY <3>1, <3>2, <3>3 DEF Recorded
<1>12. PatternEarned'
  BY <1>8, <1>9 DEF PatternEarned
<1>13. QED
  BY <1>2, <1>5, <1>10, <1>11, <1>12, RecordingKeeps

LEMMA CooldownKeeps ==
  ASSUME LearnInv, CooldownEnds
  PROVE  LearnInv'
<1>1. LearnTypeOK /\ Recorded /\ PatternEarned
  BY DEF LearnInv
<1>2. /\ RecordFrame /\ UNCHANGED <<turns, outcomes, episodes>>
      /\ pattern \in Patterns /\ pattern # Nothing /\ pattern' = [pattern EXCEPT !.recent = FALSE]
  BY <1>1 DEF CooldownEnds, LearnTypeOK
<1>3. pattern' \in Patterns /\ pattern'.count = pattern.count /\ pattern' # Nothing
  BY <1>2, Recurs, LearningBounds
<1>4. LearnTypeOK' /\ RecordsGrow
  BY <1>1, <1>2, <1>3 DEF LearnTypeOK, RecordFrame, lessons, RecordsGrow
<1>5. Recorded' /\ PatternEarned'
  BY <1>1, <1>2, <1>3 DEF Recorded, PatternEarned, Counted, Earned
<1>6. QED
  BY <1>2, <1>4, <1>5, RecordingKeeps

LEMMA EpisodeKeeps ==
  ASSUME LearnInv, NEW t \in Turns, WriteEpisode(t)
  PROVE  LearnInv'
<1>1. LearnTypeOK /\ Recorded /\ PatternEarned
  BY DEF LearnInv
<1>2. /\ RecordFrame /\ outcomes' = outcomes /\ pattern' = pattern
      /\ turns[t].at = "episode" /\ turns[t] # NotStarted /\ To(t, "done")
  <2>1. NotStarted.at # "episode"
    BY DEF NotStarted
  <2>2. QED
    BY <2>1 DEF WriteEpisode
<1>3. episodes \subseteq episodes' /\ IsFiniteSet(episodes')
  BY <1>1, FS_AddElement DEF WriteEpisode, LearnTypeOK
<1>4. "done" \in Places /\ "done" \notin Pending
  BY DEF Places, Pending
<1>5. /\ turns' \in [Turns -> {NotStarted} \cup Recordings]
      /\ turns'[t] # NotStarted /\ turns'[t].at = "done"
      /\ turns'[t].verified = turns[t].verified /\ turns'[t].sure = turns[t].sure
      /\ \A u \in Turns \ {t} : turns'[u] = turns[u]
      /\ RecordsGrow
  BY <1>1, <1>2, <1>3, <1>4, OnlyMoves
<1>6. LearnTypeOK'
  BY <1>1, <1>2, <1>3, <1>5 DEF LearnTypeOK, RecordFrame, lessons
<1>7. Recorded'
  <2>1. \A u \in Turns : turns'[u].at \in {"refresh", "bump"} => pattern' # Nothing
    BY <1>1, <1>2, <1>5 DEF Recorded
  <2>2. \A u \in outcomes' : turns'[u] # NotStarted /\ turns'[u].at # "outcome"
    BY <1>1, <1>2, <1>5 DEF Recorded, LearnTypeOK
  <2>3. \A u \in Turns : turns'[u].at \in Pending => u \in outcomes' /\ turns'[u].verified /\ turns'[u].sure
    BY <1>1, <1>2, <1>4, <1>5 DEF Recorded
  <2>4. QED
    BY <2>1, <2>2, <2>3 DEF Recorded
<1>8. Counted \subseteq Counted'
  BY <1>1, <1>2, <1>4, <1>5 DEF Counted, Earned, LearnTypeOK
<1>9. PatternEarned'
  BY <1>1, <1>2, <1>6, <1>8, CountedGrow, LearningBounds DEF PatternEarned, LearnTypeOK, Patterns
<1>10. QED
  BY <1>2, <1>5, <1>6, <1>7, <1>9, RecordingKeeps

(***************************************************************************)
(* The passes.                                                             *)
(***************************************************************************)
LEMMA NamedOnly == ASSUME NEW n PROVE "read" \notin DOMAIN [name |-> n]
  OBVIOUS

LEMMA PassKeeps ==
  ASSUME LearnInv, PassFrame, episodes \subseteq episodes', IsFiniteSet(episodes'),
         candidate' \in BOOLEAN, preference' \in Preferences \cup {Nothing}, rule' \in Rules \cup {Nothing}
  PROVE  LearnTypeOK' /\ Recorded' /\ PatternEarned' /\ RecordsGrow
  BY DEF LearnInv, LearnTypeOK, PassFrame, Recorded, PatternEarned, Counted, Earned, RecordsGrow

(* A step that learns nothing.                                             *)
LEMMA NothingLearned ==
  ASSUME LearnInv, PassFrame, UNCHANGED lessons, episodes \subseteq episodes', IsFiniteSet(episodes'), PassEarned'
  PROVE  LearnInv'
<1>1. candidate' = candidate /\ preference' = preference /\ rule' = rule /\ word' = word /\ LearnTypeOK
  BY DEF lessons, PassFrame, LearnInv
<1>2. LearnTypeOK' /\ Recorded' /\ PatternEarned' /\ RecordsGrow
  BY <1>1, PassKeeps DEF LearnTypeOK
<1>3. LearnedIsEarned'
  BY <1>2, EarnedStays
<1>4. QED
  BY <1>1, <1>2, <1>3 DEF LearnInv, HumanWordStands, RejectedRuleKept

LEMMA Unread ==
  ASSUME NEW n, pass' = [name |-> n]
  PROVE  PassEarned'
  BY NamedOnly DEF PassEarned, HasRead

LEMMA ReadingKeeps ==
  ASSUME LearnInv, Wake \/ Backfill \/ ReadPatterns \/ ReadBehaviour \/ DecayAndForget \/ ReadEpisodes \/ DrainPassFailures
  PROVE  LearnInv'
<1>1. LearnTypeOK /\ Recorded /\ PatternEarned /\ IsFiniteSet(episodes) /\ IsFiniteSet(outcomes)
  BY DEF LearnInv, LearnTypeOK
<1>2. CASE Wake
  BY <1>1, <1>2, Unread, NothingLearned DEF Wake
<1>3. CASE DrainPassFailures
  <2>1. PassEarned'
    BY <1>3, Unread DEF DrainPassFailures, Resting
  <2>2. QED
    BY <1>1, <1>3, <2>1, NothingLearned DEF DrainPassFailures
<1>4. CASE DecayAndForget
  BY <1>1, <1>4, Unread, NothingLearned DEF DecayAndForget, NextPass, Fails
<1>5. CASE Backfill
  <2>1. PICK some \in SUBSET outcomes : episodes' = episodes \cup {Episode(t, "backfill") : t \in some}
    BY <1>5 DEF Backfill
  <2>2. PassEarned'
    BY <1>5, Unread DEF Backfill, NextPass, Fails
  <2>3. IsFiniteSet({Episode(t, "backfill") : t \in some})
    <3>1. IsFiniteSet(some)
      BY <1>1, FS_Subset
    <3>2. DEFINE copy == [t \in some |-> Episode(t, "backfill")]
    <3>3. copy \in Surjection(some, {Episode(t, "backfill") : t \in some})
      BY DEF Surjection
    <3>4. QED
      BY <3>1, <3>3, FS_Surjection
  <2>4. IsFiniteSet(episodes') /\ episodes \subseteq episodes'
    BY <1>1, <2>1, <2>3, FS_Union
  <2>5. QED
    BY <1>5, <2>2, <2>4, NothingLearned DEF Backfill
<1>6. CASE ReadPatterns
  <2>1. CASE Fails("detector_candidates")
    BY <1>1, <1>6, <2>1, Unread, NothingLearned DEF ReadPatterns, NextPass, Fails
  <2>2. CASE Read(Recurring)
    <3>1. Recurring => Cardinality(Earned) >= 2
      <4>1. /\ Counted \subseteq Earned /\ IsFiniteSet(Earned)
        BY <1>1, FS_Subset DEF Counted, Earned
      <4>2. /\ Cardinality(Counted) \in Nat /\ Cardinality(Earned) \in Nat
            /\ Cardinality(Counted) <= Cardinality(Earned)
        BY <4>1, NoMoreThan
      <4>3. pattern # Nothing => pattern.count \in Nat
        BY <1>1 DEF LearnTypeOK, Patterns
      <4>4. QED
        BY <1>1, <4>2, <4>3 DEF Recurring, PatternEarned
    <3>2. pass' = [name |-> "propose", read |-> Recurring]
      BY <1>6, <2>2 DEF ReadPatterns, Read
    <3>3. pass'.name = "propose" /\ pass'.read = Recurring
      BY <3>2
    <3>4. Cardinality(Earned)' = Cardinality(Earned)
      BY <1>6 DEF ReadPatterns, PassFrame, Earned
    <3>5. PassEarned'
      BY <3>1, <3>3, <3>4 DEF PassEarned
    <3>6. QED
      BY <1>1, <1>6, <3>5, NothingLearned DEF ReadPatterns
  <2>3. QED
    BY <1>6, <2>1, <2>2 DEF ReadPatterns
<1>7. CASE ReadBehaviour
  <2>1. CASE Fails("prefs_inferred")
    BY <1>1, <1>7, <2>1, Unread, NothingLearned DEF ReadBehaviour, NextPass, Fails
  <2>2. ASSUME NEW some \in SUBSET outcomes, Read(Concentrated(some))
        PROVE  LearnInv'
    <3>1. \A ns \in Concentrated(some) : ns \in Namespaces /\ Cardinality(In(outcomes, ns)) >= MinOccur
      <4>1. SUFFICES ASSUME NEW ns \in Concentrated(some)
                     PROVE  ns \in Namespaces /\ Cardinality(In(outcomes, ns)) >= MinOccur
        OBVIOUS
      <4>2. ns \in InvestigatedNamespaces /\ Cardinality(In(some, ns)) >= MinOccur
        BY <4>1 DEF Concentrated
      <4>3. In(some, ns) \subseteq In(outcomes, ns) /\ IsFiniteSet(In(outcomes, ns))
        BY <1>1, FS_Subset DEF In
      <4>4. /\ Cardinality(In(some, ns)) \in Nat /\ Cardinality(In(outcomes, ns)) \in Nat
            /\ Cardinality(In(some, ns)) <= Cardinality(In(outcomes, ns))
        BY <4>3, NoMoreThan
      <4>5. ns \in Namespaces
        BY <1>1, <4>2 DEF InvestigatedNamespaces, Namespaces, Findings, LearnTypeOK
      <4>6. QED
        BY <4>2, <4>4, <4>5, LearningBounds
    <3>2. pass' = [name |-> "infer", read |-> Concentrated(some)]
      BY <1>7, <2>2 DEF ReadBehaviour, Read
    <3>3. pass'.name = "infer" /\ pass'.read = Concentrated(some)
      BY <3>2
    <3>4. \A ns : Cardinality(In(outcomes, ns)') = Cardinality(In(outcomes, ns))
      BY <1>7 DEF ReadBehaviour, PassFrame, In
    <3>5. PassEarned'
      BY <3>1, <3>3, <3>4 DEF PassEarned, In
    <3>6. QED
      BY <1>1, <1>7, <3>5, NothingLearned DEF ReadBehaviour
  <2>3. QED
    BY <1>7, <2>1, <2>2 DEF ReadBehaviour
<1>8. CASE ReadEpisodes
  <2>1. CASE Fails(pass.name)
    BY <1>1, <1>8, <2>1, Unread, NothingLearned DEF ReadEpisodes, NextPass, Fails
  <2>2. CASE Read(episodes)
    <3>1. pass' = [name |-> pass.name, read |-> episodes] /\ pass.name \in {"promote", "summarise"} /\ episodes' = episodes
      BY <1>8, <2>2 DEF ReadEpisodes, Read
    <3>2. pass'.name \in {"promote", "summarise"} /\ pass'.read = episodes'
      BY <3>1
    <3>3. PassEarned'
      BY <3>2 DEF PassEarned
    <3>4. QED
      BY <1>1, <1>8, <3>3, NothingLearned DEF ReadEpisodes
  <2>3. QED
    BY <1>8, <2>1, <2>2 DEF ReadEpisodes
<1>9. QED
  BY <1>2, <1>3, <1>4, <1>5, <1>6, <1>7, <1>8

LEMMA ProposeKeeps ==
  ASSUME LearnInv, Propose
  PROVE  LearnInv'
<1>1. LearnTypeOK /\ LearnedIsEarned /\ PassEarned /\ IsFiniteSet(episodes)
  BY DEF LearnInv, LearnTypeOK
<1>2. PassEarned' /\ PassFrame /\ episodes' = episodes /\ UNCHANGED <<preference, rule, summary, outcomes, turns>>
  BY Unread DEF Propose, NextPass, PassFrame
<1>3. CASE candidate' = candidate
  BY <1>1, <1>2, <1>3, NothingLearned DEF lessons
<1>4. CASE candidate' = (candidate \/ pass.read)
  <2>1. pass.read => Cardinality(Earned) >= 2
    BY <1>1 DEF Propose, PassEarned
  <2>2. candidate' \in BOOLEAN
    BY <1>4
  <2>3. LearnTypeOK' /\ Recorded' /\ PatternEarned'
    BY <1>1, <1>2, <2>2, PassKeeps DEF LearnTypeOK
  <2>4. LearnedIsEarned'
    <3>1. candidate' => Cardinality(Earned) >= 2
      BY <1>1, <1>4, <2>1 DEF LearnedIsEarned, Earned
    <3>2. QED
      BY <1>1, <1>2, <3>1 DEF LearnedIsEarned, Earned, In
  <2>5. QED
    BY <1>2, <2>3, <2>4 DEF LearnInv, HumanWordStands, RejectedRuleKept, PassFrame
<1>5. QED
  BY <1>3, <1>4 DEF Propose

LEMMA InferKeeps ==
  ASSUME LearnInv, Infer
  PROVE  LearnInv'
<1>1. LearnTypeOK /\ LearnedIsEarned /\ PassEarned /\ HumanWordStands /\ IsFiniteSet(episodes)
  BY DEF LearnInv, LearnTypeOK
<1>2. PassEarned' /\ PassFrame /\ episodes' = episodes /\ UNCHANGED <<candidate, rule, summary, outcomes, turns>>
  BY Unread DEF Infer, NextPass, PassFrame
<1>3. CASE preference' = preference
  BY <1>1, <1>2, <1>3, NothingLearned DEF lessons
<1>4. ASSUME NEW ns \in pass.read, preference' = Inferred(preference, ns)
      PROVE  LearnInv'
  <2>1. ns \in Namespaces /\ Cardinality(In(outcomes, ns)) >= MinOccur
    BY <1>1 DEF Infer, PassEarned
  <2>2. CASE preference # Nothing /\ preference.source = "explicit"
    BY <1>1, <1>2, <1>4, <2>2, NothingLearned DEF lessons, Inferred
  <2>3. CASE preference = Nothing \/ preference.source # "explicit"
    <3>1. preference' = [source |-> "inferred", value |-> ns]
      BY <1>4, <2>3 DEF Inferred
    <3>2. preference' \in Preferences /\ preference'.value = ns
      BY <2>1, <3>1 DEF Preferences
    <3>3. LearnTypeOK' /\ Recorded' /\ PatternEarned'
      BY <1>1, <1>2, <3>2, PassKeeps DEF LearnTypeOK
    <3>4. LearnedIsEarned'
      BY <1>1, <1>2, <2>1, <3>2 DEF LearnedIsEarned, In
    <3>5. word.namespace = Nothing
      <4>1. SUFFICES ASSUME word.namespace # Nothing PROVE FALSE
        OBVIOUS
      <4>2. preference = [source |-> "explicit", value |-> word.namespace] /\ word.namespace \in Namespaces
        BY <1>1, <4>1 DEF HumanWordStands, LearnTypeOK
      <4>3. preference \in Preferences /\ preference.source = "explicit"
        BY <4>2 DEF Preferences
      <4>4. QED
        BY <2>3, <4>3, LearningBounds
    <3>6. HumanWordStands'
      BY <1>1, <1>2, <3>5 DEF HumanWordStands, PassFrame
    <3>7. QED
      BY <1>2, <3>3, <3>4, <3>6 DEF LearnInv, RejectedRuleKept, PassFrame
  <2>4. QED
    BY <2>2, <2>3
<1>5. QED
  BY <1>3, <1>4 DEF Infer

LEMMA RuleRecorded ==
  ASSUME NEW r \in Rules
  PROVE  /\ RecordRule(r) \in Rules
         /\ r.status = "demoted" => RecordRule(r).status = "demoted"
<1>1. r.count \in Nat /\ r.status \in {"candidate", "active", "demoted"} /\ r # Nothing
  BY LearningBounds DEF Rules
<1>2. Bumped(r.count) \in Nat
  BY <1>1, LearningBounds DEF Bumped
<1>3. PICK status \in {"candidate", "active", "demoted"} :
        /\ RecordRule(r) = [count |-> Bumped(r.count), status |-> status]
        /\ r.status = "demoted" => status = "demoted"
  BY <1>1 DEF RecordRule
<1>4. QED
  BY <1>2, <1>3 DEF Rules

LEMMA PromoteKeeps ==
  ASSUME LearnInv, Promote
  PROVE  LearnInv'
<1>1. LearnTypeOK /\ LearnedIsEarned /\ PassEarned /\ HumanWordStands /\ RejectedRuleKept /\ IsFiniteSet(episodes)
  BY DEF LearnInv, LearnTypeOK
<1>2. PassEarned' /\ PassFrame /\ episodes' = episodes /\ UNCHANGED <<candidate, preference, summary, outcomes, turns>>
  BY Unread DEF Promote, NextPass, PassFrame
<1>3. CASE rule' = rule
  BY <1>1, <1>2, <1>3, NothingLearned DEF lessons
<1>4. CASE Cardinality(VerifiedIn(pass.read)) >= ActivateAt /\ rule' = RecordRule(rule)
  <2>1. /\ rule' \in Rules
        /\ rule # Nothing /\ rule.status = "demoted" => rule'.status = "demoted"
    <3>1. CASE rule = Nothing
      BY <1>4, <3>1 DEF RecordRule, Rules
    <3>2. CASE rule \in Rules
      BY <1>4, <3>2, RuleRecorded
    <3>3. QED
      BY <1>1, <3>1, <3>2 DEF LearnTypeOK
  <2>2. LearnTypeOK' /\ Recorded' /\ PatternEarned'
    BY <1>1, <1>2, <2>1, PassKeeps DEF LearnTypeOK
  <2>3. Cardinality(VerifiedIn(episodes)') >= ActivateAt
    <3>1. pass.read \subseteq episodes'
      BY <1>1, <1>2 DEF Promote, PassEarned
    <3>2. PICK eps : eps = pass.read
      OBVIOUS
    <3>3. /\ Cardinality(VerifiedIn(eps)) \in Nat /\ Cardinality(VerifiedIn(episodes)') \in Nat
          /\ Cardinality(VerifiedIn(eps)) <= Cardinality(VerifiedIn(episodes)')
      BY <2>2, <3>1, <3>2, VerifiedGrow
    <3>4. QED
      BY <1>4, <3>2, <3>3, LearningBounds
  <2>4. LearnedIsEarned'
    BY <1>1, <1>2, <2>3 DEF LearnedIsEarned, Earned, In
  <2>5. rule' # Nothing
    BY <2>1, LearningBounds
  <2>6. HumanWordStands' /\ RejectedRuleKept'
    BY <1>1, <1>2, <2>1, <2>5 DEF HumanWordStands, RejectedRuleKept, PassFrame
  <2>7. QED
    BY <1>2, <2>2, <2>4, <2>6 DEF LearnInv
<1>5. QED
  BY <1>3, <1>4 DEF Promote

LEMMA SummaryKeeps ==
  ASSUME LearnInv, BuildSummaryTree
  PROVE  LearnInv'
<1>1. LearnTypeOK /\ LearnedIsEarned /\ HumanWordStands /\ RejectedRuleKept
  BY DEF LearnInv
<1>2. PassEarned' /\ PassFrame /\ UNCHANGED <<episodes, candidate, preference, rule, outcomes, turns>>
  BY Unread DEF BuildSummaryTree, NextPass, PassFrame
<1>3. LearnTypeOK' /\ Recorded' /\ PatternEarned'
  BY <1>1, <1>2, PassKeeps DEF LearnTypeOK
<1>4. LearnedIsEarned'
  BY <1>1, <1>2 DEF LearnedIsEarned, Earned, In
<1>5. QED
  BY <1>1, <1>2, <1>3, <1>4 DEF LearnInv, HumanWordStands, RejectedRuleKept, PassFrame

LEMMA RestartKeeps ==
  ASSUME LearnInv, RestartLearning
  PROVE  LearnInv'
<1>1. LearnTypeOK /\ Recorded /\ PatternEarned
  BY DEF LearnInv
<1>2. /\ UNCHANGED <<deployment, outcomes, episodes, pattern, lessons, word>> /\ PassEarned'
      /\ turns' = [t \in Turns |-> IF turns[t] = NotStarted THEN NotStarted ELSE [turns[t] EXCEPT !.at = "done"]]
  BY Unread DEF RestartLearning
<1>3. ASSUME NEW t \in Turns
      PROVE  /\ turns'[t] \in {NotStarted} \cup Recordings
             /\ turns[t] # NotStarted => /\ turns'[t] # NotStarted /\ turns'[t].at = "done"
                                         /\ turns'[t].verified = turns[t].verified /\ turns'[t].sure = turns[t].sure
                                         /\ turns'[t].ns = turns[t].ns
             /\ turns'[t].at \notin Pending
  <2>1. CASE turns[t] = NotStarted
    BY <1>2, <2>1 DEF NotStarted, Pending
  <2>2. CASE turns[t] \in Recordings
    <3>1. turns[t] # NotStarted
      <4>1. turns[t].at \in Places
        BY <2>2 DEF Recordings
      <4>2. NotStarted.at = "not started"
        BY DEF NotStarted
      <4>3. QED
        BY <4>1, <4>2 DEF Places, Pending
    <3>2. turns'[t] = [turns[t] EXCEPT !.at = "done"]
      BY <1>2, <3>1
    <3>3. /\ [turns[t] EXCEPT !.at = "done"] \in Recordings /\ [turns[t] EXCEPT !.at = "done"].at = "done"
          /\ [turns[t] EXCEPT !.at = "done"].verified = turns[t].verified
          /\ [turns[t] EXCEPT !.at = "done"].sure = turns[t].sure
          /\ [turns[t] EXCEPT !.at = "done"].ns = turns[t].ns
      BY <2>2 DEF Recordings, Places
    <3>4. [turns[t] EXCEPT !.at = "done"] # NotStarted
      BY <3>3 DEF NotStarted
    <3>5. QED
      BY <3>1, <3>2, <3>3, <3>4 DEF Pending
  <2>3. QED
    BY <1>1, <2>1, <2>2 DEF LearnTypeOK
<1>4. turns' \in [Turns -> {NotStarted} \cup Recordings]
  BY <1>2, <1>3
<1>5. LearnTypeOK' /\ RecordsGrow
  BY <1>1, <1>2, <1>3, <1>4 DEF LearnTypeOK, lessons, RecordsGrow, Recorded
<1>6. Recorded'
  <2>1. \A u \in Turns : turns'[u].at \in {"refresh", "bump"} => pattern' # Nothing
    BY <1>3 DEF Pending
  <2>2. \A u \in outcomes' : turns'[u] # NotStarted /\ turns'[u].at # "outcome"
    BY <1>1, <1>2, <1>3 DEF Recorded, LearnTypeOK
  <2>3. \A u \in Turns : turns'[u].at \in Pending => u \in outcomes' /\ turns'[u].verified /\ turns'[u].sure
    BY <1>3
  <2>4. QED
    BY <2>1, <2>2, <2>3 DEF Recorded
<1>7. Counted \subseteq Counted'
  BY <1>1, <1>2, <1>3 DEF Counted, Earned, LearnTypeOK, Recorded
<1>8. PatternEarned'
  BY <1>1, <1>2, <1>5, <1>7, CountedGrow, LearningBounds DEF PatternEarned, LearnTypeOK, Patterns
<1>9. LearnedIsEarned'
  BY <1>2, <1>5, EarnedStays
<1>10. QED
  BY <1>2, <1>5, <1>6, <1>8, <1>9 DEF LearnInv, HumanWordStands, RejectedRuleKept, lessons

LEMMA SayingKeeps ==
  ASSUME LearnInv, SayFrame,
         \/ \E ns \in InvestigatedNamespaces : SetPreference(ns)
         \/ ForgetPreference \/ DemoteRule
  PROVE  LearnInv'
<1>1. LearnTypeOK /\ Recorded /\ PatternEarned /\ PassEarned /\ LearnedIsEarned /\ HumanWordStands /\ RejectedRuleKept
  BY DEF LearnInv
<1>2. UNCHANGED <<deployment, turns, outcomes, episodes, pattern, candidate, pass>>
  BY DEF SayFrame, records
<1>3. Recorded' /\ PatternEarned' /\ PassEarned'
  BY <1>1, <1>2 DEF Recorded, PatternEarned, PassEarned, Counted, Earned, HasRead, In
<1>4. CASE \E ns \in InvestigatedNamespaces : SetPreference(ns)
  <2>1. PICK ns \in InvestigatedNamespaces : SetPreference(ns)
    BY <1>4
  <2>2. ns \in Namespaces
    BY <1>1 DEF InvestigatedNamespaces, Namespaces, Findings, LearnTypeOK
  <2>3. /\ preference' = [source |-> "explicit", value |-> ns] /\ rule' = rule
        /\ word' = [word EXCEPT !.namespace = ns]
    BY <2>1 DEF SetPreference
  <2>4. preference' \in Preferences /\ preference'.source = "explicit"
    BY <2>2, <2>3 DEF Preferences
  <2>5. word'.namespace = ns /\ word'.rejected = word.rejected
        /\ word' \in [namespace : Namespaces \cup {Nothing}, rejected : BOOLEAN]
    BY <1>1, <2>2, <2>3 DEF LearnTypeOK
  <2>6. LearnTypeOK'
    BY <1>1, <1>2, <2>3, <2>4, <2>5 DEF LearnTypeOK
  <2>7. LearnedIsEarned'
    BY <1>1, <1>2, <2>3, <2>4 DEF LearnedIsEarned, Earned, In
  <2>8. HumanWordStands' /\ RejectedRuleKept'
    BY <1>1, <2>3, <2>5 DEF HumanWordStands, RejectedRuleKept
  <2>9. QED
    BY <1>3, <2>6, <2>7, <2>8 DEF LearnInv
<1>5. CASE ForgetPreference
  <2>1. /\ preference' = Nothing /\ rule' = rule /\ word' = [word EXCEPT !.namespace = Nothing]
    BY <1>5 DEF ForgetPreference
  <2>2. word'.namespace = Nothing /\ word'.rejected = word.rejected
        /\ word' \in [namespace : Namespaces \cup {Nothing}, rejected : BOOLEAN]
    BY <1>1, <2>1 DEF LearnTypeOK
  <2>3. LearnTypeOK'
    BY <1>1, <1>2, <2>1, <2>2 DEF LearnTypeOK
  <2>4. LearnedIsEarned'
    BY <1>1, <1>2, <2>1 DEF LearnedIsEarned, Earned, In
  <2>5. HumanWordStands' /\ RejectedRuleKept'
    BY <1>1, <2>1, <2>2 DEF HumanWordStands, RejectedRuleKept
  <2>6. QED
    BY <1>3, <2>3, <2>4, <2>5 DEF LearnInv
<1>6. CASE DemoteRule
  <2>1. /\ rule # Nothing /\ rule' = [rule EXCEPT !.status = "demoted"] /\ preference' = preference
        /\ word' = [word EXCEPT !.rejected = TRUE]
    BY <1>6 DEF DemoteRule
  <2>2. rule \in Rules
    BY <1>1, <2>1 DEF LearnTypeOK
  <2>3. rule' \in Rules /\ rule'.status = "demoted" /\ rule' # Nothing
    <3>1. [rule EXCEPT !.status = "demoted"] \in Rules /\ [rule EXCEPT !.status = "demoted"].status = "demoted"
      BY <2>2 DEF Rules
    <3>2. QED
      BY <2>1, <3>1, LearningBounds
  <2>4. word'.namespace = word.namespace
        /\ word' \in [namespace : Namespaces \cup {Nothing}, rejected : BOOLEAN]
    BY <1>1, <2>1 DEF LearnTypeOK
  <2>5. LearnTypeOK'
    BY <1>1, <1>2, <2>1, <2>3, <2>4 DEF LearnTypeOK
  <2>6. LearnedIsEarned'
    BY <1>1, <1>2, <2>1 DEF LearnedIsEarned, Earned, In
  <2>7. HumanWordStands' /\ RejectedRuleKept'
    BY <1>1, <2>1, <2>3, <2>4 DEF HumanWordStands, RejectedRuleKept
  <2>8. QED
    BY <1>3, <2>5, <2>6, <2>7 DEF LearnInv
<1>7. QED
  BY <1>4, <1>5, <1>6

-----------------------------------------------------------------------------
LEMMA LearnInitInv ==
  ASSUME LearnInit
  PROVE  LearnInv
<1>1. turns \in [Turns -> {NotStarted} \cup Recordings] /\ \A t \in Turns : turns[t].at \notin Pending
  BY DEF LearnInit, NotStarted, Pending
<1>2. IsFiniteSet(outcomes) /\ IsFiniteSet(episodes)
  BY FS_EmptySet DEF LearnInit
<1>3. word.namespace = Nothing /\ word.rejected = FALSE /\ word \in [namespace : Namespaces \cup {Nothing}, rejected : BOOLEAN]
  BY DEF LearnInit
<1>4. LearnTypeOK
  BY <1>1, <1>2, <1>3 DEF LearnInit, LearnTypeOK
<1>5. Recorded
  BY <1>1 DEF LearnInit, Recorded, Pending
<1>6. PassEarned
  BY NamedOnly DEF LearnInit, PassEarned, HasRead
<1>7. LearnedIsEarned
  BY DEF LearnInit, LearnedIsEarned
<1>8. QED
  BY <1>3, <1>4, <1>5, <1>6, <1>7 DEF LearnInit, LearnInv, PatternEarned, HumanWordStands, RejectedRuleKept

LEMMA LearnStepInv ==
  ASSUME LearnInv, [LearnNext]_learnVars
  PROVE  LearnInv'
<1>1. ASSUME NEW t \in Turns, BeginRecord(t) \/ RecordOutcome(t) \/ LookUpPattern(t) \/ WritePattern(t) \/ WriteEpisode(t)
      PROVE  LearnInv'
  BY <1>1, BeginKeeps, OutcomeKeeps, LookUpKeeps, WritePatternKeeps, EpisodeKeeps
<1>2. CASE \/ \E ns \in InvestigatedNamespaces : SetPreference(ns)
           \/ ForgetPreference \/ DemoteRule
  BY <1>2, SayingKeeps DEF SetPreference, ForgetPreference, DemoteRule
<1>3. CASE UNCHANGED learnVars
  BY ZenonT(60), <1>3 DEF learnVars, LearnInv, LearnTypeOK, Recorded, PatternEarned, PassEarned, Counted, Earned, HasRead, In,
              LearnedIsEarned, HumanWordStands, RejectedRuleKept, VerifiedIn
<1>4. QED
  BY <1>1, <1>2, <1>3, CooldownKeeps, ReadingKeeps, ProposeKeeps, InferKeeps, PromoteKeeps, SummaryKeeps, RestartKeeps
     DEF LearnNext

LEMMA LearnInvariant == LearnSpec => []LearnInv
<1>1. LearnInit => LearnInv
  BY LearnInitInv
<1>2. LearnInv /\ [LearnNext]_learnVars => LearnInv'
  BY LearnStepInv
<1>3. QED
  BY <1>1, <1>2, PTL DEF LearnSpec

(* What the memory concludes was earned (consolidate.go, prefs.go,         *)
(* rules.go): two verified, confident investigations behind a learned      *)
(* detector, ActivateAt verified episodes behind a rule, MinOccur outcomes *)
(* behind an inferred preference, however readings, writes, failures and   *)
(* restarts interleave.                                                    *)
THEOREM LessonsAlwaysEarned == LearnSpec => []LearnedIsEarned
<1>1. LearnInv => LearnedIsEarned
  BY DEF LearnInv
<1>2. QED
  BY <1>1, LearnInvariant, PTL

(* What a person said stands (prefs.go SetPreference, rules.go RecordRule):*)
(* no pass overwrites a stated preference or revives a rejected rule.      *)
THEOREM HumanWordAlwaysStands == LearnSpec => []HumanWordStands
<1>1. LearnInv => HumanWordStands
  BY DEF LearnInv
<1>2. QED
  BY <1>1, LearnInvariant, PTL

(***************************************************************************)
(* What an investigation is told.                                          *)
(***************************************************************************)
Readings == Holds \cup {"unread"}
AllSections == ToSet(Sections)
Pieces ==
    {Section(s) : s \in AllSections} \cup {More(s) : s \in AllSections}
        \cup {Unavailable(what) : what \in SUBSET AllSections} \cup {Truncated}

(* The sections read when the next step is `loading': all before it but    *)
(* the ping and, past it, the combining.                                   *)
ReadBefore == IF loading = 1 THEN 0 ELSE IF loading <= 6 THEN loading - 2 ELSE loading - 3

ContextTypeOK ==
    /\ loading \in 1 .. 11
    /\ held \in Seq(Readings) /\ Len(held) = ReadBefore
    /\ unread \subseteq AllSections
    /\ pinned \in Seq(Pieces) /\ told \in Seq(Pieces)

(* Of a section read: what will be told of it, and what is.                *)
Kept(i) ==
    /\ held[i] = "unread" => Sections[i] \in unread
    /\ held[i] = "more" => More(Sections[i]) \in ToSet(pinned)
    /\ held[i] \in {"some", "more"} => Section(Sections[i]) \in ToSet(pinned)
Said(i) ==
    /\ held[i] = "unread" => ToldUnread(Sections[i]) \/ NotesUnnamed(Sections[i])
    /\ held[i] = "more" /\ Sections[i] \in Announced => Told(More(Sections[i])) \/ CutOff(Sections[i])
    /\ held[i] \in {"some", "more"} => Told(Section(Sections[i])) \/ CutOff(Sections[i])
NothingDropped == \A i \in 1 .. Len(held) : IF loading <= 6 THEN Kept(i) ELSE Said(i)

ContextInv == ContextTypeOK /\ NothingDropped

LEMMA Joined ==
  ASSUME NEW S, NEW s \in Seq(S), NEW t \in Seq(S), NEW u, u = s \o t
  PROVE  /\ u \in Seq(S) /\ Len(u) = Len(s) + Len(t)
         /\ \A i \in 1 .. Len(s) : u[i] = s[i]
         /\ \A i \in Len(s) + 1 .. Len(s) + Len(t) : u[i] = t[i - Len(s)]
<1>1. s \o t \in Seq(S) /\ Len(s \o t) = Len(s) + Len(t)
  OBVIOUS
<1>2. \A i \in 1 .. Len(s) : (s \o t)[i] = s[i]
  OBVIOUS
<1>3. \A i \in Len(s) + 1 .. Len(s) + Len(t) : (s \o t)[i] = t[i - Len(s)]
  OBVIOUS
<1>4. QED
  BY <1>1, <1>2, <1>3

Words == {"ping", "preferences", "hints", "notes", "diagnoses", "combine", "episodes", "rules", "themes", "changes", "done"}

LEMMA PartsAre ==
  /\ Pinned \in Seq(Words) /\ Len(Pinned) = 4
  /\ Pinned[1] = "preferences" /\ Pinned[2] = "hints" /\ Pinned[3] = "notes" /\ Pinned[4] = "diagnoses"
  /\ Recalled \in Seq(Words) /\ Len(Recalled) = 4
  /\ Recalled[1] = "episodes" /\ Recalled[2] = "rules" /\ Recalled[3] = "themes" /\ Recalled[4] = "changes"
<1>1. /\ Pinned \in Seq(Words) /\ Len(Pinned) = 4
      /\ Pinned[1] = "preferences" /\ Pinned[2] = "hints" /\ Pinned[3] = "notes" /\ Pinned[4] = "diagnoses"
  BY DEF Pinned, Words
<1>2. /\ Recalled \in Seq(Words) /\ Len(Recalled) = 4
      /\ Recalled[1] = "episodes" /\ Recalled[2] = "rules" /\ Recalled[3] = "themes" /\ Recalled[4] = "changes"
  BY DEF Recalled, Words
<1>3. QED
  BY <1>1, <1>2

LEMMA SectionsAre ==
  /\ Sections \in Seq(Words) /\ Len(Sections) = 8
  /\ Sections[1] = "preferences" /\ Sections[2] = "hints" /\ Sections[3] = "notes" /\ Sections[4] = "diagnoses"
  /\ Sections[5] = "episodes" /\ Sections[6] = "rules" /\ Sections[7] = "themes" /\ Sections[8] = "changes"
<1>1. PICK p, q : p = Pinned /\ q = Recalled
  OBVIOUS
<1>2. p \in Seq(Words) /\ q \in Seq(Words)
  BY <1>1, PartsAre
<1>3. Len(p) = 4 /\ Len(q) = 4
  BY <1>1, PartsAre
<1>4. PICK s : s = p \o q
  OBVIOUS
<1>5. /\ s \in Seq(Words) /\ Len(s) = 8
      /\ \A i \in 1 .. 4 : s[i] = p[i]
      /\ \A i \in 5 .. 8 : s[i] = q[i - 4]
  <2>1. /\ s \in Seq(Words) /\ Len(s) = Len(p) + Len(q)
        /\ \A i \in 1 .. Len(p) : s[i] = p[i]
        /\ \A i \in Len(p) + 1 .. Len(p) + Len(q) : s[i] = q[i - Len(p)]
    BY <1>2, <1>4, Joined
  <2>2. QED
    BY <1>3, <2>1
<1>6. /\ s[1] = p[1] /\ s[2] = p[2] /\ s[3] = p[3] /\ s[4] = p[4]
      /\ s[5] = q[1] /\ s[6] = q[2] /\ s[7] = q[3] /\ s[8] = q[4]
  BY <1>5
<1>7. Sections = s
  BY <1>1, <1>4 DEF Sections
<1>8. QED
  BY <1>1, <1>5, <1>6, <1>7, PartsAre

LEMMA StepsAre ==
  /\ Steps[1] = "ping" /\ Steps[2] = "preferences" /\ Steps[3] = "hints" /\ Steps[4] = "notes"
  /\ Steps[5] = "diagnoses" /\ Steps[6] = "combine" /\ Steps[7] = "episodes" /\ Steps[8] = "rules"
  /\ Steps[9] = "themes" /\ Steps[10] = "changes" /\ Steps[11] = "done"
<1>1. PICK p, q, x, y, z : p = Pinned /\ q = Recalled /\ x = <<"ping">> /\ y = <<"combine">> /\ z = <<"done">>
  OBVIOUS
<1>2. p \in Seq(Words) /\ q \in Seq(Words) /\ x \in Seq(Words) /\ y \in Seq(Words) /\ z \in Seq(Words)
  BY <1>1, PartsAre DEF Words
<1>3. Len(p) = 4 /\ Len(q) = 4 /\ Len(x) = 1 /\ Len(y) = 1 /\ Len(z) = 1
  BY <1>1, PartsAre
<1>4. PICK a : a = x \o p
  OBVIOUS
<1>5. /\ a \in Seq(Words) /\ Len(a) = 5
      /\ \A i \in 1 .. 1 : a[i] = x[i]
      /\ \A i \in 2 .. 5 : a[i] = p[i - 1]
  <2>1. /\ a \in Seq(Words) /\ Len(a) = Len(x) + Len(p)
        /\ \A i \in 1 .. Len(x) : a[i] = x[i]
        /\ \A i \in Len(x) + 1 .. Len(x) + Len(p) : a[i] = p[i - Len(x)]
    BY <1>2, <1>4, Joined
  <2>2. QED
    BY <1>3, <2>1
<1>6. PICK b : b = a \o y
  OBVIOUS
<1>7. /\ b \in Seq(Words) /\ Len(b) = 6
      /\ \A i \in 1 .. 5 : b[i] = a[i]
      /\ \A i \in 6 .. 6 : b[i] = y[i - 5]
  <2>1. /\ b \in Seq(Words) /\ Len(b) = Len(a) + Len(y)
        /\ \A i \in 1 .. Len(a) : b[i] = a[i]
        /\ \A i \in Len(a) + 1 .. Len(a) + Len(y) : b[i] = y[i - Len(a)]
    <3>1. a \in Seq(Words)
      BY <1>5
    <3>2. QED
      BY <1>2, <1>6, <3>1, Joined
  <2>2. QED
    BY <1>3, <1>5, <2>1
<1>8. PICK c : c = b \o q
  OBVIOUS
<1>9. /\ c \in Seq(Words) /\ Len(c) = 10
      /\ \A i \in 1 .. 6 : c[i] = b[i]
      /\ \A i \in 7 .. 10 : c[i] = q[i - 6]
  <2>1. /\ c \in Seq(Words) /\ Len(c) = Len(b) + Len(q)
        /\ \A i \in 1 .. Len(b) : c[i] = b[i]
        /\ \A i \in Len(b) + 1 .. Len(b) + Len(q) : c[i] = q[i - Len(b)]
    <3>1. b \in Seq(Words)
      BY <1>7
    <3>2. QED
      BY <1>2, <1>8, <3>1, Joined
  <2>2. QED
    BY <1>3, <1>7, <2>1
<1>10. PICK d : d = c \o z
  OBVIOUS
<1>11. /\ d \in Seq(Words) /\ Len(d) = 11
       /\ \A i \in 1 .. 10 : d[i] = c[i]
       /\ \A i \in 11 .. 11 : d[i] = z[i - 10]
  <2>1. /\ d \in Seq(Words) /\ Len(d) = Len(c) + Len(z)
        /\ \A i \in 1 .. Len(c) : d[i] = c[i]
        /\ \A i \in Len(c) + 1 .. Len(c) + Len(z) : d[i] = z[i - Len(c)]
    <3>1. c \in Seq(Words)
      BY <1>9
    <3>2. QED
      BY <1>2, <1>10, <3>1, Joined
  <2>2. QED
    BY <1>3, <1>9, <2>1
<1>12. a[1] = x[1] /\ a[2] = p[1] /\ a[3] = p[2] /\ a[4] = p[3] /\ a[5] = p[4]
  BY <1>5
<1>13. b[1] = a[1] /\ b[2] = a[2] /\ b[3] = a[3] /\ b[4] = a[4] /\ b[5] = a[5] /\ b[6] = y[1]
  BY <1>7
<1>14. /\ c[1] = b[1] /\ c[2] = b[2] /\ c[3] = b[3] /\ c[4] = b[4] /\ c[5] = b[5] /\ c[6] = b[6]
       /\ c[7] = q[1] /\ c[8] = q[2] /\ c[9] = q[3] /\ c[10] = q[4]
  BY <1>9
<1>15. /\ d[1] = c[1] /\ d[2] = c[2] /\ d[3] = c[3] /\ d[4] = c[4] /\ d[5] = c[5] /\ d[6] = c[6]
       /\ d[7] = c[7] /\ d[8] = c[8] /\ d[9] = c[9] /\ d[10] = c[10] /\ d[11] = z[1]
  BY <1>11
<1>16. Steps = d
  BY <1>1, <1>4, <1>6, <1>8, <1>10 DEF Steps
<1>17. x[1] = "ping" /\ y[1] = "combine" /\ z[1] = "done"
  BY <1>1
<1>18. QED
  BY <1>1, <1>12, <1>13, <1>14, <1>15, <1>16, <1>17, PartsAre

LEMMA AtIs ==
  ASSUME loading \in 1 .. 11
  PROVE  /\ At = "ping" => loading = 1
         /\ At = "preferences" => loading = 2
         /\ At = "hints" => loading = 3
         /\ At = "notes" => loading = 4
         /\ At = "diagnoses" => loading = 5
         /\ At = "combine" => loading = 6
         /\ At = "episodes" => loading = 7
         /\ At = "rules" => loading = 8
         /\ At = "themes" => loading = 9
         /\ At = "changes" => loading = 10
         /\ At = "done" => loading = 11
  BY StepsAre DEF At

LEMMA SectionsIn == \A i \in 1 .. 8 : Sections[i] \in AllSections
  BY SectionsAre DEF AllSections, ToSet

LEMMA PinnedAre == \A i \in 1 .. 4 : Sections[i] \in ToSet(Pinned) /\ Sections[i] \in Announced
<1>1. \A i \in 1 .. 4 : i \in DOMAIN Pinned /\ Sections[i] = Pinned[i]
  BY PartsAre, SectionsAre
<1>2. QED
  BY <1>1 DEF ToSet, Announced

(* What a text says, a longer one says too.                                *)
LEMMA SaysBoth ==
  ASSUME NEW S, NEW s \in Seq(S), NEW t \in Seq(S)
  PROVE  s \o t \in Seq(S) /\ ToSet(s) \subseteq ToSet(s \o t) /\ ToSet(t) \subseteq ToSet(s \o t)
<1>1. PICK u : u = s \o t
  OBVIOUS
<1>2. /\ u \in Seq(S) /\ Len(u) = Len(s) + Len(t)
      /\ \A i \in 1 .. Len(s) : u[i] = s[i]
      /\ \A i \in Len(s) + 1 .. Len(s) + Len(t) : u[i] = t[i - Len(s)]
  BY <1>1, Joined
<1>3. Len(s) \in Nat /\ Len(t) \in Nat /\ DOMAIN s = 1 .. Len(s) /\ DOMAIN t = 1 .. Len(t) /\ DOMAIN u = 1 .. Len(u)
  BY <1>2
<1>4. ASSUME NEW i \in 1 .. Len(s)
      PROVE  i \in DOMAIN u /\ u[i] = s[i]
  BY <1>2, <1>3
<1>5. ASSUME NEW i \in 1 .. Len(t)
      PROVE  Len(s) + i \in DOMAIN u /\ u[Len(s) + i] = t[i]
  <2>0. \A m \in Nat : \A k \in 1 .. m : k \in Nat
    OBVIOUS
  <2>1. PICK n \in Nat, m \in Nat, k \in Nat : n = Len(s) /\ m = Len(t) /\ k = i /\ k \in 1 .. m
    BY ONLY <1>3, <2>0, i \in 1 .. Len(t), Zenon
  <2>2. n + k \in n + 1 .. n + m /\ (n + k) - n = k /\ n + k \in 1 .. n + m
    BY <2>1
  <2>3. QED
    BY <1>2, <1>3, <2>1, <2>2
<1>6. ToSet(s) \subseteq ToSet(u)
  BY <1>3, <1>4 DEF ToSet
<1>7. ToSet(t) \subseteq ToSet(u)
  BY <1>3, <1>5 DEF ToSet
<1>8. QED
  BY <1>1, <1>2, <1>6, <1>7

LEMMA ShownIs ==
  ASSUME NEW s \in AllSections, NEW holds \in Holds
  PROVE  /\ Shown(s, holds) \in Seq(Pieces)
         /\ holds \in {"some", "more"} => Section(s) \in ToSet(Shown(s, holds))
         /\ holds = "more" /\ s \in Announced => More(s) \in ToSet(Shown(s, holds))
<1>1. Section(s) \in Pieces /\ More(s) \in Pieces
  BY DEF Pieces
<1>2. ASSUME NEW p \in Pieces, NEW q \in Pieces
      PROVE  /\ <<p>> \in Seq(Pieces) /\ p \in ToSet(<<p>>)
             /\ <<p, q>> \in Seq(Pieces) /\ p \in ToSet(<<p, q>>) /\ q \in ToSet(<<p, q>>)
             /\ << >> \in Seq(Pieces)
  <2>1. /\ 1 \in DOMAIN <<p>> /\ <<p>>[1] = p
         /\ 1 \in DOMAIN <<p, q>> /\ <<p, q>>[1] = p /\ 2 \in DOMAIN <<p, q>> /\ <<p, q>>[2] = q
    OBVIOUS
  <2>2. QED
    BY <2>1 DEF ToSet
<1>3. CASE holds = "nothing"
  BY <1>1, <1>2, <1>3 DEF Shown
<1>4. CASE holds = "some" \/ (holds = "more" /\ s \notin Announced)
  <2>1. Shown(s, holds) = <<Section(s)>>
    BY <1>4 DEF Shown
  <2>2. QED
    BY <1>1, <1>2, <1>4, <2>1
<1>5. CASE holds = "more" /\ s \in Announced
  <2>1. Shown(s, holds) = <<Section(s), More(s)>>
    BY <1>5 DEF Shown
  <2>2. QED
    BY <1>1, <1>2, <1>5, <2>1
<1>6. QED
  BY <1>3, <1>4, <1>5 DEF Holds

LEMMA OneMoreReading ==
  ASSUME NEW h \in Seq(Readings), NEW v \in Readings
  PROVE  /\ Append(h, v) \in Seq(Readings) /\ Len(Append(h, v)) = Len(h) + 1 /\ Len(h) \in Nat
         /\ \A i \in 1 .. Len(h) : Append(h, v)[i] = h[i]
         /\ Append(h, v)[Len(h) + 1] = v
  OBVIOUS

(* What is told, or known to be missing, only grows.                       *)
LEMMA SaidStays ==
  ASSUME NEW i, Said(i), ToSet(told) \subseteq ToSet(told)', held'[i] = held[i]
  PROVE  Said(i)'
  BY DEF Said, Told, ToldUnread, CutOff, NotesUnnamed

LEMMA KeptStays ==
  ASSUME NEW i, Kept(i), ToSet(pinned) \subseteq ToSet(pinned)', unread \subseteq unread', held'[i] = held[i]
  PROVE  Kept(i)'
  BY DEF Kept

(* A reading of the pinned context.                                        *)
LEMMA PinnedKeeps ==
  ASSUME ContextInv, NEW k \in 1 .. 4, NEW holds \in Holds, loading = k + 1, LoadSection(Sections[k], holds)
  PROVE  ContextInv'
<1>1. PICK s : s = Sections[k] /\ s \in AllSections /\ s \in Announced
  BY SectionsIn, PinnedAre
<1>2. /\ held \in Seq(Readings) /\ Len(held) = k - 1 /\ pinned \in Seq(Pieces) /\ unread \subseteq AllSections
      /\ told \in Seq(Pieces)
  BY DEF ContextInv, ContextTypeOK, ReadBefore
<1>3. \A i \in 1 .. k - 1 : Kept(i)
  BY <1>2 DEF ContextInv, NothingDropped
<1>4. LoadSection(s, holds)
  BY <1>1
<1>5. loading' = k + 2 /\ told' = told
  BY <1>4 DEF LoadSection, Advance, PinnedFrame
<1>6. PICK v \in Readings :
        /\ held' = Append(held, v)
        /\ \/ v = "nothing" /\ pinned' = pinned /\ unread' = unread
           \/ v = holds /\ pinned' = pinned \o Shown(s, holds) /\ unread' = unread
           \/ v = "unread" /\ pinned' = pinned /\ unread' = unread \cup {s}
  BY <1>4 DEF LoadSection, Readings, Holds
<1>7. /\ held' \in Seq(Readings) /\ Len(held') = k /\ held'[k] = v
      /\ \A i \in 1 .. k - 1 : held'[i] = held[i]
  <2>1. /\ Append(held, v) \in Seq(Readings) /\ Len(Append(held, v)) = Len(held) + 1
        /\ \A i \in 1 .. Len(held) : Append(held, v)[i] = held[i]
        /\ Append(held, v)[Len(held) + 1] = v
    BY <1>2, OneMoreReading
  <2>2. QED
    BY <1>2, <1>6, <2>1
<1>8. /\ pinned' \in Seq(Pieces) /\ ToSet(pinned) \subseteq ToSet(pinned') /\ unread \subseteq unread'
      /\ unread' \subseteq AllSections
      /\ v = "unread" => s \in unread'
      /\ v = "more" => More(s) \in ToSet(pinned')
      /\ v \in {"some", "more"} => Section(s) \in ToSet(pinned')
  <2>1. CASE v = "nothing" /\ pinned' = pinned /\ unread' = unread
    BY <1>2, <2>1
  <2>2. CASE v = "unread" /\ pinned' = pinned /\ unread' = unread \cup {s}
    BY <1>1, <1>2, <2>2
  <2>3. CASE v = holds /\ pinned' = pinned \o Shown(s, holds) /\ unread' = unread
    <3>1. PICK shown \in Seq(Pieces) :
            /\ shown = Shown(s, holds)
            /\ holds \in {"some", "more"} => Section(s) \in ToSet(shown)
            /\ holds = "more" /\ s \in Announced => More(s) \in ToSet(shown)
      BY <1>1, ShownIs
    <3>2. /\ pinned \o shown \in Seq(Pieces) /\ ToSet(pinned) \subseteq ToSet(pinned \o shown)
          /\ ToSet(shown) \subseteq ToSet(pinned \o shown)
      BY <1>2, SaysBoth
    <3>3. v # "unread"
      BY <2>3 DEF Holds
    <3>4. QED
      BY <1>1, <1>2, <2>3, <3>1, <3>2, <3>3
  <2>4. QED
    BY <1>6, <2>1, <2>2, <2>3
<1>9. Kept(k)'
  BY <1>1, <1>7, <1>8 DEF Kept
<1>10. \A i \in 1 .. k - 1 : Kept(i)'
  BY <1>3, <1>7, <1>8, KeptStays
<1>11. \A i \in 1 .. k : Kept(i)'
  BY <1>9, <1>10
<1>12. loading' <= 6 /\ loading' \in 1 .. 11 /\ ReadBefore' = k
  BY <1>5 DEF ReadBefore
<1>13. ContextTypeOK'
  BY <1>2, <1>5, <1>7, <1>8, <1>12 DEF ContextTypeOK
<1>14. NothingDropped'
  BY <1>7, <1>11, <1>12 DEF NothingDropped
<1>15. QED
  BY <1>13, <1>14 DEF ContextInv

(* A reading after it.                                                     *)
LEMMA RecalledKeeps ==
  ASSUME ContextInv, NEW k \in 5 .. 8, NEW holds \in Holds, loading = k + 2, RecallSection(Sections[k], holds)
  PROVE  ContextInv'
<1>1. PICK s : s = Sections[k] /\ s \in AllSections
  BY SectionsIn
<1>2. /\ held \in Seq(Readings) /\ Len(held) = k - 1 /\ pinned \in Seq(Pieces) /\ unread \subseteq AllSections
      /\ told \in Seq(Pieces)
  BY DEF ContextInv, ContextTypeOK, ReadBefore
<1>3. \A i \in 1 .. k - 1 : Said(i)
  BY <1>2 DEF ContextInv, NothingDropped
<1>4. RecallSection(s, holds)
  BY <1>1
<1>5. loading' = k + 3 /\ pinned' = pinned /\ unread' = unread
  BY <1>4 DEF RecallSection, Advance, RecalledFrame
<1>6. PICK v \in Readings :
        /\ held' = Append(held, v)
        /\ \/ v = "nothing" /\ told' = told
           \/ v = holds /\ told' = told \o Shown(s, holds)
           \/ v = "unread" /\ told' = told \o <<Unavailable({s})>>
  BY <1>4 DEF RecallSection, Readings, Holds
<1>7. /\ held' \in Seq(Readings) /\ Len(held') = k /\ held'[k] = v
      /\ \A i \in 1 .. k - 1 : held'[i] = held[i]
  <2>1. /\ Append(held, v) \in Seq(Readings) /\ Len(Append(held, v)) = Len(held) + 1
        /\ \A i \in 1 .. Len(held) : Append(held, v)[i] = held[i]
        /\ Append(held, v)[Len(held) + 1] = v
    BY <1>2, OneMoreReading
  <2>2. QED
    BY <1>2, <1>6, <2>1
<1>8. /\ told' \in Seq(Pieces) /\ ToSet(told) \subseteq ToSet(told')
      /\ v = "unread" => Unavailable({s}) \in ToSet(told')
      /\ v = "more" /\ s \in Announced => More(s) \in ToSet(told')
      /\ v \in {"some", "more"} => Section(s) \in ToSet(told')
  <2>1. CASE v = "nothing" /\ told' = told
    BY <1>2, <2>1
  <2>2. CASE v = "unread" /\ told' = told \o <<Unavailable({s})>>
    <3>1. PICK piece \in Pieces : piece = Unavailable({s})
      BY <1>1 DEF Pieces
    <3>2. <<piece>> \in Seq(Pieces) /\ 1 \in DOMAIN <<piece>> /\ <<piece>>[1] = piece
      OBVIOUS
    <3>3. piece \in ToSet(<<piece>>)
      BY <3>2 DEF ToSet
    <3>4. PICK notice \in Seq(Pieces) : notice = <<piece>> /\ piece \in ToSet(notice)
      BY <3>2, <3>3
    <3>5. /\ told \o notice \in Seq(Pieces) /\ ToSet(told) \subseteq ToSet(told \o notice)
          /\ ToSet(notice) \subseteq ToSet(told \o notice)
      BY <1>2, SaysBoth
    <3>6. QED
      BY <2>2, <3>1, <3>4, <3>5
  <2>3. CASE v = holds /\ told' = told \o Shown(s, holds)
    <3>1. PICK shown \in Seq(Pieces) :
            /\ shown = Shown(s, holds)
            /\ holds \in {"some", "more"} => Section(s) \in ToSet(shown)
            /\ holds = "more" /\ s \in Announced => More(s) \in ToSet(shown)
      BY <1>1, ShownIs
    <3>2. /\ told \o shown \in Seq(Pieces) /\ ToSet(told) \subseteq ToSet(told \o shown)
          /\ ToSet(shown) \subseteq ToSet(told \o shown)
      BY <1>2, SaysBoth
    <3>3. v # "unread"
      BY <2>3 DEF Holds
    <3>4. QED
      BY <1>2, <2>3, <3>1, <3>2, <3>3
  <2>4. QED
    BY <1>6, <2>1, <2>2, <2>3
<1>9. Said(k)'
  <2>1. {s} \in SUBSET AllSections
    BY <1>1
  <2>2. v = "unread" => ToldUnread(s)'
    BY <1>8, <2>1 DEF ToldUnread, Told, AllSections
  <2>3. QED
    BY <1>1, <1>7, <1>8, <2>2 DEF Said, Told
<1>10. \A i \in 1 .. k - 1 : Said(i)'
  BY <1>3, <1>7, <1>8, SaidStays
<1>11. \A i \in 1 .. k : Said(i)'
  BY <1>9, <1>10
<1>12. ~(loading' <= 6) /\ loading' \in 1 .. 11 /\ ReadBefore' = k
  BY <1>5 DEF ReadBefore
<1>13. ContextTypeOK'
  BY <1>2, <1>5, <1>7, <1>8, <1>12 DEF ContextTypeOK
<1>14. NothingDropped'
  BY <1>7, <1>11, <1>12 DEF NothingDropped
<1>15. QED
  BY <1>13, <1>14 DEF ContextInv

(* No answer to the ping: three of the pinned sections are named missing.  *)
LEMMA PingKeeps == ContextInv /\ Ping => ContextInv'
<1> SUFFICES ASSUME ContextInv, Ping
             PROVE  ContextInv'
    OBVIOUS
<1>1. loading = 1 /\ held \in Seq(Readings) /\ Len(held) = 0
  BY AtIs DEF ContextInv, ContextTypeOK, Ping, ReadBefore
<1>2. pinned' = pinned /\ unread' = unread
  BY DEF Ping
<1>3. CASE up
  <2>1. loading' = 2 /\ told' = told /\ held' = held
    BY <1>1, <1>3 DEF Ping, Advance
  <2>2. ReadBefore' = 0 /\ loading' \in 1 .. 11
    BY <2>1 DEF ReadBefore
  <2>3. QED
    BY <1>1, <1>2, <2>1, <2>2 DEF ContextInv, ContextTypeOK, NothingDropped
<1>4. CASE ~up
  <2>1. PICK all, piece : all = {"preferences", "hints", "diagnoses"} /\ piece = Unavailable(all) /\ piece = UnavailableNotice
    BY DEF UnavailableNotice
  <2>2. /\ all \subseteq AllSections /\ Sections[1] \in all /\ Sections[2] \in all /\ Sections[4] \in all
        /\ Sections[3] = "notes"
    BY <2>1, SectionsAre, SectionsIn
  <2>3. piece \in Pieces
    BY <2>1, <2>2 DEF Pieces
  <2>4. loading' = 7 /\ told' = <<piece>> /\ held' = [i \in 1 .. 4 |-> "unread"]
    BY <1>4, <2>1, PartsAre DEF Ping
  <2>5. held' \in Seq(Readings) /\ Len(held') = 4 /\ \A i \in 1 .. 4 : held'[i] = "unread"
    BY <2>4 DEF Readings
  <2>6. <<piece>> \in Seq(Pieces) /\ 1 \in DOMAIN <<piece>> /\ <<piece>>[1] = piece
    BY <2>3
  <2>7. told' \in Seq(Pieces) /\ piece \in ToSet(told')
    BY <2>4, <2>6 DEF ToSet
  <2>8. ASSUME NEW i \in 1 .. 4
        PROVE  ToldUnread(Sections[i])' \/ NotesUnnamed(Sections[i])'
    <3>1. CASE i = 3
      BY <2>1, <2>2, <2>7, <3>1 DEF NotesUnnamed, Told
    <3>2. CASE i # 3
      <4>1. Sections[i] \in all
        BY <2>2, <3>2
      <4>2. QED
        BY <2>1, <2>2, <2>7, <4>1 DEF ToldUnread, Told, AllSections
    <3>3. QED
      BY <3>1, <3>2
  <2>9. \A i \in 1 .. 4 : Said(i)'
    BY <2>5, <2>8 DEF Said
  <2>10. ReadBefore' = 4 /\ loading' \in 1 .. 11 /\ ~(loading' <= 6)
    BY <2>4 DEF ReadBefore
  <2>11. ContextTypeOK'
    BY <1>2, <2>5, <2>7, <2>10 DEF ContextTypeOK, ContextInv
  <2>12. NothingDropped'
    BY <2>5, <2>9, <2>10 DEF NothingDropped
  <2>13. QED
    BY <2>11, <2>12 DEF ContextInv
<1>5. QED
  BY <1>3, <1>4

(* A text that is cut keeps its beginning and says that it was cut.        *)
LEMMA CutIs ==
  ASSUME NEW s \in Seq(Pieces), NEW n \in 1 .. Len(s) - 1
  PROVE  LET u == SubSeq(s, 1, n) \o <<Truncated>>
         IN  u \in Seq(Pieces) /\ Truncated \in ToSet(u) /\ s[1] \in ToSet(u)
<1>1. PICK t : t = SubSeq(s, 1, n)
  OBVIOUS
<1>2. t \in Seq(Pieces) /\ Len(t) = n /\ t[1] = s[1]
  BY <1>1
<1>3. PICK piece \in Pieces : piece = Truncated
  BY DEF Pieces
<1>4. <<piece>> \in Seq(Pieces) /\ 1 \in DOMAIN <<piece>> /\ <<piece>>[1] = piece
  OBVIOUS
<1>5. PICK last \in Seq(Pieces) : last = <<piece>> /\ piece \in ToSet(last)
  BY <1>4 DEF ToSet
<1>6. t \o last \in Seq(Pieces) /\ ToSet(t) \subseteq ToSet(t \o last) /\ ToSet(last) \subseteq ToSet(t \o last)
  BY <1>2, SaysBoth
<1>7. s[1] \in ToSet(t)
  BY <1>2 DEF ToSet
<1>8. QED
  BY <1>1, <1>3, <1>5, <1>6, <1>7

(* Combining: the notice of what could not be read comes first.            *)
LEMMA CombineKeeps == ContextInv /\ Combine => ContextInv'
<1> SUFFICES ASSUME ContextInv, Combine
             PROVE  ContextInv'
    OBVIOUS
<1>1. loading = 6
  BY AtIs DEF ContextInv, ContextTypeOK, Combine
<1>2. /\ held \in Seq(Readings) /\ Len(held) = 4 /\ pinned \in Seq(Pieces) /\ unread \subseteq AllSections
      /\ \A i \in 1 .. 4 : Kept(i)
  BY <1>1 DEF ContextInv, ContextTypeOK, NothingDropped, ReadBefore
<1>3. loading' = 7 /\ pinned' = << >> /\ unread' = unread /\ held' = held
  BY <1>1 DEF Combine, Advance
<1>4. PICK piece \in Pieces : piece = Unavailable(unread)
  BY <1>2 DEF Pieces
<1>5. PICK notice \in Seq(Pieces) :
        /\ notice = IF unread = {} THEN << >> ELSE <<Unavailable(unread)>>
        /\ unread # {} => 1 \in DOMAIN notice /\ notice[1] = piece
  <2>1. << >> \in Seq(Pieces) /\ <<piece>> \in Seq(Pieces) /\ 1 \in DOMAIN <<piece>> /\ <<piece>>[1] = piece
    OBVIOUS
  <2>2. QED
    BY <1>4, <2>1
<1>6. PICK text \in Seq(Pieces) :
        /\ text = notice \o pinned /\ ToSet(notice) \subseteq ToSet(text) /\ ToSet(pinned) \subseteq ToSet(text)
        /\ unread # {} => text[1] = piece
  <2>1. PICK text : text = notice \o pinned
    OBVIOUS
  <2>2. text \in Seq(Pieces) /\ ToSet(notice) \subseteq ToSet(text) /\ ToSet(pinned) \subseteq ToSet(text)
    BY <1>2, <2>1, SaysBoth
  <2>3. \A i \in 1 .. Len(notice) : text[i] = notice[i]
    BY <1>2, <2>1, Joined
  <2>4. unread # {} => text[1] = notice[1]
    BY <1>5, <2>3
  <2>5. QED
    BY <1>5, <2>1, <2>2, <2>4
<1>7. told' \in {text} \cup {SubSeq(text, 1, n) \o <<Truncated>> : n \in 1 .. Len(text) - 1}
  BY <1>5, <1>6 DEF Combine, Capped, Noticed
<1>8. /\ told' \in Seq(Pieces)
      /\ unread # {} => piece \in ToSet(told')
      /\ ToSet(pinned) \subseteq ToSet(told') \/ Truncated \in ToSet(told')
  <2>1. CASE told' = text
    <3>1. unread # {} => piece \in ToSet(notice)
      BY <1>5 DEF ToSet
    <3>2. QED
      BY <1>6, <2>1, <3>1
  <2>2. ASSUME NEW n \in 1 .. Len(text) - 1, told' = SubSeq(text, 1, n) \o <<Truncated>>
        PROVE  told' \in Seq(Pieces) /\ Truncated \in ToSet(told') /\ text[1] \in ToSet(told')
    BY <2>2, CutIs
  <2>3. QED
    BY <1>6, <1>7, <2>1, <2>2
<1>9. ASSUME NEW i \in 1 .. 4
      PROVE  Said(i)'
  <2>1. Kept(i)
    BY <1>2
  <2>2. ASSUME held[i] = "unread"
        PROVE  ToldUnread(Sections[i])'
    <3>1. Sections[i] \in unread
      BY <2>1, <2>2 DEF Kept
    <3>2. Told(Unavailable(unread))'
      BY <1>3, <1>4, <1>8, <3>1 DEF Told
    <3>3. unread \in SUBSET ToSet(Sections)
      BY <1>2 DEF AllSections
    <3>4. PICK what \in SUBSET ToSet(Sections) : what = unread /\ Sections[i] \in what /\ Unavailable(what) \in ToSet(told')
      BY <1>4, <1>8, <3>1, <3>3
    <3>5. QED
      BY <3>4 DEF ToldUnread, Told
  <2>3. held[i] = "more" => Told(More(Sections[i]))' \/ CutOff(Sections[i])'
    BY <1>8, <2>1, PinnedAre DEF Kept, Told, CutOff
  <2>4. held[i] \in {"some", "more"} => Told(Section(Sections[i]))' \/ CutOff(Sections[i])'
    BY <1>8, <2>1, PinnedAre DEF Kept, Told, CutOff
  <2>5. QED
    BY <1>3, <2>2, <2>3, <2>4 DEF Said
<1>10. ReadBefore' = 4 /\ loading' \in 1 .. 11 /\ ~(loading' <= 6)
  BY <1>3 DEF ReadBefore
<1>11. ContextTypeOK'
  <2>1. pinned' \in Seq(Pieces)
    BY <1>3
  <2>2. QED
    BY <1>2, <1>3, <1>8, <1>10, <2>1 DEF ContextTypeOK
<1>12. NothingDropped'
  BY <1>2, <1>3, <1>9, <1>10 DEF NothingDropped
<1>13. QED
  BY <1>11, <1>12 DEF ContextInv

LEMMA ReadingOneKeeps ==
  ASSUME ContextInv, NEW holds \in Holds, ReadSection(holds)
  PROVE  ContextInv'
<1>1. loading \in 1 .. 11
  BY DEF ContextInv, ContextTypeOK
<1>2. CASE loadPrefs(holds)
  <2>1. loading = 1 + 1 /\ LoadSection(Sections[1], holds)
    BY <1>1, <1>2, AtIs, SectionsAre DEF loadPrefs, LoadSection
  <2>2. QED
    BY <2>1, PinnedKeeps
<1>3. CASE loadFailureHints(holds)
  <2>1. loading = 2 + 1 /\ LoadSection(Sections[2], holds)
    BY <1>1, <1>3, AtIs, SectionsAre DEF loadFailureHints, LoadSection
  <2>2. QED
    BY <2>1, PinnedKeeps
<1>4. CASE loadSessionNotes(holds)
  <2>1. loading = 3 + 1 /\ LoadSection(Sections[3], holds)
    BY <1>1, <1>4, AtIs, SectionsAre DEF loadSessionNotes, LoadSection
  <2>2. QED
    BY <2>1, PinnedKeeps
<1>5. CASE loadPastRCA(holds)
  <2>1. loading = 4 + 1 /\ LoadSection(Sections[4], holds)
    BY <1>1, <1>5, AtIs, SectionsAre DEF loadPastRCA, LoadSection
  <2>2. QED
    BY <2>1, PinnedKeeps
<1>6. CASE RecallEpisodes(holds)
  <2>1. RecallSection(Sections[5], holds)
    BY <1>6, SectionsAre DEF RecallEpisodes
  <2>2. At = "episodes"
    BY <1>6 DEF RecallEpisodes, RecallSection
  <2>3. QED
    BY <1>1, <2>1, <2>2, AtIs, RecalledKeeps
<1>7. CASE ActiveRules(holds)
  <2>1. RecallSection(Sections[6], holds)
    BY <1>7, SectionsAre DEF ActiveRules
  <2>2. At = "rules"
    BY <1>7 DEF ActiveRules, RecallSection
  <2>3. QED
    BY <1>1, <2>1, <2>2, AtIs, RecalledKeeps
<1>8. CASE RecallThemeSummaries(holds)
  <2>1. RecallSection(Sections[7], holds)
    BY <1>8, SectionsAre DEF RecallThemeSummaries
  <2>2. At = "themes"
    BY <1>8 DEF RecallThemeSummaries, RecallSection
  <2>3. QED
    BY <1>1, <2>1, <2>2, AtIs, RecalledKeeps
<1>9. CASE RecentChanges(holds)
  <2>1. RecallSection(Sections[8], holds)
    BY <1>9, SectionsAre DEF RecentChanges
  <2>2. At = "changes"
    BY <1>9 DEF RecentChanges, RecallSection
  <2>3. QED
    BY <1>1, <2>1, <2>2, AtIs, RecalledKeeps
<1>10. QED
  BY <1>2, <1>3, <1>4, <1>5, <1>6, <1>7, <1>8, <1>9 DEF ReadSection

LEMMA ContextStarts == ContextInit => ContextInv
<1> SUFFICES ASSUME ContextInit
             PROVE  ContextInv
    OBVIOUS
<1>1. loading = 1 /\ pinned = << >> /\ unread = {} /\ told = << >> /\ held = << >>
  BY DEF ContextInit
<1>2. ReadBefore = 0
  BY <1>1 DEF ReadBefore
<1>3. << >> \in Seq(Pieces) /\ << >> \in Seq(Readings) /\ Len(<< >>) = 0
  OBVIOUS
<1>4. ContextTypeOK
  BY <1>1, <1>2, <1>3 DEF ContextTypeOK
<1>5. NothingDropped
  BY <1>1, <1>3 DEF NothingDropped
<1>6. QED
  BY <1>4, <1>5 DEF ContextInv

LEMMA ContextStays ==
  ASSUME ContextInv, UNCHANGED <<loading, pinned, unread, told, held>>
  PROVE  ContextInv'
<1>1. UNCHANGED ReadBefore
  BY DEF ReadBefore
<1>2. \A i : (Kept(i) => Kept(i)') /\ (Said(i) => Said(i)')
  BY KeptStays, SaidStays
<1>3. ContextTypeOK'
  BY <1>1 DEF ContextInv, ContextTypeOK
<1>4. NothingDropped'
  BY <1>2 DEF ContextInv, NothingDropped
<1>5. QED
  BY <1>3, <1>4 DEF ContextInv

LEMMA ContextInvariant == ContextSpec => []ContextInv
<1>1. ContextInv /\ [ContextNext]_contextVars => ContextInv'
  BY PingKeeps, CombineKeeps, ReadingOneKeeps, ContextStays DEF ContextNext, DatabaseFlaps, contextVars
<1>2. QED
  BY <1>1, ContextStarts, PTL DEF ContextSpec

(* The model is told what is missing (memoryAdapter.Load, LoadContext): a  *)
(* section that could not be read is said to be missing, and what a loader *)
(* that announces its cap or the length of the context leaves out is said  *)
(* to be left out, for any deployment and any coming and going of the      *)
(* database between the readings.                                          *)
THEOREM MissingAlwaysSaid == ContextSpec => []MissingIsSaid
<1>1. ASSUME ContextInv, At = "done"
      PROVE  \A i \in DOMAIN Sections : Said(i)
  <2>1. loading = 11 /\ held \in Seq(Readings) /\ Len(held) = 8
    BY <1>1, AtIs DEF ContextInv, ContextTypeOK, ReadBefore
  <2>2. \A i \in 1 .. 8 : Said(i)
    BY <1>1, <2>1 DEF ContextInv, NothingDropped
  <2>3. DOMAIN Sections = 1 .. 8
    BY SectionsAre
  <2>4. QED
    BY <2>2, <2>3
<1>2. ContextInv => MissingIsSaid
  BY <1>1 DEF MissingIsSaid, Said
<1>3. QED
  BY <1>2, ContextInvariant, PTL
-----------------------------------------------------------------------------
(***************************************************************************)
(* The audit of memory writes, for any number of replicas, appends and     *)
(* failed queries.                                                         *)
(*                                                                         *)
(* While no append is excused, rows are in order, a whole chain is linked  *)
(* up to its head, and a chain that lost rows betrays it three ways (Torn):*)
(* it ends before its head, or misses a number, or starts after what was   *)
(* declared.  A check carries the betrayal of what it read until it judges.*)
(***************************************************************************)
Hashes == Seq(Nat \X Nat)
Rows == [seq : Nat, prev : Hashes, item : Nat]
Heads == [seq : Nat, hash : Hashes]
Appends == [pc : {"rows", "head", "append"}, hand : Heads \cup {NoHead}, item : Nat]

AuditTyped ==
    /\ chain \in Seq(Rows)
    /\ head \in Heads \cup {NoHead} /\ declared \in Heads \cup {NoHead}
    /\ cached \in [Writers -> Heads \cup {NoHead}]
    /\ appender \in [Writers -> Appends \cup {NoAppend}]
    /\ \A w \in Writers : appender[w].pc \in {"head", "append"} => appender[w].hand \in Heads
    /\ check \in [pc : {"idle", "links", "head"}, rows : Seq(Rows), saw : BOOLEAN, beside : BOOLEAN,
                  verdict : {"never-checked", "unverified", "intact", "TAMPERED"}]
    /\ entries \in Nat /\ faults \in Nat

(* The rows are in order, none newer than the head.                        *)
Ascending(s, hd) ==
    \A i \in 1 .. Len(s) : /\ hd # NoHead /\ s[i].seq <= hd.seq
                           /\ \A j \in 1 .. i - 1 : s[j].seq < s[i].seq
NewestOf(s) == IF s = << >> THEN NoHead ELSE [seq |-> s[Len(s)].seq, hash |-> HashOf(s[Len(s)])]
(* What gives away that rows are gone: the newest, some within, the first. *)
Short(s, hd) == s = << >> \/ s[Len(s)].seq < hd.seq
Holed(s) == \E i \in 2 .. Len(s) : s[i].seq # s[i - 1].seq + 1
Headless(s, d) == s # << >> /\ s[1].seq # 0 /\ (d # NoHead => d.seq < s[1].seq)
Torn(s, hd, d) == Short(s, hd) \/ Holed(s) \/ Headless(s, d)

Sound(s, hd, d, gone) ==
    /\ Ascending(s, hd)
    /\ gone = {} => Links(s, d) /\ hd = NewestOf(s)
    /\ gone # {} => hd # NoHead /\ Torn(s, hd, d)
    /\ d # NoHead => hd # NoHead /\ d.seq <= hd.seq /\ (s # << >> => d.seq <= s[1].seq)

(* A head to continue from: its number is taken, or it is the next one and *)
(* links, while nothing was removed, to the newest row.                    *)
NextNumber(hd) == IF hd = NoHead THEN 0 ELSE hd.seq + 1
Fits(h, s, hd, gone) ==
    h.seq \in Seqs(s) \/ (h.seq = NextNumber(hd) /\ (gone = {} => h.hash = TailOf(s).hash))
(* The tail a writer read some time ago.                                   *)
Trails(h, s, hd, gone) ==
    h.seq <= NextNumber(hd) /\ (h.seq = NextNumber(hd) /\ gone = {} => h = TailOf(s))
WriterFits(w) ==
    /\ cached[w] # NoHead => Fits(cached[w], chain, head, removed)
    /\ appender[w].pc = "append" => Fits(appender[w].hand, chain, head, removed)
    /\ appender[w].pc = "head" => Trails(appender[w].hand, chain, head, removed)

CheckFits ==
    /\ check.pc # "idle" /\ ~check.beside /\ removed = {} =>
          Links(check.rows, declared) /\ HeadValid(check.rows, head)
    /\ check.pc # "idle" /\ check.saw => removed # {}
    /\ check.pc = "links" /\ check.saw => Torn(check.rows, head, declared)
    /\ check.pc = "head" /\ check.saw => Short(check.rows, head)
    /\ check.pc = "links" /\ declared = NoHead /\ check.rows # << >> /\ check.rows[1].seq # 0 =>
          removed # {} /\ (chain = << >> \/ chain[1].seq # 0)

AuditGood ==
    /\ AuditTyped /\ Sound(chain, head, declared, removed)
    /\ \A w \in Writers : WriterFits(w)
    /\ CheckFits /\ VerdictsCanBeTrusted
AuditInv == excused \/ AuditGood

(***************************************************************************)
(* Rows in a sequence.                                                     *)
(***************************************************************************)
LEMMA RowTyped ==
  ASSUME NEW row \in Rows
  PROVE  row.seq \in Nat /\ row.prev \in Hashes /\ HashOf(row) \in Hashes
BY DEF Rows, Hashes, HashOf

LEMMA TailTyped ==
  ASSUME NEW s \in Seq(Rows)
  PROVE  TailOf(s) \in Heads
<1>1. CASE s = << >>
  BY <1>1 DEF TailOf, Heads, Hashes, Genesis
<1>2. CASE s # << >>
  <2>1. s[Len(s)] \in Rows
    BY <1>2
  <2>2. QED
    BY <1>2, <2>1, RowTyped DEF TailOf, Heads
<1>3. QED
  BY <1>1, <1>2

LEMMA HeadIsSome == \A a, b : [seq |-> a, hash |-> b] # NoHead
BY DEF NoHead

LEMMA RowsOf ==
  ASSUME NEW s \in Seq(Rows)
  PROVE  /\ Len(s) \in Nat
         /\ \A i \in 1 .. Len(s) : s[i] \in Rows /\ s[i].seq \in Nat /\ s[i].seq \in Seqs(s)
         /\ Seqs(s) \subseteq Nat
         /\ \A n \in Seqs(s) : \E i \in 1 .. Len(s) : s[i].seq = n
BY RowTyped DEF Seqs

LEMMA Appended ==
  ASSUME NEW s \in Seq(Rows), NEW row \in Rows
  PROVE  /\ Append(s, row) \in Seq(Rows) /\ Append(s, row) # << >>
         /\ Len(Append(s, row)) = Len(s) + 1 /\ Append(s, row)[Len(s) + 1] = row
         /\ \A i \in 1 .. Len(s) : Append(s, row)[i] = s[i]
         /\ Seqs(Append(s, row)) = Seqs(s) \cup {row.seq}
<1>1. /\ Append(s, row) \in Seq(Rows) /\ Append(s, row) # << >>
      /\ Len(Append(s, row)) = Len(s) + 1 /\ Append(s, row)[Len(s) + 1] = row
      /\ \A i \in 1 .. Len(s) : Append(s, row)[i] = s[i]
  BY AppendProperties
<1>2. PICK t : t = Append(s, row)
  OBVIOUS
<1>3. Len(s) \in Nat /\ DOMAIN s = 1 .. Len(s) /\ DOMAIN t = 1 .. Len(s) + 1
  BY <1>1, <1>2
<1>4. \A i \in DOMAIN t : i = Len(s) + 1 \/ i \in DOMAIN s
  BY <1>3
<1>5. Seqs(t) = Seqs(s) \cup {row.seq}
  BY <1>1, <1>2, <1>3, <1>4 DEF Seqs
<1>6. QED
  BY <1>1, <1>2, <1>5

LEMMA FirstRows ==
  ASSUME NEW s \in Seq(Rows), NEW n \in 0 .. Len(s)
  PROVE  /\ SubSeq(s, 1, n) \in Seq(Rows) /\ Len(SubSeq(s, 1, n)) = n
         /\ \A i \in 1 .. n : SubSeq(s, 1, n)[i] = s[i]
         /\ n = 0 <=> SubSeq(s, 1, n) = << >>
BY SubSeqProperties

LEMMA LaterRows ==
  ASSUME NEW s \in Seq(Rows), Len(s) > 1
  PROVE  /\ Tail(s) \in Seq(Rows) /\ Len(Tail(s)) = Len(s) - 1 /\ Tail(s) # << >>
         /\ \A i \in 1 .. Len(s) - 1 : Tail(s)[i] = s[i + 1]
         /\ \A i \in 2 .. Len(s) : s[i].seq \in Seqs(Tail(s))
<1>1. /\ Tail(s) \in Seq(Rows) /\ Len(Tail(s)) = Len(s) - 1
      /\ \A i \in 1 .. Len(s) - 1 : Tail(s)[i] = s[i + 1]
  BY HeadTailProperties
<1>2. PICK t : t = Tail(s)
  OBVIOUS
<1>3. t # << >> /\ DOMAIN t = 1 .. Len(s) - 1
  BY <1>1, <1>2
<1>4. \A i \in 2 .. Len(s) : i - 1 \in DOMAIN t /\ t[i - 1] = s[i]
  BY <1>1, <1>2, <1>3
<1>5. \A i \in 2 .. Len(s) : s[i].seq \in Seqs(t)
  BY <1>4 DEF Seqs
<1>6. QED
  BY <1>1, <1>2, <1>3, <1>5

(* A row whose number nobody has is the newest when its head fits.         *)
LEMMA FitsAtTheEnd ==
  ASSUME AuditTyped, NEW h \in Heads, NEW row \in Rows,
         Ascending(chain, head), h.seq = NextNumber(head)
  PROVE  InsertAt(chain, PlaceOfNumber(h.seq), row) = Append(chain, row)
<1>1. PICK s, n : s = chain /\ n = h.seq
  OBVIOUS
<1>2. s \in Seq(Rows) /\ Len(s) \in Nat /\ n \in Nat
  BY <1>1 DEF AuditTyped, Heads
<1>3. \A i \in 1 .. Len(s) : s[i].seq \in Nat /\ s[i].seq < n
  <2>1. SUFFICES ASSUME NEW i \in 1 .. Len(s) PROVE s[i].seq \in Nat /\ s[i].seq < n
    OBVIOUS
  <2>2. s[i].seq \in Nat /\ head # NoHead /\ s[i].seq <= head.seq
    BY <1>1, <1>2, RowsOf DEF Ascending
  <2>3. head.seq \in Nat
    BY <2>2 DEF AuditTyped, Heads
  <2>4. QED
    BY <1>1, <2>2, <2>3 DEF NextNumber
<1>4. PlaceOfNumber(h.seq) = Len(s) + 1
  <2>1. \A i \in 1 .. Len(s) + 1 :
           (/\ \A j \in 1 .. i - 1 : s[j].seq < n
            /\ \A j \in i .. Len(s) : s[j].seq > n) <=> i = Len(s) + 1
    BY <1>2, <1>3
  <2>2. Len(s) + 1 \in 1 .. Len(s) + 1
    BY <1>2
  <2>3. QED
    BY <1>1, <2>1, <2>2 DEF PlaceOfNumber
<1>5. SubSeq(s, 1, (Len(s) + 1) - 1) = s /\ SubSeq(s, Len(s) + 1, Len(s)) = << >>
  BY <1>2, SubSeqFull, SubSeqEmpty
<1>6. (s \o <<row>>) \o << >> = Append(s, row)
  BY <1>2, AppendIsConcat, ConcatEmptySeq
<1>7. InsertAt(s, Len(s) + 1, row) = Append(s, row)
  <2>1. InsertAt(s, Len(s) + 1, row) = SubSeq(s, 1, (Len(s) + 1) - 1) \o <<row>> \o SubSeq(s, Len(s) + 1, Len(s))
    BY Zenon DEF InsertAt
  <2>2. InsertAt(s, Len(s) + 1, row) = s \o <<row>> \o << >>
    BY <2>1, <1>5, Zenon
  <2>3. QED
    BY <2>2, <1>6, Zenon
<1>8. QED
  BY <1>1, <1>4, <1>7

(***************************************************************************)
(* How the chain changes.                                                  *)
(***************************************************************************)
LEMMA NumberTyped ==
  ASSUME NEW hd \in Heads \cup {NoHead}
  PROVE  NextNumber(hd) \in Nat /\ (hd # NoHead => hd.seq \in Nat /\ hd.hash \in Hashes)
BY DEF NextNumber, Heads

LEMMA AppendLinks ==
  ASSUME NEW s \in Seq(Rows), NEW d \in Heads \cup {NoHead}, NEW row \in Rows,
         Links(s, d), row.seq = TailOf(s).seq, row.prev = TailOf(s).hash
  PROVE  Links(Append(s, row), d)
<1>1. PICK t : t = Append(s, row)
  OBVIOUS
<1>2. /\ Len(s) \in Nat /\ t # << >> /\ Len(t) = Len(s) + 1 /\ t[Len(s) + 1] = row
      /\ \A i \in 1 .. Len(s) : t[i] = s[i]
  BY <1>1, Appended
<1>3. CASE s = << >>
  <2>1. row.seq = 0 /\ row.prev = Genesis
    BY <1>3 DEF TailOf
  <2>2. Len(t) = 1 /\ t[1] = row
    BY <1>2, <1>3
  <2>3. VerifyChain(t, 0, Genesis)
    BY <2>1, <2>2 DEF VerifyChain
  <2>4. QED
    BY <1>1, <2>1, <2>2, <2>3 DEF Links
<1>4. CASE s # << >>
  <2>1. row.seq = s[Len(s)].seq + 1 /\ row.prev = HashOf(s[Len(s)])
    BY <1>4 DEF TailOf
  <2>2. Len(s) >= 1
    BY <1>4
  <2>3. ASSUME NEW n \in Nat, NEW prev, VerifyChain(s, n, prev)
        PROVE  VerifyChain(t, n, prev)
    <3>1. SUFFICES ASSUME NEW i \in 1 .. Len(t)
                   PROVE  t[i].seq = n + i - 1 /\ t[i].prev = IF i = 1 THEN prev ELSE HashOf(t[i - 1])
      BY DEF VerifyChain
    <3>2. CASE i \in 1 .. Len(s)
      <4>1. i = 1 \/ i - 1 \in 1 .. Len(s)
        BY <1>2, <3>2
      <4>2. QED
        BY <1>2, <2>3, <3>2, <4>1 DEF VerifyChain
    <3>3. CASE i = Len(s) + 1
      <4>1. Len(s) \in 1 .. Len(s) /\ i # 1 /\ i - 1 = Len(s) /\ n + i - 1 = (n + Len(s) - 1) + 1
        BY <1>2, <2>2, <3>3
      <4>2. s[Len(s)].seq = n + Len(s) - 1
        BY <2>3, <4>1 DEF VerifyChain
      <4>3. t[i - 1] = s[Len(s)] /\ t[i] = row
        BY <1>2, <3>3, <4>1
      <4>4. QED
        BY <2>1, <4>1, <4>2, <4>3
    <3>4. QED
      BY <1>2, <3>2, <3>3
  <2>4. t[1] = s[1] /\ s[1].seq \in Nat
    BY <1>2, <2>2, RowsOf
  <2>5. CASE s[1].seq = 0
    BY <1>1, <1>2, <1>4, <2>3, <2>4, <2>5 DEF Links
  <2>6. CASE s[1].seq # 0
    BY <1>1, <1>2, <1>4, <2>3, <2>4, <2>6, NumberTyped DEF Links
  <2>7. QED
    BY <2>5, <2>6
<1>5. QED
  BY <1>3, <1>4

LEMMA AppendSound ==
  ASSUME NEW s \in Seq(Rows), NEW hd \in Heads \cup {NoHead}, NEW d \in Heads \cup {NoHead}, NEW gone,
         Sound(s, hd, d, gone), NEW row \in Rows, row.seq = NextNumber(hd),
         gone = {} => row.prev = TailOf(s).hash,
         NEW new \in Heads, new = [seq |-> row.seq, hash |-> HashOf(row)]
  PROVE  Sound(Append(s, row), new, d, gone) /\ new # NoHead
<1>1. PICK t : t = Append(s, row)
  OBVIOUS
<1>2. /\ Len(s) \in Nat /\ t # << >> /\ Len(t) = Len(s) + 1 /\ t[Len(s) + 1] = row
      /\ \A i \in 1 .. Len(s) : t[i] = s[i] /\ s[i].seq \in Nat
      /\ s # << >> => Len(s) \in 1 .. Len(s) /\ 1 \in 1 .. Len(s)
  BY <1>1, Appended, RowsOf
<1>3. /\ new # NoHead /\ row.seq \in Nat /\ new.seq = row.seq /\ new.hash = HashOf(row)
      /\ hd = NoHead => row.seq = 0
      /\ hd # NoHead => hd.seq \in Nat /\ row.seq = hd.seq + 1
  BY HeadIsSome, RowTyped, NumberTyped DEF NextNumber
<1>4. \A i \in 1 .. Len(s) : s[i].seq < row.seq
  BY <1>2, <1>3 DEF Sound, Ascending
<1>5. Ascending(t, new)
  <2>1. SUFFICES ASSUME NEW i \in 1 .. Len(t)
                 PROVE  t[i].seq <= new.seq /\ \A j \in 1 .. i - 1 : t[j].seq < t[i].seq
    BY <1>3 DEF Ascending
  <2>2. CASE i \in 1 .. Len(s)
    <3>1. \A j \in 1 .. i - 1 : j \in 1 .. Len(s)
      BY <1>2, <2>2
    <3>2. QED
      BY <1>2, <1>3, <1>4, <2>2, <3>1 DEF Sound, Ascending
  <2>3. CASE i = Len(s) + 1
    BY <1>2, <1>3, <1>4, <2>3
  <2>4. QED
    BY <1>2, <2>2, <2>3
<1>6. ASSUME gone = {}
      PROVE  Links(t, d) /\ new = NewestOf(t)
  <2>1. Links(s, d) /\ hd = NewestOf(s)
    BY <1>6 DEF Sound
  <2>2. row.seq = TailOf(s).seq
    BY <1>3, <2>1, HeadIsSome DEF TailOf, NewestOf
  <2>3. Links(t, d)
    BY <1>1, <1>6, <2>1, <2>2, AppendLinks
  <2>4. QED
    BY <1>2, <2>3 DEF NewestOf
<1>7. ASSUME gone # {}
      PROVE  Torn(t, new, d)
  <2>1. hd # NoHead /\ Torn(s, hd, d)
    BY <1>7 DEF Sound
  <2>2. CASE s = << >>
    <3>1. t[1] = row /\ row.seq # 0
      BY <1>2, <1>3, <2>1, <2>2
    <3>2. d # NoHead => d.seq < row.seq
      BY <1>3, <2>1, NumberTyped DEF Sound
    <3>3. QED
      BY <1>2, <3>1, <3>2 DEF Torn, Headless
  <2>3. CASE s # << >> /\ Short(s, hd)
    <3>1. s[Len(s)].seq < hd.seq /\ s[Len(s)].seq \in Nat
      BY <1>2, <2>3 DEF Short
    <3>2. t[Len(s) + 1].seq # t[(Len(s) + 1) - 1].seq + 1
      BY <1>2, <1>3, <2>1, <2>3, <3>1
    <3>3. Len(s) + 1 \in 2 .. Len(t)
      BY <1>2, <2>3
    <3>4. QED
      BY <3>2, <3>3 DEF Torn, Holed
  <2>4. CASE Holed(s)
    <3>1. PICK i \in 2 .. Len(s) : s[i].seq # s[i - 1].seq + 1
      BY <2>4 DEF Holed
    <3>2. i \in 1 .. Len(s) /\ i - 1 \in 1 .. Len(s) /\ i \in 2 .. Len(t)
      BY <1>2
    <3>3. QED
      BY <1>2, <3>1, <3>2 DEF Torn, Holed
  <2>5. CASE Headless(s, d)
    BY <1>2, <2>5 DEF Torn, Headless
  <2>6. QED
    BY <2>1, <2>2, <2>3, <2>4, <2>5 DEF Torn
<1>8. ASSUME d # NoHead
      PROVE  d.seq <= new.seq /\ d.seq <= t[1].seq
  <2>1. hd # NoHead /\ d.seq <= hd.seq /\ (s # << >> => d.seq <= s[1].seq) /\ d.seq \in Nat
    BY <1>8, NumberTyped DEF Sound
  <2>2. CASE s = << >>
    BY <1>2, <1>3, <2>1, <2>2
  <2>3. CASE s # << >>
    BY <1>2, <1>3, <2>1, <2>3
  <2>4. QED
    BY <2>2, <2>3
<1>9. QED
  BY <1>1, <1>2, <1>3, <1>5, <1>6, <1>7, <1>8 DEF Sound

(* Without its newest rows a chain is shorter than its head says.          *)
LEMMA FirstAreShort ==
  ASSUME NEW s \in Seq(Rows), NEW hd \in Heads \cup {NoHead}, Ascending(s, hd), NEW n \in 0 .. Len(s) - 1
  PROVE  /\ hd # NoHead /\ Short(SubSeq(s, 1, n), hd) /\ Ascending(SubSeq(s, 1, n), hd)
         /\ s[Len(s)].seq \in Seqs(s) \ Seqs(SubSeq(s, 1, n))
<1>1. PICK t : t = SubSeq(s, 1, n)
  OBVIOUS
<1>2. /\ Len(s) \in Nat /\ n \in 0 .. Len(s) /\ Len(s) \in 1 .. Len(s)
      /\ \A i \in 1 .. Len(s) : s[i].seq \in Nat /\ s[i].seq \in Seqs(s)
  BY RowsOf
<1>3. /\ t \in Seq(Rows) /\ Len(t) = n /\ \A i \in 1 .. n : t[i] = s[i]
      /\ n = 0 <=> t = << >>
  BY <1>1, <1>2, FirstRows
<1>4. hd # NoHead /\ hd.seq \in Nat /\ \A i \in 1 .. Len(s) : s[i].seq <= hd.seq
  BY <1>2, NumberTyped DEF Ascending
<1>5. \A i \in 1 .. n : i \in 1 .. Len(s) /\ t[i].seq < s[Len(s)].seq
  BY <1>2, <1>3 DEF Ascending
<1>6. Short(t, hd)
  <2>1. CASE n = 0
    BY <1>3, <2>1 DEF Short
  <2>2. CASE n # 0
    <3>1. n \in 1 .. n /\ Len(t) = n /\ t[n] = s[n] /\ n \in 1 .. Len(s)
      BY <1>2, <1>3, <2>2
    <3>2. s[n].seq < s[Len(s)].seq /\ s[Len(s)].seq <= hd.seq /\ s[n].seq \in Nat /\ s[Len(s)].seq \in Nat
      BY <1>2, <1>4, <1>5, <3>1
    <3>3. QED
      BY <1>4, <3>1, <3>2 DEF Short
  <2>3. QED
    BY <2>1, <2>2
<1>7. Ascending(t, hd)
  <2>1. SUFFICES ASSUME NEW i \in 1 .. n
                 PROVE  t[i].seq <= hd.seq /\ \A j \in 1 .. i - 1 : t[j].seq < t[i].seq
    BY <1>3, <1>4 DEF Ascending
  <2>2. i \in 1 .. Len(s) /\ \A j \in 1 .. i - 1 : j \in 1 .. n
    BY <1>2
  <2>3. QED
    BY <1>3, <1>4, <2>2 DEF Ascending
<1>8. s[Len(s)].seq \notin Seqs(t)
  <2>1. \A m \in Seqs(t) : \E i \in 1 .. n : t[i].seq = m
    BY <1>3, RowsOf
  <2>2. \A i \in 1 .. n : t[i].seq # s[Len(s)].seq
    BY <1>2, <1>3, <1>5
  <2>3. QED
    BY <2>1, <2>2
<1>9. QED
  BY <1>1, <1>2, <1>4, <1>6, <1>7, <1>8

LEMMA RemovalSound ==
  ASSUME NEW s \in Seq(Rows), NEW hd \in Heads \cup {NoHead}, NEW d \in Heads \cup {NoHead}, Sound(s, hd, d, {}),
         NEW n \in 0 .. Len(s) - 1, NEW gone, gone # {}
  PROVE  Sound(SubSeq(s, 1, n), hd, d, gone)
<1>1. PICK t : t = SubSeq(s, 1, n)
  OBVIOUS
<1>2. /\ hd # NoHead /\ Short(t, hd) /\ Ascending(t, hd)
  BY <1>1, FirstAreShort DEF Sound
<1>3. ASSUME t # << >>
      PROVE  s # << >> /\ t[1] = s[1]
  <2>1. n \in 0 .. Len(s) /\ (n = 0 <=> t = << >>) /\ \A i \in 1 .. n : t[i] = s[i]
    <3>1. n \in 0 .. Len(s)
      BY RowsOf
    <3>2. QED
      BY <1>1, <3>1, FirstRows
  <2>2. n \in Nat /\ n >= 1 /\ 1 \in 1 .. n /\ Len(s) # 0
    BY <1>3, <2>1, RowsOf
  <2>3. QED
    BY <2>1, <2>2
<1>4. QED
  BY <1>1, <1>2, <1>3 DEF Sound, Torn

(* Links that hold leave only the newest rows to be missing.               *)
LEMMA LinkedIsShort ==
  ASSUME NEW s \in Seq(Rows), NEW hd, NEW d \in Heads \cup {NoHead}, Links(s, d), Torn(s, hd, d)
  PROVE  Short(s, hd)
<1>1. SUFFICES ASSUME s # << >> PROVE ~Holed(s) /\ ~Headless(s, d)
  BY DEF Torn, Short
<1>2. Len(s) \in Nat /\ Len(s) >= 1 /\ 1 \in 1 .. Len(s) /\ s[1].seq \in Nat
  BY <1>1, RowsOf
<1>3. PICK n \in Nat : \A i \in 1 .. Len(s) : s[i].seq = n + i - 1
  BY <1>1, <1>2, NumberTyped DEF Links, VerifyChain
<1>4. ~Holed(s)
  <2>1. SUFFICES ASSUME NEW i \in 2 .. Len(s) PROVE s[i].seq = s[i - 1].seq + 1
    BY DEF Holed
  <2>2. i \in 1 .. Len(s) /\ i - 1 \in 1 .. Len(s)
    BY <1>2
  <2>3. s[i].seq = n + i - 1 /\ s[i - 1].seq = n + (i - 1) - 1
    BY <1>3, <2>2
  <2>4. QED
    BY <2>3
<1>5. ~Headless(s, d)
  <2>1. s[1].seq # 0 => d # NoHead /\ d.seq = s[1].seq
    BY <1>1 DEF Links
  <2>2. QED
    BY <1>2, <2>1 DEF Headless
<1>6. QED
  BY <1>4, <1>5

(* The front is shortened and declared.                                    *)
LEMMA FrontShortened ==
  ASSUME NEW s \in Seq(Rows), Len(s) > 1, NEW hd \in Heads \cup {NoHead}, NEW gone,
         Sound(s, hd, NoHead, gone), Links(s, NoHead),
         NEW d \in Heads, d = [seq |-> s[2].seq, hash |-> s[2].prev]
  PROVE  /\ Sound(Tail(s), hd, d, gone) /\ TailOf(Tail(s)) = TailOf(s)
         /\ s[1].seq = 0 /\ Seqs(s) \ {s[1].seq} \subseteq Seqs(Tail(s))
<1>1. PICK t : t = Tail(s)
  OBVIOUS
<1>2. /\ t \in Seq(Rows) /\ Len(t) = Len(s) - 1 /\ t # << >> /\ s # << >>
      /\ \A i \in 1 .. Len(s) - 1 : t[i] = s[i + 1]
      /\ \A i \in 2 .. Len(s) : s[i].seq \in Seqs(t)
  BY <1>1, LaterRows
<1>3. /\ Len(s) \in Nat /\ \A i \in 1 .. Len(s) : s[i].seq \in Nat
      /\ \A m \in Seqs(s) : \E i \in 1 .. Len(s) : s[i].seq = m
  BY RowsOf
<1>4. t[Len(t)] = s[Len(s)] /\ t[1] = s[2]
  <2>1. Len(s) - 1 \in 1 .. Len(s) - 1 /\ 1 \in 1 .. Len(s) - 1 /\ (Len(s) - 1) + 1 = Len(s) /\ 1 + 1 = 2
    BY <1>3
  <2>2. QED
    BY <1>2, <2>1
<1>5. TailOf(t) = TailOf(s) /\ NewestOf(t) = NewestOf(s) /\ (Short(s, hd) => Short(t, hd))
  BY <1>2, <1>4 DEF TailOf, NewestOf, Short
<1>6. s[1].seq = 0 /\ VerifyChain(s, 0, Genesis)
  BY <1>2 DEF Links
<1>7. s[2].seq = 1 /\ d.seq = 1 /\ d.hash = s[2].prev /\ d # NoHead
  <2>1. 2 \in 1 .. Len(s)
    BY <1>3
  <2>2. s[2].seq = 0 + 2 - 1
    BY <1>6, <2>1 DEF VerifyChain
  <2>3. d # NoHead
    BY HeadIsSome
  <2>4. QED
    BY <2>2, <2>3
<1>8. Links(t, d)
  <2>1. VerifyChain(t, 1, d.hash)
    <3>1. SUFFICES ASSUME NEW i \in 1 .. Len(t)
                   PROVE  t[i].seq = 1 + i - 1 /\ t[i].prev = IF i = 1 THEN d.hash ELSE HashOf(t[i - 1])
      BY DEF VerifyChain
    <3>2. i + 1 \in 1 .. Len(s) /\ t[i] = s[i + 1] /\ i + 1 # 1 /\ (i + 1) - 1 = i
      BY <1>2, <1>3
    <3>3. s[i + 1].seq = 0 + (i + 1) - 1 /\ s[i + 1].prev = HashOf(s[i])
      BY <1>6, <3>2 DEF VerifyChain
    <3>4. i # 1 => t[i - 1] = s[i]
      <4>1. i # 1 => i - 1 \in 1 .. Len(s) - 1 /\ (i - 1) + 1 = i
        BY <1>2, <1>3
      <4>2. QED
        BY <1>2, <4>1
    <3>5. i = 1 => t[i].prev = d.hash
      BY <1>4, <1>7
    <3>6. t[i].seq = 1 + i - 1
      BY <3>2, <3>3
    <3>7. QED
      BY <3>2, <3>3, <3>4, <3>5, <3>6
  <2>2. QED
    BY <1>2, <1>4, <1>7, <2>1 DEF Links
<1>9. Ascending(t, hd)
  <2>1. SUFFICES ASSUME NEW i \in 1 .. Len(t)
                 PROVE  hd # NoHead /\ t[i].seq <= hd.seq /\ \A j \in 1 .. i - 1 : t[j].seq < t[i].seq
    BY DEF Ascending
  <2>2. i + 1 \in 1 .. Len(s) /\ t[i] = s[i + 1]
    BY <1>2, <1>3
  <2>3. \A j \in 1 .. i - 1 : j + 1 \in 1 .. (i + 1) - 1 /\ t[j] = s[j + 1]
    BY <1>2, <1>3
  <2>4. QED
    BY <2>2, <2>3 DEF Sound, Ascending
<1>10. gone # {} => hd # NoHead /\ Torn(t, hd, d)
  BY <1>5, LinkedIsShort DEF Sound, Torn
<1>11. hd # NoHead /\ d.seq <= hd.seq /\ d.seq <= t[1].seq
  <2>1. 2 \in 1 .. Len(s)
    BY <1>3
  <2>2. hd # NoHead /\ s[2].seq <= hd.seq
    BY <2>1 DEF Sound, Ascending
  <2>3. QED
    BY <1>4, <1>7, <2>2
<1>12. Sound(t, hd, d, gone)
  BY <1>5, <1>8, <1>9, <1>10, <1>11 DEF Sound
<1>13. Seqs(s) \ {s[1].seq} \subseteq Seqs(t)
  <2>1. SUFFICES ASSUME NEW m \in Seqs(s), m # s[1].seq PROVE m \in Seqs(t)
    OBVIOUS
  <2>2. PICK i \in 1 .. Len(s) : s[i].seq = m
    BY <1>3
  <2>3. i \in 2 .. Len(s)
    BY <1>3, <2>1, <2>2
  <2>4. QED
    BY <1>2, <2>2, <2>3
<1>14. QED
  BY <1>1, <1>5, <1>6, <1>12, <1>13

(***************************************************************************)
(* The steps of a writer that write nothing.                               *)
(***************************************************************************)
LEMMA NoAppendIdle == NoAppend.pc = "idle" /\ NoAppend \notin Appends
BY DEF NoAppend, Appends

LEMMA FaultTyped == AuditTyped /\ Fault => faults' \in Nat
BY DEF AuditTyped, Fault

LEMMA WriterKeeps ==
  ASSUME AuditGood, ~excused, ~excused', NEW w \in Writers,
         NEW c \in Heads \cup {NoHead}, NEW a \in Appends \cup {NoAppend},
         cached' = [cached EXCEPT ![w] = c], appender' = [appender EXCEPT ![w] = a],
         a.pc \in {"head", "append"} => a.hand \in Heads,
         c # NoHead => Fits(c, chain, head, removed),
         a.pc = "append" => Fits(a.hand, chain, head, removed),
         a.pc = "head" => Trails(a.hand, chain, head, removed),
         UNCHANGED <<chain, head, declared, check, removed>>, entries' \in Nat, faults' \in Nat
  PROVE  AuditGood'
<1> USE DEF AuditGood
<1>1. AuditTyped'
  BY DEF AuditTyped
<1>2. ASSUME NEW v \in Writers
      PROVE  WriterFits(v)'
  <2>1. CASE v = w
    <3>1. cached'[v] = c /\ appender'[v] = a
      BY <2>1 DEF AuditTyped
    <3>2. QED
      BY <3>1 DEF WriterFits
  <2>2. CASE v # w
    <3>1. cached'[v] = cached[v] /\ appender'[v] = appender[v]
      BY <2>2 DEF AuditTyped
    <3>2. WriterFits(v)
      OBVIOUS
    <3>3. QED
      BY <3>1, <3>2 DEF WriterFits
  <2>3. QED
    BY <2>1, <2>2
<1>3. CheckFits' /\ VerdictsCanBeTrusted'
  BY DEF CheckFits, VerdictsCanBeTrusted
<1>4. QED
  BY <1>1, <1>2, <1>3

LEMMA AppenderTyped ==
  ASSUME AuditTyped, NEW w \in Writers
  PROVE  /\ cached[w] \in Heads \cup {NoHead}
         /\ appender[w].pc # "idle" => appender[w] \in Appends
         /\ appender[w].pc \in {"head", "append"} => appender[w].hand \in Heads
BY NoAppendIdle DEF AuditTyped

LEMMA BeginAppendKeeps ==
  ASSUME AuditGood, ~excused, ~excused', NEW w \in Writers, Begin(w)
  PROVE  AuditGood'
<1>1. AuditTyped /\ WriterFits(w) /\ cached[w] \in Heads \cup {NoHead} /\ entries \in Nat /\ faults \in Nat
  BY AppenderTyped DEF AuditGood, AuditTyped
<1>2. PICK a : a = [pc |-> IF cached[w] = NoHead THEN "rows" ELSE "append", hand |-> cached[w], item |-> entries]
  OBVIOUS
<1>3. /\ a \in Appends /\ a.hand = cached[w] /\ a.pc = (IF cached[w] = NoHead THEN "rows" ELSE "append")
  BY <1>1, <1>2 DEF Appends
<1>4. /\ a.pc \in {"head", "append"} => a.hand \in Heads
      /\ a.pc = "append" => Fits(a.hand, chain, head, removed)
      /\ a.pc # "head"
  BY <1>1, <1>3 DEF WriterFits
<1>5. cached' = [cached EXCEPT ![w] = cached[w]] /\ appender' = [appender EXCEPT ![w] = a]
  BY <1>1, <1>2 DEF Begin, AuditTyped
<1>6. cached[w] # NoHead => Fits(cached[w], chain, head, removed)
  BY <1>1 DEF WriterFits
<1>7. UNCHANGED <<chain, head, declared, check, removed>> /\ entries' \in Nat /\ faults' \in Nat
  BY <1>1 DEF Begin
<1>8. QED
  BY <1>1, <1>3, <1>4, <1>5, <1>6, <1>7, WriterKeeps

LEMMA ReadLastRowKeeps ==
  ASSUME AuditGood, ~excused, ~excused', NEW w \in Writers, ReadLastRow(w)
  PROVE  AuditGood'
<1>1. AuditTyped /\ WriterFits(w) /\ Sound(chain, head, declared, removed) /\ appender[w].pc = "rows"
  BY DEF AuditGood, ReadLastRow
<1>2. PICK h \in Heads : h = TailOf(chain)
  BY <1>1, TailTyped DEF AuditTyped
<1>3. appender[w] \in Appends /\ cached[w] \in Heads \cup {NoHead}
  BY <1>1, AppenderTyped
<1>4. PICK a : a = [appender[w] EXCEPT !.pc = "head", !.hand = h]
  OBVIOUS
<1>5. a \in Appends /\ a.pc = "head" /\ a.hand = h
  BY <1>3, <1>4 DEF Appends
<1>6. cached' = [cached EXCEPT ![w] = cached[w]] /\ appender' = [appender EXCEPT ![w] = a]
  BY <1>1, <1>2, <1>4 DEF ReadLastRow, AuditTyped
<1>7. h.seq <= NextNumber(head)
  <2>1. head \in Heads \cup {NoHead} /\ chain \in Seq(Rows)
    BY <1>1 DEF AuditTyped
  <2>2. CASE chain = << >>
    BY <1>2, <2>1, <2>2, NumberTyped DEF TailOf
  <2>3. CASE chain # << >>
    <3>1. h.seq = chain[Len(chain)].seq + 1 /\ chain[Len(chain)].seq \in Nat /\ Len(chain) \in 1 .. Len(chain)
      BY <1>2, <2>1, <2>3, RowsOf DEF TailOf
    <3>2. head # NoHead /\ chain[Len(chain)].seq <= head.seq /\ head.seq \in Nat
      BY <1>1, <2>1, <3>1, NumberTyped DEF Sound, Ascending
    <3>3. QED
      BY <3>1, <3>2 DEF NextNumber
  <2>4. QED
    BY <2>2, <2>3
<1>8. Trails(a.hand, chain, head, removed)
  BY <1>2, <1>5, <1>7 DEF Trails
<1>9. UNCHANGED <<chain, head, declared, check, removed>> /\ entries' \in Nat /\ faults' \in Nat
  BY <1>1 DEF ReadLastRow, AuditTyped
<1>10. cached[w] # NoHead => Fits(cached[w], chain, head, removed)
  BY <1>1 DEF WriterFits
<1>11. QED
  BY <1>3, <1>5, <1>6, <1>8, <1>9, <1>10, WriterKeeps

(* The head that was read, or taken for one that is not there, continues   *)
(* the chain unless the append is excused.                                 *)
LEMMA HandFits ==
  ASSUME NEW s \in Seq(Rows), NEW hd \in Heads \cup {NoHead}, NEW gone, NEW hand \in Heads,
         Trails(hand, s, hd, gone)
  PROVE  /\ PastAnchor(hand, hd) \in Heads
         /\ PastAnchor(hand, hd) = hand \/ hand = TailOf(s) => Fits(PastAnchor(hand, hd), s, hd, gone)
<1>1. hand.seq \in Nat /\ hand.hash \in Hashes /\ hand.seq <= NextNumber(hd)
  BY DEF Heads, Trails
<1>2. CASE hd # NoHead /\ hd.seq + 1 > hand.seq
  <2>1. hd.seq + 1 \in Nat /\ NextNumber(hd) = hd.seq + 1
    BY <1>2, NumberTyped DEF NextNumber
  <2>2. PICK h : h = [hand EXCEPT !.seq = hd.seq + 1]
    OBVIOUS
  <2>3. h \in Heads /\ h.seq = hd.seq + 1 /\ h.hash = hand.hash
    BY <2>1, <2>2 DEF Heads
  <2>4. PastAnchor(hand, hd) = h
    BY <1>2, <2>2 DEF PastAnchor
  <2>5. h # hand
    BY <1>1, <1>2, <2>1, <2>3
  <2>6. QED
    BY <2>1, <2>3, <2>4, <2>5 DEF Fits
<1>3. CASE ~(hd # NoHead /\ hd.seq + 1 > hand.seq)
  <2>1. PastAnchor(hand, hd) = hand
    BY <1>3 DEF PastAnchor
  <2>2. hand.seq = NextNumber(hd)
    BY <1>1, <1>3, NumberTyped DEF NextNumber
  <2>3. QED
    BY <2>1, <2>2 DEF Fits, Trails
<1>4. QED
  BY <1>2, <1>3

LEMMA ReadHeadKeeps ==
  ASSUME AuditGood, ~excused, ~excused', NEW w \in Writers, ReadHead(w) \/ HeadUnread(w)
  PROVE  AuditGood'
<1>1. AuditTyped /\ WriterFits(w) /\ appender[w].pc = "head"
  BY DEF AuditGood, ReadHead, HeadUnread
<1>2. PICK hand \in Heads : hand = appender[w].hand
  BY <1>1, AppenderTyped
<1>3. appender[w] \in Appends
  BY <1>1, AppenderTyped
<1>4. Trails(hand, chain, head, removed)
  BY <1>1, <1>2 DEF WriterFits
<1>5. PICK h : h = IF ReadHead(w) THEN PastAnchor(hand, head) ELSE hand
  OBVIOUS
<1>6. h \in Heads /\ Fits(h, chain, head, removed)
  <2>1. chain \in Seq(Rows) /\ head \in Heads \cup {NoHead}
    BY <1>1 DEF AuditTyped
  <2>2. CASE ReadHead(w)
    <3>1. PastAnchor(hand, head) = hand \/ hand = TailOf(chain)
      BY <1>2, <2>2 DEF ReadHead
    <3>2. QED
      BY <1>4, <1>5, <2>1, <2>2, <3>1, HandFits
  <2>3. CASE ~ReadHead(w)
    <3>1. PastAnchor(hand, head) = hand
      BY <1>2, <2>3 DEF HeadUnread
    <3>2. QED
      BY <1>4, <1>5, <2>1, <2>3, <3>1, HandFits
  <2>4. QED
    BY <2>2, <2>3
<1>7. PICK a : a = [appender[w] EXCEPT !.pc = "append", !.hand = h]
  OBVIOUS
<1>8. a \in Appends /\ a.pc = "append" /\ a.hand = h
  BY <1>3, <1>6, <1>7 DEF Appends
<1>9. /\ UNCHANGED <<chain, head, declared, check, removed>> /\ entries' \in Nat /\ faults' \in Nat
      /\ cached' = [cached EXCEPT ![w] = h]
  BY <1>1, <1>2, <1>5, FaultTyped DEF ReadHead, HeadUnread, AuditTyped
<1>10. appender' = [appender EXCEPT ![w] = a]
  <2>1. CASE ReadHead(w)
    BY <1>2, <1>5, <1>7, <2>1 DEF ReadHead
  <2>2. CASE ~ReadHead(w)
    <3>1. [appender[w] EXCEPT !.pc = "append"] = a
      BY <1>2, <1>3, <1>5, <1>7, <2>2 DEF Appends
    <3>2. QED
      BY <2>2, <3>1 DEF HeadUnread
  <2>3. QED
    BY <2>1, <2>2
<1>11. QED
  BY <1>6, <1>8, <1>9, <1>10, WriterKeeps

LEMMA GivesUpKeeps ==
  ASSUME AuditGood, ~excused, ~excused', NEW w \in Writers, Refused(w) \/ AppendFails(w) \/ Restart(w)
  PROVE  AuditGood'
<1>1. AuditTyped /\ entries \in Nat /\ faults \in Nat
  BY DEF AuditGood, AuditTyped
<1>2. /\ UNCHANGED <<chain, head, declared, check, removed>> /\ entries' \in Nat /\ faults' \in Nat
      /\ cached' = [cached EXCEPT ![w] = NoHead] /\ appender' = [appender EXCEPT ![w] = NoAppend]
  BY <1>1, FaultTyped DEF Refused, AppendFails, Restart
<1>3. NoAppend.pc \notin {"head", "append"}
  BY NoAppendIdle
<1>4. QED
  BY <1>2, <1>3, WriterKeeps

(***************************************************************************)
(* The steps that change the rows.                                         *)
(***************************************************************************)
LEMMA CommitKeeps ==
  ASSUME AuditGood, ~excused, ~excused', NEW w \in Writers, Append_(w) \/ CommitReplyLost(w)
  PROVE  AuditGood'
<1> USE DEF AuditGood
<1>1. /\ AuditTyped /\ WriterFits(w) /\ Sound(chain, head, declared, removed) /\ CheckFits
      /\ Committed(w)
  BY DEF Append_, CommitReplyLost
<1>2. /\ chain \in Seq(Rows) /\ head \in Heads \cup {NoHead} /\ declared \in Heads \cup {NoHead}
      /\ entries \in Nat /\ faults \in Nat
  BY <1>1 DEF AuditTyped
<1>3. PICK h \in Heads : h = appender[w].hand
  BY <1>1, AppenderTyped DEF Committed
<1>4. /\ appender[w] \in Appends /\ appender[w].item \in Nat
      /\ h.seq \in Nat /\ h.hash \in Hashes /\ h.seq \notin Seqs(chain)
  BY <1>1, <1>3, AppenderTyped DEF Committed, Appends, Heads
<1>5. h.seq = NextNumber(head) /\ (removed = {} => h.hash = TailOf(chain).hash)
  BY <1>1, <1>3, <1>4 DEF WriterFits, Fits, Committed
<1>6. PICK row \in Rows : row = [seq |-> h.seq, prev |-> h.hash, item |-> appender[w].item]
  BY <1>4 DEF Rows
<1>7. row.seq = h.seq /\ row.prev = h.hash
  BY <1>6
<1>8. PICK new \in Heads : new = [seq |-> row.seq, hash |-> HashOf(row)]
  BY RowTyped DEF Heads
<1>9. new.seq = row.seq /\ new.hash = HashOf(row) /\ new # NoHead
  BY <1>8, HeadIsSome
<1>10. chain' = Append(chain, row) /\ head' = new
  <2>1. chain' = InsertAt(chain, PlaceOfNumber(h.seq), row)
    BY <1>1, <1>3, <1>6 DEF Committed
  <2>2. InsertAt(chain, PlaceOfNumber(h.seq), row) = Append(chain, row)
    BY <1>1, <1>5, FitsAtTheEnd DEF Sound
  <2>3. head' = new
    BY <1>1, <1>3, <1>6, <1>7, <1>8 DEF Committed
  <2>4. QED
    BY <2>1, <2>2, <2>3
<1>11. PICK c \in Heads \cup {NoHead} :
         /\ cached' = [cached EXCEPT ![w] = c]
         /\ c # NoHead => c.seq = NextNumber(new) /\ c.hash = HashOf(row)
  <2>1. CASE Append_(w)
    <3>1. PICK c : c = [seq |-> h.seq + 1, hash |-> new.hash]
      OBVIOUS
    <3>2. c \in Heads /\ c.seq = NextNumber(new) /\ c.hash = HashOf(row)
      BY <1>4, <1>7, <1>9, <3>1, RowTyped DEF Heads, NextNumber
    <3>3. cached' = [cached EXCEPT ![w] = c]
      BY <1>3, <1>10, <2>1, <3>1 DEF Append_, NextHead
    <3>4. QED
      BY <3>2, <3>3
  <2>2. CASE CommitReplyLost(w)
    BY <2>2 DEF CommitReplyLost
  <2>3. QED
    BY <2>1, <2>2
<1>12. /\ appender' = [appender EXCEPT ![w] = NoAppend]
       /\ check' = [check EXCEPT !.beside = TRUE]
       /\ UNCHANGED <<declared, entries, removed>>
  BY <1>1 DEF Committed
<1>13. faults' \in Nat
  BY <1>1, <1>2, FaultTyped DEF Append_, CommitReplyLost
<1>14. /\ chain' \in Seq(Rows) /\ chain' # << >> /\ Seqs(chain') = Seqs(chain) \cup {h.seq}
       /\ chain # << >> => chain'[1] = chain[1]
       /\ chain = << >> => chain'[1] = row
       /\ chain'[Len(chain')] = row
  <2>1. PICK s : s = chain
    OBVIOUS
  <2>2. PICK t : t = Append(s, row)
    OBVIOUS
  <2>3. /\ t \in Seq(Rows) /\ t # << >> /\ Len(t) = Len(s) + 1 /\ t[Len(s) + 1] = row
        /\ \A i \in 1 .. Len(s) : t[i] = s[i]
        /\ Seqs(t) = Seqs(s) \cup {h.seq} /\ Len(s) \in Nat
    BY <1>2, <1>7, <2>1, <2>2, Appended
  <2>4. /\ s # << >> => 1 \in 1 .. Len(s)
        /\ s = << >> => Len(s) + 1 = 1
    BY <1>2, <2>1
  <2>5. chain' = t
    BY <1>10, <2>1, <2>2
  <2>6. QED
    BY <2>1, <2>3, <2>4, <2>5
<1>15. NextNumber(head) \in Nat /\ NextNumber(head') = NextNumber(head) + 1
  BY <1>2, <1>5, <1>7, <1>9, <1>10, NumberTyped DEF NextNumber
<1>16. AuditTyped'
  BY <1>2, <1>10, <1>11, <1>12, <1>13, <1>14, NoAppendIdle DEF AuditTyped
<1>17. Sound(chain', head', declared', removed')
  BY <1>1, <1>2, <1>5, <1>7, <1>8, <1>10, <1>12, AppendSound
<1>18. ASSUME NEW v \in Writers
       PROVE  WriterFits(v)'
  <2>1. \A f : Fits(f, chain, head, removed) => Fits(f, chain', head', removed')
    BY <1>5, <1>14 DEF Fits
  <2>2. \A f \in Heads : Trails(f, chain, head, removed) => Trails(f, chain', head', removed')
    BY <1>15 DEF Trails, Heads
  <2>3. CASE v = w
    <3>1. cached'[v] = c /\ appender'[v] = NoAppend
      BY <1>11, <1>12, <2>3 DEF AuditTyped
    <3>2. TailOf(chain').hash = HashOf(row)
      BY <1>14 DEF TailOf
    <3>3. c # NoHead => Fits(c, chain', head', removed')
      BY <1>10, <1>11, <3>2 DEF Fits
    <3>4. QED
      BY <3>1, <3>3, NoAppendIdle DEF WriterFits
  <2>4. CASE v # w
    <3>1. cached'[v] = cached[v] /\ appender'[v] = appender[v]
      BY <1>11, <1>12, <2>4 DEF AuditTyped
    <3>2. WriterFits(v) /\ (appender[v].pc = "head" => appender[v].hand \in Heads)
      BY AppenderTyped
    <3>3. QED
      BY <2>1, <2>2, <3>1, <3>2 DEF WriterFits
  <2>5. QED
    BY <2>3, <2>4
<1>19. /\ check'.pc = check.pc /\ check'.rows = check.rows /\ check'.saw = check.saw /\ check'.verdict = check.verdict
       /\ check'.beside
  BY <1>1, <1>12 DEF AuditTyped
<1>20. CheckFits'
  <2>1. ASSUME check.pc # "idle", check.saw
        PROVE  Short(check.rows, head) => Short(check.rows, head')
    <3>1. head # NoHead
      BY <1>1, <2>1 DEF CheckFits, Sound
    <3>2. head.seq \in Nat /\ head'.seq = head.seq + 1
      BY <1>2, <1>5, <1>7, <1>9, <1>10, <3>1, NumberTyped DEF NextNumber
    <3>3. check.rows \in Seq(Rows)
      BY <1>1 DEF AuditTyped
    <3>4. check.rows # << >> => check.rows[Len(check.rows)].seq \in Nat
      BY <3>3, RowsOf
    <3>5. QED
      BY <3>2, <3>4 DEF Short
  <2>2. check.pc = "links" /\ check.saw => Torn(check.rows, head', declared)
    BY <1>1, <2>1 DEF CheckFits, Torn
  <2>3. check.pc = "head" /\ check.saw => Short(check.rows, head')
    BY <1>1, <2>1 DEF CheckFits
  <2>4. head # NoHead => row.seq # 0
    BY <1>2, <1>5, <1>7, NumberTyped DEF NextNumber
  <2>5. removed # {} => chain'[1].seq # 0 \/ (chain # << >> /\ chain[1].seq = 0)
    BY <1>1, <1>14, <2>4 DEF Sound
  <2>6. QED
    BY <1>1, <1>12, <1>19, <2>2, <2>3, <2>5 DEF CheckFits
<1>21. VerdictsCanBeTrusted'
  BY <1>12, <1>19 DEF VerdictsCanBeTrusted
<1>22. QED
  BY <1>16, <1>17, <1>18, <1>20, <1>21

LEMMA RemovalKeeps ==
  ASSUME AuditGood, ~excused, ~excused', NEW n, RowsRemoved(n)
  PROVE  AuditGood'
<1> USE DEF AuditGood
<1>1. /\ AuditTyped /\ Sound(chain, head, declared, removed) /\ CheckFits
      /\ removed = {} /\ n \in 0 .. Len(chain) - 1 /\ chain' = SubSeq(chain, 1, n)
      /\ removed' = Seqs(chain) \ Seqs(chain')
      /\ UNCHANGED <<head, declared, cached, appender, check, entries, faults>>
  BY DEF RowsRemoved
<1>2. /\ chain \in Seq(Rows) /\ head \in Heads \cup {NoHead} /\ declared \in Heads \cup {NoHead}
  BY <1>1 DEF AuditTyped
<1>3. removed' # {}
  BY <1>1, <1>2, FirstAreShort DEF Sound
<1>4. chain' \in Seq(Rows)
  <2>1. n \in 0 .. Len(chain)
    BY <1>1, <1>2, RowsOf
  <2>2. QED
    BY <1>1, <1>2, <2>1, FirstRows
<1>5. AuditTyped'
  BY <1>1, <1>4 DEF AuditTyped
<1>6. Sound(chain', head', declared', removed')
  BY <1>1, <1>2, <1>3, RemovalSound
<1>7. ASSUME NEW v \in Writers
      PROVE  WriterFits(v)'
  <2>1. ~KnowsRemoved(v, removed') /\ WriterFits(v)
    BY <1>1 DEF RowsRemoved
  <2>2. \A f : f.seq \notin removed' /\ Fits(f, chain, head, removed) => Fits(f, chain', head', removed')
    BY <1>1, <1>3 DEF Fits
  <2>3. \A f : Trails(f, chain, head, removed) => Trails(f, chain', head', removed')
    BY <1>1, <1>3 DEF Trails
  <2>4. QED
    BY <1>1, <2>1, <2>2, <2>3 DEF WriterFits, KnowsRemoved
<1>8. CheckFits'
  BY <1>1, <1>3 DEF CheckFits
<1>9. VerdictsCanBeTrusted'
  BY <1>1, <1>3 DEF VerdictsCanBeTrusted
<1>10. QED
  BY <1>5, <1>6, <1>7, <1>8, <1>9

LEMMA TruncateKeeps ==
  ASSUME AuditGood, ~excused, ~excused', Truncate
  PROVE  AuditGood'
<1> USE DEF AuditGood
<1>1. /\ AuditTyped /\ Sound(chain, head, declared, removed) /\ CheckFits
      /\ Len(chain) > 1 /\ declared = NoHead /\ Links(chain, declared) /\ chain' = Tail(chain)
      /\ UNCHANGED <<head, cached, appender, check, entries, faults, removed>>
  BY DEF Truncate
<1>2. /\ chain \in Seq(Rows) /\ head \in Heads \cup {NoHead}
  BY <1>1 DEF AuditTyped
<1>3. 2 \in 1 .. Len(chain)
  BY <1>1, <1>2
<1>4. PICK d \in Heads : d = [seq |-> chain[2].seq, hash |-> chain[2].prev]
  BY <1>2, <1>3, RowsOf, RowTyped DEF Heads
<1>5. declared' = d /\ d # NoHead
  BY <1>4, HeadIsSome DEF Truncate
<1>6. /\ Sound(chain', head', declared', removed') /\ TailOf(chain') = TailOf(chain)
      /\ chain[1].seq = 0 /\ Seqs(chain) \ {chain[1].seq} \subseteq Seqs(chain')
  BY <1>1, <1>2, <1>4, <1>5, FrontShortened
<1>7. AuditTyped'
  BY <1>1, <1>2, <1>5, LaterRows DEF AuditTyped
<1>8. ASSUME NEW v \in Writers
      PROVE  WriterFits(v)'
  <2>1. ~KnowsRemoved(v, {chain[1].seq}) /\ WriterFits(v)
    BY DEF Truncate
  <2>2. \A f : f.seq # chain[1].seq /\ Fits(f, chain, head, removed) => Fits(f, chain', head', removed')
    BY <1>1, <1>6 DEF Fits
  <2>3. \A f : Trails(f, chain, head, removed) => Trails(f, chain', head', removed')
    BY <1>1, <1>6 DEF Trails
  <2>4. QED
    BY <1>1, <2>1, <2>2, <2>3 DEF WriterFits, KnowsRemoved
<1>9. CheckFits'
  <2>1. chain # << >>
    BY <1>1, <1>2
  <2>2. check.pc = "links" /\ check.rows # << >> => check.rows[1].seq = 0
    BY <1>1, <1>6, <2>1 DEF CheckFits
  <2>3. Links(check.rows, declared) => Links(check.rows, d)
    BY <1>1 DEF Links
  <2>4. check.pc = "links" /\ check.saw => Torn(check.rows, head, d)
    BY <1>1, <2>1, <2>2 DEF CheckFits, Torn, Headless
  <2>5. QED
    BY <1>1, <1>5, <2>3, <2>4 DEF CheckFits
<1>10. VerdictsCanBeTrusted'
  BY <1>1 DEF VerdictsCanBeTrusted
<1>11. QED
  BY <1>6, <1>7, <1>8, <1>9, <1>10

(***************************************************************************)
(* The steps of a check.                                                   *)
(***************************************************************************)
LEMMA CheckTyped ==
  ASSUME AuditTyped
  PROVE  /\ check.pc \in {"idle", "links", "head"} /\ check.rows \in Seq(Rows)
         /\ check.saw \in BOOLEAN /\ check.beside \in BOOLEAN
BY DEF AuditTyped

LEMMA NoRowsTyped == << >> \in Seq(Rows)
OBVIOUS

(* A step of a check disturbs nothing but the check.                       *)
LEMMA OnlyChecks ==
  ASSUME AuditGood, ~excused, ~excused', Idle, faults' \in Nat,
         check' \in [pc : {"idle", "links", "head"}, rows : Seq(Rows), saw : BOOLEAN, beside : BOOLEAN,
                     verdict : {"never-checked", "unverified", "intact", "TAMPERED"}],
         CheckFits', VerdictsCanBeTrusted'
  PROVE  AuditGood'
<1> USE DEF AuditGood
<1>1. UNCHANGED <<chain, head, declared, cached, appender, entries, removed>>
  BY DEF Idle
<1>2. AuditTyped'
  BY <1>1 DEF AuditTyped
<1>3. ASSUME NEW v \in Writers
      PROVE  WriterFits(v)'
  <2>1. WriterFits(v)
    OBVIOUS
  <2>2. QED
    BY <1>1, <2>1 DEF WriterFits
<1>4. QED
  BY <1>1, <1>2, <1>3

LEMMA CheckReadKeeps ==
  ASSUME AuditGood, ~excused, ~excused', CheckRows \/ CheckRowsCut
  PROVE  AuditGood'
<1>1. AuditTyped /\ Sound(chain, head, declared, removed) /\ Idle /\ faults' \in Nat
  BY FaultTyped DEF AuditGood, AuditTyped, CheckRows, CheckRowsCut
<1>2. /\ chain \in Seq(Rows) /\ head \in Heads \cup {NoHead} /\ declared \in Heads \cup {NoHead}
  BY <1>1 DEF AuditTyped
<1>3. PICK s \in Seq(Rows), b \in BOOLEAN :
        /\ check' = [check EXCEPT !.pc = "links", !.rows = s, !.saw = removed # {}, !.beside = b]
        /\ ~b => s = chain
        /\ removed # {} => Torn(s, head, declared)
        /\ s # << >> => chain # << >> /\ s[1] = chain[1]
  <2>1. CASE CheckRows
    BY <1>1, <1>2, <2>1 DEF CheckRows, Sound
  <2>2. CASE CheckRowsCut
    <3>1. PICK n \in 0 .. Len(chain) - 1 :
            check' = [check EXCEPT !.pc = "links", !.rows = SubSeq(chain, 1, n), !.saw = removed # {}, !.beside = TRUE]
      BY <2>2 DEF CheckRowsCut
    <3>2. n \in 0 .. Len(chain) /\ Len(chain) \in Nat
      BY <1>2, <3>1, RowsOf
    <3>3. PICK s : s = SubSeq(chain, 1, n)
      OBVIOUS
    <3>4. /\ s \in Seq(Rows) /\ (n = 0 <=> s = << >>)
          /\ \A i \in 1 .. n : s[i] = chain[i]
      BY <1>2, <3>2, <3>3, FirstRows
    <3>5. s # << >> => chain # << >> /\ s[1] = chain[1]
      <4>1. s # << >> => 1 \in 1 .. n /\ Len(chain) # 0
        BY <3>1, <3>2, <3>4
      <4>2. QED
        BY <3>4, <4>1
    <3>6. Torn(s, head, declared)
      BY <1>1, <1>2, <3>1, <3>3, FirstAreShort DEF Sound, Torn
    <3>7. QED
      BY <3>1, <3>3, <3>4, <3>5, <3>6
  <2>3. QED
    BY <2>1, <2>2
<1>4. check' \in [pc : {"idle", "links", "head"}, rows : Seq(Rows), saw : BOOLEAN, beside : BOOLEAN,
                  verdict : {"never-checked", "unverified", "intact", "TAMPERED"}]
  BY <1>1, <1>3 DEF AuditTyped
<1>5. check'.pc = "links" /\ check'.rows = s /\ check'.saw = (removed # {}) /\ check'.beside = b
  BY <1>1, <1>3 DEF AuditTyped
<1>6. ASSUME removed = {}
      PROVE  Links(chain, declared) /\ HeadValid(chain, head)
  <2>1. Links(chain, declared) /\ head = NewestOf(chain)
    BY <1>1, <1>6 DEF Sound
  <2>2. CASE chain = << >>
    BY <2>1, <2>2 DEF NewestOf, HeadValid
  <2>3. CASE chain # << >>
    <3>1. head.seq = chain[Len(chain)].seq /\ head.hash = HashOf(chain[Len(chain)])
      BY <2>1, <2>3 DEF NewestOf
    <3>2. QED
      BY <2>1, <2>3, <3>1 DEF HeadValid
  <2>4. QED
    BY <2>1, <2>2, <2>3
<1>7. declared = NoHead /\ s # << >> /\ s[1].seq # 0 => removed # {} /\ chain[1].seq # 0
  BY <1>3, <1>6 DEF Links
<1>8. CheckFits'
  BY <1>1, <1>3, <1>5, <1>6, <1>7 DEF CheckFits, Idle
<1>9. VerdictsCanBeTrusted'
  BY <1>5 DEF VerdictsCanBeTrusted
<1>10. QED
  BY <1>1, <1>4, <1>8, <1>9, OnlyChecks

LEMMA CheckLinksKeeps ==
  ASSUME AuditGood, ~excused, ~excused', CheckLinks
  PROVE  AuditGood'
<1>1. /\ AuditTyped /\ Sound(chain, head, declared, removed) /\ CheckFits /\ Idle /\ faults' \in Nat
      /\ check.pc = "links" /\ declared \in Heads \cup {NoHead}
  BY DEF AuditGood, AuditTyped, CheckLinks
<1>2. UNCHANGED <<chain, head, declared, removed>> /\ check.rows \in Seq(Rows)
  BY <1>1, CheckTyped DEF Idle
<1>3. CASE Links(check.rows, declared)
  <2>1. check' = [check EXCEPT !.pc = "head"]
    BY <1>3 DEF CheckLinks
  <2>2. check' \in [pc : {"idle", "links", "head"}, rows : Seq(Rows), saw : BOOLEAN, beside : BOOLEAN,
                    verdict : {"never-checked", "unverified", "intact", "TAMPERED"}]
    BY <1>1, <2>1 DEF AuditTyped
  <2>3. check'.pc = "head" /\ check'.rows = check.rows /\ check'.saw = check.saw /\ check'.beside = check.beside
    BY <1>1, <2>1 DEF AuditTyped
  <2>4. check.saw => Short(check.rows, head)
    BY <1>1, <1>2, <1>3, LinkedIsShort DEF CheckFits
  <2>5. CheckFits'
    BY <1>1, <1>2, <2>3, <2>4 DEF CheckFits
  <2>6. VerdictsCanBeTrusted'
    BY <2>3 DEF VerdictsCanBeTrusted
  <2>7. QED
    BY <1>1, <2>2, <2>5, <2>6, OnlyChecks
<1>4. CASE ~Links(check.rows, declared)
  <2>1. PICK none \in Seq(Rows) : check' = [check EXCEPT !.pc = "idle", !.rows = none, !.verdict = "TAMPERED"]
    BY <1>4, NoRowsTyped DEF CheckLinks, Verdict
  <2>2. check' \in [pc : {"idle", "links", "head"}, rows : Seq(Rows), saw : BOOLEAN, beside : BOOLEAN,
                    verdict : {"never-checked", "unverified", "intact", "TAMPERED"}]
    BY <1>1, <2>1 DEF AuditTyped
  <2>3. check'.pc = "idle" /\ check'.verdict = "TAMPERED" /\ check'.beside = check.beside
    BY <1>1, <2>1 DEF AuditTyped
  <2>4. check.beside \/ removed # {}
    BY <1>1, <1>4 DEF CheckFits
  <2>5. CheckFits' /\ VerdictsCanBeTrusted'
    BY <1>2, <2>3, <2>4 DEF CheckFits, VerdictsCanBeTrusted
  <2>6. QED
    BY <1>1, <2>2, <2>5, OnlyChecks
<1>5. QED
  BY <1>3, <1>4

LEMMA CheckHeadKeeps ==
  ASSUME AuditGood, ~excused, ~excused', CheckHead \/ CheckFails
  PROVE  AuditGood'
<1>1. /\ AuditTyped /\ Sound(chain, head, declared, removed) /\ CheckFits /\ Idle /\ faults' \in Nat
      /\ head \in Heads \cup {NoHead}
  BY FaultTyped DEF AuditGood, AuditTyped, CheckHead, CheckFails
<1>2. UNCHANGED <<head, removed>> /\ check.rows \in Seq(Rows) /\ check.saw \in BOOLEAN
  BY <1>1, CheckTyped DEF Idle
<1>3. PICK v \in {"unverified", "intact", "TAMPERED"}, none \in Seq(Rows) :
        /\ check' = [check EXCEPT !.pc = "idle", !.rows = none, !.verdict = v]
        /\ v = "intact" => check.pc = "head" /\ HeadValid(check.rows, head)
        /\ v = "TAMPERED" => check.pc = "head" /\ ~HeadValid(check.rows, head)
  BY NoRowsTyped DEF CheckHead, CheckFails, Verdict
<1>4. check' \in [pc : {"idle", "links", "head"}, rows : Seq(Rows), saw : BOOLEAN, beside : BOOLEAN,
                  verdict : {"never-checked", "unverified", "intact", "TAMPERED"}]
  BY <1>1, <1>3 DEF AuditTyped
<1>5. check'.pc = "idle" /\ check'.verdict = v /\ check'.beside = check.beside /\ check'.saw = check.saw
  BY <1>1, <1>3 DEF AuditTyped
<1>6. v = "TAMPERED" => check.beside \/ removed # {}
  BY <1>1, <1>3 DEF CheckFits
<1>7. ASSUME v = "intact", check.saw PROVE FALSE
  <2>1. Short(check.rows, head) /\ removed # {} /\ head # NoHead /\ HeadValid(check.rows, head)
    BY <1>1, <1>3, <1>7 DEF CheckFits, Sound
  <2>2. check.rows # << >>
    BY <2>1 DEF HeadValid
  <2>3. /\ head.seq \in Nat /\ check.rows[Len(check.rows)].seq \in Nat
        /\ check.rows[Len(check.rows)].seq < head.seq
    <3>1. Len(check.rows) \in 1 .. Len(check.rows)
      BY <1>2, <2>2
    <3>2. QED
      BY <1>1, <1>2, <2>1, <2>2, <3>1, NumberTyped, RowsOf DEF Short
  <2>4. QED
    BY <2>1, <2>3 DEF HeadValid
<1>8. CheckFits' /\ VerdictsCanBeTrusted'
  BY <1>2, <1>5, <1>6, <1>7 DEF CheckFits, VerdictsCanBeTrusted
<1>9. QED
  BY <1>1, <1>4, <1>8, OnlyChecks
-----------------------------------------------------------------------------
LEMMA AuditStarts == AuditInit => AuditInv
<1> SUFFICES ASSUME AuditInit PROVE AuditGood
  BY DEF AuditInv
<1>1. chain \in Seq(Rows) /\ chain = << >> /\ Len(chain) = 0
  BY NoRowsTyped DEF AuditInit
<1>2. /\ check \in [pc : {"idle", "links", "head"}, rows : Seq(Rows), saw : BOOLEAN, beside : BOOLEAN,
                   verdict : {"never-checked", "unverified", "intact", "TAMPERED"}]
      /\ check.pc = "idle" /\ check.verdict = "never-checked"
  <2>1. PICK none \in Seq(Rows) :
          check = [pc |-> "idle", rows |-> none, saw |-> FALSE, beside |-> FALSE, verdict |-> "never-checked"]
    BY NoRowsTyped DEF AuditInit, NoCheck
  <2>2. QED
    BY <2>1
<1>3. AuditTyped
  BY <1>1, <1>2, NoAppendIdle DEF AuditTyped, AuditInit
<1>4. Links(chain, NoHead)
  BY <1>1 DEF Links, VerifyChain
<1>5. Sound(chain, head, declared, removed)
  BY <1>1, <1>4 DEF Sound, Ascending, NewestOf, AuditInit
<1>6. \A w \in Writers : WriterFits(w)
  BY NoAppendIdle DEF WriterFits, AuditInit
<1>7. CheckFits /\ VerdictsCanBeTrusted
  BY <1>2 DEF CheckFits, VerdictsCanBeTrusted
<1>8. QED
  BY <1>3, <1>5, <1>6, <1>7 DEF AuditGood

LEMMA ExcusedForGood == AuditNext /\ excused => excused'
<1>1. SUFFICES ASSUME AuditNext, excused PROVE excused'
  OBVIOUS
<1>2. ASSUME NEW w \in Writers, AuditStep(w) PROVE excused'
  BY <1>1, <1>2 DEF AuditStep, Begin, ReadLastRow, ReadHead, HeadUnread, Append_, CommitReplyLost, Committed,
                    Refused, AppendFails, Restart
<1>3. ASSUME NEW n, RowsRemoved(n) PROVE excused'
  BY <1>1, <1>3 DEF RowsRemoved
<1>4. CASE Truncate
  BY <1>1, <1>4 DEF Truncate
<1>5. CASE CheckRows \/ CheckRowsCut \/ CheckLinks \/ CheckHead \/ CheckFails
  BY <1>1, <1>5 DEF CheckRows, CheckRowsCut, CheckLinks, CheckHead, CheckFails, Idle
<1>6. QED
  BY <1>1, <1>2, <1>3, <1>4, <1>5 DEF AuditNext

LEMMA AuditKeeps == AuditInv /\ [AuditNext]_auditVars => AuditInv'
<1>1. SUFFICES ASSUME AuditInv, [AuditNext]_auditVars PROVE AuditInv'
  OBVIOUS
<1>2. CASE UNCHANGED auditVars
  BY <1>1, <1>2 DEF auditVars, AuditInv, AuditGood, AuditTyped, WriterFits, CheckFits, VerdictsCanBeTrusted
<1>3. CASE AuditNext
  <2>1. SUFFICES ASSUME ~excused, ~excused', AuditGood PROVE AuditGood'
    BY <1>1, <1>3, ExcusedForGood DEF AuditInv
  <2>2. ASSUME NEW w \in Writers, AuditStep(w) PROVE AuditGood'
    BY <2>1, <2>2, BeginAppendKeeps, ReadLastRowKeeps, ReadHeadKeeps, CommitKeeps, GivesUpKeeps DEF AuditStep
  <2>3. QED
    BY <1>3, <2>1, <2>2, RemovalKeeps, TruncateKeeps, CheckReadKeeps, CheckLinksKeeps, CheckHeadKeeps DEF AuditNext
<1>4. QED
  BY <1>1, <1>2, <1>3

(* The verdict of a completed check of the audit of memory writes can be   *)
(* trusted both ways, as long as every append continued from the head that *)
(* is the chain's (Guard.Audit, Guard.Verify, VerifyChainOnce).            *)
THEOREM VerdictsAlwaysTrusted == AuditSpec => []VerdictsCanBeTrusted
<1>1. AuditInv => VerdictsCanBeTrusted
  BY DEF AuditInv, AuditGood, VerdictsCanBeTrusted
<1>2. QED
  BY AuditStarts, AuditKeeps, <1>1, PTL DEF AuditSpec
=============================================================================
