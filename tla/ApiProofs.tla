------------------------------ MODULE ApiProofs ------------------------------
(***************************************************************************)
(* Proofs about what a client meets: the public demo stays within its      *)
(* means (PublicDemo), nobody passes the front door faster or as more than *)
(* proved (FrontDoor), and the events of a session arrive in order and     *)
(* wake their reader (EventStream); for every number of clients, requests, *)
(* questions, events and days.                                             *)
(***************************************************************************)
EXTENDS EventStream, PublicDemo, FrontDoor, FiniteSetTheorems, TLAPS

(***************************************************************************)
(* The public demo: PublicDemo!DemoIsBounded.                              *)
(*                                                                         *)
(* SpendIsBounded is not inductive: an answer under way will be charged    *)
(* later.  DemoInv counts it as spent at the dearest price already; a      *)
(* question is admitted only below the budget, so that it never adds more  *)
(* than the slots allow.                                                   *)
(***************************************************************************)

Entries ==
    [at : {"not asked"}]
        \cup [at : {"refused"}, client : Clients, why : {"unfit", "budget", "hour", "busy", "one at a time"}]
        \cup [at : {"running"}, client : Clients]
        \cup [at : {"answered", "recorded", "done"}, client : Clients, usd : 0 .. MaxCost]

DemoTyped ==
    /\ now \in Nat /\ date \in Nat /\ day \in Nat /\ spent \in Nat
    /\ question \in [Questions -> Entries]
    /\ inFlight \in Nat /\ running \in [Clients -> Nat]
    /\ asked \in [Clients -> SUBSET [question : Questions, time : Nat]]

(* What is under way is not charged yet.                                   *)
Unrecorded == {q \in Questions : question[q].at \in {"running", "answered"}}
HeldBy(c) == {q \in Holding : question[q].client = c}

SlotsMatch ==
    /\ inFlight = Cardinality(Holding) /\ inFlight <= MaxConcurrent
    /\ \A c \in Clients : running[c] = Cardinality(HeldBy(c)) /\ running[c] <= 1
HoursMatch ==
    \A c \in Clients : IsFiniteSet(Within(asked[c])) /\ Cardinality(Within(asked[c])) <= PerHour
Committed == spent + MaxCost * Cardinality(Unrecorded) <= Budget - 1 + MaxConcurrent * MaxCost

DemoInv == DemoTyped /\ SlotsMatch /\ HoursMatch /\ Committed

-----------------------------------------------------------------------------
(* The numbers of a finite set grow and shrink by one.                     *)
LEMMA OneMore == ASSUME NEW S, IsFiniteSet(S), NEW x, x \notin S
                 PROVE  Cardinality(S \cup {x}) = Cardinality(S) + 1
  BY FS_AddElement

LEMMA AtMostOneMore == ASSUME NEW S, IsFiniteSet(S), NEW x
                       PROVE  IsFiniteSet(S \cup {x}) /\ Cardinality(S \cup {x}) <= Cardinality(S) + 1
<1>1. Cardinality(S) \in Nat
  BY FS_CardinalityType
<1>2. /\ IsFiniteSet(S \cup {x})
      /\ Cardinality(S \cup {x}) = IF x \in S THEN Cardinality(S) ELSE Cardinality(S) + 1
  BY FS_AddElement
<1>3. QED
  BY <1>1, <1>2

LEMMA OneLess == ASSUME NEW S, IsFiniteSet(S), NEW x \in S
                 PROVE  Cardinality(S \ {x}) = Cardinality(S) - 1
  BY FS_RemoveElement

(* A product is monotone, and distributes over one more.                   *)
LEMMA Dearer == ASSUME NEW a \in Nat, NEW m \in Nat, NEW n \in Nat, m <= n
                PROVE  a * m <= a * n /\ a * m \in Nat /\ a * n \in Nat
  OBVIOUS

LEMMA OneAnswer == ASSUME NEW a \in Nat, NEW n \in Nat, n >= 1
                   PROVE  a * n = a * (n - 1) + a /\ a * (n - 1) \in Nat
  OBVIOUS

LEMMA Chained == ASSUME NEW a \in Nat, NEW b \in Nat, NEW d \in Nat, NEW p \in Nat,
                        a <= b, b <= d + 1, d < p
                 PROVE  a <= p
  OBVIOUS

(* Sets of questions are finite.                                           *)
LEMMA QuestionsFinite ==
    /\ IsFiniteSet(Holding) /\ IsFiniteSet(Unrecorded)
    /\ \A c \in Clients : IsFiniteSet(HeldBy(c))
    /\ Cardinality(Holding) \in Nat /\ Cardinality(Unrecorded) \in Nat
    /\ Unrecorded \subseteq Holding
    /\ Cardinality(Unrecorded) <= Cardinality(Holding)
<1>1. IsFiniteSet(Questions)
  BY PublicAssumptions
<1>2. /\ Holding \subseteq Questions /\ Unrecorded \subseteq Holding
      /\ \A c \in Clients : HeldBy(c) \subseteq Holding
  BY DEF Holding, Unrecorded, HeldBy
<1>3. IsFiniteSet(Holding)
  BY <1>1, <1>2, FS_Subset
<1>4. IsFiniteSet(Unrecorded) /\ Cardinality(Unrecorded) <= Cardinality(Holding)
  BY <1>2, <1>3, FS_Subset
<1>5. \A c \in Clients : IsFiniteSet(HeldBy(c))
  BY <1>2, <1>3, FS_Subset
<1>6. QED
  BY <1>2, <1>3, <1>4, <1>5, FS_CardinalityType

-----------------------------------------------------------------------------
(* How a step of one question changes the sets that are counted.           *)

(* What an unasked question's record says.                                 *)
LEMMA UnaskedSaysSo == NotAsked.at = "not asked"
  BY DEF NotAsked

(* Entering: q is admitted for c.                                          *)
LEMMA Entering ==
    ASSUME DemoTyped, NEW q \in Questions, NEW c \in Clients, question[q] = NotAsked,
           NEW entry \in Entries, entry.at = "running", entry.client = c,
           question' = [question EXCEPT ![q] = entry]
    PROVE  /\ Holding' = Holding \cup {q} /\ q \notin Holding
           /\ Unrecorded' = Unrecorded \cup {q} /\ q \notin Unrecorded
           /\ HeldBy(c)' = HeldBy(c) \cup {q} /\ q \notin HeldBy(c)
           /\ \A k \in Clients : k # c => HeldBy(k)' = HeldBy(k)
           /\ question' \in [Questions -> Entries]
<1>1. \A p \in Questions : question'[p] = IF p = q THEN entry ELSE question[p]
  BY DEF DemoTyped
<1>2. question[q].at = "not asked"
  BY UnaskedSaysSo
<1>3. question' \in [Questions -> Entries]
  BY <1>1 DEF DemoTyped
<1>4. Holding' = Holding \cup {q} /\ q \notin Holding
  BY <1>1, <1>2 DEF Holding
<1>5. Unrecorded' = Unrecorded \cup {q} /\ q \notin Unrecorded
  BY <1>1, <1>2 DEF Unrecorded
<1>6. q \notin HeldBy(c) /\ HeldBy(c)' = HeldBy(c) \cup {q}
  BY <1>1, <1>4 DEF HeldBy
<1>7. \A k \in Clients : k # c => HeldBy(k)' = HeldBy(k)
  BY <1>1, <1>4 DEF HeldBy
<1>8. QED
  BY <1>3, <1>4, <1>5, <1>6, <1>7

(* Staying: q goes on holding its slot.                                    *)
LEMMA Staying ==
    ASSUME DemoTyped, NEW q \in Questions, NEW entry \in Entries,
           question[q].at \in {"running", "answered", "recorded"},
           entry.at \in {"running", "answered", "recorded"}, entry.client = question[q].client,
           question' = [question EXCEPT ![q] = entry]
    PROVE  /\ Holding' = Holding
           /\ \A k \in Clients : HeldBy(k)' = HeldBy(k)
           /\ Unrecorded' = IF entry.at = "recorded" THEN Unrecorded \ {q} ELSE Unrecorded \cup {q}
           /\ question' \in [Questions -> Entries]
<1>1. \A p \in Questions : question'[p] = IF p = q THEN entry ELSE question[p]
  BY DEF DemoTyped
<1>2. question' \in [Questions -> Entries]
  BY <1>1 DEF DemoTyped
<1>3. QED
  BY <1>1, <1>2 DEF Holding, Unrecorded, HeldBy

(* Leaving: q gives its slot back.                                         *)
LEMMA Leaving ==
    ASSUME DemoTyped, NEW q \in Questions, NEW c \in Clients,
           question[q].at = "recorded", question[q].client = c,
           question' = [question EXCEPT ![q] = [@ EXCEPT !.at = "done"]]
    PROVE  /\ Holding' = Holding \ {q} /\ q \in Holding
           /\ HeldBy(c)' = HeldBy(c) \ {q} /\ q \in HeldBy(c)
           /\ \A k \in Clients : k # c => HeldBy(k)' = HeldBy(k)
           /\ Unrecorded' = Unrecorded
           /\ question' \in [Questions -> Entries]
<1>1. \A p \in Questions : question'[p] = IF p = q THEN [question[q] EXCEPT !.at = "done"] ELSE question[p]
  BY DEF DemoTyped
<1>2. question[q] \in [at : {"answered", "recorded", "done"}, client : Clients, usd : 0 .. MaxCost]
  BY DEF DemoTyped, Entries
<1>3. /\ [question[q] EXCEPT !.at = "done"] \in Entries
      /\ [question[q] EXCEPT !.at = "done"].at = "done"
  BY <1>2 DEF Entries
<1>4. question' \in [Questions -> Entries]
  BY <1>1, <1>3 DEF DemoTyped
<1>5. Holding' = Holding \ {q} /\ q \in Holding
  BY <1>1, <1>3 DEF Holding
<1>6. Unrecorded' = Unrecorded
  BY <1>1, <1>3 DEF Unrecorded
<1>7. HeldBy(c)' = HeldBy(c) \ {q} /\ q \in HeldBy(c)
  BY <1>1, <1>5 DEF HeldBy
<1>8. \A k \in Clients : k # c => HeldBy(k)' = HeldBy(k)
  BY <1>1, <1>5 DEF HeldBy
<1>9. QED
  BY <1>4, <1>5, <1>6, <1>7, <1>8

(* Never held: a question is refused.                                      *)
LEMMA Refusing ==
    ASSUME DemoTyped, NEW q \in Questions, question[q] = NotAsked, NEW entry \in Entries,
           entry.at = "refused", question' = [question EXCEPT ![q] = entry]
    PROVE  /\ Holding' = Holding /\ Unrecorded' = Unrecorded
           /\ \A k \in Clients : HeldBy(k)' = HeldBy(k)
           /\ question' \in [Questions -> Entries]
<1>1. \A p \in Questions : question'[p] = IF p = q THEN entry ELSE question[p]
  BY DEF DemoTyped
<1>2. question[q].at = "not asked"
  BY UnaskedSaysSo
<1>3. question' \in [Questions -> Entries]
  BY <1>1 DEF DemoTyped
<1>4. QED
  BY <1>1, <1>2, <1>3 DEF Holding, Unrecorded, HeldBy

-----------------------------------------------------------------------------
(* The invariant, action by action.  Commitments that do not grow, hours   *)
(* that only pass and slots that nobody takes keep it.                     *)

LEMMA AlwaysCommitted ==
    ASSUME DemoInv, NEW more \in Nat, more <= spent
    PROVE  /\ more + MaxCost * Cardinality(Unrecorded) <= Budget - 1 + MaxConcurrent * MaxCost
           /\ MaxCost * Cardinality(Unrecorded) \in Nat
           /\ Budget - 1 + MaxConcurrent * MaxCost \in Nat
<1>1. MaxCost * Cardinality(Unrecorded) \in Nat /\ MaxConcurrent * MaxCost \in Nat
  BY QuestionsFinite, PublicAssumptions, Dearer
<1>2. QED
  BY <1>1, PublicAssumptions DEF DemoInv, DemoTyped, Committed

LEMMA SpendToday == DemoTyped => SpentToday \in Nat /\ SpentToday <= spent
  BY DEF DemoTyped, SpentToday

LEMMA HoursPass ==
    ASSUME DemoInv, NEW c \in Clients, now' \in Nat, now' >= now,
           asked'[c] = asked[c] \/ asked'[c] = Within(asked[c])
    PROVE  IsFiniteSet(Within(asked[c])') /\ Cardinality(Within(asked[c])') <= PerHour
<1>1. asked[c] \subseteq [question : Questions, time : Nat]
  BY DEF DemoInv, DemoTyped
<1>2. Within(asked[c])' \subseteq Within(asked[c])
  <2>1. ASSUME NEW a \in asked[c], now' - a.time < HourTicks
        PROVE  now - a.time < HourTicks
    <3>1. a.time \in Nat
      BY <1>1, <2>1
    <3>2. QED
      BY <2>1, <3>1, PublicAssumptions DEF DemoInv, DemoTyped
  <2>2. QED
    BY <2>1 DEF Within
<1>3. IsFiniteSet(Within(asked[c])) /\ Cardinality(Within(asked[c])) <= PerHour
  BY DEF DemoInv, HoursMatch
<1>4. /\ IsFiniteSet(Within(asked[c])')
      /\ Cardinality(Within(asked[c])') <= Cardinality(Within(asked[c]))
  BY <1>2, <1>3, FS_Subset
<1>5. QED
  BY <1>3, <1>4, FS_CardinalityType, PublicAssumptions

(* The clock and a look at the counters change nothing that is held.       *)
LEMMA ClockKeeps == DemoInv /\ (Tick \/ Midnight \/ Available) => DemoInv'
<1> SUFFICES ASSUME DemoInv, Tick \/ Midnight \/ Available
             PROVE  DemoInv'
  OBVIOUS
<1>1. /\ question' = question /\ slots' = slots /\ asked' = asked
      /\ now' \in Nat /\ now' >= now
      /\ spent' \in Nat /\ spent' <= spent
      /\ day' \in Nat /\ date' \in Nat
  BY SpendToday DEF Tick, Midnight, Available, clock, DemoInv, DemoTyped
<1>2. Holding' = Holding /\ Unrecorded' = Unrecorded /\ \A c \in Clients : HeldBy(c)' = HeldBy(c)
  BY <1>1 DEF Holding, Unrecorded, HeldBy
<1>3. DemoTyped'
  BY <1>1 DEF DemoInv, DemoTyped, slots
<1>4. SlotsMatch'
  BY <1>1, <1>2 DEF DemoInv, SlotsMatch, slots
<1>5. HoursMatch'
  BY <1>1, HoursPass DEF HoursMatch
<1>6. Committed'
  BY <1>1, <1>2, AlwaysCommitted DEF Committed
<1>7. QED
  BY <1>3, <1>4, <1>5, <1>6 DEF DemoInv

(* A refusal spends nothing and forgets only what is older than an hour.   *)
LEMMA RefusalKeeps ==
    ASSUME DemoInv, NEW q \in Questions, NEW c \in Clients, Unfit(q, c) \/ Refuse(q, c)
    PROVE  DemoInv'
<1>1. PICK entry \in Entries : entry.at = "refused" /\ question' = [question EXCEPT ![q] = entry]
  <2> DEFINE e(why) == [at |-> "refused", client |-> c, why |-> why]
             Whys == {"unfit", "budget", "hour", "busy", "one at a time"}
  <2>1. Refuse(q, c) => Refusal(c) \in Whys
    BY DEF Refuse, Refusal
  <2>2. \E why \in Whys : question' = [question EXCEPT ![q] = e(why)]
    BY <2>1 DEF Unfit, Refuse
  <2>3. \A why \in Whys : e(why) \in Entries /\ e(why).at = "refused"
    BY DEF Entries
  <2>4. QED
    BY <2>2, <2>3
<1>2. question[q] = NotAsked
  BY DEF Unfit, Refuse
<1>3. /\ Holding' = Holding /\ Unrecorded' = Unrecorded
      /\ \A k \in Clients : HeldBy(k)' = HeldBy(k)
      /\ question' \in [Questions -> Entries]
  BY <1>1, <1>2, Refusing DEF DemoInv
<1>4. /\ slots' = slots /\ now' = now /\ date' = date
      /\ spent' \in Nat /\ spent' <= spent /\ day' \in Nat
      /\ now' \in Nat /\ now' >= now
  <2>1. clock' = clock /\ slots' = slots
    BY DEF Unfit, Refuse
  <2>2. (spent' = spent /\ day' = day) \/ (spent' = SpentToday /\ day' = date)
    BY DEF Unfit, Refuse
  <2>3. now' = now /\ date' = date
    BY <2>1 DEF clock
  <2>4. /\ spent \in Nat /\ day \in Nat /\ date \in Nat /\ now \in Nat
        /\ SpentToday \in Nat /\ SpentToday <= spent
    BY SpendToday DEF DemoInv, DemoTyped
  <2>5. spent' \in Nat /\ spent' <= spent /\ day' \in Nat
    BY <2>2, <2>4
  <2>6. now' \in Nat /\ now' >= now
    BY <2>3, <2>4
  <2>7. QED
    BY <2>1, <2>3, <2>5, <2>6
<1>5. /\ asked' \in [Clients -> SUBSET [question : Questions, time : Nat]]
      /\ \A k \in Clients : asked'[k] = asked[k] \/ asked'[k] = Within(asked[k])
  <2>1. Within(asked[c]) \subseteq asked[c]
    BY DEF Within
  <2>2. asked' = asked \/ asked' = [asked EXCEPT ![c] = Within(@)]
    BY DEF Unfit, Refuse
  <2>3. QED
    BY <2>1, <2>2 DEF DemoInv, DemoTyped
<1>6. DemoTyped'
  BY <1>3, <1>4, <1>5 DEF DemoInv, DemoTyped, slots
<1>7. SlotsMatch'
  BY <1>3, <1>4 DEF DemoInv, SlotsMatch, slots
<1>8. HoursMatch'
  BY <1>4, <1>5, HoursPass DEF HoursMatch
<1>9. Committed'
  BY <1>3, <1>4, AlwaysCommitted DEF Committed
<1>10. QED
  BY <1>6, <1>7, <1>8, <1>9 DEF DemoInv

(* An admission takes a free slot below the budget and within the hour.    *)
LEMMA AdmissionKeeps ==
    ASSUME DemoInv, NEW q \in Questions, NEW c \in Clients, Admit(q, c)
    PROVE  DemoInv'
<1> DEFINE entry == [at |-> "running", client |-> c]
           ask == [question |-> q, time |-> now]
<1>1. entry \in Entries /\ entry.at = "running" /\ entry.client = c
  BY DEF Entries
<1>2. question[q] = NotAsked /\ question' = [question EXCEPT ![q] = entry]
  BY DEF Admit
<1>3. /\ Holding' = Holding \cup {q} /\ q \notin Holding
      /\ Unrecorded' = Unrecorded \cup {q} /\ q \notin Unrecorded
      /\ HeldBy(c)' = HeldBy(c) \cup {q} /\ q \notin HeldBy(c)
      /\ \A k \in Clients : k # c => HeldBy(k)' = HeldBy(k)
      /\ question' \in [Questions -> Entries]
  BY <1>1, <1>2, Entering DEF DemoInv
<1>4. /\ ~OverBudget(SpentToday)
      /\ Cardinality(Within(asked[c])) < PerHour
      /\ inFlight < MaxConcurrent /\ running[c] = 0
  <2>1. Refusal(c) = "none"
    BY DEF Admit
  <2>2. ~OverBudget(SpentToday) /\ ~(Cardinality(Within(asked[c])) >= PerHour)
        /\ ~(inFlight >= MaxConcurrent) /\ ~(running[c] > 0)
    BY <2>1 DEF Refusal
  <2>3. Cardinality(Within(asked[c])) \in Nat
    BY FS_CardinalityType DEF DemoInv, HoursMatch
  <2>4. QED
    BY <2>2, <2>3, PublicAssumptions DEF DemoInv, DemoTyped
<1>5. /\ now' = now /\ date' = date /\ day' = date /\ spent' = SpentToday
      /\ inFlight' = inFlight + 1 /\ running' = [running EXCEPT ![c] = @ + 1]
      /\ asked' = [asked EXCEPT ![c] = Within(@) \cup {ask}]
  BY DEF Admit, clock
<1>6. DemoTyped'
  <2>1. Within(asked[c]) \cup {ask} \subseteq [question : Questions, time : Nat]
    BY DEF Within, DemoInv, DemoTyped
  <2>2. asked' \in [Clients -> SUBSET [question : Questions, time : Nat]]
    BY <1>5, <2>1 DEF DemoInv, DemoTyped
  <2>3. spent' \in Nat /\ day' \in Nat
    BY <1>5, SpendToday DEF DemoInv, DemoTyped
  <2>4. QED
    BY <1>3, <1>5, <2>2, <2>3 DEF DemoInv, DemoTyped
<1>7. SlotsMatch'
  <2>1. Cardinality(Holding') = Cardinality(Holding) + 1
    BY <1>3, QuestionsFinite, OneMore
  <2>2. inFlight' = Cardinality(Holding') /\ inFlight' <= MaxConcurrent
    BY <1>4, <1>5, <2>1, PublicAssumptions DEF DemoInv, DemoTyped, SlotsMatch
  <2>3. Cardinality(HeldBy(c)') = Cardinality(HeldBy(c)) + 1
    BY <1>3, QuestionsFinite, OneMore
  <2>4. running'[c] = Cardinality(HeldBy(c)') /\ running'[c] <= 1
    BY <1>4, <1>5, <2>3 DEF DemoInv, DemoTyped, SlotsMatch
  <2>5. \A k \in Clients : k # c => running'[k] = running[k]
    BY <1>5 DEF DemoInv, DemoTyped
  <2>6. \A k \in Clients : running'[k] = Cardinality(HeldBy(k)') /\ running'[k] <= 1
    BY <1>3, <2>4, <2>5 DEF DemoInv, SlotsMatch
  <2>7. QED
    BY <2>2, <2>6 DEF SlotsMatch
<1>8. HoursMatch'
  <2>1. now' \in Nat /\ now' >= now
    BY <1>5 DEF DemoInv, DemoTyped
  <2>2. ASSUME NEW k \in Clients, k # c
        PROVE  IsFiniteSet(Within(asked[k])') /\ Cardinality(Within(asked[k])') <= PerHour
    <3>1. asked'[k] = asked[k]
      BY <1>5, <2>2 DEF DemoInv, DemoTyped
    <3>2. QED
      BY <2>1, <3>1, HoursPass
  <2>3. IsFiniteSet(Within(asked[c])') /\ Cardinality(Within(asked[c])') <= PerHour
    <3>1. asked'[c] = Within(asked[c]) \cup {ask}
      BY <1>5 DEF DemoInv, DemoTyped
    <3>2. Within(asked[c])' \subseteq Within(asked[c]) \cup {ask}
      BY <3>1 DEF Within
    <3>3. IsFiniteSet(Within(asked[c])) /\ Cardinality(Within(asked[c])) \in Nat
      BY FS_CardinalityType DEF DemoInv, HoursMatch
    <3>4. /\ IsFiniteSet(Within(asked[c]) \cup {ask})
          /\ Cardinality(Within(asked[c]) \cup {ask}) <= Cardinality(Within(asked[c])) + 1
      BY <3>3, AtMostOneMore
    <3>5. /\ IsFiniteSet(Within(asked[c])')
          /\ Cardinality(Within(asked[c])') <= Cardinality(Within(asked[c]) \cup {ask})
      BY <3>2, <3>4, FS_Subset
    <3>6. Cardinality(Within(asked[c])') \in Nat /\ Cardinality(Within(asked[c]) \cup {ask}) \in Nat
      BY <3>4, <3>5, FS_CardinalityType
    <3>7. QED
      BY <1>4, <3>3, <3>4, <3>5, <3>6, Chained, PublicAssumptions
  <2>4. QED
    BY <2>2, <2>3 DEF HoursMatch
<1>9. Committed'
  <2>1. Cardinality(Unrecorded') \in Nat /\ Cardinality(Unrecorded') <= MaxConcurrent
    <3>1. Cardinality(Unrecorded') = Cardinality(Unrecorded) + 1
      BY <1>3, QuestionsFinite, OneMore
    <3>2. QED
      BY <1>4, <3>1, QuestionsFinite, PublicAssumptions DEF DemoInv, DemoTyped, SlotsMatch
  <2>2. /\ MaxCost * Cardinality(Unrecorded') <= MaxCost * MaxConcurrent
        /\ MaxCost * Cardinality(Unrecorded') \in Nat /\ MaxCost * MaxConcurrent \in Nat
    BY <2>1, Dearer, PublicAssumptions
  <2>3. MaxCost * MaxConcurrent = MaxConcurrent * MaxCost
    BY PublicAssumptions
  <2>4. spent' <= Budget - 1 /\ spent' \in Nat
    BY <1>4, <1>5, SpendToday, PublicAssumptions DEF OverBudget, DemoInv
  <2>5. QED
    BY <2>2, <2>3, <2>4, PublicAssumptions DEF Committed
<1>10. QED
  BY <1>6, <1>7, <1>8, <1>9 DEF DemoInv

(* An answer keeps its slot; its cost becomes known.                       *)
LEMMA AnswerKeeps ==
    ASSUME DemoInv, NEW q \in Questions, Answer(q)
    PROVE  DemoInv'
<1>1. question[q].at = "running" /\ question[q] \in [at : {"running"}, client : Clients]
  BY DEF Answer, DemoInv, DemoTyped, Entries
<1>2. PICK usd \in 0 .. MaxCost :
          question' = [question EXCEPT ![q] = [at |-> "answered", client |-> question[q].client, usd |-> usd]]
  BY DEF Answer
<1>3. PICK entry \in Entries :
          /\ entry.at = "answered" /\ entry.client = question[q].client
          /\ question' = [question EXCEPT ![q] = entry]
  <2> DEFINE e == [at |-> "answered", client |-> question[q].client, usd |-> usd]
  <2>1. e \in Entries /\ e.at = "answered" /\ e.client = question[q].client
    BY <1>1 DEF Entries
  <2>2. QED
    BY <1>2, <2>1
<1>4. /\ Holding' = Holding /\ Unrecorded' = Unrecorded \cup {q}
      /\ \A k \in Clients : HeldBy(k)' = HeldBy(k)
      /\ question' \in [Questions -> Entries]
  BY <1>1, <1>3, Staying DEF DemoInv
<1>5. Unrecorded' = Unrecorded
  BY <1>1, <1>4 DEF Unrecorded
<1>6. UNCHANGED <<clock, day, spent, asked, slots>>
  BY DEF Answer
<1>7. DemoTyped'
  BY <1>4, <1>6 DEF DemoInv, DemoTyped, slots, clock
<1>8. SlotsMatch'
  BY <1>4, <1>6 DEF DemoInv, SlotsMatch, slots
<1>9. HoursMatch'
  BY <1>6 DEF DemoInv, HoursMatch, Within, clock
<1>10. Committed'
  BY <1>5, <1>6 DEF DemoInv, Committed
<1>11. QED
  BY <1>7, <1>8, <1>9, <1>10 DEF DemoInv

(* The charge of an answer takes no more than what was set aside for it.   *)
LEMMA RecordKeeps ==
    ASSUME DemoInv, NEW q \in Questions, Record(q)
    PROVE  DemoInv'
<1>1. /\ question[q].at = "answered"
      /\ question[q] \in [at : {"answered", "recorded", "done"}, client : Clients, usd : 0 .. MaxCost]
  BY DEF Record, DemoInv, DemoTyped, Entries
<1>2. PICK entry \in Entries :
          /\ entry.at = "recorded" /\ entry.client = question[q].client
          /\ question' = [question EXCEPT ![q] = entry]
  <2> DEFINE e == [question[q] EXCEPT !.at = "recorded"]
  <2>1. e \in Entries /\ e.at = "recorded" /\ e.client = question[q].client
    BY <1>1 DEF Entries
  <2>2. question' = [question EXCEPT ![q] = e]
    BY DEF Record
  <2>3. QED
    BY <2>1, <2>2
<1>3. /\ Holding' = Holding /\ Unrecorded' = Unrecorded \ {q}
      /\ \A k \in Clients : HeldBy(k)' = HeldBy(k)
      /\ question' \in [Questions -> Entries]
  BY <1>1, <1>2, Staying DEF DemoInv
<1>4. /\ UNCHANGED <<clock, asked, slots>>
      /\ day' = date /\ spent' = SpentToday + question[q].usd
      /\ question[q].usd \in 0 .. MaxCost
  BY <1>1 DEF Record
<1>5. DemoTyped'
  BY <1>3, <1>4, SpendToday, PublicAssumptions DEF DemoInv, DemoTyped, slots, clock
<1>6. SlotsMatch'
  BY <1>3, <1>4 DEF DemoInv, SlotsMatch, slots
<1>7. HoursMatch'
  BY <1>4 DEF DemoInv, HoursMatch, Within, clock
<1>8. Committed'
  <2> DEFINE n == Cardinality(Unrecorded)
  <2>1. n \in Nat /\ n >= 1 /\ Cardinality(Unrecorded') = n - 1
    <3>1. q \in Unrecorded
      BY <1>1 DEF Unrecorded
    <3>2. Cardinality(Unrecorded') = n - 1 /\ Cardinality(Unrecorded') \in Nat
      BY <1>3, <3>1, QuestionsFinite, OneLess, FS_RemoveElement, FS_CardinalityType
    <3>3. QED
      BY <3>2, QuestionsFinite
  <2>2. MaxCost * n = MaxCost * (n - 1) + MaxCost /\ MaxCost * (n - 1) \in Nat
    BY <2>1, OneAnswer, PublicAssumptions
  <2>3. SpentToday + MaxCost * n <= Budget - 1 + MaxConcurrent * MaxCost /\ MaxCost * n \in Nat
        /\ Budget - 1 + MaxConcurrent * MaxCost \in Nat
    BY SpendToday, AlwaysCommitted DEF DemoInv
  <2>4. spent' + MaxCost * (n - 1) <= Budget - 1 + MaxConcurrent * MaxCost
    BY <1>4, <2>2, <2>3, SpendToday, PublicAssumptions DEF DemoInv
  <2>5. QED
    BY <2>1, <2>4 DEF Committed
<1>9. QED
  BY <1>5, <1>6, <1>7, <1>8 DEF DemoInv

(* The release gives back one slot, and the client its turn.               *)
LEMMA ReleaseKeeps ==
    ASSUME DemoInv, NEW q \in Questions, Release(q)
    PROVE  DemoInv'
<1> PICK c \in Clients : question[q].client = c
  BY DEF Release, DemoInv, DemoTyped, Entries
<1>1. /\ Holding' = Holding \ {q} /\ q \in Holding
      /\ HeldBy(c)' = HeldBy(c) \ {q} /\ q \in HeldBy(c)
      /\ \A k \in Clients : k # c => HeldBy(k)' = HeldBy(k)
      /\ Unrecorded' = Unrecorded
      /\ question' \in [Questions -> Entries]
  BY Leaving DEF Release, DemoInv
<1>2. /\ UNCHANGED <<clock, day, spent, asked>>
      /\ inFlight' = inFlight - 1 /\ running' = [running EXCEPT ![c] = @ - 1]
  BY DEF Release
<1>3. Cardinality(Holding') = Cardinality(Holding) - 1 /\ Cardinality(Holding') \in Nat
  BY <1>1, QuestionsFinite, FS_RemoveElement, FS_CardinalityType
<1>4. Cardinality(HeldBy(c)') = Cardinality(HeldBy(c)) - 1 /\ Cardinality(HeldBy(c)') \in Nat
  BY <1>1, QuestionsFinite, FS_RemoveElement, FS_CardinalityType
<1>5. /\ inFlight' = Cardinality(Holding') /\ inFlight' <= MaxConcurrent /\ inFlight' \in Nat
  BY <1>2, <1>3, PublicAssumptions DEF DemoInv, DemoTyped, SlotsMatch
<1>6. running'[c] = Cardinality(HeldBy(c)') /\ running'[c] <= 1 /\ running'[c] \in Nat
  BY <1>1, <1>2, <1>4 DEF DemoInv, DemoTyped, SlotsMatch
<1>7. \A k \in Clients : k # c => running'[k] = running[k]
  BY <1>1, <1>2 DEF DemoInv, DemoTyped
<1>8. DemoTyped'
  <2>1. running' \in [Clients -> Nat]
    BY <1>2, <1>6, <1>7 DEF DemoInv, DemoTyped
  <2>2. now' = now /\ date' = date /\ day' = day /\ spent' = spent /\ asked' = asked
    BY <1>2 DEF clock
  <2>3. QED
    BY <1>1, <1>5, <2>1, <2>2 DEF DemoInv, DemoTyped
<1>9. SlotsMatch'
  <2>1. ASSUME NEW k \in Clients, k # c
        PROVE  running'[k] = Cardinality(HeldBy(k)') /\ running'[k] <= 1
    BY <1>1, <1>7, <2>1 DEF DemoInv, SlotsMatch
  <2>2. \A k \in Clients : running'[k] = Cardinality(HeldBy(k)') /\ running'[k] <= 1
    BY <1>6, <2>1
  <2>3. QED
    BY <1>5, <2>2 DEF SlotsMatch
<1>10. HoursMatch'
  BY <1>2 DEF DemoInv, HoursMatch, Within, clock
<1>11. Committed'
  BY <1>1, <1>2 DEF DemoInv, Committed
<1>12. QED
  BY <1>8, <1>9, <1>10, <1>11 DEF DemoInv

-----------------------------------------------------------------------------
LEMMA DemoStarts == DemoInit => DemoInv
<1> SUFFICES ASSUME DemoInit PROVE DemoInv
  OBVIOUS
<1>1. NotAsked \in Entries
  BY DEF NotAsked, Entries
<1>2. Holding = {} /\ Unrecorded = {} /\ \A c \in Clients : HeldBy(c) = {}
  BY UnaskedSaysSo DEF DemoInit, Holding, Unrecorded, HeldBy
<1>3. DemoTyped
  BY <1>1 DEF DemoInit, DemoTyped
<1>4. SlotsMatch
  BY <1>2, FS_EmptySet, PublicAssumptions DEF DemoInit, SlotsMatch
<1>5. HoursMatch
  <2>1. \A c \in Clients : Within(asked[c]) = {}
    BY DEF DemoInit, Within
  <2>2. QED
    BY <2>1, FS_EmptySet, PublicAssumptions DEF HoursMatch
<1>6. Committed
  <2>1. MaxCost * 0 = 0 /\ MaxConcurrent * MaxCost \in Nat
    BY PublicAssumptions, Dearer
  <2>2. QED
    BY <1>2, <2>1, FS_EmptySet, PublicAssumptions DEF DemoInit, Committed
<1>7. QED
  BY <1>3, <1>4, <1>5, <1>6 DEF DemoInv

LEMMA DemoAlwaysInv == DemoSpec => []DemoInv
<1>1. DemoInv /\ [DemoNext]_demoVars => DemoInv'
  <2> SUFFICES ASSUME DemoInv, [DemoNext]_demoVars PROVE DemoInv'
    OBVIOUS
  <2>1. ASSUME NEW q \in Questions, NEW c \in Clients, Unfit(q, c) \/ Refuse(q, c) \/ Admit(q, c)
        PROVE  DemoInv'
    BY <2>1, RefusalKeeps, AdmissionKeeps
  <2>2. ASSUME NEW q \in Questions, Answer(q) \/ Record(q) \/ Release(q)
        PROVE  DemoInv'
    BY <2>2, AnswerKeeps, RecordKeeps, ReleaseKeeps
  <2>3. CASE Tick \/ Midnight \/ Available
    BY <2>3, ClockKeeps
  <2>4. CASE UNCHANGED demoVars
    BY <2>4 DEF demoVars, DemoInv, DemoTyped, SlotsMatch, HoursMatch, Committed, Within, Holding,
                HeldBy, Unrecorded
  <2>5. QED
    BY <2>1, <2>2, <2>3, <2>4 DEF DemoNext
<1>2. QED
  BY <1>1, DemoStarts, PTL DEF DemoSpec

(* The spend of a day never passes the budget by more than the answers     *)
(* under way, and the slots, the clients' turns and their hourly limits    *)
(* are kept (public.go, Admit, Record and the release; chat.go).           *)
THEOREM DemoAlwaysBounded == DemoSpec => []DemoIsBounded
<1>1. DemoInv => SpendIsBounded
  <2> SUFFICES ASSUME DemoInv PROVE SpendIsBounded
    OBVIOUS
  <2>1. spent \in Nat
    BY DEF DemoInv, DemoTyped
  <2>2. QED
    BY <2>1, AlwaysCommitted DEF SpendIsBounded
<1>2. DemoInv => SlotsAccounted
  BY DEF DemoInv, SlotsMatch, HoursMatch, SlotsAccounted, HeldBy
<1>3. QED
  BY <1>1, <1>2, DemoAlwaysInv, PTL DEF DemoIsBounded

(***************************************************************************)
(* The way of a request to its handler (FrontDoor).                        *)
(*                                                                         *)
(* RateIsKept is not inductive either: it says nothing of the tokens a     *)
(* caller still has.  Paid counts them as let in already, at the time of   *)
(* the bucket's last refill, which may be later than that of a request     *)
(* that is still to come.  That a role was proven when its handler runs    *)
(* needs that nobody signs in with a session that was signed out of        *)
(* (SessionsFresh), and that a turn is one row or one count needs that     *)
(* only chat turns are on their way to the audit (OnTheirWay).             *)
(***************************************************************************)
Wants == UNION {s.wanted : s \in Servers}
RoleNames == KeyKinds \cup {"nobody", "public"}
AuditSteps == {"audit", "open", "ping", "again", "insert"}
Visits ==
    [at : {"new"}]
        \cup [at : {"limiter"}, caller : Callers, wants : Wants, stamp : Nat]
        \cup [at : {"login", "password"}, caller : Callers, wants : Wants]
        \cup [at : {"handled"} \cup AuditSteps, caller : Callers, wants : Wants, role : RoleNames,
              via : {"key", "cookie", "none"}, honoured : BOOLEAN]
        \cup [at : {"answered"}, status : Nat, chat : BOOLEAN]

DoorTyped ==
    /\ server \in Servers /\ time \in Nat
    /\ request \in [Arrivals -> Visits]
    /\ auditLog \in [state : {"ready", "unavailable"}, lastAttempt : Nat, rows : SUBSET Arrivals, dropped : Nat]

(* Each caller has one bucket, and the record of what it let in.           *)
Buckets == [caller : Callers, tokens : Nat, updated : Nat]
Grants == [made : Nat, let : Nat, late : Nat]
Metered ==
    /\ buckets \in Seq(Buckets)
    /\ \A i, j \in 1 .. Len(buckets) : buckets[i].caller = buckets[j].caller => i = j
    /\ DOMAIN granted = {buckets[i].caller : i \in 1 .. Len(buckets)}
    /\ \A c \in DOMAIN granted : granted[c] \in Grants
Paid ==
    \A i \in 1 .. Len(buckets) :
        LET b == buckets[i]
            grant == granted[b.caller]
        IN  b.updated <= time /\ grant.let + b.tokens <= Burst + (b.updated - grant.made) + grant.late
StampsPast == \A r \in Arrivals : request[r].at = "limiter" => request[r].stamp <= time

SessionsFresh ==
    /\ \A s \in sessions : s.token \in Arrivals \ ended /\ request[s.token].at = "answered"
    /\ \A s, u \in sessions : s.token = u.token => s = u
    /\ ended \subseteq Arrivals /\ \A e \in ended : request[e].at = "answered"

OnTheirWay ==
    \A r \in Arrivals :
        /\ request[r].at \in {"login", "password"} => request[r].wants.route = "login"
        /\ request[r].at \in AuditSteps => request[r].wants.route = "chat"

MeterInv == Metered /\ Paid /\ StampsPast
ServedInv == SessionsFresh /\ ServedAsProven
TurnsInv == OnTheirWay /\ IsFiniteSet(Audited) /\ TurnsAccounted
DoorInv == DoorTyped /\ MeterInv /\ ServedInv /\ TurnsInv

Proven(q) ==
    /\ q.wants.key # "none" => \/ q.role = q.wants.key /\ ~server.open
                               \/ q.role = "admin" /\ server.open /\ ~server.required
    /\ q.role = "public" => server.public /\ q.wants.route \in PublicRoutes /\ q.wants.key = "none"
    /\ q.via = "cookie" => server.login /\ q.honoured /\ (q.wants.write => q.wants.csrf)

LEMMA WantIs ==
  ASSUME DoorTyped, NEW w \in Wants
  PROVE  w.key \in KeyKinds /\ w.write \in BOOLEAN /\ w.csrf \in BOOLEAN
  BY FrontDoorBounds DEF DoorTyped, Wants

LEMMA VisitIs ==
  ASSUME NEW q \in Visits
  PROVE  /\ q.at \in {"new", "limiter", "login", "password", "handled", "answered"} \cup AuditSteps
         /\ q.at = "limiter" => q.caller \in Callers /\ q.wants \in Wants /\ q.stamp \in Nat
         /\ q.at \in {"login", "password"} =>
                q \in [at : {"login", "password"}, caller : Callers, wants : Wants]
         /\ q.at \in {"handled"} \cup AuditSteps =>
                q \in [at : {"handled"} \cup AuditSteps, caller : Callers, wants : Wants, role : RoleNames,
                       via : {"key", "cookie", "none"}, honoured : BOOLEAN]
         /\ q.at = "answered" => q.chat \in BOOLEAN
  BY DEF Visits, AuditSteps

LEMMA Moved ==
  ASSUME DoorTyped, NEW r \in Arrivals, NEW f \in Visits, Move(r, f)
  PROVE  /\ request' \in [Arrivals -> Visits] /\ request'[r] = f
         /\ \A u \in Arrivals \ {r} : request'[u] = request[u]
  BY DEF DoorTyped, Move

LEMMA RefusalIs ==
  ASSUME NEW r, NEW status \in Nat, Refused(r, status)
  PROVE  \E f \in Visits : Move(r, f) /\ f.at = "answered" /\ ~f.chat
<1>1. PICK f : f = [at |-> "answered", status |-> status, chat |-> FALSE]
  OBVIOUS
<1>2. f \in Visits /\ f.at = "answered" /\ ~f.chat
  BY <1>1 DEF Visits
<1>3. QED
  BY <1>1, <1>2 DEF Refused

LEMMA DoneIs ==
  ASSUME NEW r, Respond(r)
  PROVE  \E f \in Visits : Move(r, f) /\ f.at = "answered" /\ (f.chat <=> request[r].wants.route = "chat")
<1>1. PICK f : f = [at |-> "answered", status |-> 200, chat |-> request[r].wants.route = "chat"]
  OBVIOUS
<1>2. f \in Visits /\ f.at = "answered" /\ (f.chat <=> request[r].wants.route = "chat")
  BY <1>1, ZenonT(60) DEF Visits
<1>3. QED
  BY <1>1, <1>2 DEF Respond

(* Who the caller is, and where that lets it go.                           *)
LEMMA IdentityIs ==
  ASSUME DoorTyped, SessionsFresh, NEW w \in Wants, NEW id, id = Identify(w), Passage(w, id) = 200
  PROVE  /\ id.role \in RoleNames /\ id.via \in {"key", "cookie", "none"}
         /\ w.key # "none" => \/ id.role = w.key /\ ~server.open
                              \/ id.role = "admin" /\ server.open /\ ~server.required
         /\ id.role = "public" => server.public /\ w.route \in PublicRoutes /\ w.key = "none"
         /\ id.via = "cookie" => server.login /\ w.cookie \notin ended /\ (w.write => w.csrf)
<1>1. w.key \in KeyKinds /\ w.write \in BOOLEAN /\ w.csrf \in BOOLEAN
  BY WantIs
<1>2. PICK role : role = KeyRole(w)
  OBVIOUS
<1>3. /\ role \in RoleNames /\ role # "public"
      /\ role # "nobody" /\ w.key # "none" => \/ role = w.key /\ ~server.open
                                              \/ role = "admin" /\ server.open /\ ~server.required
  BY <1>1, <1>2 DEF KeyRole, RoleNames, KeyKinds
<1>4. /\ id.role # "nobody"
      /\ id.via = "cookie" /\ w.write => w.csrf
      /\ id.role = "public" => w.route \in PublicRoutes
  BY <1>1 DEF Passage
<1>5. CASE w.key # "none"
  <2>1. id = [role |-> role, via |-> "key"]
    BY <1>2, <1>5 DEF Identify, As
  <2>2. id.role = role /\ id.via = "key"
    BY <2>1
  <2>3. QED
    BY <1>3, <1>4, <1>5, <2>2
<1>6. CASE w.key = "none" /\ ViaCookie(w)
  <2>1. id = [role |-> "admin", via |-> "cookie"]
    BY <1>6 DEF Identify, As
  <2>2. id.role = "admin" /\ id.via = "cookie"
    BY <2>1
  <2>3. server.login /\ w.cookie \notin ended
    BY <1>6 DEF ViaCookie, Live, SessionsFresh
  <2>4. QED
    BY <1>4, <1>6, <2>2, <2>3 DEF RoleNames, KeyKinds
<1>7. CASE w.key = "none" /\ ~ViaCookie(w) /\ server.public
  <2>1. id = [role |-> "public", via |-> "none"]
    BY <1>7 DEF Identify, As
  <2>2. id.role = "public" /\ id.via = "none"
    BY <2>1
  <2>3. QED
    BY <1>4, <1>7, <2>2 DEF RoleNames
<1>8. CASE w.key = "none" /\ ~ViaCookie(w) /\ ~server.public
  <2>1. id = [role |-> role, via |-> "none"]
    BY <1>2, <1>8 DEF Identify, As
  <2>2. id.role = role /\ id.via = "none"
    BY <2>1
  <2>3. QED
    BY <1>3, <1>4, <1>8, <2>2
<1>9. QED
  BY <1>5, <1>6, <1>7, <1>8

LEMMA EnterIs ==
  ASSUME DoorTyped, SessionsFresh, NEW r \in Arrivals, NEW c \in Callers, NEW w \in Wants, Enter(r, c, w)
  PROVE  \E f \in Visits : /\ Move(r, f) /\ f.at \in {"login", "handled", "answered"}
                           /\ f.at = "login" => f.wants.route = "login"
                           /\ f.at = "handled" => Proven(f)
                           /\ f.at = "answered" => ~f.chat
<1>1. CASE w.route = "login"
  <2>1. PICK f : f = [at |-> "login", caller |-> c, wants |-> w]
    OBVIOUS
  <2>2. f \in Visits /\ f.at = "login" /\ f.wants = w
    BY <2>1 DEF Visits
  <2>3. QED
    BY <1>1, <2>1, <2>2 DEF Enter
<1>2. CASE w.route # "login" /\ Passage(w, Identify(w)) # 200
  <2>1. Passage(w, Identify(w)) \in Nat
    BY DEF Passage
  <2>2. Refused(r, Passage(w, Identify(w)))
    BY <1>2 DEF Enter
  <2>3. QED
    BY <2>1, <2>2, RefusalIs
<1>3. CASE w.route # "login" /\ Passage(w, Identify(w)) = 200
  <2>1. PICK id : id = Identify(w)
    OBVIOUS
  <2>2. /\ id.role \in RoleNames /\ id.via \in {"key", "cookie", "none"}
        /\ w.key # "none" => \/ id.role = w.key /\ ~server.open
                             \/ id.role = "admin" /\ server.open /\ ~server.required
        /\ id.role = "public" => server.public /\ w.route \in PublicRoutes /\ w.key = "none"
        /\ id.via = "cookie" => server.login /\ w.cookie \notin ended /\ (w.write => w.csrf)
    BY <1>3, <2>1, IdentityIs
  <2>3. PICK role \in RoleNames, via \in {"key", "cookie", "none"}, honoured \in BOOLEAN :
          role = id.role /\ via = id.via /\ honoured = (w.cookie \notin ended)
    BY <2>2
  <2>4. PICK f : f = [at |-> "handled", caller |-> c, wants |-> w, role |-> role, via |-> via, honoured |-> honoured]
    OBVIOUS
  <2>5. Move(r, f)
    BY <1>3, <2>1, <2>3, <2>4 DEF Enter
  <2>6. f \in Visits /\ f.at = "handled"
    BY <2>4 DEF Visits
  <2>7. f.wants = w /\ f.role = role /\ f.via = via /\ f.honoured = honoured
    BY <2>4
  <2>8. Proven(f)
    BY <2>2, <2>3, <2>7 DEF Proven
  <2>9. QED
    BY <2>5, <2>6, <2>8
<1>4. QED
  BY <1>1, <1>2, <1>3

LEMMA Onward ==
  ASSUME NEW q \in [at : {"handled"} \cup AuditSteps, caller : Callers, wants : Wants, role : RoleNames,
                    via : {"key", "cookie", "none"}, honoured : BOOLEAN],
         NEW a \in AuditSteps, NEW f, f = [q EXCEPT !.at = a]
  PROVE  f \in Visits /\ f.at = a /\ f.wants = q.wants
<1>1. /\ f \in [at : {"handled"} \cup AuditSteps, caller : Callers, wants : Wants, role : RoleNames,
                via : {"key", "cookie", "none"}, honoured : BOOLEAN]
      /\ f.at = a /\ f.wants = q.wants
  OBVIOUS
<1>2. QED
  BY <1>1 DEF Visits

RequestStep(r) ==
    \/ Arrive(r) \/ PassLimiter(r) \/ Handle(r) \/ LoginChecks(r) \/ LoginVerdict(r)
    \/ AuditReads(r) \/ AuditOpens(r) \/ AuditPinged(r) \/ AuditLooksAgain(r) \/ AuditInserts(r)

(* Where a step may take its request.                                      *)
Lawful(r, f) ==
    /\ f.at = "handled" => Proven(f)
    /\ f.at = "limiter" => f.stamp <= time
    /\ f.at \in {"login", "password"} => f.wants.route = "login"
    /\ f.at \in AuditSteps => f.wants.route = "chat"
    /\ f.at = "answered" => (f.chat <=> request[r].at \in {"again", "insert"})

LEMMA StepIs ==
  ASSUME DoorTyped, SessionsFresh, OnTheirWay, NEW r \in Arrivals, RequestStep(r)
  PROVE  /\ request[r].at # "answered" /\ UNCHANGED <<server, time>>
         /\ \E f \in Visits : Move(r, f) /\ Lawful(r, f)
<1> DEFINE q == request[r]
<1>1. q \in Visits
  BY DEF DoorTyped
<1>2. /\ q.at \in {"login", "password"} => q.wants.route = "login"
      /\ q.at \in AuditSteps => q.wants.route = "chat"
  BY DEF OnTheirWay
<1>3. UNCHANGED <<server, time>>
  <2>1. Arrive(r) \/ PassLimiter(r) => UNCHANGED <<server, time>>
    BY DEF Arrive, PassLimiter, EnterFrame
  <2>2. Handle(r) \/ LoginChecks(r) \/ LoginVerdict(r) => UNCHANGED <<server, time>>
    BY DEF Handle, LoginChecks, LoginVerdict
  <2>3. AuditReads(r) \/ AuditOpens(r) \/ AuditPinged(r) => UNCHANGED <<server, time>>
    BY DEF AuditFrame, AuditReads, AuditOpens, AuditPinged
  <2>4. AuditLooksAgain(r) => UNCHANGED <<server, time>>
    BY DEF AuditFrame, AuditLooksAgain
  <2>5. AuditInserts(r) => UNCHANGED <<server, time>>
    BY DEF AuditFrame, AuditInserts
  <2>6. QED
    BY <2>1, <2>2, <2>3, <2>4, <2>5 DEF RequestStep
<1>a. q.at # "answered"
  <2>1. Arrive(r) => q.at = "new"
    BY DEF Arrive, New
  <2>2. PassLimiter(r) \/ Handle(r) => q.at \in {"limiter", "handled"}
    BY DEF PassLimiter, Handle
  <2>3. LoginChecks(r) \/ LoginVerdict(r) => q.at \in {"login", "password"}
    BY DEF LoginChecks, LoginVerdict
  <2>4. AuditReads(r) \/ AuditOpens(r) \/ AuditPinged(r) \/ AuditLooksAgain(r) \/ AuditInserts(r) =>
            q.at \in {"audit", "open", "ping", "again", "insert"}
    BY DEF AuditReads, AuditOpens, AuditPinged, AuditLooksAgain, AuditInserts
  <2>5. QED
    BY <2>1, <2>2, <2>3, <2>4 DEF RequestStep
<1>b. SUFFICES \E f \in Visits : Move(r, f) /\ Lawful(r, f)
  BY <1>3, <1>a
<1>4. ASSUME NEW f \in Visits, Move(r, f), f.at = "answered", ~f.chat, q.at \notin AuditSteps
      PROVE  \E g \in Visits : Move(r, g) /\ Lawful(r, g)
  BY <1>4 DEF Lawful, AuditSteps
<1>5. ASSUME NEW a \in AuditSteps, q.at \in {"handled"} \cup AuditSteps, q.wants.route = "chat",
             Move(r, [q EXCEPT !.at = a])
      PROVE  \E g \in Visits : Move(r, g) /\ Lawful(r, g)
  <2>1. PICK f : f = [q EXCEPT !.at = a]
    OBVIOUS
  <2>2. f \in Visits /\ f.at = a /\ f.wants = q.wants
    BY <1>1, <1>5, <2>1, VisitIs, Onward
  <2>3. Lawful(r, f)
    BY <1>5, <2>2 DEF Lawful, AuditSteps
  <2>4. QED
    BY <1>5, <2>1, <2>2, <2>3
<1>6. CASE Arrive(r)
  <2>1. q.at = "new"
    BY <1>6 DEF Arrive, New
  <2>2. PICK c \in Callers, w \in server.wanted :
          IF w.route = "probe" THEN Refused(r, 200)
          ELSE IF server.limited THEN Move(r, [at |-> "limiter", caller |-> c, wants |-> w, stamp |-> time])
          ELSE Enter(r, c, w)
    BY <1>6 DEF Arrive
  <2>3. w \in Wants /\ time \in Nat /\ time <= time
    BY DEF DoorTyped, Wants
  <2>4. CASE Refused(r, 200)
    BY <1>4, <2>1, <2>4, RefusalIs DEF AuditSteps
  <2>5. CASE Move(r, [at |-> "limiter", caller |-> c, wants |-> w, stamp |-> time])
    <3>1. PICK f : f = [at |-> "limiter", caller |-> c, wants |-> w, stamp |-> time]
      OBVIOUS
    <3>2. f \in Visits /\ f.at = "limiter" /\ f.stamp = time
      BY <2>3, <3>1 DEF Visits
    <3>3. Lawful(r, f)
      BY <2>3, <3>2 DEF Lawful, AuditSteps
    <3>4. QED
      BY <2>5, <3>1, <3>2, <3>3
  <2>6. CASE Enter(r, c, w)
    <3>1. PICK f \in Visits : /\ Move(r, f) /\ f.at \in {"login", "handled", "answered"}
                              /\ f.at = "login" => f.wants.route = "login"
                              /\ f.at = "handled" => Proven(f)
                              /\ f.at = "answered" => ~f.chat
      BY <2>3, <2>6, EnterIs
    <3>2. Lawful(r, f)
      BY <2>1, <3>1 DEF Lawful, AuditSteps
    <3>3. QED
      BY <3>1, <3>2
  <2>7. QED
    BY <2>2, <2>4, <2>5, <2>6
<1>7. CASE PassLimiter(r)
  <2>1. q.at = "limiter" /\ q.caller \in Callers /\ q.wants \in Wants
    BY <1>1, <1>7, VisitIs DEF PassLimiter
  <2>2. CASE Refused(r, 429)
    BY <1>4, <2>1, <2>2, RefusalIs DEF AuditSteps
  <2>3. CASE Enter(r, q.caller, q.wants)
    <3>1. PICK f \in Visits : /\ Move(r, f) /\ f.at \in {"login", "handled", "answered"}
                              /\ f.at = "login" => f.wants.route = "login"
                              /\ f.at = "handled" => Proven(f)
                              /\ f.at = "answered" => ~f.chat
      BY <2>1, <2>3, EnterIs
    <3>2. Lawful(r, f)
      BY <2>1, <3>1 DEF Lawful, AuditSteps
    <3>3. QED
      BY <3>1, <3>2
  <2>4. QED
    BY <1>7, <2>2, <2>3 DEF PassLimiter
<1>8. CASE Handle(r)
  <2>1. q.at = "handled"
    BY <1>8 DEF Handle
  <2>2. CASE q.wants.route = "chat"
    <3>1. Move(r, [q EXCEPT !.at = "audit"])
      BY <1>8, <2>2 DEF Handle
    <3>2. QED
      BY <1>5, <2>1, <2>2, <3>1 DEF AuditSteps
  <2>3. CASE q.wants.route # "chat"
    <3>1. Respond(r)
      BY <1>8, <2>3 DEF Handle
    <3>2. QED
      BY <1>4, <2>1, <2>3, <3>1, DoneIs DEF AuditSteps
  <2>4. QED
    BY <2>2, <2>3
<1>9. CASE LoginChecks(r)
  <2>1. q.at = "login" /\ q.wants.route = "login"
    BY <1>2, <1>9 DEF LoginChecks
  <2>2. CASE \E status \in Nat : Refused(r, status)
    BY <1>4, <2>1, <2>2, RefusalIs DEF AuditSteps
  <2>3. CASE Move(r, [q EXCEPT !.at = "password"])
    <3>1. PICK f : f = [q EXCEPT !.at = "password"]
      OBVIOUS
    <3>2. q \in [at : {"login", "password"}, caller : Callers, wants : Wants]
      BY <1>1, <2>1, VisitIs
    <3>3. f \in [at : {"login", "password"}, caller : Callers, wants : Wants] /\ f.at = "password" /\ f.wants = q.wants
      BY <3>1, <3>2
    <3>4. f \in Visits /\ Lawful(r, f)
      BY <2>1, <3>3 DEF Visits, Lawful, AuditSteps
    <3>5. QED
      BY <2>3, <3>1, <3>4
  <2>4. QED
    BY <1>9, <2>2, <2>3 DEF LoginChecks
<1>10. CASE LoginVerdict(r)
  <2>1. q.at = "password" /\ q.wants.route = "login"
    BY <1>2, <1>10 DEF LoginVerdict
  <2>2. CASE Refused(r, 401)
    BY <1>4, <2>1, <2>2, RefusalIs DEF AuditSteps
  <2>3. CASE Respond(r)
    BY <1>4, <2>1, <2>3, DoneIs DEF AuditSteps
  <2>4. QED
    BY <1>10, <2>2, <2>3 DEF LoginVerdict
<1>11. CASE AuditReads(r) \/ AuditOpens(r) \/ AuditPinged(r)
  <2>1. PICK a \in AuditSteps : q.at \in AuditSteps /\ Move(r, [q EXCEPT !.at = a])
    BY <1>11 DEF AuditReads, AuditOpens, AuditPinged, AuditSteps
  <2>2. QED
    BY <1>2, <1>5, <2>1
<1>12. CASE AuditLooksAgain(r) \/ AuditInserts(r)
  <2>1. q.at \in {"again", "insert"} /\ q.at \in AuditSteps /\ q.wants.route = "chat"
    BY <1>2, <1>12 DEF AuditLooksAgain, AuditInserts, AuditSteps
  <2>2. CASE Respond(r)
    <3>1. PICK f \in Visits : Move(r, f) /\ f.at = "answered" /\ f.chat
      BY <2>1, <2>2, DoneIs
    <3>2. Lawful(r, f)
      BY <2>1, <3>1 DEF Lawful, AuditSteps
    <3>3. QED
      BY <3>1, <3>2
  <2>3. CASE Move(r, [q EXCEPT !.at = "insert"])
    BY <1>5, <2>1, <2>3 DEF AuditSteps
  <2>4. QED
    BY <1>12, <2>2, <2>3 DEF AuditLooksAgain, AuditInserts
<1>13. QED
  BY <1>6, <1>7, <1>8, <1>9, <1>10, <1>11, <1>12 DEF RequestStep

(* A step of a request leaves the others where they are.                   *)
LEMMA StagesKept ==
  ASSUME DoorTyped, StampsPast, OnTheirWay, ServedInv, NEW r \in Arrivals, RequestStep(r)
  PROVE  /\ request' \in [Arrivals -> Visits] /\ StampsPast' /\ OnTheirWay' /\ ServedAsProven'
         /\ \A u \in Arrivals : request[u].at = "answered" => request'[u] = request[u]
         /\ \A u \in Arrivals \ {r} : request'[u] = request[u]
         /\ request[r].at # "answered"
         /\ request'[r].at = "answered" => (request'[r].chat <=> request[r].at \in {"again", "insert"})
<1>1. UNCHANGED <<server, time>> /\ request[r].at # "answered"
  BY StepIs DEF ServedInv
<1>2. PICK f \in Visits : Move(r, f) /\ Lawful(r, f)
  BY StepIs DEF ServedInv
<1>3. /\ request' \in [Arrivals -> Visits] /\ request'[r] = f
      /\ \A u \in Arrivals \ {r} : request'[u] = request[u]
  BY <1>2, Moved
<1>4. StampsPast'
  BY <1>1, <1>2, <1>3 DEF StampsPast, Lawful
<1>5. OnTheirWay'
  BY <1>2, <1>3 DEF OnTheirWay, Lawful
<1>6. ServedAsProven'
  <2>1. \A u \in Arrivals \ {r} : request[u].at = "handled" => Proven(request[u])
    BY DEF ServedInv, ServedAsProven, Proven
  <2>2. ASSUME NEW u \in Arrivals, request'[u].at = "handled"
        PROVE  Proven(request'[u])
    BY <1>2, <1>3, <2>1, <2>2 DEF Lawful
  <2>3. QED
    BY <1>1, <2>2 DEF ServedAsProven, Proven
<1>7. request'[r].at = "answered" => (request'[r].chat <=> request[r].at \in {"again", "insert"})
  BY <1>2, <1>3 DEF Lawful
<1>8. QED
  BY <1>1, <1>3, <1>4, <1>5, <1>6, <1>7

LEMMA SessionsKept ==
  ASSUME DoorTyped, SessionsFresh, NEW r \in Arrivals, RequestStep(r),
         \A u \in Arrivals : request[u].at = "answered" => request'[u] = request[u]
  PROVE  SessionsFresh'
<1>1. CASE UNCHANGED <<sessions, ended>>
  BY <1>1 DEF SessionsFresh
<1>2. CASE LoginVerdict(r) /\ ~UNCHANGED sessions
  <2>1. PICK entry : entry = [token |-> r, expires |-> time + SessionTicks]
    OBVIOUS
  <2>2. /\ sessions' = Fresh \cup {entry} /\ Respond(r) /\ ended' = ended /\ request[r].at = "password"
    BY <1>2, <2>1 DEF LoginVerdict
  <2>3. entry.token = r /\ Fresh \subseteq sessions
    BY <2>1 DEF Fresh
  <2>4. request'[r].at = "answered"
    BY <2>2, DoneIs, Moved
  <2>5. /\ r \notin ended /\ \A s \in sessions : s.token # r
    BY <2>2 DEF SessionsFresh
  <2>6. QED
    BY <2>2, <2>3, <2>4, <2>5 DEF SessionsFresh
<1>3. QED
  <2>1. LoginVerdict(r) => ended' = ended
    BY DEF LoginVerdict
  <2>2. Arrive(r) \/ PassLimiter(r) => UNCHANGED <<sessions, ended>>
    BY DEF Arrive, PassLimiter, EnterFrame, signIns
  <2>3. Handle(r) \/ LoginChecks(r) => UNCHANGED <<sessions, ended>>
    BY DEF Handle, LoginChecks, signIns
  <2>4. AuditReads(r) \/ AuditOpens(r) \/ AuditPinged(r) => UNCHANGED <<sessions, ended>>
    BY DEF AuditFrame, AuditReads, AuditOpens, AuditPinged, signIns
  <2>5. AuditLooksAgain(r) \/ AuditInserts(r) => UNCHANGED <<sessions, ended>>
    BY DEF AuditFrame, AuditLooksAgain, AuditInserts, signIns
  <2>6. QED
    BY <1>1, <1>2, <2>1, <2>2, <2>3, <2>4, <2>5 DEF RequestStep

(* What is not the end of a chat turn changes nothing of the accounts.     *)
LEMMA AccountsKept ==
  ASSUME DoorTyped, TurnsInv, NEW r \in Arrivals,
         \A u \in Arrivals \ {r} : request'[u] = request[u],
         request[r].at # "answered", request'[r].at = "answered" => ~request'[r].chat,
         NEW rows, NEW dropped, rows = auditLog.rows', dropped = auditLog.dropped',
         rows = auditLog.rows, dropped = auditLog.dropped
  PROVE  IsFiniteSet(Audited)' /\ TurnsAccounted'
<1>1. Audited' = Audited
  BY DEF Audited
<1>2. QED
  BY <1>1 DEF TurnsInv, TurnsAccounted

(* The end of one: a row, or a count, or both when the answer was lost.    *)
LEMMA AccountsGrow ==
  ASSUME DoorTyped, TurnsInv, NEW r \in Arrivals,
         \A u \in Arrivals \ {r} : request'[u] = request[u],
         request[r].at # "answered", request'[r].at = "answered", request'[r].chat,
         NEW rows, NEW dropped, rows = auditLog.rows', dropped = auditLog.dropped',
         \/ rows = auditLog.rows \cup {r} /\ dropped \in {auditLog.dropped, auditLog.dropped + 1}
         \/ rows = auditLog.rows /\ dropped = auditLog.dropped + 1
  PROVE  IsFiniteSet(Audited)' /\ TurnsAccounted'
<1> DEFINE lost == Audited \ auditLog.rows
<1>1. Audited' = Audited \cup {r} /\ r \notin Audited
  BY DEF Audited
<1>2. IsFiniteSet(Audited) /\ auditLog.rows \subseteq Audited /\ r \notin auditLog.rows
  BY <1>1 DEF TurnsInv, TurnsAccounted
<1>3. IsFiniteSet(lost) /\ Cardinality(lost) \in Nat /\ Cardinality(Audited) \in Nat /\ auditLog.dropped \in Nat
  BY <1>2, FS_Subset, FS_CardinalityType DEF DoorTyped
<1>4. /\ IsFiniteSet(Audited \cup {r}) /\ Cardinality(Audited \cup {r}) = Cardinality(Audited) + 1
  BY <1>1, <1>2, OneMore, FS_AddElement
<1>5. Cardinality(lost) <= auditLog.dropped /\ auditLog.dropped <= Cardinality(Audited)
  BY DEF TurnsInv, TurnsAccounted
<1>6. CASE rows = auditLog.rows \cup {r} /\ dropped \in {auditLog.dropped, auditLog.dropped + 1}
  <2>1. (Audited \cup {r}) \ rows = lost
    BY <1>1, <1>6
  <2>2. Cardinality(lost) <= dropped /\ dropped <= Cardinality(Audited) + 1
    BY <1>3, <1>5, <1>6
  <2>3. rows \subseteq Audited \cup {r}
    BY <1>2, <1>6
  <2>4. QED
    BY <1>1, <1>4, <2>1, <2>2, <2>3 DEF TurnsAccounted
<1>7. CASE rows = auditLog.rows /\ dropped = auditLog.dropped + 1
  <2>1. (Audited \cup {r}) \ rows = lost \cup {r}
    BY <1>1, <1>2, <1>7
  <2>2. Cardinality(lost \cup {r}) = Cardinality(lost) + 1
    BY <1>1, <1>3, OneMore
  <2>3. Cardinality(lost) + 1 <= dropped /\ dropped <= Cardinality(Audited) + 1
    BY <1>3, <1>5, <1>7
  <2>4. rows \subseteq Audited \cup {r}
    BY <1>2, <1>7
  <2>5. QED
    BY <1>1, <1>4, <2>1, <2>2, <2>3, <2>4 DEF TurnsAccounted
<1>8. QED
  BY <1>6, <1>7

(* What a step does to the state of the audit.                             *)
Logs == [state : {"ready", "unavailable"}, lastAttempt : Nat, rows : SUBSET Arrivals, dropped : Nat]
LogMoves(r, log) ==
    \/ /\ log.rows = auditLog.rows /\ log.dropped = auditLog.dropped
       /\ request'[r].at = "answered" => request[r].at \notin {"again", "insert"}
    \/ /\ request'[r].at = "answered" /\ request[r].at \in {"again", "insert"}
       /\ \/ log.rows = auditLog.rows \cup {r} /\ log.dropped \in {auditLog.dropped, auditLog.dropped + 1}
          \/ log.rows = auditLog.rows /\ log.dropped = auditLog.dropped + 1

LEMMA LogIs ==
  ASSUME DoorTyped, OnTheirWay, ServedInv, NEW r \in Arrivals, RequestStep(r)
  PROVE  \E log \in Logs : auditLog' = log /\ LogMoves(r, log)
<1> PICK before \in Logs : before = auditLog
  BY DEF DoorTyped, Logs
<1>1. CASE auditLog' = auditLog /\ request[r].at \notin {"again", "insert"}
  BY <1>1 DEF LogMoves
<1>2. CASE AuditLooksAgain(r)
  <2>1. CASE auditLog.state = "ready"
    <3>1. PICK f : f = [request[r] EXCEPT !.at = "insert"]
      OBVIOUS
    <3>2. f \in Visits /\ f.at = "insert"
      BY <1>2, <3>1, VisitIs, Onward DEF AuditLooksAgain, DoorTyped, AuditSteps
    <3>3. Move(r, f) /\ auditLog' = auditLog
      BY <1>2, <2>1, <3>1 DEF AuditLooksAgain
    <3>4. request'[r].at = "insert"
      BY <3>2, <3>3, Moved
    <3>5. QED
      BY <3>3, <3>4 DEF LogMoves
  <2>2. CASE auditLog.state # "ready"
    <3>1. Respond(r) /\ auditLog' = [before EXCEPT !.dropped = @ + 1] /\ request[r].at = "again"
      BY <1>2, <2>2 DEF AuditLooksAgain
    <3>2. request'[r].at = "answered"
      BY <3>1, DoneIs, Moved
    <3>3. PICK log : log = [before EXCEPT !.dropped = @ + 1]
      OBVIOUS
    <3>4. log \in Logs /\ log.rows = before.rows /\ log.dropped = before.dropped + 1
      BY <3>3 DEF Logs
    <3>5. QED
      BY <3>1, <3>2, <3>3, <3>4 DEF LogMoves
  <2>3. QED
    BY <2>1, <2>2
<1>3. CASE AuditInserts(r)
  <2>1. Respond(r) /\ request[r].at = "insert"
    BY <1>3 DEF AuditInserts
  <2>2. request'[r].at = "answered"
    BY <2>1, DoneIs, Moved
  <2>3. PICK written : written = [before EXCEPT !.rows = @ \cup {r}]
    OBVIOUS
  <2>4. written \in Logs /\ written.rows = before.rows \cup {r} /\ written.dropped = before.dropped
    BY <2>3 DEF Logs
  <2>5. ASSUME NEW from \in Logs
        PROVE  \E log \in Logs : log = NotWritten(from) /\ log.rows = from.rows /\ log.dropped = from.dropped + 1
    <3>1. PICK log : log = [from EXCEPT !.dropped = @ + 1]
      OBVIOUS
    <3>2. log \in Logs /\ log.rows = from.rows /\ log.dropped = from.dropped + 1
      BY <3>1 DEF Logs
    <3>3. QED
      BY <3>1, <3>2 DEF NotWritten
  <2>6. auditLog' \in {written, NotWritten(written), NotWritten(before)}
    BY <1>3, <2>3 DEF AuditInserts
  <2>7. CASE auditLog' = written
    BY <2>1, <2>2, <2>4, <2>7 DEF LogMoves
  <2>8. CASE auditLog' = NotWritten(written)
    <3>1. PICK log \in Logs : log = NotWritten(written) /\ log.rows = written.rows /\ log.dropped = written.dropped + 1
      BY <2>4, <2>5
    <3>2. QED
      BY <2>1, <2>2, <2>4, <2>8, <3>1 DEF LogMoves
  <2>9. CASE auditLog' = NotWritten(before)
    <3>1. PICK log \in Logs : log = NotWritten(before) /\ log.rows = before.rows /\ log.dropped = before.dropped + 1
      BY <2>5
    <3>2. QED
      BY <2>1, <2>2, <2>9, <3>1 DEF LogMoves
  <2>10. QED
    BY <2>6, <2>7, <2>8, <2>9
<1>4. CASE AuditOpens(r)
  <2>1. PICK log : log = [before EXCEPT !.lastAttempt = time]
    OBVIOUS
  <2>2. log \in Logs /\ log.rows = before.rows /\ log.dropped = before.dropped
    BY <2>1 DEF Logs, DoorTyped
  <2>3. auditLog' = log /\ request[r].at = "open"
    BY <1>4, <2>1 DEF AuditOpens
  <2>4. QED
    BY <2>2, <2>3 DEF LogMoves
<1>5. CASE AuditPinged(r)
  <2>1. PICK log : log = [before EXCEPT !.state = IF reachable THEN "ready" ELSE "unavailable"]
    OBVIOUS
  <2>2. log \in Logs /\ log.rows = before.rows /\ log.dropped = before.dropped
    BY <2>1 DEF Logs
  <2>3. auditLog' = log /\ request[r].at = "ping"
    BY <1>5, <2>1 DEF AuditPinged
  <2>4. QED
    BY <2>2, <2>3 DEF LogMoves
<1>6. QED
  <2>1. Arrive(r) => auditLog' = auditLog /\ request[r].at = "new"
    BY DEF Arrive, EnterFrame, New
  <2>2. PassLimiter(r) \/ Handle(r) => auditLog' = auditLog /\ request[r].at \in {"limiter", "handled"}
    BY DEF PassLimiter, Handle, EnterFrame
  <2>3. LoginChecks(r) \/ LoginVerdict(r) => auditLog' = auditLog /\ request[r].at \in {"login", "password"}
    BY DEF LoginChecks, LoginVerdict
  <2>4. AuditReads(r) => auditLog' = auditLog /\ request[r].at = "audit"
    BY DEF AuditReads
  <2>5. QED
    BY <1>1, <1>2, <1>3, <1>4, <1>5, <2>1, <2>2, <2>3, <2>4 DEF RequestStep

LEMMA TurnsKept ==
  ASSUME DoorInv, NEW r \in Arrivals, RequestStep(r)
  PROVE  DoorTyped' /\ TurnsInv' /\ StampsPast' /\ ServedInv'
<1>1. /\ request' \in [Arrivals -> Visits] /\ StampsPast' /\ OnTheirWay' /\ ServedAsProven'
      /\ \A u \in Arrivals : request[u].at = "answered" => request'[u] = request[u]
      /\ \A u \in Arrivals \ {r} : request'[u] = request[u]
      /\ request[r].at # "answered"
      /\ request'[r].at = "answered" => (request'[r].chat <=> request[r].at \in {"again", "insert"})
  BY StagesKept DEF DoorInv, MeterInv, TurnsInv
<1>2. PICK log \in Logs : auditLog' = log /\ LogMoves(r, log)
  BY LogIs DEF DoorInv, TurnsInv
<1>3. UNCHANGED <<server, time>>
  BY StepIs DEF DoorInv, ServedInv, TurnsInv
<1>4. DoorTyped'
  BY <1>1, <1>2, <1>3 DEF DoorInv, DoorTyped, Logs
<1>5. SessionsFresh'
  BY <1>1, SessionsKept DEF DoorInv, ServedInv
<1>6. IsFiniteSet(Audited)' /\ TurnsAccounted'
  <2>1. PICK rows, dropped : rows = log.rows /\ dropped = log.dropped
    OBVIOUS
  <2>2. rows = auditLog.rows' /\ dropped = auditLog.dropped'
    BY <1>2, <2>1
  <2>3. CASE /\ rows = auditLog.rows /\ dropped = auditLog.dropped
             /\ request'[r].at = "answered" => request[r].at \notin {"again", "insert"}
    BY <1>1, <2>2, <2>3, AccountsKept DEF DoorInv
  <2>4. CASE /\ request'[r].at = "answered" /\ request[r].at \in {"again", "insert"}
             /\ \/ rows = auditLog.rows \cup {r} /\ dropped \in {auditLog.dropped, auditLog.dropped + 1}
                \/ rows = auditLog.rows /\ dropped = auditLog.dropped + 1
    <3>1. request'[r].chat
      BY <1>1, <2>4
    <3>2. QED
      BY <1>1, <2>2, <2>4, <3>1, AccountsGrow DEF DoorInv
  <2>5. QED
    BY <1>2, <2>1, <2>3, <2>4 DEF LogMoves
<1>7. QED
  BY <1>1, <1>4, <1>5, <1>6 DEF TurnsInv, ServedInv

(* The buckets a caller's own is put behind: one of each other caller that *)
(* is not evicted.                                                         *)
LEMMA PlaceIs ==
  ASSUME Metered, NEW c, Tracked(c)
  PROVE  PlaceOf(c) \in 1 .. Len(buckets) /\ buckets[PlaceOf(c)].caller = c
<1>1. DOMAIN buckets = 1 .. Len(buckets)
  BY DEF Metered
<1>2. QED
  BY <1>1 DEF Tracked, PlaceOf

(* Where the elements of a sequence are when one is removed.               *)
Without(o, s, p) ==
    /\ Len(o) = Len(s) - 1
    /\ \A i \in 1 .. Len(s) - 1 : o[i] = IF i < p THEN s[i] ELSE s[i + 1]

LEMMA Removed ==
  ASSUME NEW S, NEW s \in Seq(S), NEW p \in 1 .. Len(s), NEW o, o = RemoveAt(s, p)
  PROVE  o \in Seq(S) /\ Without(o, s, p)
<1> PICK n \in Nat : n = Len(s)
  OBVIOUS
<1>1. o = SubSeq(s, 1, p - 1) \o SubSeq(s, p + 1, n)
  BY DEF RemoveAt
<1>2. PICK t \in Seq(S) : /\ t = SubSeq(s, 1, p - 1) /\ Len(t) = p - 1
                          /\ \A i \in 1 .. p - 1 : t[i] = s[i]
  <2>1. /\ SubSeq(s, 1, p - 1) \in Seq(S) /\ Len(SubSeq(s, 1, p - 1)) = p - 1
        /\ \A i \in 1 .. p - 1 : SubSeq(s, 1, p - 1)[i] = s[i]
    OBVIOUS
  <2>2. QED
    BY <2>1, Zenon
<1>3. PICK u \in Seq(S) : /\ u = SubSeq(s, p + 1, n) /\ Len(u) = n - p
                          /\ \A i \in 1 .. n - p : u[i] = s[i + p]
  <2>1. /\ SubSeq(s, p + 1, n) \in Seq(S) /\ Len(SubSeq(s, p + 1, n)) = n - p
        /\ \A i \in 1 .. n - p : SubSeq(s, p + 1, n)[i] = s[i + p]
    OBVIOUS
  <2>2. QED
    BY <2>1, Zenon
<1>4. o = t \o u
  BY <1>1, <1>2, <1>3
<1>5. /\ o \in Seq(S) /\ Len(o) = Len(t) + Len(u)
      /\ \A i \in 1 .. Len(t) : o[i] = t[i]
      /\ \A i \in Len(t) + 1 .. Len(t) + Len(u) : o[i] = u[i - Len(t)]
  <2>1. t \o u \in Seq(S) /\ Len(t \o u) = Len(t) + Len(u)
    OBVIOUS
  <2>2. \A i \in 1 .. Len(t) : (t \o u)[i] = t[i]
    OBVIOUS
  <2>3. \A i \in Len(t) + 1 .. Len(t) + Len(u) : (t \o u)[i] = u[i - Len(t)]
    OBVIOUS
  <2>4. QED
    BY <1>4, <2>1, <2>2, <2>3
<1>6. ASSUME NEW i \in 1 .. n - 1
      PROVE  o[i] = IF i < p THEN s[i] ELSE s[i + 1]
  <2>1. CASE i < p
    BY <1>2, <1>5, <2>1
  <2>2. CASE ~(i < p)
    <3>1. PICK k \in 1 .. n - p : k = i - (p - 1) /\ i \in p .. (p - 1) + (n - p) /\ k + p = i + 1
      BY <2>2
    <3>2. Len(t) = p - 1 /\ Len(u) = n - p
      BY <1>2, <1>3
    <3>3. o[i] = u[k]
      BY <1>5, <3>1, <3>2
    <3>4. u[k] = s[k + p]
      BY <1>3, <3>1
    <3>5. QED
      BY <2>2, <3>1, <3>3, <3>4
  <2>3. QED
    BY <2>1, <2>2
<1>7. Len(o) = n - 1
  <2>1. Len(t) = p - 1 /\ Len(u) = n - p /\ Len(o) = Len(t) + Len(u)
    BY <1>2, <1>3, <1>5
  <2>2. (p - 1) + (n - p) = n - 1
    OBVIOUS
  <2>3. QED
    BY ONLY <2>1, <2>2
<1>8. QED
  BY <1>5, <1>6, <1>7 DEF Without

LEMMA OthersAre ==
  ASSUME Metered, NEW c, NEW o, o = Others(c)
  PROVE  /\ o \in Seq(Buckets)
         /\ \A i \in 1 .. Len(o) : o[i].caller # c /\ \E k \in 1 .. Len(buckets) : o[i] = buckets[k]
         /\ \A i, j \in 1 .. Len(o) : o[i].caller = o[j].caller => i = j
<1> DEFINE n == Len(buckets)
<1>1. n \in Nat /\ buckets \in Seq(Buckets) /\ DOMAIN buckets = 1 .. n
  BY DEF Metered
<1>2. \A i, j \in 1 .. n : buckets[i].caller = buckets[j].caller => i = j
  BY DEF Metered
<1>3. CASE Tracked(c)
  <2>1. PICK p \in 1 .. n : p = PlaceOf(c) /\ buckets[p].caller = c
    BY <1>3, PlaceIs
  <2>2. o = RemoveAt(buckets, p)
    BY <1>3, <2>1 DEF Others
  <2>3. /\ o \in Seq(Buckets) /\ Len(o) = n - 1
        /\ \A i \in 1 .. n - 1 : o[i] = IF i < p THEN buckets[i] ELSE buckets[i + 1]
    <3>1. o \in Seq(Buckets) /\ Without(o, buckets, p)
      BY <1>1, <2>1, <2>2, Removed
    <3>2. QED
      BY <3>1 DEF Without
  <2>4. ASSUME NEW i \in 1 .. Len(o)
        PROVE  \E k \in 1 .. n : o[i] = buckets[k] /\ k # p /\ k = IF i < p THEN i ELSE i + 1
    BY <1>1, <2>1, <2>3
  <2>5. \A i \in 1 .. Len(o) : o[i].caller # c
    BY <1>2, <2>1, <2>4
  <2>6. ASSUME NEW i \in 1 .. Len(o), NEW j \in 1 .. Len(o), o[i].caller = o[j].caller
        PROVE  i = j
    <3>1. PICK k \in 1 .. n : o[i] = buckets[k] /\ k = IF i < p THEN i ELSE i + 1
      BY <2>4
    <3>2. PICK m \in 1 .. n : o[j] = buckets[m] /\ m = IF j < p THEN j ELSE j + 1
      BY <2>4
    <3>3. k = m
      BY <1>2, <2>6, <3>1, <3>2
    <3>4. QED
      BY <2>1, <2>3, <3>1, <3>2, <3>3
  <2>7. QED
    BY <2>3, <2>4, <2>5, <2>6
<1>4. CASE ~Tracked(c) /\ Len(buckets) >= MaxTracked
  <2>1. o = Tail(buckets) /\ n > 0
    BY <1>4, FrontDoorBounds DEF Others, Evicted
  <2>2. o \in Seq(Buckets) /\ Len(o) = n - 1 /\ \A i \in 1 .. Len(o) : o[i] = buckets[i + 1]
    BY <1>1, <2>1
  <2>3. \A i \in 1 .. Len(o) : i + 1 \in 1 .. n
    BY <1>1, <2>2
  <2>4. \A k \in 1 .. n : buckets[k].caller # c
    BY <1>1, <1>4 DEF Tracked
  <2>5. \A i \in 1 .. Len(o) : o[i].caller # c /\ \E k \in 1 .. Len(buckets) : o[i] = buckets[k]
    BY <2>2, <2>3, <2>4
  <2>6. ASSUME NEW i \in 1 .. Len(o), NEW j \in 1 .. Len(o), o[i].caller = o[j].caller
        PROVE  i = j
    <3>1. i + 1 = j + 1
      BY <1>2, <2>2, <2>3, <2>6
    <3>2. QED
      BY <3>1
  <2>7. QED
    BY <2>2, <2>5, <2>6
<1>5. CASE ~Tracked(c) /\ ~(Len(buckets) >= MaxTracked)
  <2>1. o = buckets
    BY <1>5 DEF Others, Evicted
  <2>2. \A k \in 1 .. n : buckets[k].caller # c
    BY <1>1, <1>5 DEF Tracked
  <2>3. QED
    BY <1>1, <1>2, <2>1, <2>2
<1>6. QED
  BY <1>3, <1>4, <1>5

(* The bucket of the caller after its refill, and what it let in so far.   *)
Current(c, stamp) ==
    IF Tracked(c) THEN Refill(BucketOf(c), stamp) ELSE [caller |-> c, tokens |-> Burst, updated |-> stamp]
Granted(c, stamp) ==
    IF Tracked(c) THEN [granted[c] EXCEPT !.late = @ + Lateness(c, stamp)] ELSE NewGrant(stamp)

LEMMA Balance ==
  ASSUME NEW burst \in Nat, NEW let \in Nat, NEW had \in Nat, NEW has \in Nat, NEW elapsed \in Nat,
         NEW late \in Nat, NEW from \in Nat, NEW to \in Nat, NEW made \in Nat, NEW before \in Nat,
         let + had <= burst + (from - made) + before, has <= had + elapsed, to - from = elapsed - late
  PROVE  let + has <= burst + (to - made) + (before + late)
  OBVIOUS

LEMMA RefilledIs ==
  ASSUME Metered, Paid, time \in Nat, NEW c \in Callers, NEW stamp \in Nat, stamp <= time,
         NEW b, NEW g, b = Current(c, stamp), g = Granted(c, stamp)
  PROVE  /\ b \in Buckets /\ g \in Grants /\ b.caller = c /\ b.updated <= time
         /\ g.let + b.tokens <= Burst + (b.updated - g.made) + g.late
<1>1. CASE Tracked(c)
  <2>1. PICK p \in 1 .. Len(buckets) : p = PlaceOf(c) /\ buckets[p].caller = c
    BY <1>1, PlaceIs
  <2>2. PICK old \in Buckets : old = BucketOf(c) /\ old = buckets[p]
    BY <2>1 DEF BucketOf, Metered
  <2>3. old.caller = c /\ old.tokens \in Nat /\ old.updated \in Nat /\ old.updated <= time
    BY <2>1, <2>2 DEF Buckets, Paid
  <2>4. c \in DOMAIN granted
    BY <2>1 DEF Metered
  <2>5. PICK grant \in Grants : grant = granted[c]
    BY <2>4 DEF Metered
  <2>6. /\ grant.made \in Nat /\ grant.let \in Nat /\ grant.late \in Nat
        /\ grant.let + old.tokens <= Burst + (old.updated - grant.made) + grant.late
    BY <2>1, <2>2, <2>5 DEF Grants, Paid
  <2>7. PICK elapsed \in Nat, late \in Nat :
            /\ elapsed = Elapsed(old, stamp) /\ late = Lateness(c, stamp)
            /\ stamp - old.updated = elapsed - late
    <3>1. Elapsed(old, stamp) = IF stamp > old.updated THEN stamp - old.updated ELSE 0
      BY DEF Elapsed
    <3>2. Lateness(c, stamp) = IF old.updated > stamp THEN old.updated - stamp ELSE 0
      BY <2>2 DEF Lateness
    <3>3. QED
      BY <2>3, <3>1, <3>2
  <2>8. PICK tokens \in Nat : tokens = Least(Burst, old.tokens + elapsed) /\ tokens <= old.tokens + elapsed
    BY <2>3, FrontDoorBounds DEF Least
  <2>9. b = [old EXCEPT !.tokens = tokens, !.updated = stamp]
    BY <1>1, <2>2, <2>7, <2>8 DEF Current, Refill
  <2>10. b \in Buckets /\ b.caller = c /\ b.updated = stamp /\ b.tokens = tokens
    BY <2>3, <2>9 DEF Buckets
  <2>11. g = [grant EXCEPT !.late = @ + late]
    BY <1>1, <2>5, <2>7 DEF Granted
  <2>12. g \in Grants /\ g.made = grant.made /\ g.let = grant.let /\ g.late = grant.late + late
    BY <2>11, SMTT(30) DEF Grants
  <2>13. grant.let + tokens <= Burst + (stamp - grant.made) + (grant.late + late)
    <3>1. PICK had \in Nat, from \in Nat, let \in Nat, made \in Nat, before \in Nat :
              /\ had = old.tokens /\ from = old.updated
              /\ let = grant.let /\ made = grant.made /\ before = grant.late
      BY <2>3, <2>6
    <3>2. let + had <= Burst + (from - made) + before /\ tokens <= had + elapsed /\ stamp - from = elapsed - late
      BY <2>6, <2>7, <2>8, <3>1
    <3>3. Burst \in Nat
      BY FrontDoorBounds
    <3>4. let + tokens <= Burst + (stamp - made) + (before + late)
      BY <3>2, <3>3, Balance
    <3>5. QED
      BY <3>1, <3>4
  <2>14. QED
    BY <2>10, <2>12, <2>13
<1>2. CASE ~Tracked(c)
  <2>1. b = [caller |-> c, tokens |-> Burst, updated |-> stamp] /\ g = [made |-> stamp, let |-> 0, late |-> 0]
    BY <1>2 DEF Current, Granted, NewGrant
  <2>2. b \in Buckets /\ b.caller = c /\ b.updated = stamp /\ b.tokens = Burst
    BY <2>1, FrontDoorBounds DEF Buckets
  <2>3. g \in Grants /\ g.made = stamp /\ g.let = 0 /\ g.late = 0
    BY <2>1 DEF Grants
  <2>4. QED
    BY <2>2, <2>3, FrontDoorBounds
<1>3. QED
  BY <1>1, <1>2

(* Letting a request in spends a token; sending it away does not.          *)
Spends(c, b, g) ==
    /\ buckets' = Append(Others(c), b)
    /\ granted' = [k \in {o.caller : o \in ToSet(buckets')} |-> IF k # c THEN granted[k] ELSE g]
    /\ b.caller = c /\ b.updated <= time
    /\ g.let + b.tokens <= Burst + (b.updated - g.made) + g.late

LEMMA SpentIs ==
  ASSUME Metered, Paid, time \in Nat, NEW c \in Callers, NEW stamp \in Nat, stamp <= time,
         NEW allowed \in BOOLEAN, Allow(c, stamp, allowed)
  PROVE  \E b \in Buckets, g \in Grants : Spends(c, b, g)
<1>1. PICK b, g : b = Current(c, stamp) /\ g = Granted(c, stamp)
  OBVIOUS
<1>2. /\ b \in Buckets /\ g \in Grants /\ b.caller = c /\ b.updated <= time
      /\ g.let + b.tokens <= Burst + (b.updated - g.made) + g.late
  BY <1>1, RefilledIs
<1>3. /\ allowed = (b.tokens >= 1)
      /\ buckets' = Append(Others(c), IF allowed THEN [b EXCEPT !.tokens = @ - 1] ELSE b)
      /\ granted' = [k \in {o.caller : o \in ToSet(buckets')} |->
             IF k # c THEN granted[k] ELSE IF allowed THEN [g EXCEPT !.let = @ + 1] ELSE g]
  BY <1>1 DEF Allow, Current, Granted
<1>4. CASE allowed
  <2>1. PICK b1, g1 : b1 = [b EXCEPT !.tokens = @ - 1] /\ g1 = [g EXCEPT !.let = @ + 1]
    OBVIOUS
  <2>2. b1 \in Buckets /\ b1.caller = c /\ b1.updated = b.updated /\ b1.tokens = b.tokens - 1
    <3>1. b.tokens >= 1
      BY <1>3, <1>4
    <3>2. b \in [caller : Callers, tokens : Nat, updated : Nat] /\ b.tokens - 1 \in Nat
      BY <1>2, <3>1 DEF Buckets
    <3>3. QED
      BY <1>2, <2>1, <3>2 DEF Buckets
  <2>3. g1 \in Grants /\ g1.made = g.made /\ g1.let = g.let + 1 /\ g1.late = g.late
    BY <1>2, <2>1 DEF Grants
  <2>4. b.tokens \in Nat /\ b.updated \in Nat /\ g.let \in Nat /\ g.made \in Nat /\ g.late \in Nat
    BY <1>2 DEF Buckets, Grants
  <2>5. g1.let + b1.tokens <= Burst + (b1.updated - g1.made) + g1.late
    BY <1>2, <2>2, <2>3, <2>4
  <2>6. /\ buckets' = Append(Others(c), b1)
        /\ granted' = [k \in {o.caller : o \in ToSet(buckets')} |-> IF k # c THEN granted[k] ELSE g1]
    BY <1>3, <1>4, <2>1
  <2>7. QED
    BY <1>2, <2>2, <2>3, <2>5, <2>6 DEF Spends
<1>5. CASE ~allowed
  BY <1>2, <1>3, <1>5 DEF Spends
<1>6. QED
  BY <1>4, <1>5

LEMMA AllowKeeps ==
  ASSUME Metered, Paid, time \in Nat, NEW c \in Callers, NEW stamp \in Nat, stamp <= time,
         NEW allowed \in BOOLEAN, Allow(c, stamp, allowed), time' = time
  PROVE  Metered' /\ Paid'
<1>1. PICK b \in Buckets, g \in Grants :
            /\ buckets' = Append(Others(c), b)
            /\ granted' = [k \in {o.caller : o \in ToSet(buckets')} |-> IF k # c THEN granted[k] ELSE g]
            /\ b.caller = c /\ b.updated <= time
            /\ g.let + b.tokens <= Burst + (b.updated - g.made) + g.late
  <2>1. PICK b \in Buckets, g \in Grants : Spends(c, b, g)
    BY SpentIs
  <2>2. QED
    BY <2>1 DEF Spends
<1>2. PICK o : o = Others(c)
  OBVIOUS
<1>3. /\ o \in Seq(Buckets)
      /\ \A i \in 1 .. Len(o) : o[i].caller # c /\ \E k \in 1 .. Len(buckets) : o[i] = buckets[k]
      /\ \A i, j \in 1 .. Len(o) : o[i].caller = o[j].caller => i = j
  BY <1>2, OthersAre
<1>4. PICK s \in Seq(Buckets) : s = buckets' /\ s = Append(o, b)
  <2>1. Append(o, b) \in Seq(Buckets)
    BY <1>3
  <2>2. buckets' = Append(o, b)
    BY <1>1, <1>2
  <2>3. QED
    BY <2>1, <2>2
<1>5. /\ Len(s) = Len(o) + 1 /\ Len(o) \in Nat /\ DOMAIN s = 1 .. Len(s)
      /\ s[Len(o) + 1] = b /\ \A i \in 1 .. Len(o) : s[i] = o[i]
  BY <1>3, <1>4
<1>6. \A i \in 1 .. Len(s) : i \in 1 .. Len(o) \/ i = Len(o) + 1
  BY <1>5
<1>7. \A i, j \in 1 .. Len(s) : s[i].caller = s[j].caller => i = j
  BY <1>1, <1>3, <1>5, <1>6
<1>8. {x.caller : x \in ToSet(s)} = {s[i].caller : i \in 1 .. Len(s)}
  BY <1>5 DEF ToSet
<1>9. granted' = [k \in {s[i].caller : i \in 1 .. Len(s)} |-> IF k # c THEN granted[k] ELSE g]
  BY <1>1, <1>4, <1>8
<1>10. DOMAIN granted' = {s[i].caller : i \in 1 .. Len(s)} /\ granted'[c] = g
  <2>1. Len(s) \in 1 .. Len(s) /\ s[Len(s)].caller = c
    BY <1>1, <1>5
  <2>2. c \in {s[i].caller : i \in 1 .. Len(s)}
    BY <2>1
  <2>3. QED
    BY <1>9, <2>2
<1>11. ASSUME NEW i \in 1 .. Len(o)
       PROVE  /\ s[i].caller \in DOMAIN granted /\ granted'[s[i].caller] = granted[s[i].caller]
              /\ \E k \in 1 .. Len(buckets) : s[i] = buckets[k]
  <2>1. PICK k \in 1 .. Len(buckets) : s[i] = buckets[k]
    BY <1>3, <1>5
  <2>2. s[i].caller \in DOMAIN granted
    BY <2>1 DEF Metered
  <2>3. s[i].caller # c
    BY <1>3, <1>5
  <2>4. i \in 1 .. Len(s)
    BY <1>5
  <2>5. QED
    BY <1>9, <2>1, <2>2, <2>3, <2>4
<1>12. Metered'
  <2>1. \A i \in 1 .. Len(s) : granted'[s[i].caller] \in Grants
    BY <1>1, <1>5, <1>6, <1>10, <1>11 DEF Metered
  <2>2. \A k \in DOMAIN granted' : granted'[k] \in Grants
    BY <1>10, <2>1
  <2>3. QED
    BY <1>4, <1>7, <1>10, <2>2 DEF Metered
<1>13. Paid'
  <2>1. ASSUME NEW i \in 1 .. Len(s)
        PROVE  /\ s[i].updated <= time
               /\ granted'[s[i].caller].let + s[i].tokens
                    <= Burst + (s[i].updated - granted'[s[i].caller].made) + granted'[s[i].caller].late
    <3>1. CASE i = Len(o) + 1
      BY <1>1, <1>5, <1>10, <3>1
    <3>2. CASE i \in 1 .. Len(o)
      <4>1. PICK k \in 1 .. Len(buckets) : s[i] = buckets[k] /\ granted'[s[i].caller] = granted[buckets[k].caller]
        BY <1>11, <3>2
      <4>2. QED
        BY <4>1 DEF Paid
    <3>3. QED
      BY <1>6, <3>1, <3>2
  <2>2. QED
    BY <1>4, <2>1 DEF Paid
<1>14. QED
  BY <1>12, <1>13

(* The limiter moves with the request it meters, and with no other step.   *)
LEMMA MeterKept ==
  ASSUME DoorInv, NEW r \in Arrivals, RequestStep(r)
  PROVE  MeterInv'
<1>1. StampsPast' /\ UNCHANGED <<server, time>>
  BY TurnsKept, StepIs DEF DoorInv, ServedInv, TurnsInv
<1>2. Metered /\ Paid /\ time \in Nat
  BY DEF DoorInv, MeterInv, DoorTyped
<1>3. CASE UNCHANGED meter
  <2>1. buckets' = buckets /\ granted' = granted /\ time' = time
    BY <1>1, <1>3 DEF meter
  <2>2. Metered' /\ Paid'
    BY <1>2, <2>1 DEF Metered, Paid
  <2>3. QED
    BY <1>1, <2>2 DEF MeterInv
<1>4. CASE PassLimiter(r)
  <2>1. PICK c \in Callers, stamp \in Nat : c = request[r].caller /\ stamp = request[r].stamp /\ stamp <= time
    <3>1. request[r] \in Visits /\ request[r].at = "limiter"
      BY <1>4 DEF PassLimiter, DoorInv, DoorTyped
    <3>2. request[r].caller \in Callers /\ request[r].stamp \in Nat /\ request[r].stamp <= time
      BY <3>1, VisitIs DEF DoorInv, MeterInv, StampsPast
    <3>3. QED
      BY <3>2
  <2>2. PICK allowed \in BOOLEAN : Allow(c, stamp, allowed)
    BY <1>4, <2>1 DEF PassLimiter
  <2>3. Metered' /\ Paid'
    BY <1>1, <1>2, <2>1, <2>2, AllowKeeps
  <2>4. QED
    BY <1>1, <2>3 DEF MeterInv
<1>5. QED
  <2>1. Arrive(r) \/ Handle(r) => UNCHANGED meter
    BY DEF Arrive, Handle
  <2>2. LoginChecks(r) \/ LoginVerdict(r) => UNCHANGED meter
    BY DEF LoginChecks, LoginVerdict
  <2>3. AuditReads(r) \/ AuditOpens(r) \/ AuditPinged(r) => UNCHANGED meter
    BY DEF AuditFrame, AuditReads, AuditOpens, AuditPinged
  <2>4. AuditLooksAgain(r) => UNCHANGED meter
    BY DEF AuditFrame, AuditLooksAgain
  <2>5. AuditInserts(r) => UNCHANGED meter
    BY DEF AuditFrame, AuditInserts
  <2>6. QED
    BY <1>3, <1>4, <2>1, <2>2, <2>3, <2>4, <2>5 DEF RequestStep

LEMMA LogoutKeeps ==
  ASSUME DoorInv, NEW s \in sessions, Logout(s)
  PROVE  DoorInv'
<1>1. /\ sessions' = sessions \ {s} /\ ended' = ended \cup {s.token}
      /\ server' = server /\ time' = time /\ request' = request /\ auditLog' = auditLog
      /\ buckets' = buckets /\ granted' = granted
  BY DEF Logout, meter
<1>2. s.token \in Arrivals /\ request[s.token].at = "answered"
  BY DEF DoorInv, ServedInv, SessionsFresh
<1>3. SessionsFresh'
  BY <1>1, <1>2 DEF DoorInv, ServedInv, SessionsFresh
<1>4. ServedAsProven'
  BY <1>1 DEF DoorInv, ServedInv, ServedAsProven
<1>5. DoorTyped' /\ MeterInv'
  BY <1>1 DEF DoorInv, DoorTyped, MeterInv, Metered, Paid, StampsPast
<1>6. TurnsInv'
  BY <1>1 DEF DoorInv, TurnsInv, OnTheirWay, TurnsAccounted, Audited
<1>7. QED
  BY <1>3, <1>4, <1>5, <1>6 DEF DoorInv, ServedInv

LEMMA ElsewhereKeeps ==
  ASSUME DoorInv, TimePasses \/ DatabaseFlips \/ UNCHANGED doorVars
  PROVE  DoorInv'
<1>1. /\ server' = server /\ request' = request /\ auditLog' = auditLog
      /\ sessions' = sessions /\ ended' = ended /\ buckets' = buckets /\ granted' = granted
  BY DEF TimePasses, DatabaseFlips, doorVars, meter, signIns
<1>2. time \in Nat /\ time' \in {time, time + 1}
  BY DEF TimePasses, DatabaseFlips, doorVars, DoorInv, DoorTyped
<1>3. DoorTyped'
  BY <1>1, <1>2 DEF DoorInv, DoorTyped
<1>4. ServedInv'
  BY <1>1 DEF DoorInv, ServedInv, SessionsFresh, ServedAsProven
<1>5. TurnsInv'
  BY <1>1 DEF DoorInv, TurnsInv, OnTheirWay, TurnsAccounted, Audited
<1>6. Metered'
  BY <1>1 DEF DoorInv, MeterInv, Metered
<1>7. Paid'
  <2>1. \A i \in 1 .. Len(buckets) : buckets[i] \in Buckets
    BY DEF DoorInv, MeterInv, Metered
  <2>2. \A i \in 1 .. Len(buckets) : buckets[i].updated <= time => buckets[i].updated <= time'
    BY <1>2, <2>1 DEF Buckets
  <2>3. QED
    BY <1>1, <2>2 DEF DoorInv, MeterInv, Paid
<1>8. StampsPast'
  <2>1. \A r \in Arrivals : request[r].at = "limiter" => request[r].stamp \in Nat
    BY VisitIs DEF DoorInv, DoorTyped
  <2>2. \A r \in Arrivals : request[r].at = "limiter" => request[r].stamp <= time'
    BY <1>2, <2>1 DEF DoorInv, MeterInv, StampsPast
  <2>3. QED
    BY <1>1, <2>2 DEF StampsPast
<1>9. QED
  BY <1>3, <1>4, <1>5, <1>6, <1>7, <1>8 DEF DoorInv, MeterInv

LEMMA DoorOpens == DoorInit => DoorInv
<1> SUFFICES ASSUME DoorInit PROVE DoorInv
  OBVIOUS
<1>1. /\ server \in Servers /\ time = 0 /\ buckets = << >> /\ granted = [c \in {} |-> 0]
      /\ request = [r \in Arrivals |-> New] /\ sessions = {} /\ ended = {} /\ reachable \in BOOLEAN
  BY DEF DoorInit
<1>2. New \in Visits /\ New.at = "new"
  BY DEF New, Visits
<1>3. \A r \in Arrivals : request[r].at = "new"
  BY <1>1, <1>2
<1>4. PICK log \in Logs : log = auditLog /\ log.rows = {} /\ log.dropped = 0
  <2>1. PICK log : log = [state |-> IF reachable THEN "ready" ELSE "unavailable", lastAttempt |-> 0, rows |-> {}, dropped |-> 0]
    OBVIOUS
  <2>2. log \in Logs /\ log.rows = {} /\ log.dropped = 0
    BY <2>1 DEF Logs
  <2>3. auditLog = log
    BY <2>1 DEF DoorInit
  <2>4. QED
    BY <2>2, <2>3
<1>5. DoorTyped
  BY <1>1, <1>2, <1>4 DEF DoorTyped, Logs
<1>6. MeterInv
  <2>1. buckets \in Seq(Buckets) /\ Len(buckets) = 0 /\ DOMAIN granted = {}
    BY <1>1
  <2>2. Metered
    BY <2>1 DEF Metered
  <2>3. Paid
    BY <2>1 DEF Paid
  <2>4. StampsPast
    BY <1>3 DEF StampsPast
  <2>5. QED
    BY <2>2, <2>3, <2>4 DEF MeterInv
<1>7. ServedInv
  BY <1>1, <1>3 DEF ServedInv, SessionsFresh, ServedAsProven
<1>8. TurnsInv
  <2>1. Audited = {}
    BY <1>3 DEF Audited
  <2>2. Audited \ auditLog.rows = {}
    BY <2>1
  <2>3. TurnsAccounted
    BY <1>4, <2>1, <2>2, FS_EmptySet DEF TurnsAccounted
  <2>4. QED
    BY <1>3, <2>1, <2>3, FS_EmptySet DEF TurnsInv, OnTheirWay, AuditSteps
<1>9. QED
  BY <1>5, <1>6, <1>7, <1>8 DEF DoorInv

LEMMA DoorAlwaysInv == DoorSpec => []DoorInv
<1>1. DoorInv /\ [DoorNext]_doorVars => DoorInv'
  <2> SUFFICES ASSUME DoorInv, [DoorNext]_doorVars PROVE DoorInv'
    OBVIOUS
  <2>1. ASSUME NEW r \in Arrivals, RequestStep(r)
        PROVE  DoorInv'
    BY <2>1, TurnsKept, MeterKept DEF DoorInv
  <2>2. ASSUME NEW s \in sessions, Logout(s)
        PROVE  DoorInv'
    BY <2>2, LogoutKeeps
  <2>3. CASE TimePasses \/ DatabaseFlips \/ UNCHANGED doorVars
    BY <2>3, ElsewhereKeeps
  <2>4. QED
    BY <2>1, <2>2, <2>3 DEF DoorNext, RequestStep
<1>2. QED
  BY <1>1, DoorOpens, PTL DEF DoorSpec

(* As long as the limiter remembers a caller it lets in no more than a     *)
(* burst and what the time refilled, and a handler runs for the role the   *)
(* request proved (ratelimit.go Allow, auth.go Identify, router.go authed).*)
THEOREM DoorAlwaysProper == DoorSpec => []LetInProperly
<1>1. DoorInv => LetInProperly
  <2> SUFFICES ASSUME DoorInv PROVE LetInProperly
    OBVIOUS
  <2>1. ServedAsProven
    BY DEF DoorInv, ServedInv
  <2>2. ASSUME NEW c \in DOMAIN granted
        PROVE  granted[c].let <= Burst + (time - granted[c].made) + granted[c].late
    <3>1. PICK i \in 1 .. Len(buckets) : buckets[i].caller = c
      BY DEF DoorInv, MeterInv, Metered
    <3>2. PICK tokens \in Nat, updated \in Nat, made \in Nat, let \in Nat, late \in Nat :
              /\ tokens = buckets[i].tokens /\ updated = buckets[i].updated
              /\ made = granted[c].made /\ let = granted[c].let /\ late = granted[c].late
      <4>1. buckets[i] \in Buckets /\ granted[c] \in Grants
        BY DEF DoorInv, MeterInv, Metered
      <4>2. QED
        BY <4>1 DEF Buckets, Grants
    <3>3. updated <= time /\ let + tokens <= Burst + (updated - made) + late
      BY <3>1, <3>2 DEF DoorInv, MeterInv, Paid
    <3>4. /\ Burst \in Nat /\ time \in Nat /\ tokens \in Nat /\ updated \in Nat
          /\ made \in Nat /\ let \in Nat /\ late \in Nat
      BY FrontDoorBounds DEF DoorInv, DoorTyped
    <3>5. let <= Burst + (time - made) + late
      BY ONLY <3>3, <3>4
    <3>6. QED
      BY <3>2, <3>5
  <2>3. QED
    BY <2>1, <2>2 DEF LetInProperly, RateIsKept
<1>2. QED
  BY <1>1, DoorAlwaysInv, PTL

(* Every answered chat turn is a row of the audit or counted as not        *)
(* recorded (audit.go Write, with its lazy opening).                       *)
THEOREM TurnsAlwaysAccounted == DoorSpec => []TurnsAccounted
<1>1. DoorInv => TurnsAccounted
  BY DEF DoorInv, TurnsInv
<1>2. QED
  BY <1>1, DoorAlwaysInv, PTL

(***************************************************************************)
(* The event stream of a session: EventStream!DeliveredInOrder and         *)
(* NoLostWakeup, for any number of requests, of requests at the same time  *)
(* and of events.                                                          *)
(***************************************************************************)
EventType == [turn : Nat, n : Nat]

StreamTypeOK ==
  /\ queue \in Seq(EventType)
  /\ notify \in BOOLEAN
  /\ handler \in [Requests -> {"off", "stream", "await", "done"}]
  /\ turn \in [Requests -> {"off", "running", "closed"}]
  /\ ctx \in [Requests -> BOOLEAN]
  /\ gone \in [Requests -> BOOLEAN]
  /\ stream \in [Requests -> {"off", "read", "send", "wait", "closed"}]
  /\ hand \in [Requests -> EventType]
  /\ emitted \in [Requests -> Nat]
  /\ seen \in [Requests -> Seq(EventType)]
  /\ overlaps \in BOOLEAN

(* How handler, turn and stream of one request go together: nothing runs   *)
(* before the handler, the handler leaves no stream behind and returns     *)
(* after its turn, and only a client that went away or a stream that ended *)
(* cancels the context.                                                    *)
ControlAt(h) ==
  /\ handler[h] = "off" =>
       turn[h] = "off" /\ stream[h] = "off" /\ emitted[h] = 0 /\ seen[h] = <<>>
  /\ handler[h] # "off" => turn[h] # "off" /\ stream[h] # "off"
  /\ handler[h] \in {"await", "done"} => stream[h] = "closed"
  /\ handler[h] = "done" => turn[h] = "closed"
  /\ ctx[h] => gone[h] \/ stream[h] = "closed"

OneOpen == ~overlaps => \A g, h \in Open : g = h

StreamControl == OneOpen /\ \A h \in Requests : ControlAt(h)

(* Each event is in one place: in the queue, in the hand of a stream that  *)
(* sends it, or with a client.                                             *)
WasEmitted(e) == e.turn \in Requests /\ e.n <= emitted[e.turn]

OnceInv ==
  /\ \A i \in DOMAIN queue : WasEmitted(queue[i])
  /\ \A i, j \in DOMAIN queue : queue[i] = queue[j] /\ queue[i].n # 0 => i = j
  /\ \A h \in Requests : stream[h] = "send" =>
       /\ WasEmitted(hand[h]) /\ hand[h].n # 0
       /\ \A i \in DOMAIN queue : queue[i] # hand[h]
       /\ \A g \in Requests : stream[g] = "send" /\ hand[g] = hand[h] => g = h
  /\ \A h \in Requests : \A i \in DOMAIN seen[h] :
       /\ WasEmitted(seen[h][i]) /\ seen[h][i].n # 0
       /\ \A j \in DOMAIN queue : queue[j] # seen[h][i]
       /\ \A g \in Requests : stream[g] = "send" => hand[g] # seen[h][i]
  /\ \A g, h \in Requests : \A i \in DOMAIN seen[g], j \in DOMAIN seen[h] :
       seen[g][i] = seen[h][j] => g = h /\ i = j

(* The events of the one open request are in order from the client over    *)
(* the stream's hand to the queue, and the sentinel is behind them.        *)
Active(h) == stream[h] \in {"read", "send", "wait"}
Taken(h) == Len(seen[h]) + (IF stream[h] = "send" THEN 1 ELSE 0)
QueueFrom(h, k) ==
  /\ k <= emitted[h]
  /\ Len(queue) = emitted[h] - k + (IF turn[h] = "closed" THEN 1 ELSE 0)
  /\ \A i \in 1 .. Len(queue) :
       queue[i] = IF i <= emitted[h] - k THEN Event(h, k + i) ELSE Done(h)

OrderAt(h) ==
  /\ \A i \in DOMAIN seen[h] : seen[h][i] = Event(h, i)
  /\ stream[h] = "send" => hand[h] = Event(h, Len(seen[h]) + 1)
  /\ Active(h) => QueueFrom(h, Taken(h))
  /\ stream[h] = "closed" /\ ~gone[h] =>
       turn[h] = "closed" /\ Len(seen[h]) = emitted[h]

OrderInv == ~overlaps => \A h \in Requests : OrderAt(h)

-----------------------------------------------------------------------------
LEMMA EventTyped ==
  ASSUME NEW h \in Requests, NEW n \in Nat
  PROVE  /\ Event(h, n) \in EventType /\ Event(h, n).turn = h /\ Event(h, n).n = n
         /\ Done(h) \in EventType /\ Done(h).n = 0 /\ Nothing \in EventType
<1>1. h \in Nat
  BY StreamAssumption DEF Requests
<1> QED BY <1>1 DEF Event, Done, Nothing, EventType

LEMMA SameEvent ==
  \A g, h, m, n : Event(g, m) = Event(h, n) => g = h /\ m = n
BY DEF Event

(* A queue after a push and after its head is taken.                       *)
LEMMA Pushed ==
  ASSUME NEW S, NEW q \in Seq(S), NEW e \in S
  PROVE  /\ Append(q, e) \in Seq(S) /\ Append(q, e) # <<>>
         /\ Len(Append(q, e)) = Len(q) + 1 /\ Len(q) \in Nat
         /\ DOMAIN q = 1 .. Len(q) /\ DOMAIN Append(q, e) = 1 .. Len(q) + 1
         /\ \A i \in 1 .. Len(q) : Append(q, e)[i] = q[i]
         /\ Append(q, e)[Len(q) + 1] = e
<1>1. Append(q, e) # <<>>
  <2>1. Len(Append(q, e)) # Len(<<>>)
    OBVIOUS
  <2> QED BY <2>1
<1> QED BY <1>1

LEMMA TookHead ==
  ASSUME NEW S, NEW q \in Seq(S), q # <<>>
  PROVE  /\ Head(q) \in S /\ Head(q) = q[1] /\ 1 \in DOMAIN q
         /\ Tail(q) \in Seq(S) /\ Len(Tail(q)) = Len(q) - 1
         /\ Len(q) \in Nat \ {0} /\ DOMAIN q = 1 .. Len(q)
         /\ DOMAIN Tail(q) = 1 .. Len(q) - 1
         /\ \A i \in 1 .. Len(q) - 1 : Tail(q)[i] = q[i + 1] /\ i + 1 \in DOMAIN q
<1>1. Len(q) \in Nat /\ Len(q) # 0
  OBVIOUS
<1>2. Tail(q) \in Seq(S) /\ Len(Tail(q)) = Len(q) - 1
  OBVIOUS
<1>3. \A i \in 1 .. Len(q) - 1 : Tail(q)[i] = q[i + 1]
  OBVIOUS
<1> QED BY <1>1, <1>2, <1>3

LEMMA EmitChanges ==
  ASSUME NEW h \in Requests, Emit(h)
  PROVE  /\ turn[h] = "running"
         /\ emitted' = [emitted EXCEPT ![h] = @ + 1]
         /\ queue' = Append(queue, Event(h, emitted[h] + 1)) /\ notify' = TRUE
         /\ UNCHANGED <<requestVars, stream, hand, seen, overlaps>>
BY DEF Emit, Push

LEMMA StreamTypeStep == StreamTypeOK /\ [Next]_vars => StreamTypeOK'
<1> SUFFICES ASSUME StreamTypeOK, [Next]_vars
             PROVE  StreamTypeOK'
  OBVIOUS
<1> USE DEF requestVars
<1>1. CASE UNCHANGED vars
  BY <1>1 DEF StreamTypeOK, vars
<1>2. ASSUME NEW h \in Requests, Request(h)
      PROVE  StreamTypeOK'
  BY <1>2 DEF StreamTypeOK, Request, Prepared
<1>3. ASSUME NEW h \in Requests, Emit(h)
      PROVE  StreamTypeOK'
  <2>1. Event(h, emitted[h] + 1) \in EventType
    BY EventTyped DEF StreamTypeOK
  <2>2. /\ emitted' = [emitted EXCEPT ![h] = @ + 1]
        /\ queue' = Append(queue, Event(h, emitted[h] + 1)) /\ notify' = TRUE
        /\ UNCHANGED <<requestVars, stream, hand, seen, overlaps>>
    BY <1>3, EmitChanges
  <2>3. queue' \in Seq(EventType)
    BY <2>1, <2>2 DEF StreamTypeOK
  <2>4. emitted' \in [Requests -> Nat]
    BY <2>2 DEF StreamTypeOK
  <2> QED BY <2>2, <2>3, <2>4 DEF StreamTypeOK
<1>4. ASSUME NEW h \in Requests, Close(h)
      PROVE  StreamTypeOK'
  BY <1>4, EventTyped DEF StreamTypeOK, Close, Finish, Push
<1>5. ASSUME NEW h \in Requests, Take(h)
      PROVE  StreamTypeOK'
  <2>1. queue \in Seq(EventType) /\ queue # <<>>
    BY <1>5 DEF StreamTypeOK, Take
  <2>2. Head(queue) \in EventType /\ Tail(queue) \in Seq(EventType)
    BY <2>1, TookHead
  <2> QED BY <1>5, <2>2 DEF StreamTypeOK, Take, Rest
<1>6. ASSUME NEW h \in Requests, Forward(h)
      PROVE  StreamTypeOK'
  <2>1. seen' \in [Requests -> Seq(EventType)]
    BY <1>6 DEF StreamTypeOK, Forward
  <2>2. hand' \in [Requests -> EventType]
    BY <1>6, EventTyped DEF StreamTypeOK, Forward
  <2> QED BY <1>6, <2>1, <2>2 DEF StreamTypeOK, Forward
<1>7. ASSUME NEW h \in Requests,
             FindEmpty(h) \/ Wake(h) \/ Heartbeat(h) \/ ClientGone(h) \/ CancelTurn(h) \/ Return(h)
      PROVE  StreamTypeOK'
  BY <1>7 DEF StreamTypeOK, FindEmpty, Wake, Heartbeat, ClientGone, CancelTurn, Return
<1>8. ASSUME NEW h \in Requests, StreamStops(h)
      PROVE  StreamTypeOK'
  BY <1>8, EventTyped DEF StreamTypeOK, StreamStops
<1> QED BY <1>1, <1>2, <1>3, <1>4, <1>5, <1>6, <1>7, <1>8 DEF Next, StreamStep

(***************************************************************************)
(* Control.                                                                *)
(***************************************************************************)
LEMMA ControlKept ==
  ASSUME NEW h \in Requests, ControlAt(h),
         handler'[h] = handler[h], turn'[h] = turn[h], ctx'[h] = ctx[h],
         gone'[h] = gone[h], stream'[h] = stream[h],
         emitted'[h] = emitted[h], seen'[h] = seen[h]
  PROVE  ControlAt(h)'
BY DEF ControlAt

LEMMA ControlOwn ==
  ASSUME StreamTypeOK, NEW h \in Requests, ControlAt(h),
         \/ Request(h) \/ Emit(h) \/ Close(h) \/ StreamStep(h)
         \/ ClientGone(h) \/ CancelTurn(h) \/ Return(h)
  PROVE  ControlAt(h)'
<1> USE DEF requestVars
<1>1. CASE Request(h)
  BY <1>1 DEF ControlAt, StreamTypeOK, Request
<1>2. CASE Emit(h)
  BY <1>2, EmitChanges DEF ControlAt, StreamTypeOK
<1>3. CASE Close(h)
  BY <1>3 DEF ControlAt, StreamTypeOK, Close
<1>4. CASE Take(h)
  BY <1>4 DEF ControlAt, StreamTypeOK, Take
<1>5. CASE FindEmpty(h) \/ Wake(h) \/ Heartbeat(h)
  BY <1>5 DEF ControlAt, StreamTypeOK, FindEmpty, Wake, Heartbeat
<1>6. CASE Forward(h)
  BY <1>6 DEF ControlAt, StreamTypeOK, Forward
<1>7. CASE StreamStops(h)
  BY <1>7 DEF ControlAt, StreamTypeOK, StreamStops, Stoppable
<1>8. CASE ClientGone(h) \/ CancelTurn(h) \/ Return(h)
  BY <1>8 DEF ControlAt, StreamTypeOK, ClientGone, CancelTurn, Return
<1> QED BY <1>1, <1>2, <1>3, <1>4, <1>5, <1>6, <1>7, <1>8 DEF StreamStep

LEMMA OthersUntouched ==
  ASSUME StreamTypeOK, NEW g \in Requests, NEW h \in Requests, g # h,
         \/ Request(g) \/ Emit(g) \/ Close(g) \/ StreamStep(g)
         \/ ClientGone(g) \/ CancelTurn(g) \/ Return(g)
  PROVE  /\ handler'[h] = handler[h] /\ turn'[h] = turn[h] /\ ctx'[h] = ctx[h]
         /\ gone'[h] = gone[h] /\ stream'[h] = stream[h] /\ hand'[h] = hand[h]
         /\ emitted'[h] = emitted[h] /\ seen'[h] = seen[h]
<1> USE DEF requestVars
<1>1. CASE Request(g)
  BY <1>1 DEF StreamTypeOK, Request
<1>2. CASE Emit(g)
  BY <1>2, EmitChanges, ZenonT(60) DEF StreamTypeOK
<1>3. CASE Close(g)
  BY <1>3 DEF StreamTypeOK, Close
<1>4. CASE Take(g)
  BY <1>4 DEF StreamTypeOK, Take
<1>5. CASE FindEmpty(g) \/ Wake(g) \/ Heartbeat(g)
  BY <1>5 DEF StreamTypeOK, FindEmpty, Wake, Heartbeat
<1>6. CASE Forward(g)
  BY <1>6 DEF StreamTypeOK, Forward
<1>7. CASE StreamStops(g)
  BY <1>7 DEF StreamTypeOK, StreamStops
<1>8. CASE ClientGone(g) \/ CancelTurn(g) \/ Return(g)
  BY <1>8 DEF StreamTypeOK, ClientGone, CancelTurn, Return
<1> QED BY <1>1, <1>2, <1>3, <1>4, <1>5, <1>6, <1>7, <1>8 DEF StreamStep

(* A request is opened by Request alone, which notes an overlap.           *)
LEMMA OpenedByRequest ==
  ASSUME StreamTypeOK, NEW g \in Requests,
         \/ Request(g) \/ Emit(g) \/ Close(g) \/ StreamStep(g)
         \/ ClientGone(g) \/ CancelTurn(g) \/ Return(g)
  PROVE  \/ Open' \subseteq Open /\ overlaps' = overlaps
         \/ Request(g) /\ Open' = Open \cup {g} /\ overlaps' = (overlaps \/ Open # {})
<1> USE DEF requestVars
<1>1. CASE Request(g)
  BY <1>1 DEF StreamTypeOK, Request, Open
<1>2. CASE Emit(g)
  BY <1>2, EmitChanges DEF Open
<1>3. CASE Close(g)
  BY <1>3 DEF Close, Open
<1>4. CASE StreamStep(g)
  BY <1>4 DEF StreamStep, Take, FindEmpty, Wake, Heartbeat, Forward, StreamStops, Open
<1>5. CASE ClientGone(g) \/ CancelTurn(g) \/ Return(g)
  BY <1>5 DEF StreamTypeOK, ClientGone, CancelTurn, Return, Open
<1> QED BY <1>1, <1>2, <1>3, <1>4, <1>5

LEMMA StreamControlStep ==
  StreamTypeOK /\ StreamControl /\ [Next]_vars => StreamControl'
<1> SUFFICES ASSUME StreamTypeOK, StreamControl, [Next]_vars
             PROVE  StreamControl'
  OBVIOUS
<1>1. CASE UNCHANGED vars
  BY <1>1 DEF StreamControl, ControlAt, OneOpen, Open, vars, requestVars
<1>2. ASSUME NEW g \in Requests,
             \/ Request(g) \/ Emit(g) \/ Close(g) \/ StreamStep(g)
             \/ ClientGone(g) \/ CancelTurn(g) \/ Return(g)
      PROVE  StreamControl'
  <2>1. OneOpen'
    BY <1>2, OpenedByRequest DEF StreamControl, OneOpen
  <2>2. ASSUME NEW h \in Requests
        PROVE  ControlAt(h)'
    <3>1. CASE h = g
      BY <1>2, <3>1, ControlOwn DEF StreamControl
    <3>2. CASE h # g
      BY <1>2, <3>2, OthersUntouched, ControlKept DEF StreamControl
    <3> QED BY <3>1, <3>2
  <2> QED BY <2>1, <2>2 DEF StreamControl
<1> QED BY <1>1, <1>2 DEF Next

(***************************************************************************)
(* Delivered once.                                                         *)
(***************************************************************************)
(* Steps that move no event.                                               *)
LEMMA OnceKept ==
  ASSUME OnceInv, queue' \in {queue, <<>>}, emitted' = emitted, seen' = seen,
         \A h \in Requests : stream'[h] = "send" => stream[h] = "send" /\ hand'[h] = hand[h]
  PROVE  OnceInv'
<1>1. CASE queue' = queue
  BY <1>1 DEF OnceInv, WasEmitted
<1>2. CASE queue' = <<>>
  <2>1. DOMAIN queue' = {}
    BY <1>2
  <2> QED BY <2>1 DEF OnceInv, WasEmitted
<1> QED BY <1>1, <1>2

(* A push of an event that is nowhere yet, or of a sentinel.               *)
LEMMA OncePushed ==
  ASSUME StreamTypeOK, StreamTypeOK', OnceInv, NEW e \in EventType,
         queue' = Append(queue, e), stream' = stream, hand' = hand, seen' = seen,
         \A h \in Requests : emitted'[h] >= emitted[h],
         e.turn \in Requests, e.n <= emitted'[e.turn],
         \A x : WasEmitted(x) /\ x.n # 0 => x # e
  PROVE  OnceInv'
<1> DEFINE l == Len(queue)
           W(x) == x.turn \in Requests /\ x.n <= emitted'[x.turn]
<1>1. /\ l \in Nat /\ DOMAIN queue = 1 .. l /\ DOMAIN queue' = 1 .. l + 1
      /\ \A i \in 1 .. l : queue'[i] = queue[i]
      /\ queue'[l + 1] = e
  BY Pushed DEF StreamTypeOK
<1> HIDE DEF l
<1>2. \A x \in EventType : WasEmitted(x) => W(x)
  BY SMTT(30) DEF WasEmitted, StreamTypeOK, EventType
<1>w. W(e)
  OBVIOUS
<1>3. /\ \A i \in DOMAIN queue : queue[i] \in EventType
      /\ \A h \in Requests : hand[h] \in EventType
      /\ \A h \in Requests : \A i \in DOMAIN seen[h] : seen[h][i] \in EventType
  BY DEF StreamTypeOK
<1>4. \A i \in DOMAIN queue' : i \in DOMAIN queue \/ i = l + 1
  BY <1>1
<1> HIDE DEF W
<1>5. \A i \in DOMAIN queue' : W(queue'[i])
  BY <1>1, <1>2, <1>w, <1>3, <1>4 DEF OnceInv
<1>6. ASSUME NEW i \in DOMAIN queue', NEW j \in DOMAIN queue',
             queue'[i] = queue'[j], queue'[i].n # 0
      PROVE  i = j
  BY <1>1, <1>4, <1>6 DEF OnceInv
<1>7. ASSUME NEW h \in Requests, stream'[h] = "send"
      PROVE  /\ W(hand'[h]) /\ hand'[h].n # 0
             /\ \A i \in DOMAIN queue' : queue'[i] # hand'[h]
             /\ \A g \in Requests : stream'[g] = "send" /\ hand'[g] = hand'[h] => g = h
  BY <1>1, <1>2, <1>w, <1>3, <1>4, <1>7 DEF OnceInv
<1>8. ASSUME NEW h \in Requests, NEW i \in DOMAIN seen'[h]
      PROVE  /\ W(seen'[h][i]) /\ seen'[h][i].n # 0
             /\ \A j \in DOMAIN queue' : queue'[j] # seen'[h][i]
             /\ \A g \in Requests : stream'[g] = "send" => hand'[g] # seen'[h][i]
  BY <1>1, <1>2, <1>w, <1>3, <1>4 DEF OnceInv
<1>9. \A g, h \in Requests : \A i \in DOMAIN seen'[g], j \in DOMAIN seen'[h] :
        seen'[g][i] = seen'[h][j] => g = h /\ i = j
  BY DEF OnceInv
<1> QED BY <1>5, <1>6, <1>7, <1>8, <1>9 DEF OnceInv, WasEmitted, W

LEMMA OnceEmit ==
  ASSUME StreamTypeOK, StreamTypeOK', OnceInv, NEW h \in Requests, Emit(h)
  PROVE  OnceInv'
<1> DEFINE e == Event(h, emitted[h] + 1)
<1>1. /\ emitted' = [emitted EXCEPT ![h] = @ + 1]
      /\ queue' = Append(queue, e) /\ stream' = stream /\ hand' = hand /\ seen' = seen
  BY EmitChanges
<1>2. e \in EventType /\ e.turn = h /\ e.n = emitted[h] + 1 /\ emitted[h] \in Nat
  BY EventTyped DEF StreamTypeOK
<1> HIDE DEF e
<1>3. emitted'[h] = emitted[h] + 1 /\ \A g \in Requests : g # h => emitted'[g] = emitted[g]
  BY <1>1 DEF StreamTypeOK
<1>4. \A g \in Requests : emitted[g] \in Nat
  BY DEF StreamTypeOK
<1>5. \A g \in Requests : emitted'[g] >= emitted[g]
  BY <1>3, <1>4
<1>6. ASSUME NEW x, WasEmitted(x), x = e
      PROVE  FALSE
  BY <1>2, <1>6 DEF WasEmitted
<1>7. e.turn \in Requests /\ e.n <= emitted'[e.turn]
  BY <1>2, <1>3
<1> QED BY <1>1, <1>2, <1>5, <1>6, <1>7, OncePushed

LEMMA OnceClose ==
  ASSUME StreamTypeOK, StreamTypeOK', OnceInv, NEW h \in Requests, Close(h)
  PROVE  OnceInv'
<1> DEFINE e == Done(h)
<1>1. /\ emitted' = emitted
      /\ queue' = Append(queue, e) /\ stream' = stream /\ hand' = hand /\ seen' = seen
  BY DEF Close, Finish, Push
<1>2. e \in EventType /\ e.turn = h /\ e.n = 0
  BY EventTyped DEF Done, Event
<1>3. \A g \in Requests : emitted[g] \in Nat
  BY DEF StreamTypeOK
<1>4. \A g \in Requests : emitted'[g] >= emitted[g]
  BY <1>1, <1>3
<1> HIDE DEF e
<1>5. e.turn \in Requests /\ e.n <= emitted'[e.turn]
  BY <1>1, <1>2, <1>3
<1>6. \A x : WasEmitted(x) /\ x.n # 0 => x # e
  BY <1>2
<1> QED BY <1>1, <1>2, <1>4, <1>5, <1>6, OncePushed

LEMMA OnceTake ==
  ASSUME StreamTypeOK, OnceInv, NEW h \in Requests, Take(h)
  PROVE  OnceInv'
<1>1. /\ queue # <<>> /\ queue' = Tail(queue) /\ emitted' = emitted /\ seen' = seen
      /\ stream[h] = "read"
  BY DEF Take, Rest
<1>2. /\ Head(queue) = queue[1] /\ 1 \in DOMAIN queue
      /\ \A i \in DOMAIN queue' : /\ i + 1 \in DOMAIN queue /\ queue'[i] = queue[i + 1]
                                 /\ i + 1 # 1 /\ i \in Nat
  <2>1. queue \in Seq(EventType)
    BY DEF StreamTypeOK
  <2>2. /\ Head(queue) = queue[1] /\ 1 \in DOMAIN queue
        /\ Len(queue) \in Nat \ {0} /\ DOMAIN Tail(queue) = 1 .. Len(queue) - 1
        /\ \A i \in 1 .. Len(queue) - 1 : Tail(queue)[i] = queue[i + 1] /\ i + 1 \in DOMAIN queue
    BY <1>1, <2>1, TookHead
  <2>3. \A i \in 1 .. Len(queue) - 1 : i + 1 # 1 /\ i \in Nat
    BY <2>2
  <2> QED BY <1>1, <2>2, <2>3
<1>3. CASE Ends(Head(queue))
  <2>1. stream' = [stream EXCEPT ![h] = "closed"] /\ hand' = hand
    BY <1>3 DEF Take
  <2>2. \A g \in Requests : stream'[g] = "send" => stream[g] = "send"
    BY <2>1 DEF StreamTypeOK
  <2>3. \A i, j \in Nat : i + 1 = j + 1 => i = j
    OBVIOUS
  <2> QED BY <1>1, <1>2, <2>1, <2>2, <2>3 DEF OnceInv, WasEmitted
<1>4. CASE ~Ends(Head(queue))
  <2>1. stream' = [stream EXCEPT ![h] = "send"] /\ hand' = [hand EXCEPT ![h] = Head(queue)]
    BY <1>4 DEF Take
  <2>2. /\ stream'[h] = "send" /\ hand'[h] = queue[1]
        /\ \A g \in Requests : g # h => stream'[g] = stream[g] /\ hand'[g] = hand[g]
    BY <1>2, <2>1 DEF StreamTypeOK
  <2>3. queue[1].n # 0
    BY <1>2, <1>4 DEF Ends
  <2>4. \A i, j \in Nat : i + 1 = j + 1 => i = j
    OBVIOUS
  <2>5. \A i \in DOMAIN queue' : queue'[i] # queue[1]
    BY <1>2, <2>3 DEF OnceInv
  <2>6. \A g \in Requests : stream'[g] = "send" =>
          /\ WasEmitted(hand'[g]) /\ hand'[g].n # 0
          /\ \A i \in DOMAIN queue' : queue'[i] # hand'[g]
    BY <1>2, <2>2, <2>3, <2>5 DEF OnceInv
  <2>7. \A f, g \in Requests : stream'[f] = "send" /\ stream'[g] = "send" /\ hand'[f] = hand'[g] => f = g
    BY <1>2, <2>2 DEF OnceInv
  <2>8. \A g \in Requests : \A i \in DOMAIN seen[g] :
          /\ \A j \in DOMAIN queue' : queue'[j] # seen[g][i]
          /\ \A f \in Requests : stream'[f] = "send" => hand'[f] # seen[g][i]
    BY <1>2, <2>2 DEF OnceInv
  <2>9. /\ \A i \in DOMAIN queue' : WasEmitted(queue'[i])
        /\ \A i, j \in DOMAIN queue' : queue'[i] = queue'[j] /\ queue'[i].n # 0 => i = j
    BY <1>2, <2>4 DEF OnceInv
  <2> QED BY <1>1, <2>6, <2>7, <2>8, <2>9 DEF OnceInv, WasEmitted
<1> QED BY <1>3, <1>4

LEMMA OnceForward ==
  ASSUME StreamTypeOK, OnceInv, NEW h \in Requests, Forward(h)
  PROVE  OnceInv'
<1> DEFINE l == Len(seen[h])
<1>1. /\ stream[h] = "send" /\ queue' = queue /\ emitted' = emitted
      /\ seen' = [seen EXCEPT ![h] = Append(@, hand[h])]
      /\ hand' = [hand EXCEPT ![h] = Nothing] /\ stream' = [stream EXCEPT ![h] = "read"]
  BY DEF Forward
<1>2. /\ \A g \in Requests : stream'[g] = "send" => g # h /\ stream[g] = "send" /\ hand'[g] = hand[g]
      /\ \A g \in Requests : g # h => seen'[g] = seen[g]
      /\ seen'[h] = Append(seen[h], hand[h])
  BY <1>1 DEF StreamTypeOK
<1>3. /\ l \in Nat /\ DOMAIN seen[h] = 1 .. l /\ DOMAIN seen'[h] = 1 .. l + 1
      /\ \A i \in 1 .. l : seen'[h][i] = seen[h][i]
      /\ seen'[h][l + 1] = hand[h]
  <2>1. seen[h] \in Seq(EventType) /\ hand[h] \in EventType
    BY DEF StreamTypeOK
  <2> QED BY <1>2, <2>1, Pushed
<1> HIDE DEF l
<1>4. \A i \in DOMAIN seen'[h] : i \in DOMAIN seen[h] \/ i = l + 1
  BY <1>3
<1>5. \A g \in Requests : \A i \in DOMAIN seen'[g] :
        \/ i \in DOMAIN seen[g] /\ seen'[g][i] = seen[g][i]
        \/ g = h /\ i = l + 1 /\ seen'[g][i] = hand[h]
  BY <1>2, <1>3, <1>4
<1>6. \A g \in Requests : \A i \in DOMAIN seen'[g] :
        /\ WasEmitted(seen'[g][i]) /\ seen'[g][i].n # 0
        /\ \A j \in DOMAIN queue : queue[j] # seen'[g][i]
        /\ \A f \in Requests : stream'[f] = "send" => hand'[f] # seen'[g][i]
  BY <1>1, <1>2, <1>5 DEF OnceInv
<1>7. \A f, g \in Requests : \A i \in DOMAIN seen'[f], j \in DOMAIN seen'[g] :
        seen'[f][i] = seen'[g][j] => f = g /\ i = j
  BY <1>1, <1>5 DEF OnceInv
<1>8. \A g \in Requests : stream'[g] = "send" =>
        /\ WasEmitted(hand'[g]) /\ hand'[g].n # 0
        /\ \A i \in DOMAIN queue : queue[i] # hand'[g]
        /\ \A f \in Requests : stream'[f] = "send" /\ hand'[f] = hand'[g] => f = g
  BY <1>2 DEF OnceInv
<1>9. /\ \A i \in DOMAIN queue : WasEmitted(queue[i])
      /\ \A i, j \in DOMAIN queue : queue[i] = queue[j] /\ queue[i].n # 0 => i = j
  BY DEF OnceInv
<1> QED BY <1>1, <1>6, <1>7, <1>8, <1>9 DEF OnceInv, WasEmitted

LEMMA OnceStep == StreamTypeOK /\ OnceInv /\ [Next]_vars /\ StreamTypeOK' => OnceInv'
<1> SUFFICES ASSUME StreamTypeOK, OnceInv, [Next]_vars, StreamTypeOK'
             PROVE  OnceInv'
  OBVIOUS
<1> USE DEF requestVars
<1>1. CASE UNCHANGED vars
  BY <1>1, OnceKept DEF vars
<1>2. ASSUME NEW h \in Requests, Request(h)
      PROVE  OnceInv'
  BY <1>2, OnceKept DEF StreamTypeOK, Request, Prepared
<1>3. ASSUME NEW h \in Requests, FindEmpty(h) \/ Wake(h) \/ Heartbeat(h)
      PROVE  OnceInv'
  BY <1>3, OnceKept DEF StreamTypeOK, FindEmpty, Wake, Heartbeat
<1>4. ASSUME NEW h \in Requests, StreamStops(h)
      PROVE  OnceInv'
  BY <1>4, OnceKept DEF StreamTypeOK, StreamStops
<1>5. ASSUME NEW h \in Requests, ClientGone(h) \/ CancelTurn(h) \/ Return(h)
      PROVE  OnceInv'
  BY <1>5, OnceKept DEF StreamTypeOK, ClientGone, CancelTurn, Return
<1> QED BY <1>1, <1>2, <1>3, <1>4, <1>5, OnceEmit, OnceClose, OnceTake, OnceForward
        DEF Next, StreamStep

(***************************************************************************)
(* In order, and no wake-up lost, as long as requests do not overlap.      *)
(***************************************************************************)
LEMMA ActiveIsOpen ==
  ASSUME StreamTypeOK, StreamControl, NEW h \in Requests, Active(h)
  PROVE  handler[h] = "stream" /\ h \in Open
<1>1. ControlAt(h)
  BY DEF StreamControl
<1>2. handler[h] \in {"off", "stream", "await", "done"}
  BY DEF StreamTypeOK
<1> QED BY <1>1, <1>2 DEF ControlAt, Active, Open

LEMMA RunningIsOpen ==
  ASSUME StreamTypeOK, StreamControl, NEW h \in Requests, turn[h] = "running"
  PROVE  h \in Open
<1>1. ControlAt(h)
  BY DEF StreamControl
<1>2. handler[h] \in {"off", "stream", "await", "done"}
  BY DEF StreamTypeOK
<1> QED BY <1>1, <1>2 DEF ControlAt, Open

(* While requests follow one another, no stream but that of the request    *)
(* that takes the step is active.                                          *)
LEMMA OnlyOneActs ==
  ASSUME StreamTypeOK, StreamControl, ~overlaps',
         NEW g \in Requests, NEW h \in Requests, g # h,
         \/ Request(g) \/ Emit(g) \/ Close(g) \/ StreamStep(g)
         \/ ClientGone(g) \/ CancelTurn(g) \/ Return(g)
  PROVE  ~overlaps /\ ~Active(h)
<1>1. ~overlaps
  BY OpenedByRequest DEF StreamTypeOK
<1>2. CASE Request(g)
  <2>1. Open = {}
    BY <1>2 DEF Request, StreamTypeOK
  <2> QED BY <1>1, <2>1, ActiveIsOpen
<1>3. CASE g \in Open
  BY <1>1, <1>3, ActiveIsOpen DEF StreamControl, OneOpen
<1>4. Emit(g) => g \in Open
  BY EmitChanges, RunningIsOpen
<1>5. Close(g) => g \in Open
  BY RunningIsOpen DEF Close
<1>6. StreamStep(g) => g \in Open
  <2>1. StreamStep(g) => Active(g)
    BY DEF StreamStep, Take, FindEmpty, Forward, Wake, Heartbeat, StreamStops, Stoppable, Active
  <2> QED BY <2>1, ActiveIsOpen
<1>7. ClientGone(g) \/ CancelTurn(g) \/ Return(g) => g \in Open
  BY DEF ClientGone, CancelTurn, Return, Open
<1> QED BY <1>2, <1>3, <1>4, <1>5, <1>6, <1>7

LEMMA OrderIdle ==
  ASSUME NEW h \in Requests, OrderAt(h), ~Active(h),
         turn'[h] = turn[h], gone'[h] = gone[h], stream'[h] = stream[h],
         emitted'[h] = emitted[h], seen'[h] = seen[h]
  PROVE  OrderAt(h)'
BY DEF OrderAt, Active

LEMMA SeenTyped ==
  ASSUME StreamTypeOK, NEW h \in Requests
  PROVE  /\ seen[h] \in Seq(EventType) /\ Len(seen[h]) \in Nat
         /\ DOMAIN seen[h] = 1 .. Len(seen[h])
         /\ emitted[h] \in Nat /\ Len(queue) \in Nat /\ queue \in Seq(EventType)
<1>1. seen[h] \in Seq(EventType) /\ queue \in Seq(EventType) /\ emitted[h] \in Nat
  BY DEF StreamTypeOK
<1> QED BY <1>1

LEMMA TakenType ==
  ASSUME StreamTypeOK, NEW h \in Requests
  PROVE  Taken(h) \in Nat
<1>1. Len(seen[h]) \in Nat
  BY SeenTyped
<1>2. CASE stream[h] = "send"
  BY <1>1, <1>2 DEF Taken
<1>3. CASE stream[h] # "send"
  BY <1>1, <1>3 DEF Taken
<1> QED BY <1>2, <1>3

LEMMA OrderRequest ==
  ASSUME StreamTypeOK, StreamControl, NEW h \in Requests, Request(h)
  PROVE  OrderAt(h)'
<1>1. emitted[h] = 0 /\ seen[h] = <<>>
  BY DEF Request, StreamControl, ControlAt
<1>2. /\ emitted' = emitted /\ seen' = seen /\ queue' = <<>>
      /\ turn'[h] = "running" /\ stream'[h] = "read"
  BY DEF Request, Prepared, StreamTypeOK
<1>3. Len(seen'[h]) = 0 /\ DOMAIN seen'[h] = {} /\ Len(queue') = 0 /\ 1 .. Len(queue') = {}
  BY <1>1, <1>2
<1> QED BY <1>1, <1>2, <1>3 DEF OrderAt, Active, QueueFrom, Taken

LEMMA OrderEmit ==
  ASSUME StreamTypeOK, NEW h \in Requests, OrderAt(h), Emit(h)
  PROVE  OrderAt(h)'
<1> DEFINE e == Event(h, emitted[h] + 1)
           k == Taken(h)
           l == Len(queue)
           m == emitted[h]
<1>1. /\ turn[h] = "running" /\ turn' = turn /\ gone' = gone
      /\ emitted' = [emitted EXCEPT ![h] = @ + 1]
      /\ queue' = Append(queue, e) /\ stream' = stream /\ hand' = hand /\ seen' = seen
  BY EmitChanges DEF requestVars
<1>2. emitted'[h] = m + 1 /\ e \in EventType
  BY <1>1, EventTyped DEF StreamTypeOK
<1>3. /\ l \in Nat /\ Len(queue') = l + 1
      /\ \A i \in 1 .. l : queue'[i] = queue[i]
      /\ queue'[l + 1] = Event(h, m + 1)
  BY <1>1, <1>2, Pushed DEF StreamTypeOK
<1>4. k \in Nat /\ m \in Nat /\ Taken(h)' = k
  <2>1. Taken(h)' = Taken(h)
    BY <1>1 DEF Taken
  <2> QED BY <2>1, TakenType, SeenTyped
<1> HIDE DEF k, l, m
<1>5. ASSUME Active(h)
      PROVE  QueueFrom(h, Taken(h))'
  <2>1. k <= m /\ l = m - k
    BY <1>1, <1>4, <1>5 DEF OrderAt, QueueFrom, k, l, m
  <2>2. \A i \in 1 .. l : queue[i] = Event(h, k + i)
    BY <1>4, <1>5, <2>1, SeenTyped DEF OrderAt, QueueFrom, k, l, m
  <2>3. ASSUME NEW i \in 1 .. l + 1
        PROVE  queue'[i] = Event(h, k + i) /\ i <= (m + 1) - k
    <3>1. CASE i = l + 1
      <4>1. k + i = m + 1
        BY <1>3, <1>4, <2>1, <3>1
      <4> QED BY <1>3, <1>4, <2>1, <3>1, <4>1
    <3>2. CASE i \in 1 .. l
      BY <1>3, <1>4, <2>1, <2>2, <3>2
    <3> QED BY <1>3, <3>1, <3>2
  <2>4. k <= m + 1 /\ l + 1 = (m + 1) - k + 0
    BY <1>3, <1>4, <2>1
  <2> QED BY <1>1, <1>2, <1>3, <1>4, <2>3, <2>4 DEF QueueFrom
<1>6. ~(stream[h] = "closed" /\ ~gone[h])
  BY <1>1 DEF OrderAt
<1> QED BY <1>1, <1>5, <1>6 DEF OrderAt, Active

LEMMA OrderClose ==
  ASSUME StreamTypeOK, NEW h \in Requests, OrderAt(h), Close(h)
  PROVE  OrderAt(h)'
<1> DEFINE k == Taken(h)
           l == Len(queue)
           m == emitted[h]
<1>1. /\ turn[h] = "running" /\ turn'[h] = "closed" /\ gone' = gone /\ emitted' = emitted
      /\ queue' = Append(queue, Done(h)) /\ stream' = stream /\ hand' = hand /\ seen' = seen
  BY DEF Close, Finish, Push, StreamTypeOK
<1>2. Done(h) \in EventType
  BY EventTyped
<1>3. /\ l \in Nat /\ Len(queue') = l + 1
      /\ \A i \in 1 .. l : queue'[i] = queue[i]
      /\ queue'[l + 1] = Done(h)
  BY <1>1, <1>2, Pushed DEF StreamTypeOK
<1>4. k \in Nat /\ m \in Nat /\ Taken(h)' = k
  <2>1. Taken(h)' = Taken(h)
    BY <1>1 DEF Taken
  <2> QED BY <2>1, TakenType, SeenTyped
<1> HIDE DEF k, l, m
<1>5. ASSUME Active(h)
      PROVE  QueueFrom(h, Taken(h))'
  <2>1. k <= m /\ l = m - k
    BY <1>1, <1>4, <1>5 DEF OrderAt, QueueFrom, k, l, m
  <2>2. \A i \in 1 .. l : queue[i] = Event(h, k + i)
    BY <1>4, <1>5, <2>1, SeenTyped DEF OrderAt, QueueFrom, k, l, m
  <2>3. ASSUME NEW i \in 1 .. l + 1
        PROVE  queue'[i] = IF i <= m - k THEN Event(h, k + i) ELSE Done(h)
    <3>1. CASE i = l + 1
      BY <1>3, <1>4, <2>1, <3>1
    <3>2. CASE i \in 1 .. l
      BY <1>3, <1>4, <2>1, <2>2, <3>2
    <3> QED BY <1>3, <3>1, <3>2
  <2>4. emitted'[h] = m
    BY <1>1 DEF m
  <2> QED BY <1>1, <1>3, <1>4, <2>1, <2>3, <2>4 DEF QueueFrom
<1>6. ~(stream[h] = "closed" /\ ~gone[h])
  BY <1>1 DEF OrderAt
<1> QED BY <1>1, <1>5, <1>6 DEF OrderAt, Active

LEMMA OrderTake ==
  ASSUME StreamTypeOK, NEW h \in Requests, OrderAt(h), Take(h)
  PROVE  OrderAt(h)'
<1> DEFINE k == Len(seen[h])
           l == Len(queue)
           m == emitted[h]
           c == IF turn[h] = "closed" THEN 1 ELSE 0
<1>1. /\ queue # <<>> /\ queue' = Tail(queue) /\ emitted' = emitted /\ seen' = seen
      /\ turn' = turn /\ gone' = gone /\ stream[h] = "read"
  BY DEF Take, Rest, requestVars
<1>2. /\ Head(queue) = queue[1] /\ l \in Nat \ {0} /\ Len(queue') = l - 1
      /\ \A i \in 1 .. l - 1 : queue'[i] = queue[i + 1]
  BY <1>1, TookHead DEF StreamTypeOK
<1>3. k \in Nat /\ m \in Nat /\ c \in {0, 1}
  BY SeenTyped
<1>4. /\ k <= m /\ l = m - k + c
      /\ \A i \in 1 .. l : queue[i] = IF i <= m - k THEN Event(h, k + i) ELSE Done(h)
  <2>1. Taken(h) = k
    BY <1>1, <1>3 DEF Taken
  <2> QED BY <1>1, <2>1 DEF OrderAt, Active, QueueFrom
<1>5. c = 1 => turn[h] = "closed"
  OBVIOUS
<1>6. c = IF turn'[h] = "closed" THEN 1 ELSE 0
  BY <1>1
<1>7. Len(seen'[h]) = k /\ emitted'[h] = m
  BY <1>1
<1> HIDE DEF k, l, m, c
<1>a. queue[1] = IF 1 <= m - k THEN Event(h, k + 1) ELSE Done(h)
  BY <1>2, <1>4
<1>b. Event(h, k + 1).n = k + 1 /\ Done(h).n = 0
  BY <1>3, EventTyped
<1>8. CASE Ends(Head(queue))
  <2>1. stream'[h] = "closed"
    BY <1>8 DEF Take, StreamTypeOK
  <2>2. ~(1 <= m - k)
    <3>1. 1 <= m - k => queue[1].n = k + 1
      BY <1>a, <1>b
    <3> QED BY <1>2, <1>3, <1>8, <3>1 DEF Ends
  <2>3. m = k /\ c = 1
    BY <1>2, <1>3, <1>4, <2>2
  <2> QED BY <1>1, <1>5, <1>7, <2>1, <2>3 DEF OrderAt, Active
<1>9. CASE ~Ends(Head(queue))
  <2>1. stream'[h] = "send" /\ hand'[h] = queue[1]
    BY <1>2, <1>9 DEF Take, StreamTypeOK
  <2>2. 1 <= m - k
    <3>1. ~(1 <= m - k) => queue[1].n = 0
      BY <1>a, <1>b
    <3> QED BY <1>2, <1>9, <3>1 DEF Ends
  <2>3. hand'[h] = Event(h, k + 1)
    BY <1>2, <1>3, <1>4, <2>1, <2>2
  <2>4. Taken(h)' = k + 1
    BY <1>7, <2>1 DEF Taken
  <2>5. k + 1 <= m /\ l - 1 = m - (k + 1) + c
    BY <1>2, <1>3, <1>4, <2>2
  <2>6. ASSUME NEW i \in 1 .. l - 1
        PROVE  queue'[i] = IF i <= m - (k + 1) THEN Event(h, (k + 1) + i) ELSE Done(h)
    <3>1. i + 1 \in 1 .. l /\ queue'[i] = queue[i + 1]
      BY <1>2
    <3>2. queue[i + 1] = IF i + 1 <= m - k THEN Event(h, k + (i + 1)) ELSE Done(h)
      BY <1>4, <3>1
    <3>3. (i + 1 <= m - k <=> i <= m - (k + 1)) /\ k + (i + 1) = (k + 1) + i
      BY <1>3
    <3> QED BY <3>1, <3>2, <3>3
  <2>8. QueueFrom(h, Taken(h))'
    BY <1>2, <1>6, <1>7, <2>4, <2>5, <2>6 DEF QueueFrom
  <2> QED BY <1>1, <1>7, <2>1, <2>3, <2>8 DEF OrderAt, Active
<1> QED BY <1>8, <1>9

LEMMA OrderForward ==
  ASSUME StreamTypeOK, NEW h \in Requests, OrderAt(h), Forward(h)
  PROVE  OrderAt(h)'
<1> DEFINE k == Len(seen[h])
<1>1. /\ stream[h] = "send" /\ queue' = queue /\ emitted' = emitted
      /\ turn' = turn /\ gone' = gone
      /\ seen'[h] = Append(seen[h], hand[h]) /\ stream'[h] = "read"
  BY DEF Forward, requestVars, StreamTypeOK
<1>2. hand[h] \in EventType /\ seen[h] \in Seq(EventType) /\ hand[h] = Event(h, k + 1)
  BY <1>1 DEF StreamTypeOK, OrderAt
<1>3. /\ k \in Nat /\ Len(seen'[h]) = k + 1 /\ DOMAIN seen'[h] = 1 .. k + 1
      /\ DOMAIN seen[h] = 1 .. k
      /\ \A i \in 1 .. k : seen'[h][i] = seen[h][i]
      /\ seen'[h][k + 1] = hand[h]
  BY <1>1, <1>2, Pushed
<1> HIDE DEF k
<1>4. \A i \in DOMAIN seen'[h] : seen'[h][i] = Event(h, i)
  <2>1. \A i \in 1 .. k + 1 : i \in 1 .. k \/ i = k + 1
    BY <1>3
  <2> QED BY <1>2, <1>3, <2>1 DEF OrderAt
<1>5. Taken(h)' = Taken(h)
  <2>1. Taken(h)' = k + 1
    BY <1>1, <1>3 DEF Taken
  <2>2. Taken(h) = k + 1
    BY <1>1 DEF Taken, k
  <2> QED BY <2>1, <2>2
<1>6. QueueFrom(h, Taken(h))'
  BY <1>1, <1>5 DEF OrderAt, Active, QueueFrom
<1> QED BY <1>1, <1>4, <1>6 DEF OrderAt, Active

LEMMA OrderQuiet ==
  ASSUME StreamTypeOK, StreamControl, NEW h \in Requests, OrderAt(h),
         \/ FindEmpty(h) \/ Wake(h) \/ Heartbeat(h) \/ StreamStops(h)
         \/ ClientGone(h) \/ CancelTurn(h) \/ Return(h)
  PROVE  OrderAt(h)'
<1> USE DEF requestVars
<1>1. CASE FindEmpty(h) \/ Wake(h) \/ Heartbeat(h)
  <2>1. /\ queue' = queue /\ emitted' = emitted /\ seen' = seen /\ turn' = turn
        /\ Active(h) /\ stream[h] # "send" /\ stream'[h] # "send" /\ stream'[h] # "closed"
    BY <1>1 DEF FindEmpty, Wake, Heartbeat, StreamTypeOK, Active
  <2>2. Taken(h)' = Taken(h)
    <3>1. Taken(h) = Len(seen[h]) + 0
      BY <2>1 DEF Taken
    <3>2. Taken(h)' = Len(seen[h]) + 0
      BY <2>1 DEF Taken
    <3> QED BY <3>1, <3>2
  <2>3. QueueFrom(h, Taken(h))
    BY <2>1 DEF OrderAt
  <2>4. QueueFrom(h, Taken(h))'
    BY <2>1, <2>2, <2>3 DEF QueueFrom
  <2> QED BY <2>1, <2>4 DEF OrderAt
<1>2. CASE StreamStops(h)
  <2>1. /\ queue' = queue /\ emitted' = emitted /\ seen' = seen /\ turn' = turn /\ gone' = gone
        /\ stream[h] \in {"send", "wait"} /\ ctx[h] /\ stream'[h] = "closed"
    BY <1>2 DEF StreamStops, Stoppable, StreamTypeOK
  <2>2. gone[h]
    BY <2>1 DEF StreamControl, ControlAt
  <2> QED BY <2>1, <2>2 DEF OrderAt, Active
<1>3. CASE ClientGone(h) \/ CancelTurn(h) \/ Return(h)
  <2>1. /\ queue' = queue /\ emitted' = emitted /\ seen' = seen /\ turn' = turn
        /\ stream' = stream /\ hand' = hand /\ (gone[h] => gone'[h])
    BY <1>3 DEF ClientGone, CancelTurn, Return, StreamTypeOK
  <2>2. Taken(h)' = Taken(h)
    BY <2>1 DEF Taken
  <2> QED BY <2>1, <2>2 DEF OrderAt, Active, QueueFrom
<1> QED BY <1>1, <1>2, <1>3

LEMMA OrderStep ==
  StreamTypeOK /\ StreamControl /\ OrderInv /\ [Next]_vars => OrderInv'
<1> SUFFICES ASSUME StreamTypeOK, StreamControl, OrderInv, [Next]_vars, ~overlaps',
                    NEW h \in Requests
             PROVE  OrderAt(h)'
  BY DEF OrderInv
<1>1. CASE UNCHANGED vars
  <2>1. OrderAt(h)
    BY <1>1 DEF OrderInv, vars
  <2> QED BY <1>1, <2>1 DEF OrderAt, Active, QueueFrom, Taken, vars, requestVars
<1>2. ASSUME NEW g \in Requests, g # h,
             \/ Request(g) \/ Emit(g) \/ Close(g) \/ StreamStep(g)
             \/ ClientGone(g) \/ CancelTurn(g) \/ Return(g)
      PROVE  OrderAt(h)'
  <2>1. ~overlaps /\ ~Active(h)
    BY <1>2, OnlyOneActs
  <2> QED BY <1>2, <2>1, OthersUntouched, OrderIdle DEF OrderInv
<1>3. ASSUME \/ Request(h) \/ Emit(h) \/ Close(h) \/ StreamStep(h)
             \/ ClientGone(h) \/ CancelTurn(h) \/ Return(h)
      PROVE  OrderAt(h)'
  <2>1. ~overlaps
    BY <1>3, OpenedByRequest DEF StreamTypeOK
  <2>2. OrderAt(h)
    BY <2>1 DEF OrderInv
  <2> QED BY <1>3, <2>2, OrderRequest, OrderEmit, OrderClose, OrderTake, OrderForward,
             OrderQuiet DEF StreamStep
<1> QED BY <1>1, <1>2, <1>3 DEF Next

LEMMA WakeupStep ==
  StreamTypeOK /\ StreamControl /\ NoLostWakeup /\ [Next]_vars => NoLostWakeup'
<1> SUFFICES ASSUME StreamTypeOK, StreamControl, NoLostWakeup, [Next]_vars, ~overlaps',
                    NEW h \in Requests, stream'[h] = "wait", queue' # <<>>
             PROVE  notify'
  BY DEF NoLostWakeup
<1>1. CASE UNCHANGED vars
  BY <1>1 DEF NoLostWakeup, vars
<1>2. ASSUME NEW g \in Requests, Emit(g) \/ Close(g)
      PROVE  notify'
  BY <1>2, EmitChanges DEF Close, Finish, Push
<1>3. ASSUME NEW g \in Requests, g # h,
             \/ Request(g) \/ StreamStep(g) \/ ClientGone(g) \/ CancelTurn(g) \/ Return(g)
      PROVE  notify'
  <2>1. ~Active(h)
    BY <1>3, OnlyOneActs
  <2>2. stream'[h] = stream[h]
    BY <1>3, OthersUntouched
  <2> QED BY <2>1, <2>2 DEF Active
<1>4. ASSUME \/ Request(h) \/ StreamStep(h) \/ ClientGone(h) \/ CancelTurn(h) \/ Return(h)
      PROVE  notify'
  <2>1. CASE Request(h)
    BY <2>1 DEF Request, Prepared
  <2>2. CASE StreamStep(h)
    <3>1. Take(h) => stream'[h] # "wait"
      BY DEF Take, StreamTypeOK
    <3>2. FindEmpty(h) => queue' = <<>>
      BY DEF FindEmpty
    <3>3. Forward(h) \/ Wake(h) \/ Heartbeat(h) \/ StreamStops(h) => stream'[h] # "wait"
      BY DEF Forward, Wake, Heartbeat, StreamStops, StreamTypeOK
    <3> QED BY <2>2, <3>1, <3>2, <3>3 DEF StreamStep
  <2>3. CASE ClientGone(h) \/ CancelTurn(h) \/ Return(h)
    BY <2>3 DEF ClientGone, CancelTurn, Return, NoLostWakeup
  <2> QED BY <1>4, <2>1, <2>2, <2>3
<1> QED BY <1>1, <1>2, <1>3, <1>4 DEF Next

(***************************************************************************)
(* The theorems.                                                           *)
(***************************************************************************)
StreamInv == StreamTypeOK /\ StreamControl /\ OnceInv /\ OrderInv /\ NoLostWakeup

LEMMA InitStream == Init => StreamInv
<1> SUFFICES ASSUME Init
             PROVE  StreamInv
  OBVIOUS
<1>1. Nothing \in EventType
  BY DEF Nothing, Event, EventType
<1>2. StreamTypeOK
  <2>1. hand \in [Requests -> EventType]
    BY <1>1 DEF Init
  <2>2. seen \in [Requests -> Seq(EventType)] /\ queue \in Seq(EventType)
    BY DEF Init
  <2> QED BY <2>1, <2>2 DEF Init, StreamTypeOK
<1>3. StreamControl
  BY DEF Init, StreamControl, OneOpen, Open, ControlAt
<1>4. DOMAIN queue = {} /\ \A h \in Requests : DOMAIN seen[h] = {} /\ stream[h] = "off"
  BY DEF Init
<1>5. OnceInv
  BY <1>4 DEF OnceInv
<1>6. OrderInv /\ NoLostWakeup
  BY <1>4 DEF OrderInv, OrderAt, Active, NoLostWakeup
<1> QED BY <1>2, <1>3, <1>5, <1>6 DEF StreamInv

LEMMA StreamInvariant == Spec => []StreamInv
<1>1. StreamInv /\ [Next]_vars => StreamInv'
  BY StreamTypeStep, StreamControlStep, OnceStep, OrderStep, WakeupStep DEF StreamInv
<1> QED BY <1>1, InitStream, PTL DEF Spec

(* What reaches a client was emitted and reaches it once and nobody else,  *)
(* however requests of the session overlap; when they follow one another,  *)
(* a client sees its own turn's events in order, and all of them unless it *)
(* went away (Emit, Stream, stream).                                       *)
THEOREM EventsAlwaysInOrder == Spec => []DeliveredInOrder
<1>1. StreamInv => DeliveredInOrder
  <2> SUFFICES ASSUME StreamInv
               PROVE  DeliveredInOrder
    OBVIOUS
  <2>1. OwnEventsInOrder
    BY DEF StreamInv, StreamControl, ControlAt, OrderInv, OrderAt, OwnEventsInOrder
  <2>2. DeliveredOnce
    BY DEF StreamInv, OnceInv, WasEmitted, DeliveredOnce
  <2> QED BY <2>1, <2>2 DEF DeliveredInOrder
<1> QED BY <1>1, StreamInvariant, PTL

(* A stream that waits while there is something to read has a token that   *)
(* wakes it, so no event waits for the heartbeat (push, Stream).           *)
THEOREM WakeupNeverLost == Spec => []NoLostWakeup
<1>1. StreamInv => NoLostWakeup
  BY DEF StreamInv
<1> QED BY <1>1, StreamInvariant, PTL
=============================================================================
