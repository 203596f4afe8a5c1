----------------------------- MODULE PublicDemo -----------------------------
(***************************************************************************)
(* Questions of callers without a key (internal/api public.go and the      *)
(* chat handler): the checks before a question, the shared daily budget,   *)
(* the concurrency cap and the hourly limit of each client, and what the   *)
(* handler does when an answer is done: record its cost, then give the     *)
(* slot back, whether or not the client stayed to the end.                 *)
(*                                                                         *)
(* One process: the counters are its own.  Costs are whole units.          *)
(***************************************************************************)
EXTENDS Integers, FiniteSets

CONSTANTS
    Clients,            \* addresses
    Questions,
    Budget,             \* PublicDailyBudgetUSD
    MaxCost,            \* the dearest answer
    MaxConcurrent,      \* PublicMaxConcurrent
    PerHour,            \* PublicQuestionsPerHour
    HourTicks,          \* an hour, in ticks
    MaxTicks, MaxDays   \* bounds

ASSUME PublicAssumptions ==
    /\ IsFiniteSet(Questions)
    /\ Budget \in Nat \ {0} /\ MaxCost \in Nat /\ MaxConcurrent \in Nat \ {0}
    /\ PerHour \in Nat \ {0} /\ HourTicks \in Nat \ {0} /\ MaxTicks \in Nat /\ MaxDays \in Nat

VARIABLES
    now, date,          \* the clock: ticks, and the UTC date
    day, spent,         \* the date the spend belongs to, and the spend
    asked,              \* each client's admitted questions with the time of each
    inFlight, running,  \* questions in flight, of all and of each client
    question            \* each question: its client, where it is, what it costs

demoVars == <<now, date, day, spent, asked, inFlight, running, question>>
clock == <<now, date>>
slots == <<inFlight, running>>

NotAsked == [at |-> "not asked"]
DemoInit ==
    /\ now = 0 /\ date = 1
    /\ day = 0 /\ spent = 0         \* the first rollover finds no day
    /\ asked = [c \in Clients |-> {}] /\ inFlight = 0 /\ running = [c \in Clients |-> 0]
    /\ question = [q \in Questions |-> NotAsked]

Tick == now < MaxTicks /\ now' = now + 1 /\ UNCHANGED <<date, day, spent, asked, slots, question>>
Midnight == date < MaxDays /\ date' = date + 1 /\ UNCHANGED <<now, day, spent, asked, slots, question>>
-----------------------------------------------------------------------------
(* rollover, which every use of the counters begins with.                  *)
SpentToday == IF day = date THEN spent ELSE 0
OverBudgetBy(usd) == usd > Budget \* the variant that misses the last unit
OverBudget(usd) == usd >= Budget
Available == day' = date /\ spent' = SpentToday /\ UNCHANGED <<clock, asked, slots, question>>

Within(times) == {a \in times : now - a.time < HourTicks}
(* admitPublic before the counters: the visitor has not passed the human   *)
(* check, or the question is too long.                                     *)
Unfit(q, c) ==
    /\ question[q] = NotAsked
    /\ question' = [question EXCEPT ![q] = [at |-> "refused", client |-> c, why |-> "unfit"]]
    /\ UNCHANGED <<clock, day, spent, asked, slots>>
(* publicGuard.Admit, under its lock, in the order of its checks.          *)
Refusal(c) ==
    IF OverBudget(SpentToday) THEN "budget"
    ELSE IF Cardinality(Within(asked[c])) >= PerHour THEN "hour"
    ELSE IF inFlight >= MaxConcurrent THEN "busy"
    ELSE IF running[c] > 0 THEN "one at a time"
    ELSE "none"
Refuse(q, c) ==
    /\ question[q] = NotAsked /\ Refusal(c) # "none"
    /\ day' = date /\ spent' = SpentToday
    /\ asked' = IF Refusal(c) = "budget" THEN asked ELSE [asked EXCEPT ![c] = Within(@)]
    /\ question' = [question EXCEPT ![q] = [at |-> "refused", client |-> c, why |-> Refusal(c)]]
    /\ UNCHANGED <<clock, slots>>
Admit(q, c) ==
    /\ question[q] = NotAsked /\ Refusal(c) = "none"
    /\ day' = date /\ spent' = SpentToday
    /\ asked' = [asked EXCEPT ![c] = Within(@) \cup {[question |-> q, time |-> now]}]
    /\ inFlight' = inFlight + 1 /\ running' = [running EXCEPT ![c] = @ + 1]
    /\ question' = [question EXCEPT ![q] = [at |-> "running", client |-> c]]
    /\ UNCHANGED clock
(* The turn is over or the client went away: its model calls were made     *)
(* either way, and their cost is known now.                                *)
Answer(q) ==
    /\ question[q].at = "running"
    /\ \E usd \in 0 .. MaxCost :
          question' = [question EXCEPT ![q] = [at |-> "answered", client |-> question[q].client, usd |-> usd]]
    /\ UNCHANGED <<clock, day, spent, asked, slots>>
(* Record, and then the deferred release.                                  *)
Record(q) ==
    /\ question[q].at = "answered"
    /\ day' = date /\ spent' = SpentToday + question[q].usd
    /\ question' = [question EXCEPT ![q] = [@ EXCEPT !.at = "recorded"]]
    /\ UNCHANGED <<clock, asked, slots>>
(* A variant forgets that the client has finished.                         *)
ReleaseShared(q) ==
    /\ question[q].at = "recorded"
    /\ inFlight' = inFlight - 1 /\ UNCHANGED running
    /\ question' = [question EXCEPT ![q] = [@ EXCEPT !.at = "done"]]
    /\ UNCHANGED <<clock, day, spent, asked>>
Release(q) ==
    /\ question[q].at = "recorded"
    /\ inFlight' = inFlight - 1 /\ running' = [running EXCEPT ![question[q].client] = @ - 1]
    /\ question' = [question EXCEPT ![q] = [@ EXCEPT !.at = "done"]]
    /\ UNCHANGED <<clock, day, spent, asked>>

DemoNext ==
    \/ Tick \/ Midnight \/ Available
    \/ \E q \in Questions :
          \/ \E c \in Clients : Unfit(q, c) \/ Refuse(q, c) \/ Admit(q, c)
          \/ Answer(q) \/ Record(q) \/ Release(q)
DemoSpec == DemoInit /\ [][DemoNext]_demoVars
-----------------------------------------------------------------------------
(* The day's spend passes the budget by no more than the answers that were *)
(* under way when it was reached, however questions and midnights fall.    *)
SpendIsBounded == spent <= Budget - 1 + MaxConcurrent * MaxCost

(* Every slot is somebody's: the counters are exactly the questions        *)
(* between their admission and their release, at most one of each client,  *)
(* and no client was admitted more often within an hour than it may.       *)
Holding == {q \in Questions : question[q].at \in {"running", "answered", "recorded"}}
SlotsAccounted ==
    /\ inFlight = Cardinality(Holding) /\ inFlight <= MaxConcurrent
    /\ \A c \in Clients : running[c] = Cardinality({q \in Holding : question[q].client = c}) /\ running[c] <= 1
    /\ \A c \in Clients : Cardinality(Within(asked[c])) <= PerHour

(* The demo stays within its means, however many questions are asked,      *)
(* answered and abandoned at once, over any number of days.                *)
DemoIsBounded == SpendIsBounded /\ SlotsAccounted
=============================================================================
