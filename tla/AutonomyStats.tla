---------------------------- MODULE AutonomyStats ----------------------------
(***************************************************************************)
(* The statistics behind the unattended write authority                    *)
(* (internal/autonomy/stats.go, promotion.go): a rolling window of         *)
(* outcomes, the Wilson lower bound, the two demotion triggers that the    *)
(* recorded outcomes can fire and the promotion gates.  Everything is a    *)
(* function of a set of events and of "now"; nothing here is state.        *)
(*                                                                         *)
(* An event is [at, ok, id, kind, critical]; times are in ticks, DayTicks  *)
(* of them to a day.  Wilson's bound clears a threshold of P per cent iff  *)
(* the observed rate does and (100 s - P n)^2 >= z^2 n P (100 - P), which  *)
(* needs no square root: z^2 = 2.706 for the one sided 95 per cent bound.  *)
(***************************************************************************)
EXTENDS Integers, FiniteSets

CONSTANTS
    DayTicks,           \* ticks in a day
    WindowMaxDays,      \* 90 in the code
    WindowMaxEvents,    \* 200 in the code
    CusumFails,         \* 2 in the code
    CusumWindowDays,    \* 1 in the code
    HysteresisLastN,    \* 50 in the code
    Theta, Band,        \* 99 and 5 per cent in the code
    NMin, TMinDays, MinIncidents, MinTypes   \* 300, 90, 30, 1

ASSUME StatsAssumption ==
    /\ {DayTicks, WindowMaxEvents, CusumFails, HysteresisLastN} \subseteq Nat \ {0}
    /\ {WindowMaxDays, CusumWindowDays, NMin, TMinDays,
        MinIncidents, MinTypes} \subseteq Nat
    /\ Theta \in 1 .. 99 /\ Band \in 0 .. (Theta - 1)

Rungs == <<"L0", "L1", "L2", "L3", "L4">>

rungIndex(r) == CHOOSE i \in DOMAIN Rungs : Rungs[i] = r
demoteTo(r, down) ==
    Rungs[IF rungIndex(r) - down < 1 THEN 1 ELSE rungIndex(r) - down]

-----------------------------------------------------------------------------
(* Later(e, f): f comes after e in the chronological order of the sorts.   *)
Later(e, f) == e.at < f.at \/ (e.at = f.at /\ e.id < f.id)
lastOf(events, n) == {e \in events : Cardinality({f \in events : Later(e, f)}) < n}

window(events, now) ==
    lastOf({e \in events : now - e.at <= WindowMaxDays * DayTicks}, WindowMaxEvents)

Good(events) == {e \in events : e.ok}
Failed(events) == {e \in events : ~e.ok}

(* WilsonClears(s, n, p): the lower bound of s successes in n is >= p per cent. *)
WilsonClears(s, n, p) ==
    LET d == 100 * s - p * n IN
    n > 0 /\ d >= 0 /\ 1000 * d * d >= 2706 * n * p * (100 - p)

(* A variant waits for one failure more.                                   *)
CusumTripLate(events) ==
    \E e \in Failed(events) :
        Cardinality({f \in Failed(events) :
                        f.at >= e.at /\ f.at - e.at <= CusumWindowDays * DayTicks})
            > CusumFails
(* Two failures inside any day.  Every failure counts.                     *)
CusumTrip(events) ==
    \E e \in Failed(events) :
        Cardinality({f \in Failed(events) :
                        f.at >= e.at /\ f.at - e.at <= CusumWindowDays * DayTicks})
            >= CusumFails

(* The bound over the last events has fallen: abstains where a perfect     *)
(* record of this length would not clear the floor either.                 *)
HysteresisBreach(events) ==
    LET win == lastOf(events, HysteresisLastN)
        n == Cardinality(win)
        floor == Theta - Band
    IN  /\ n > 0
        /\ WilsonClears(n, n, floor)
        /\ ~WilsonClears(Cardinality(Good(win)), n, floor)

(* The most severe demotion that fires at rung "current".                  *)
EvaluateDemotion(current, events, now, sevAttributed, m4AtL4, classDrift) ==
    LET win == window(events, now)
        To(demote, rung, stale) == [demote |-> demote, to |-> rung, stale |-> stale]
    IN  IF current = "L4" /\ sevAttributed THEN To(TRUE, demoteTo(current, 2), FALSE)
        ELSE IF current = "L4" /\ m4AtL4 THEN To(TRUE, "L3", FALSE)
        ELSE IF classDrift THEN To(FALSE, current, TRUE)
        ELSE IF CusumTrip(win) \/ HysteresisBreach(win) THEN To(TRUE, demoteTo(current, 1), FALSE)
        ELSE To(FALSE, current, FALSE)

Span(events) ==
    IF Cardinality(events) < 2 THEN 0
    ELSE LET times == {e.at : e \in events}
             first == CHOOSE t \in times : \A u \in times : t <= u
             last == CHOOSE t \in times : \A u \in times : u <= t
         IN  last - first

(* Every gate must pass for a rung to be earned.                           *)
EvaluatePromotion(events, now) ==
    LET win == window(events, now)
        n == Cardinality(win)
    IN  /\ WilsonClears(Cardinality(Good(win)), n, Theta)
        /\ n >= NMin
        /\ Span(win) >= TMinDays * DayTicks
        /\ Cardinality({e.id : e \in win}) >= MinIncidents
        /\ Cardinality({e.kind : e \in win}) >= MinTypes
        /\ ~\E e \in win : e.critical

(* Demotion is asked first: fast down, slow up.                            *)
Decide(current, next, events, now, sevAttributed, m4AtL4, classDrift) ==
    LET dem == EvaluateDemotion(current, events, now, sevAttributed, m4AtL4, classDrift)
    IN  IF dem.demote THEN [action |-> "demote", rung |-> dem.to]
        ELSE IF ~dem.stale /\ EvaluatePromotion(events, now)
             THEN [action |-> "promote", rung |-> next]
        ELSE [action |-> "hold", rung |-> current]

(* What the watchtower asks: has the record taken the authority away?      *)
AutofixRevocation(events, now) ==
    Decide("L4", "L4", events, now, FALSE, FALSE, FALSE).action = "demote"
=============================================================================
