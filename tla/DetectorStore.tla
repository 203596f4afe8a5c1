--------------------------- MODULE DetectorStore ---------------------------
(***************************************************************************)
(* The stored detectors (internal/detectstore, detect/shape.go, the rows   *)
(* consolidation proposes, and the API over them): a row is authored from  *)
(* prose by the model, validated and staged as a shadow candidate, loaded  *)
(* into the engine by a periodic refresh, and promoted or demoted by a     *)
(* person.  Promotion reads the row and writes its status in two           *)
(* statements, so two reviewers can interleave.                            *)
(***************************************************************************)
EXTENDS DetectorEngine, Gathering

CONSTANTS
    Stored,       \* the rows the table may hold, with a fixed order for loading
    Legal,        \* strings that can be a Kubernetes status or reason
    Healthy,      \* HealthyStatus: what the observer says of a healthy pod
    Compiled,     \* what the authoring model may answer
    Learned,      \* the names consolidation uses, and what it derives from
    Proposed,     \* a verified pattern
    Reviewers,
    MaxReviews    \* bound: promotions and demotions

NoBlock == [watch |-> {}, trend |-> {}]
NoRow == [status |-> "absent", raw |-> NoBlock]
NoReview == [name |-> "none", pc |-> "idle"]

ASSUME StoreAssumption ==
    /\ Stored \in Seq(Names \ BaseSet)
    /\ \A n, m \in ToSet(Stored) : Playbook[n] = Playbook[m] => n = m
    /\ Learned \subseteq ToSet(Stored)
    /\ MaxReviews \in Nat

VARIABLES
    rows,      \* the detectors table of the cluster
    review,    \* review[p]: the promotion a reviewer is in the middle of
    refreshed, \* the status of each row as this process last read it
    unread,    \* the rows the last refresh that was taken did not reach
    approved,  \* detectors a person has promoted
    reviews    \* what MaxReviews counts

storeVars == <<rows, review, refreshed, unread, approved, reviews>>

-----------------------------------------------------------------------------
(* Can a predicate ever fire (shape.go)?  A pattern the enumerator cannot  *)
(* expand has samples = "unknown" and is given the benefit of the doubt.   *)

SupportedKinds == {"Pod", "Event", "Node"}
NeverMatches(p) ==
    \/ p.kind \notin SupportedKinds
    \/ p.kind \in {"Pod", "Node"} /\ p.samples = {}
    \/ ~p.exotic /\ ~(p.samples \subseteq Legal)
FiresOnHealthy(p) == p.kind = "Pod" /\ p.matches \cap Healthy # {}
(* A trend compiled by ParseBlock has a window, horizon and fit in range:  *)
(* what is left is an unfilled template and a misspelt direction.          *)
TrendNeverFires(t) == t.template \/ t.direction \notin {"rising", "falling"}

(* ParseBlock: predicates without a kind or metric are passed over; nothing *)
(* left compiles to no block.                                              *)
ParseBlock(raw) ==
    [watch |-> {p \in raw.watch : p.kind # ""}, trend |-> raw.trend]
isDetectBlock(raw) == raw.watch # {} \/ raw.trend # {}

Reasons(b) == {p \in b.watch : NeverMatches(p) \/ FiresOnHealthy(p)} \cup {t \in b.trend : TrendNeverFires(t)}
Validate(raw) == ParseBlock(raw) # NoBlock /\ Reasons(ParseBlock(raw)) = {}

(* livenessError: a row that does not compile is not its call. *)
livenessError(n) == Reasons(ParseBlock(rows[n].raw)) # {}

(* Load refuses predicate by predicate: a row keeps those that can fire,   *)
(* and one that fires on healthy objects is kept to be seen.               *)
(* Variant of LivePart that takes every predicate of a row that compiles.  *)
LivePartUnchecked(raw) == ParseBlock(raw)
LivePart(raw) ==
    [watch |-> {p \in ParseBlock(raw).watch : ~NeverMatches(p)},
     trend |-> {t \in ParseBlock(raw).trend : ~TrendNeverFires(t)}]
Loads(rs, n, status) == rs[n].status = status /\ isDetectBlock(rs[n].raw) /\ LivePart(rs[n].raw) # NoBlock
(* Load, of the rows the loop over the result reached. *)
Load(rs, reached, status) == Picked(Stored, {i \in DOMAIN Stored : Stored[i] \in reached /\ Loads(rs, Stored[i], status)})
Blocks(rs) == [n \in Names |-> IF n \in ToSet(Stored) THEN LivePart(rs[n].raw) ELSE blocks[n]]
-----------------------------------------------------------------------------
(* POST /v1/detectors: compile, validate, stage; an existing name stays.   *)
createDetector(n, raw) ==
    /\ dep.authoring /\ rows[n].status = "absent" /\ Validate(raw)
    /\ rows' = [rows EXCEPT ![n] = [status |-> "shadow", raw |-> raw]]
    /\ UNCHANGED <<review, refreshed, unread, approved, reviews>>

(* ProposeDetectorCandidates: a reviewable candidate, never validated.     *)
ProposeDetectorCandidates(n, raw) ==
    /\ dep.consolidation /\ rows[n].status = "absent"
    /\ rows' = [rows EXCEPT ![n] = [status |-> "candidate", raw |-> raw]]
    /\ UNCHANGED <<review, refreshed, unread, approved, reviews>>

(* Promote, first half: is the row known to be dead? *)
PromoteCheck(p, n) ==
    /\ dep.authoring /\ reviews < MaxReviews /\ review[p] = NoReview
    /\ rows[n].status # "absent" /\ ~livenessError(n)
    /\ review' = [review EXCEPT ![p] = [name |-> n, pc |-> "checked"]]
    /\ reviews' = reviews + 1
    /\ UNCHANGED <<rows, refreshed, unread, approved>>

(* Second half: setStatus, whatever the row's status has become. *)
PromoteWrite(p) ==
    /\ review[p].pc = "checked"
    /\ rows' = [rows EXCEPT ![review[p].name].status = "active"]
    /\ approved' = approved \cup {review[p].name}
    /\ review' = [review EXCEPT ![p] = NoReview]
    /\ UNCHANGED <<refreshed, unread, reviews>>

Demote(p, n) ==
    /\ dep.authoring /\ reviews < MaxReviews /\ review[p] = NoReview /\ rows[n].status # "absent"
    /\ rows' = [rows EXCEPT ![n].status = "demoted"]
    /\ reviews' = reviews + 1
    /\ UNCHANGED <<review, refreshed, unread, approved>>

(* refreshStored.  The query asks for no order and Load does not look at   *)
(* the error the loop over the rows ended with: a read that was cut comes  *)
(* back as the rows it reached, and these replace the set already loaded.  *)
refreshStored(reached) ==
    /\ dep.authoring
    /\ SetStored(Load(rows, reached, "active"), Load(rows, reached, "shadow"), Blocks(rows))
    /\ refreshed' = [n \in ToSet(Stored) |-> IF n \in reached THEN rows[n].status ELSE refreshed[n]]
    /\ unread' = ToSet(Stored) \ reached
    /\ UNCHANGED <<rows, review, approved, reviews>>
(* A query, or a row, that could not be read keeps the set already loaded. *)
refreshFails ==
    /\ dep.authoring
    /\ UNCHANGED <<engineVars, storeVars>>

StoreInit(legacy) ==
    /\ rows \in [ToSet(Stored) -> {NoRow} \cup legacy]
    /\ review = [p \in Reviewers |-> NoReview]
    /\ refreshed = [n \in ToSet(Stored) |-> "absent"] /\ unread = ToSet(Stored)
    /\ approved = {n \in ToSet(Stored) : rows[n].status = "active"}
    /\ reviews = 0

StoreStep ==
    \/ \E n \in ToSet(Stored) \ Learned, raw \in Compiled : createDetector(n, raw)
    \/ \E n \in Learned, raw \in Proposed : ProposeDetectorCandidates(n, raw)
    \/ \E p \in Reviewers, n \in ToSet(Stored) : PromoteCheck(p, n) \/ Demote(p, n)
    \/ \E p \in Reviewers : PromoteWrite(p)
=============================================================================
