------------------------------ MODULE MCMemory ------------------------------
(***************************************************************************)
(* The parts of the memory, each on a small instance.  They share no state *)
(* that any of them waits for, so a behaviour is one of one part: `part'   *)
(* says which.  Its fairness is the graph's; a behaviour of another part   *)
(* is checked for safety only.                                             *)
(***************************************************************************)
EXTENDS MemoryAudit, MemoryGraph, MemoryLearning, MemoryContext

CONSTANTS n1, n2, x, y

VARIABLE part
vars == <<part, auditVars, graphVars, learnVars, contextVars>>

FindingsOf(verified, sure, nss) == [verified : verified, sure : sure, ns : nss]
(* The behaviour of a user, the promotion of rules, the theme summaries.   *)
OneFeatureEach == {
    [features |-> {"preferences"}, findings |-> FindingsOf({FALSE}, {TRUE}, {x, y})],
    [features |-> {"promotion"}, findings |-> FindingsOf(BOOLEAN, {TRUE}, {x})],
    [features |-> {"summaries"}, findings |-> FindingsOf({TRUE}, BOOLEAN, {x})]}
(* Each section is on in one of the two and beside others that are off.    *)
TwoSettings == {{"episodes", "rules"}, {"hints", "themes"}}

Init ==
    /\ part \in {"audit", "graph", "writeback", "learning", "context"}
    /\ AuditInit /\ GraphInit /\ LearnInit /\ ContextInit
    /\ part # "learning" => deployment = CHOOSE d \in OneFeatureEach : TRUE
    /\ part # "context" => settings = ToSet(Sections) \ (CHOOSE off \in TwoSettings : TRUE) /\ up
    /\ part # "graph" => place = n1
Next ==
    /\ UNCHANGED part
    /\ \/ part = "audit" /\ AuditNext /\ UNCHANGED <<graphVars, learnVars, contextVars>>
       \/ part = "graph" /\ GraphNext /\ UNCHANGED <<auditVars, learnVars, contextVars>>
       \/ part = "writeback" /\ WritebackNext /\ UNCHANGED <<auditVars, learnVars, contextVars>>
       \/ part = "learning" /\ LearnNext /\ UNCHANGED <<auditVars, graphVars, contextVars>>
       \/ part = "context" /\ ContextNext /\ UNCHANGED <<auditVars, graphVars, learnVars>>
Spec == Init /\ [][Next]_vars /\ GraphFairness
=============================================================================
