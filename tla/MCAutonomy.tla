----------------------------- MODULE MCAutonomy -----------------------------
(***************************************************************************)
(* Autonomy with a small namespace policy for TLC: "dev" is at A3 and      *)
(* allowlisted, "prod" investigates only, "kube-system" is blocked.        *)
(***************************************************************************)
EXTENDS Autonomy, TLC

Finding(ns, object, severity) ==
    [playbook |-> "crash", namespace |-> ns, object |-> object, severity |-> severity]

MCFindings ==
    {Finding("dev", "a", "critical"), Finding("dev", "a", "predicted"), Finding("kube-system", "a", "critical"),
     Finding("", "a", "critical")}

MCDeployments ==
    {[promotion |-> TRUE, prospective |-> FALSE], [promotion |-> FALSE, prospective |-> TRUE]}

MCBlocked == {"kube-system"}
MCLevels == [n \in {"dev", "kube-system"} |-> 3]
MCAllowlist == {[playbook |-> "crash", namespaces |-> {"dev", "kube-system", ""}]}
=============================================================================
