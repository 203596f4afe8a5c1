----------------------------- MODULE MCAciVerbs -----------------------------
(***************************************************************************)
(* The guarded kubectl and its clients for TLC: one ordinary namespace and *)
(* one of infrastructure, a job per command shape the gates tell apart.    *)
(***************************************************************************)
EXTENDS AciVerbs, TLC

Obj(k, n, ns) == [kind |-> k, name |-> n, ns |-> ns]
Web == Obj("pod", "web", "shop")
Db == Obj("pod", "db", "shop")
Dns == Obj("pod", "dns", "kube-system")
MCApp == Obj("deployment", "api", "shop")
MCObjects == {Web, Db, Dns, MCApp, Obj("namespace", "shop", ""), Obj("namespace", "kube-system", "")}
MCSingular == [pods |-> "pod", po |-> "pod", namespaces |-> "namespace", ns |-> "namespace",
               deployments |-> "deployment", deploy |-> "deployment", secrets |-> "secret"]
MCKubectlValueFlags == valueFlags \cup {"--replicas", "--grace-period", "-v"}
MCPlurals == {<<"secret", "secrets">>, <<"pod", "pods">>}

C(args) == Cmd(<<W("kubectl")>> \o args)
Piped(args) == [C(args) EXCEPT !.pipes = TRUE]
Given(args, docs) == [C(args) EXCEPT !.stdin = docs]
PodDoc(n, ns) == Doc("pod", n, ns, {})

(* Commands kubectl and the tool read differently, or not in full: a flag  *)
(* given twice, words after --, namespaces that are not named.             *)
Repeated == C(<<W("get"), W("pods"), F("-n"), W("shop"), F("-n"), W("kube-system")>>)
InPod == C(<<W("exec"), W("web"), F("--"), W("rm"), W("x")>>)
EveryNamespace == C(<<W("delete"), W("ns"), F("--all")>>)
TwoDryRuns == C(<<W("delete"), W("pod"), W("web"), FV("--dry-run", "client"), FV("--dry-run", "none")>>)
Unlike ==
    {Repeated, InPod, EveryNamespace, TwoDryRuns,
     C(<<F("-v"), W("6"), W("delete"), W("pod"), W("web")>>),
     C(<<W("get"), W("pods"), FV("--all-namespaces", "false"), F("-A")>>),
     C(<<W("exec"), W("web"), F("--"), W("rm"), W("x"), FV("--dry-run", "client")>>),
     Given(<<W("delete"), F("-f"), F("-")>>, <<Doc("namespace", "kube-system", None, {})>>)}

Reads ==
    {C(<<W("get"), W("pods"), F("-A")>>),
     C(<<W("get"), W("pods"), F("-A"), F("-o"), W("json")>>),
     C(<<W("get"), W("pods"), F("-A"), FV("-o", "name")>>),
     Piped(<<W("get"), W("pods"), F("-A"), FV("-o", "yaml")>>),
     C(<<W("get"), W("namespaces")>>),
     C(<<W("describe"), W("ns")>>),
     C(<<F("-n"), W("shop"), W("get"), W("pods")>>),
     C(<<W("get"), W("pods"), FV("-n", "kube-system")>>),
     C(<<W("get"), W("secrets")>>),
     C(<<W("rollout"), W("status"), WS("deployment", "api")>>),
     C(<<W("cluster-info"), W("dump")>>), C(<<W("auth"), W("can-i"), W("get"), W("pods")>>),
     C(<<W("get"), W("pods"), FV("--context", "other")>>)}
Writes ==
    {C(<<W("delete"), W("pod"), W("web"), F("-n"), W("shop")>>),
     C(<<F("-n"), W("shop"), W("delete"), F("--force"), W("namespace"), W("shop")>>),
     C(<<W("delete"), W("ns"), W("shop"), W("kube-system")>>),
     C(<<W("delete"), W("pods"), F("--all"), F("-A")>>),
     C(<<W("scale"), WS("deployment", "api"), FV("--replicas", "3")>>),
     C(<<W("rollout"), W("restart"), WS("deployment", "api")>>),
     C(<<W("set"), W("image"), WS("deployment", "api")>>),
     C(<<W("scale"), WS("deployment", "api"), FV("--replicas", "3"), FV("--dry-run", "server")>>),
     C(<<W("apply"), F("-f"), W("pods.yaml")>>), C(<<W("edit"), W("pod"), W("web")>>),
     Given(<<W("apply"), F("-f"), F("-")>>, <<PodDoc("web", "shop"), PodDoc("db", "")>>),
     Given(<<W("apply"), F("-f"), F("-")>>, <<PodDoc("web", "shop"), PodDoc("db", "shop"), Doc("deployment", "api", "shop", {})>>),
     Given(<<W("apply"), F("-f"), F("-")>>, <<Doc("List", None, None, {PodDoc("web", "shop"), PodDoc("dns", "kube-system")})>>)}
Listed == Given(<<W("apply"), F("-f"), F("-")>>, <<PodDoc("web", "shop"), Doc("List", None, None, {PodDoc("db", "shop")})>>)

Job(client, cmd, r, bypass) ==
    [client |-> client, cmd |-> cmd, undo |-> Cmd(<< >>), role |-> r, bypass |-> bypass, gate |-> "allow", rung |-> "L2"]
Roles == {"readonly", "operator", "admin", "superadmin"}
Scale == C(<<W("scale"), WS("deployment", "api"), FV("--replicas", "3")>>)
Chats == {Job("chat", c, r, b) : c \in Writes, r \in Roles, b \in BOOLEAN}
         \cup {Job("chat", c, r, FALSE) : c \in Reads, r \in Roles}
         \cup {Job("chat", c, r, b) : c \in Unlike, r \in {"operator", "admin"}, b \in BOOLEAN}
Verbs == {Job("verb", c, "readonly", FALSE) : c \in Reads \cup {Scale}}
Plans == {[Job("plan", c, r, TRUE) EXCEPT !.gate = g, !.rung = l] :
            c \in {Scale, C(<<W("delete"), W("namespace"), W("shop")>>)}, r \in {"readonly", "admin"}, g \in {"allow", "deny"}, l \in {"L2", "L4"}}
Transactions == {[Job("transaction", Scale, r, b) EXCEPT !.undo = u] :
                    r \in {"readonly", "admin"}, b \in BOOLEAN, u \in {Scale, Cmd(<< >>)}}
Sandboxed == {Job("sandbox", c, r, TRUE) : c \in {Scale, C(<<W("get"), W("pods"), FV("--as-group", "g")>>)},
                                           r \in {"read-only", "namespace-write", "readonly"}}
MCJobs == Chats \cup Verbs \cup Plans \cup Transactions \cup Sandboxed \cup {Job("fix", Scale, "admin", FALSE)}
(* What the claims that do not hold are about.                             *)
ClaimedJobs ==
    {Job("chat", c, "admin", FALSE) : c \in {Listed, Repeated, EveryNamespace, TwoDryRuns}}
    \cup {Job("plan", InPod, "admin", TRUE)}
=============================================================================
