---------------------------- MODULE CommandLine ----------------------------
(***************************************************************************)
(* How kube-sre reads a kubectl command line and its manifest (package     *)
(* internal/kube: flags.go, guard.go, manifest.go, and rollbackTargets of  *)
(* tool.go).  Every gate reads the verb and the operand from one walk over *)
(* the tokens, so the walk is the heart of this module.                    *)
(*                                                                         *)
(* A command line is a sequence of tokens, the program's name first.  A    *)
(* word is what stands before and after its slash; a flag is its name and  *)
(* the value attached to it (--flag=value, or an attached shorthand).  A   *)
(* document of a manifest is its kind, name, namespace and list items.     *)
(***************************************************************************)
EXTENDS Naturals, Sequences, FiniteSets, SequencesExt, Gathering

CONSTANTS
    Plurals,            \* <<singular, plural>>: the two numbers of a resource name
    BlockedNamespaces,  \* KUBECTL_BLOCKED_NAMESPACES
    BlockedResources    \* KUBECTL_BLOCKED_RESOURCES

None == ""
W(w) == [dash |-> FALSE, name |-> w, value |-> None]
WS(w, rest) == [dash |-> FALSE, name |-> w, value |-> rest]
F(n) == [dash |-> TRUE, name |-> n, value |-> None]
FV(n, v) == [dash |-> TRUE, name |-> n, value |-> v]
IsToken(t) == t.dash \in BOOLEAN /\ t = [dash |-> t.dash, name |-> t.name, value |-> t.value]
IsLine(toks) == toks \in Seq(ToSet(toks)) /\ \A i \in DOMAIN toks : IsToken(toks[i])
Doc(kind, name, ns, items) == [kind |-> kind, name |-> name, ns |-> ns, items |-> items]

-----------------------------------------------------------------------------
(* Tables. *)

valueFlags == {"-n", "--namespace", "-o", "--output", "--context", "--server", "--token", "--as", "-l", "--selector",
               "-f", "--filename", "--request-timeout"}
connectionFlags == {"--as", "--as-group", "--as-uid", "--user", "--token", "--server", "-s", "--kubeconfig", "--context",
                    "--cluster", "--insecure-skip-tls-verify"}
highRisk == {"delete", "drain", "replace", "taint", "cp", "debug"}
mediumRisk == {"patch", "apply", "scale", "exec", "cordon", "uncordon", "create", "run", "set", "label", "annotate",
               "expose", "autoscale", "port-forward", "attach", "evict", "certificate"}
DestructiveVerbs == highRisk \cup mediumRisk
confirmDeleteTargets == {"namespace", "namespaces", "ns", "pv", "persistentvolume", "persistentvolumes", "crd",
                         "customresourcedefinition", "customresourcedefinitions"}
confirmSetSubcommands == {"image", "resources"}
readOnlyVerbs == {"get", "describe", "logs", "top", "diff", "explain", "events", "version", "cluster-info",
                  "api-resources", "api-versions", "wait", "kustomize", "completion", "help", "options"}
readOnlySubcommands ==
    [rollout |-> {"status", "history"}, config |-> {"view", "get-contexts", "current-context", "get-clusters", "get-users"},
     certificate |-> {}, auth |-> {"can-i", "whoami"}]
rejectedVerbs == {"edit"}
rejectedSubcommands == {<<"cluster-info", "dump">>}
resourceVerbs == {"get", "describe", "delete", "edit", "patch", "apply", "create", "replace", "label", "annotate"}
namespaceKinds == {"namespace", "namespaces", "ns"}
manifestSourceFlags == {"-f", "--filename", "-k", "--kustomize"}
followVerbs == {"logs"}
resourceAliases == [sa |-> "serviceaccounts", secret |-> "secrets", serviceaccount |-> "serviceaccounts"]
-----------------------------------------------------------------------------
(* The walk. *)

(* The flags among names that take the next token as their value, and the  *)
(* positions they swallow: an odd run of such flags stands before them.    *)
Takers(toks, names) == {i \in 2 .. Len(toks) : toks[i].dash /\ toks[i].value = None /\ toks[i].name \in names}
AfterOddRun(takers) ==
    {i \in {j + 1 : j \in takers} :
        \E k \in 1 .. i - 1 : k % 2 = 1 /\ (i - k .. i - 1) \subseteq takers /\ i - k - 1 \notin takers}
Swallowed(toks, names) == AfterOddRun(Takers(toks, names))

(* The positions from start on that are neither a flag nor a flag's value. *)
wordsFrom(toks, start) == {i \in start .. Len(toks) : ~toks[i].dash} \ Swallowed(toks, valueFlags)

(* The first position that is no flag, a flag's value or not. *)
skipFlagsNotValues(toks, start) ==
    LET ps == {i \in start .. Len(toks) : ~toks[i].dash}
    IN  IF ps = {} THEN Len(toks) + 1 ELSE Min(ps)

skipFlags(toks, start) ==
    LET ps == wordsFrom(toks, start)
    IN  IF ps = {} THEN Len(toks) + 1 ELSE Min(ps)

At(toks, i) == IF i <= Len(toks) THEN toks[i] ELSE W(None)
(* A word with a slash is in no table of verbs. *)
Verbatim(tok) == IF tok.value = None THEN tok.name ELSE "type/name"
ExtractVerb(toks) == Verbatim(At(toks, skipFlags(toks, 2)))
(* The operand is the token after the verb. *)
operandIndex(toks) == skipFlags(toks, skipFlags(toks, 2) + 1)
operandAfterVerb(toks) == At(toks, operandIndex(toks)).name

ValueAt(toks, i) == IF toks[i].value # None THEN toks[i].value ELSE At(toks, i + 1).name
(* FlagValue: the attached value, or the next token, of the first match.   *)
FlagValue(toks, names) ==
    LET ps == {i \in DOMAIN toks : toks[i].dash /\ toks[i].name \in names}
    IN  IF ps = {} THEN None ELSE ValueAt(toks, Min(ps))
extractNamespace(toks) == FlagValue(toks, {"-n", "--namespace"})
Format(toks) == FlagValue(toks, {"-o", "--output"})

(* The first such flag decides. *)
isAllNamespaces(toks) ==
    LET ps == {i \in DOMAIN toks : toks[i] = F("-A") \/ (toks[i].dash /\ toks[i].name = "--all-namespaces")}
    IN  ps # {} /\ toks[Min(ps)].value \notin {"false", "0", "no"}

extractResourceType(verb, toks) == IF verb \in resourceVerbs THEN operandAfterVerb(toks) ELSE None

LastSegment(tok) == IF tok.value # None THEN tok.value ELSE tok.name
targetedNamespaces(verb, toks) ==
    LET at == operandIndex(toks)
    IN  IF extractResourceType(verb, toks) \notin namespaceKinds \/ at > Len(toks) THEN {}
        ELSE {toks[at].value} \cup {LastSegment(toks[i]) : i \in wordsFrom(toks, at + 1)}

(* Every spelling of a resource type: short aliases and both numbers.      *)
numberForms(w) == {w} \cup {p[1] : p \in {q \in Plurals : q[2] = w}} \cup {p[2] : p \in {q \in Plurals : q[1] = w}}
ResourceSpellings(w) ==
    IF w = None THEN {}
    ELSE numberForms(w) \cup (IF w \in DOMAIN resourceAliases THEN numberForms(resourceAliases[w]) ELSE {})
-----------------------------------------------------------------------------
(* Connection, identity, writes and risk. *)

IsIdentity(tok) == tok.dash /\ tok.name \in connectionFlags
ConnectionFlagIn(toks) == \E i \in DOMAIN toks : IsIdentity(toks[i])
identityIsAuthorised(toks, authorised) ==
    LET found == {i \in DOMAIN toks : IsIdentity(toks[i])}
    IN  Cardinality(found) = 1 /\ \A i \in found : toks[i] = authorised

(* The subcommand that decides is the first word after the first token     *)
(* spelled like the verb.                                                  *)
IsWrite(verb, toks) ==
    LET like == {i \in DOMAIN toks : toks[i] = W(verb)}
        sub == IF like = {} THEN W(None) ELSE At(toks, skipFlags(toks, Min(like) + 1))
    IN  IF verb = None THEN FALSE
        ELSE IF verb \in DOMAIN readOnlySubcommands THEN \A s \in readOnlySubcommands[verb] : sub # W(s)
        ELSE verb \notin readOnlyVerbs

Classify(verb, toks) ==
    CASE verb \in highRisk -> "high"
      [] verb \in mediumRisk \/ (verb \notin highRisk /\ IsWrite(verb, toks)) -> "medium"
      [] OTHER -> "low"

AlwaysConfirm(verb, toks) ==
    \/ verb = "drain"
    \/ verb = "set" /\ operandAfterVerb(toks) \in confirmSetSubcommands
    \/ verb = "delete" /\ operandAfterVerb(toks) \in confirmDeleteTargets

DestructiveVerbsIn(toks) ==
    {toks[i].name : i \in {j \in 2 .. Len(toks) : ~toks[j].dash /\ toks[j].value = None}} \cap DestructiveVerbs

ExitIsAnAnswer(verb, toks) == verb = "diff" \/ (verb = "auth" /\ operandAfterVerb(toks) = "can-i")
-----------------------------------------------------------------------------
(* Manifests. *)

externalManifestSource(verb, toks) ==
    \E i \in 2 .. Len(toks) :
        /\ toks[i].dash /\ toks[i].name \in manifestSourceFlags
        /\ ~(toks[i].name \in {"-f", "--filename"} /\ verb \in followVerbs)
        /\ ValueAt(toks, i) # "-"

(* Without the items of a list. *)
manifestDocsTop(stdin) == ToSet(stdin)
(* Every document, and the items of a list, one list in another at most.   *)
manifestDocs(stdin) ==
    LET top == ToSet(stdin)
        inner == UNION {d.items : d \in top}
    IN  top \cup inner \cup UNION {d.items : d \in inner}
manifestKinds(stdin) == {d.kind : d \in manifestDocs(stdin)} \ {None}
manifestNamespaces(stdin) == {d.ns : d \in manifestDocs(stdin)} \ {None}

(* rollbackTargets: the reads that would show what a mutation touches.     *)
(* From a manifest, one per named document; otherwise the command's words  *)
(* with the verb dropped, where any flag without an attached value is      *)
(* taken to have one, and -n stays.                                        *)
KeptFrom(toks, verb) ==
    LET tail == SelectSeq(Tail(toks), LAMBDA t : t # W(verb))
        walk[i \in 1 .. Len(tail) + 2] ==
            IF i > Len(tail) THEN << >>
            ELSE IF tail[i] \in {F("-n"), F("--namespace")} \/ ~tail[i].dash THEN <<tail[i]>> \o walk[i + 1]
            ELSE walk[IF tail[i].value # None \/ tail[i].name = "--all" THEN i + 1 ELSE i + 2]
    IN  walk[1]
WithoutSubcommand(verb, toks) ==
    IF verb # "rollout" THEN toks
    ELSE LET at == operandIndex(toks) IN IF at > Len(toks) THEN toks ELSE RemoveAt(toks, at)
rollbackTargets(verb, toks, stdin) ==
    IF stdin # << >>
    THEN LET named == Picked(stdin, {i \in DOMAIN stdin : stdin[i].kind # None /\ stdin[i].name # None})
         IN  [i \in DOMAIN named |->
                 <<W("kubectl"), W("get"), W(named[i].kind), W(named[i].name)>>
                 \o (IF named[i].ns = None THEN << >> ELSE <<FV("-n", named[i].ns)>>)]
    ELSE LET kept == KeptFrom(WithoutSubcommand(verb, toks), verb)
         IN  IF kept = << >> THEN << >> ELSE <<<<W("kubectl"), W("get")>> \o kept>>
=============================================================================
