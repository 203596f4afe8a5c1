--------------------------- MODULE GuardedKubectl ---------------------------
(***************************************************************************)
(* run_kubectl (internal/kube/tool.go, filter.go, internal/nsguard): a     *)
(* command passes the gates of Plan, waits for a person when it must, arms *)
(* a rollback point object by object, runs, and its output is filtered,    *)
(* bounded and labelled.  The cluster is shared: others change it between  *)
(* any two of these steps.  kubectl and the API server are external.       *)
(***************************************************************************)
EXTENDS CommandLine

CONSTANTS
    Objects,       \* {[kind, name, ns]}; a namespace is an object in itself
    Singular,      \* the kind a spelling of it names
    DefaultNs,     \* the namespace of the kubeconfig's context
    KubectlValueFlags, \* the flags kubectl gives the next token to
    OthersBound    \* bound: changes by others

ASSUME GuardAssumption ==
    /\ \A o \in Objects : /\ o.name # None
                          /\ o.kind = "namespace" => o.ns = None
    /\ \A w \in DOMAIN Singular : Singular[w] = "namespace" => w \in namespaceKinds
    /\ OthersBound \in Nat

Absent == 0      \* versions of an object
Original == 1
ByTool == 2
ByOthers == 3

NoCall == [cmd |-> [args |-> << >>, stdin |-> << >>, pipes |-> FALSE], role |-> None, bypass |-> FALSE, identity |-> None]
NoAnswer == [said |-> None, rows |-> {}, note |-> None, cut |-> FALSE]
NoPoint == [states |-> << >>, restorable |-> FALSE, intended |-> 0]

VARIABLES
    ver,       \* ver[o]: the version of each object
    others,    \* what OthersBound counts
    call,      \* the command in hand
    pc,        \* "idle", "approval", "capture", "run" or "answered"
    todo,      \* capture: targets not yet read
    point,     \* the rollback point being armed, then recorded
    answer,    \* what the command said
    long,      \* the output is longer than MaxOutput
    sent,      \* calls that reached kubectl
    approvals, \* calls a person approved
    effects    \* <<call, object>>: what kubectl changed for the tool

guardVars == <<ver, others, call, pc, todo, point, answer, long, sent, approvals, effects>>

-----------------------------------------------------------------------------
(* kubectl and the API server, external.  kubectl knows every flag that    *)
(* takes a value; its flags end at the first -- that is no value, and what *)
(* follows are words; of a flag given twice the last one counts.           *)

NoValues(toks) == (2 .. Len(toks)) \ Swallowed(toks, KubectlValueFlags)
BeforeEnd(toks, ps) == {i \in ps : \A e \in ps : toks[e] = F("--") => i < e}
AfterEnd(toks, ps) == {i \in 2 .. Len(toks) : \E e \in ps : toks[e] = F("--") /\ e < i}
ReadAsFlag(toks, names) == {i \in BeforeEnd(toks, NoValues(toks)) : toks[i].dash /\ toks[i].name \in names}
WordsAmong(toks, ps) == {i \in BeforeEnd(toks, ps) : ~toks[i].dash} \cup AfterEnd(toks, ps)
ReadAsWord(toks) == WordsAmong(toks, NoValues(toks))

LastValue(toks, ps) == IF ps = {} THEN None ELSE ValueAt(toks, Max(ps))
OrDefault(ns) == IF ns = None THEN DefaultNs ELSE ns
NsIn(toks) == OrDefault(LastValue(toks, ReadAsFlag(toks, {"-n", "--namespace"})))
LastSays(toks, ps, values) == ps # {} /\ toks[Max(ps)].value \in values
AllIn(toks) == LastSays(toks, ReadAsFlag(toks, {"-A", "--all-namespaces"}), {None, "true", "1"})
DryRun(toks) == LastSays(toks, ReadAsFlag(toks, {"--dry-run"}), {None, "client", "server"})
FromStdin(toks) == \E i \in ReadAsFlag(toks, {"-f", "--filename"}) : ValueAt(toks, i) = "-"

First(toks, ps) == IF ps = {} THEN W(None) ELSE toks[Min(ps)]
AfterFirst(ps) == {i \in ps : \E j \in ps : j < i}
VerbOf(tok) == IF tok.dash THEN None ELSE Verbatim(tok)
KubectlVerb(toks) == VerbOf(First(toks, ReadAsWord(toks)))
AfterVerb(toks) == AfterFirst(ReadAsWord(toks))
KubectlOperand(toks) == First(toks, AfterVerb(toks))
WithoutSub(verb, ps) == IF verb \in {"rollout", "set"} THEN AfterFirst(ps) ELSE ps
OperandsAt(toks) == WithoutSub(KubectlVerb(toks), AfterVerb(toks))
Mutates(toks) ==
    LET verb == KubectlVerb(toks)
    IN  /\ verb # None /\ verb \notin readOnlyVerbs
        /\ verb \in DOMAIN readOnlySubcommands => \A s \in readOnlySubcommands[verb] : KubectlOperand(toks) # W(s)

Kind(w) == IF w \in DOMAIN Singular THEN Singular[w] ELSE w
podVerbs == {"exec", "attach", "cp", "logs", "port-forward"}
(* The objects the words select: of each TYPE/NAME, of the first word's    *)
(* kind by name, or all of the kind; a change of all must be asked for.    *)
Selected(toks, ops, o) ==
    LET first == First(toks, ops)
        names == {toks[i] : i \in ops \ {Min(ops)}}
    IN  CASE first.value # None -> \E i \in ops : o.kind = Kind(toks[i].name) /\ o.name = toks[i].value
          [] first.value = None /\ KubectlVerb(toks) \in podVerbs -> o.kind = "pod" /\ o.name = first.name
          [] OTHER -> /\ o.kind = Kind(first.name)
                      /\ \/ W(o.name) \in names
                         \/ names = {} /\ (Mutates(toks) => ReadAsFlag(toks, {"--all", "-l", "--selector"}) # {})
OnTheLine(toks) ==
    {o \in Objects : /\ OperandsAt(toks) # {} /\ Selected(toks, OperandsAt(toks), o)
                     /\ AllIn(toks) \/ o.kind = "namespace" \/ o.ns = NsIn(toks)}
OfDocs(stdin, ns) == {o \in Objects : \E d \in UNION {{doc} \cup doc.items : doc \in ToSet(stdin)} :
                        /\ Kind(d.kind) = o.kind /\ d.name = o.name
                        /\ o.kind = "namespace" \/ (IF d.ns = None THEN ns ELSE d.ns) = o.ns}
(* A namespace goes with what is in it. *)
Inside(os) == os \cup {o \in Objects : \E n \in os : n.kind = "namespace" /\ o.ns = n.name}
WithInside(verb, os) == IF verb = "delete" THEN Inside(os) ELSE os
Touches(c) ==
    WithInside(KubectlVerb(c.args), IF FromStdin(c.args) THEN OfDocs(c.stdin, NsIn(c.args)) ELSE OnTheLine(c.args))
-----------------------------------------------------------------------------
(* Plan. *)

role(c) == IF c.role = None THEN "admin" ELSE c.role
IsMutation(cmd) ==
    LET verb == ExtractVerb(cmd.args)
    IN  verb \in DestructiveVerbs \/ DestructiveVerbsIn(cmd.args) # {} \/ IsWrite(verb, cmd.args)

blockedResourceHit(cmd) ==
    LET verb == ExtractVerb(cmd.args)
        blocked == UNION {ResourceSpellings(r) : r \in BlockedResources}
    IN  \E r \in {extractResourceType(verb, cmd.args)} \cup manifestKinds(cmd.stdin) : ResourceSpellings(r) \cap blocked # {}
allNamespacesHit(cmd) == isAllNamespaces(cmd.args) /\ IsWrite(ExtractVerb(cmd.args), cmd.args)
NamespacesNamed(cmd) ==
    {extractNamespace(cmd.args)} \cup targetedNamespaces(ExtractVerb(cmd.args), cmd.args) \cup manifestNamespaces(cmd.stdin)
checkProtected(cmd) ==
    blockedResourceHit(cmd) \/ allNamespacesHit(cmd) \/ NamespacesNamed(cmd) \cap BlockedNamespaces # {}

Refused(c) ==
    LET cmd == c.cmd
        verb == ExtractVerb(cmd.args)
        high == ({verb} \cup DestructiveVerbsIn(cmd.args)) \cap highRisk
    IN  \/ ConnectionFlagIn(cmd.args) /\ (c.identity = None \/ ~identityIsAuthorised(cmd.args, FV("--as", c.identity)))
        \/ verb \in rejectedVerbs \/ <<verb, operandAfterVerb(cmd.args)>> \in rejectedSubcommands
        \/ role(c) = "readonly" /\ IsMutation(cmd)
        \/ role(c) = "operator" /\ high # {}
        \/ externalManifestSource(verb, cmd.args)
        \/ checkProtected(cmd) /\ ~(role(c) = "superadmin" /\ ~blockedResourceHit(cmd))

HasDryRun(cmd) == \E i \in DOMAIN cmd.args : cmd.args[i] \in {F("--dry-run"), FV("--dry-run", "client"), FV("--dry-run", "server")}
(* The session's auto approve covers every mutation. *)
NeedsApprovalUnlessBypass(c) == IsMutation(c.cmd) /\ ~HasDryRun(c.cmd) /\ ~c.bypass
NeedsApproval(c) ==
    IsMutation(c.cmd) /\ ~HasDryRun(c.cmd) /\ (~c.bypass \/ AlwaysConfirm(ExtractVerb(c.cmd.args), c.cmd.args))

Say(said, rows, note, cut) == [said |-> said, rows |-> rows, note |-> note, cut |-> cut]
rollbackMaxTargets == 2   \* 5 in the code: scaled down with the manifests

(* Execute begins: a mutation arms a rollback point first. *)
Targets(c) == LET cmd == c.cmd verb == ExtractVerb(cmd.args)
              IN  IF IsWrite(verb, cmd.args) /\ ~HasDryRun(cmd) THEN rollbackTargets(verb, cmd.args, cmd.stdin) ELSE << >>
BeginExecute(c) ==
    LET ts == Targets(c)
    IN  /\ pc' = IF ts = << >> THEN "run" ELSE "capture"
        /\ todo' = SubSeq(ts, 1, IF Len(ts) < rollbackMaxTargets THEN Len(ts) ELSE rollbackMaxTargets)
        /\ point' = [states |-> << >>, restorable |-> TRUE, intended |-> Len(ts)]

Plan(c) ==
    /\ call' = c
    /\ long' \in (IF IsMutation(c.cmd) THEN {FALSE} ELSE BOOLEAN)
    /\ IF Refused(c)
       THEN pc' = "answered" /\ answer' = Say("refused", {}, None, FALSE) /\ UNCHANGED <<todo, point>>
       ELSE /\ answer' = NoAnswer
            /\ IF NeedsApproval(c) THEN pc' = "approval" /\ UNCHANGED <<todo, point>> ELSE BeginExecute(c)
    /\ UNCHANGED <<ver, others, sent, approvals, effects>>

Approve ==
    /\ pc = "approval" /\ approvals' = approvals \cup {call} /\ BeginExecute(call)
    /\ UNCHANGED <<ver, others, call, answer, long, sent, effects>>
Decline ==
    /\ pc = "approval" /\ pc' = "answered" /\ answer' = Say("cancelled", {}, None, FALSE)
    /\ UNCHANGED <<ver, others, call, todo, point, long, sent, approvals, effects>>
-----------------------------------------------------------------------------
(* captureRollbackPoint: one read per target, each of which can fail or    *)
(* come back changed by the redaction; what is recorded says which.        *)

ReadBy(target) == Touches([args |-> target, stdin |-> << >>])
Readable(target) == ReadBy(target) # {} /\ \A o \in ReadBy(target) : ver[o] # Absent
Capture(outcome) ==
    /\ pc = "capture" /\ todo # << >>
    /\ outcome \in {"whole", "redacted", "failed"} /\ (Readable(Head(todo)) \/ outcome = "failed")
    /\ todo' = Tail(todo)
    /\ point' = IF outcome = "failed" THEN point
                ELSE [point EXCEPT !.states = Append(@, [o \in ReadBy(Head(todo)) |-> IF outcome = "whole" THEN ver[o] ELSE Absent]),
                                   !.restorable = @ /\ outcome = "whole"]
    /\ UNCHANGED <<ver, others, call, pc, answer, long, sent, approvals, effects>>
ArmedAnyway(p) == p \* a variant: what was read is the whole
Armed(p) == [p EXCEPT !.restorable = @ /\ Len(p.states) = p.intended]
ArmPoint ==
    /\ pc = "capture" /\ todo = << >>
    /\ pc' = "run" /\ point' = IF point.states = << >> THEN NoPoint ELSE Armed(point)
    /\ UNCHANGED <<ver, others, call, todo, answer, long, sent, approvals, effects>>
-----------------------------------------------------------------------------
(* The filters.  `shape` is what is left of kubectl's layout: a table or a *)
(* description has rows, a document parses, and grep breaks a document.    *)

fixedShapeFormats == {None, "wide", "json", "yaml"}
IsNamespaceListing(toks) == extractResourceType(ExtractVerb(toks), toks) \in namespaceKinds
Structured(f) == f \in {"json", "yaml"}
Parses(cmd, one) == ~cmd.pipes /\ ~one
RowNamespace(o) == IF o.kind = "namespace" THEN o.name ELSE o.ns

(* The text note may go missing. *)
notingSilently(dropped, place) == None
(* noting and Annotate: rows withheld are declared, in the text or inside  *)
(* the document.                                                           *)
noting(dropped, place) == IF dropped = {} THEN None ELSE place

Unfilterable(cmd, one) ==
    LET f == Format(cmd.args)
        verb == ExtractVerb(cmd.args)
    IN  \/ IsNamespaceListing(cmd.args) /\ verb # "describe"
            /\ (IF Structured(f) THEN ~Parses(cmd, one) ELSE f \notin fixedShapeFormats \cup {"name"})
        \/ isAllNamespaces(cmd.args)
            /\ (IF Structured(f) THEN ~Parses(cmd, FALSE) ELSE f = "name" \/ (verb # "describe" /\ f \notin fixedShapeFormats))
Filtered(cmd, rows, one) ==
    LET listing == IsNamespaceListing(cmd.args) \/ isAllNamespaces(cmd.args)
        dropped == IF listing THEN {o \in rows : RowNamespace(o) \in BlockedNamespaces} ELSE {}
    IN  IF listing /\ Unfilterable(cmd, one) THEN Say("refused", {}, None, FALSE)
        ELSE Say("rows", rows \ dropped,
                 noting(dropped, IF Structured(Format(cmd.args)) THEN "inside" ELSE "after"), FALSE)

(* Too long: the end goes, a note after the rows with it, and the cut is   *)
(* declared.  Refusals are short.                                          *)
CutSilently(a, kept) == [a EXCEPT !.rows = kept, !.note = IF @ = "after" THEN None ELSE @]
Cut(a, kept) == [a EXCEPT !.rows = kept, !.note = IF @ = "after" THEN None ELSE @, !.cut = TRUE]
Bounded(a, kept) == IF long /\ a.said \in {"rows", "exited"} THEN Cut(a, kept) ELSE a

(* Run: kubectl is started with the words of the call.                     *)
Shown == {o \in Touches(call.cmd) : ver[o] # Absent}
After(os) == [o \in Objects |-> IF o \in os THEN (IF KubectlVerb(call.cmd.args) = "delete" THEN Absent ELSE ByTool) ELSE ver[o]]
Change(os) ==
    IF Mutates(call.cmd.args) /\ ~DryRun(call.cmd.args)
    THEN ver' = After(os) /\ effects' = effects \cup {<<call, o>> : o \in os}
    ELSE UNCHANGED <<ver, effects>>
Whole == Touches(call.cmd)

(* The ways a run ends: no binary, no answer in time, an exit code that is *)
(* an error or an answer, and success.                                     *)
RunEnds == {"missing", "timeout", "exit", "answer", "ok"}
Ending(kind, write, listed) ==
    IF kind \in {"missing", "timeout"} THEN Say("error", {}, None, FALSE)
    ELSE IF kind = "exit"
    THEN IF listed.said = "refused" THEN Say("exited", {}, "after", FALSE) ELSE [listed EXCEPT !.said = "exited"]
    ELSE IF write THEN Say("text", {}, None, FALSE) ELSE listed
Outcome(kind, part) ==
    LET cmd == call.cmd
        write == IsWrite(ExtractVerb(cmd.args), cmd.args)
        one == Cardinality(OperandsAt(cmd.args)) > 1
    IN  Ending(kind, write, Filtered(cmd, IF write THEN {} ELSE Shown \cap part, one))
Run(kind, part, kept) ==
    /\ pc = "run" /\ pc' = "answered"
    /\ kind \in RunEnds /\ part \subseteq Whole /\ kept \subseteq Outcome(kind, part).rows
    /\ kind = "missing" => part = {}
    /\ kind = "answer" => part = Whole /\ ExitIsAnAnswer(ExtractVerb(call.cmd.args), call.cmd.args)
    /\ kind = "ok" => part = Whole /\ (Shown = Whole \/ Mutates(call.cmd.args) \/ Cardinality(OperandsAt(call.cmd.args)) = 1)
    /\ ~long => kept = Outcome(kind, part).rows
    /\ Change(part)
    /\ sent' = IF kind = "missing" THEN sent ELSE sent \cup {call}
    /\ answer' = Bounded(Outcome(kind, part), kept)
    /\ UNCHANGED <<others, call, todo, point, long, approvals>>

(* Others change the cluster under it. *)
OthersChange(o) ==
    /\ others < OthersBound /\ others' = others + 1
    /\ ver' = [ver EXCEPT ![o] = IF @ = Absent THEN ByOthers ELSE Absent]
    /\ UNCHANGED <<call, pc, todo, point, answer, long, sent, approvals, effects>>

GuardInit ==
    /\ ver \in {[o \in Objects |-> Original]}
    /\ others = 0 /\ call = NoCall /\ pc = "idle" /\ todo = << >> /\ point = NoPoint
    /\ answer = NoAnswer /\ long = FALSE /\ sent = {} /\ approvals = {} /\ effects = {}

GuardStep ==
    \/ Approve \/ Decline \/ ArmPoint
    \/ \E x \in {"whole", "redacted", "failed"} : Capture(x)
    \/ pc = "run" /\ \E k \in RunEnds, p \in SUBSET Whole : \E q \in SUBSET Outcome(k, p).rows : Run(k, p, q)
    \/ \E o \in Objects : OthersChange(o)
=============================================================================
