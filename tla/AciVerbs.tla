------------------------------ MODULE AciVerbs ------------------------------
(***************************************************************************)
(* The agent-computer interface over the guarded kubectl (internal/aci):   *)
(* the read verbs, the mutation chokepoint, the transactional executor     *)
(* with its health oracle, the capability sandbox, and the fix emitted as  *)
(* a pull request.  Everything here reads the tool's answer, which is      *)
(* text, back into a verdict.                                              *)
(*                                                                         *)
(* A job is what one client does: a chat command, a verb, a mutation       *)
(* planned, a mutation executed as a transaction, a command run in the     *)
(* sandbox, or a fix proposed.                                             *)
(***************************************************************************)
EXTENDS GuardedKubectl

CONSTANTS
    Jobs,      \* {[client, cmd, undo, role, bypass, gate, rung]}
    App        \* the deployment the oracle asks about, an object

(* What a client hands over are commands.                                  *)
ASSUME JobsAssumption ==
    /\ App \in Objects
    /\ \A j \in Jobs : \A c \in {j.cmd, j.undo} :
          DOMAIN c = {"args", "stdin", "pipes"} /\ IsLine(c.args) /\ c.stdin \in Seq(ToSet(c.stdin))

VARIABLES
    job,       \* the job of this behaviour
    step,      \* where the client stands
    result,    \* what it concluded
    facts      \* what was true: the oracle's last look, the verdict on the command

vars == <<guardVars, job, step, result, facts>>

NoResult == [status |-> None, truncated |-> FALSE]
-----------------------------------------------------------------------------
(* ClassifyOutput: the first line that says anything decides.  The exit    *)
(* marker stands first, a refusal is all there is, and the sentence about  *)
(* withheld rows, last, begins like a refusal.                             *)

ClassifyAnywhere(a) == IF a.said \in {"refused", "error"} THEN "refused" ELSE "ok"
ClassifyOutput(a) ==
    IF a.said = "exited" THEN "failed"
    ELSE IF a.said \in {"refused", "error"} \/ (a.said = "rows" /\ a.note = "after") THEN "refused" ELSE "ok"
(* "(no output)" is no verdict of success; a client that was told nothing. *)
ReachedCluster(a) == a.said \notin {"refused", "error"} /\ a.note # "after"

(* ClassifyRollback, by the first word after kubectl, wherever flags stand. *)
versionedVerbs == {"scale", "rollout", "set", "autoscale"}
declarativeVerbs == {"apply", "patch", "edit", "replace", "label", "annotate"}
irreversibleTarget == {"pvc", "pv", "namespace", "ns", "crd", "statefulset", "sts"}
ClassifyRollback(cmd) ==
    LET toks == cmd.args
        verb == At(toks, 2).name
        mentions == {toks[i].name : i \in 3 .. Len(toks)} \cup {toks[i].value : i \in 3 .. Len(toks)}
    IN  CASE verb = "delete" -> IF mentions \cap irreversibleTarget # {} THEN "irreversible" ELSE "versioned"
          [] verb \in versionedVerbs -> "versioned"
          [] verb \in declarativeVerbs -> "declarative"
          [] OTHER -> "irreversible"

(* Any class that earned its rung is automatic. *)
DecideWriteByRung(gate, cmd, rung) ==
    IF gate = "deny" THEN "deny" ELSE IF rung = "L4" THEN "auto" ELSE "approve"
DecideWrite(gate, cmd, rung) ==
    IF gate = "deny" THEN "deny"
    ELSE IF rung = "L4" /\ ClassifyRollback(cmd) # "irreversible" THEN "auto" ELSE "approve"

withServerDryRun(cmd) ==
    LET toks == cmd.args
        drop == {i \in DOMAIN toks : \/ toks[i].name = "--dry-run"
                                     \/ i > 1 /\ toks[i - 1] = F("--dry-run") /\ toks[i].name \in {"client", "server", "none"}}
    IN  [cmd EXCEPT !.args = Picked(toks, DOMAIN toks \ drop) \o <<FV("--dry-run", "server")>>]
-----------------------------------------------------------------------------
Cmd(args) == [args |-> args, stdin |-> << >>, pipes |-> FALSE]
Issue(cmd, r, bypass, identity) == Plan([cmd |-> cmd, role |-> r, bypass |-> bypass, identity |-> identity])
GetApp == Cmd(<<W("kubectl"), W("get"), W(App.kind), W(App.name), FV("-n", App.ns)>>)
Goto(s) == step' = s
Conclude(s) == step' = "end" /\ result' = [result EXCEPT !.status = s]
Same == UNCHANGED <<job>>
Hold == UNCHANGED guardVars

(* A command of a chat, or a read verb: the verbs run as readonly, and a   *)
(* verb that built a mutating command is a contract error, never sent.     *)
Ask ==
    /\ step = "begin" /\ job.client = "chat"
    /\ Issue(job.cmd, job.role, job.bypass, None) /\ Goto("told")
    /\ Same /\ UNCHANGED <<result, facts>>
IsReadOnly(cmd) == LET v == ExtractVerb(cmd.args) IN v # None /\ ~IsWrite(v, cmd.args)
Verb ==
    /\ step = "begin" /\ job.client = "verb"
    /\ IF IsReadOnly(job.cmd)
       THEN Issue(job.cmd, "readonly", FALSE, None) /\ Goto("told") /\ UNCHANGED <<result, facts>>
       ELSE Conclude("contract") /\ Hold /\ UNCHANGED facts
    /\ Same
(* The tail of Verbs.run: an answer that is not ok is the error, else the  *)
(* window shows a prefix and a cursor when lines are left.                 *)
VerbTail(shown) ==
    /\ step = "told" /\ pc = "answered" /\ job.client = "verb" /\ shown \subseteq answer.rows
    /\ IF ClassifyOutput(answer) # "ok" THEN Conclude("failed")
       ELSE IF answer.rows = {} THEN Conclude("empty")
       ELSE step' = "end" /\ result' = [status |-> "body", truncated |-> shown # answer.rows]
    /\ facts' = [facts EXCEPT !.shown = shown]
    /\ Same /\ Hold
Told ==
    /\ step = "told" /\ pc = "answered" /\ job.client \in {"chat", "sandbox"}
    /\ Conclude(answer.said)
    /\ Same /\ Hold /\ UNCHANGED facts

(* Sandbox.RunAs: the command runs as the capability's account, approval   *)
(* bypassed, or not at all.                                                *)
ValidRoles == {"read-only", "namespace-write", "never-cluster-admin"}
ownIdentityFlag(cmd) == \E i \in DOMAIN cmd.args : cmd.args[i].dash /\ cmd.args[i].name \in {"--as", "--as-group", "--as-uid"}
ServiceAccount(r) == IF r = "namespace-write" THEN "writer" ELSE "reader"
Unbounded(r, cmd) == r \notin ValidRoles \/ ownIdentityFlag(cmd)
RunAs ==
    /\ step = "begin" /\ job.client = "sandbox"
    /\ IF Unbounded(job.role, job.cmd)
       THEN Conclude("sandbox_error") /\ Hold
       ELSE /\ Issue([job.cmd EXCEPT !.args = Append(@, FV("--as", ServiceAccount(job.role)))], "admin", TRUE, ServiceAccount(job.role))
            /\ Goto("told") /\ UNCHANGED result
    /\ Same /\ UNCHANGED facts

(* PlanMutation: decide, then validate on the server unless denied.        *)
PlanMutation ==
    /\ step = "begin" /\ job.client = "plan"
    /\ LET d == DecideWrite(job.gate, job.cmd, job.rung)
       IN  IF d = "deny" THEN Conclude("deny") /\ Hold
           ELSE /\ Issue(withServerDryRun(job.cmd), job.role, TRUE, None)
                /\ step' = "validate" /\ result' = [result EXCEPT !.status = d]
    /\ Same /\ UNCHANGED facts
Validated ==
    /\ step = "validate" /\ pc = "answered"
    /\ Conclude(IF result.status = "auto" /\ ~ReachedCluster(answer) THEN "approve" ELSE result.status)
    /\ facts' = [facts EXCEPT !.reached = answer.said \notin {"refused", "error"}]
    /\ Same /\ Hold

(* ExecuteTransactional: apply, look, and roll back what did not help.     *)
Apply ==
    /\ step = "begin" /\ job.client = "transaction"
    /\ Issue(job.cmd, job.role, job.bypass, None) /\ Goto("applied")
    /\ Same /\ UNCHANGED <<result, facts>>
Applied ==
    /\ step = "applied" /\ pc = "answered"
    /\ facts' = [facts EXCEPT !.applied = answer.said]
    /\ \/ ClassifyOutput(answer) = "refused" /\ Conclude("apply_refused") /\ Hold
       \/ ClassifyOutput(answer) = "failed" /\ Conclude("apply_failed") /\ Hold
       \/ ClassifyOutput(answer) = "ok" /\ Issue(GetApp, "readonly", FALSE, None) /\ Goto("looked") /\ UNCHANGED result
    /\ Same
(* The oracle turns every unreadable answer into not ready. *)
EvaluatedAlways(a) == TRUE
Evaluated(a) == ClassifyOutput(a) = "ok"
Look(ready) ==
    /\ step = "looked" /\ pc = "answered"
    /\ ready => App \in answer.rows /\ ver[App] # Absent
    /\ facts' = [facts EXCEPT !.ready = ready, !.saw = ClassifyOutput(answer) = "ok"]
    /\ \/ ~Evaluated(answer) /\ Conclude("verify_inconclusive") /\ Hold
       \/ Evaluated(answer) /\ ready /\ Conclude("committed") /\ Hold
       \/ Evaluated(answer) /\ ~ready /\ job.undo.args = << >> /\ Conclude("verify_failed_no_rollback") /\ Hold
       \/ /\ Evaluated(answer) /\ ~ready /\ job.undo.args # << >>
          /\ Issue(job.undo, job.role, job.bypass, None) /\ Goto("undone") /\ UNCHANGED result
    /\ Same
Undone ==
    /\ step = "undone" /\ pc = "answered"
    /\ Conclude(IF ClassifyOutput(answer) = "refused" THEN "rollback_refused"
                ELSE IF ClassifyOutput(answer) = "failed" THEN "rollback_failed" ELSE "rolled_back")
    /\ facts' = [facts EXCEPT !.undone = answer.said]
    /\ Same /\ Hold

(* ProposeFix, MakeFixPR and OpenPR: the model's repair, the push, the     *)
(* pull request.  An empty diff says whether a repair was made.            *)
ProposeFix(repaired, same) == repaired \/ same
Fix(repaired, same, pushed, gh) ==
    /\ step = "begin" /\ job.client = "fix" /\ ProposeFix(repaired, same)
    /\ Conclude(IF same THEN (IF repaired THEN "unchanged" ELSE "unresolved")
                ELSE IF ~pushed THEN "push_failed" ELSE IF gh THEN "opened" ELSE "pushed")
    /\ facts' = [facts EXCEPT !.repaired = repaired]
    /\ Same /\ Hold
-----------------------------------------------------------------------------
Init ==
    /\ GuardInit
    /\ job \in Jobs
    /\ step = "begin" /\ result = NoResult
    /\ facts = [applied |-> None, undone |-> None, ready |-> FALSE, saw |-> FALSE, reached |-> FALSE, repaired |-> FALSE, shown |-> {}]

Tool == GuardStep /\ UNCHANGED <<job, step, result, facts>>
Client ==
    \/ Ask \/ Told \/ Verb \/ RunAs \/ PlanMutation \/ Validated \/ Apply \/ Applied \/ Undone
    \/ \E s \in SUBSET answer.rows : VerbTail(s)
    \/ \E r \in BOOLEAN : Look(r)
    \/ \E r, s, p, g \in BOOLEAN : Fix(r, s, p, g)
Next == Tool \/ Client
Spec == Init /\ [][Next]_vars
-----------------------------------------------------------------------------
(* Where kubectl and the tool read a command line alike: the same verb and *)
(* operand; a flag that stands once, where kubectl takes it for a flag; and *)
(* the namespaces reached are named, as words of the line both find.       *)
Alike(toks) == KubectlVerb(toks) = ExtractVerb(toks) /\ KubectlOperand(toks) = At(toks, operandIndex(toks))
OneAndRead(toks, names) ==
    \A i, j \in {k \in DOMAIN toks : toks[k].dash /\ toks[k].name \in names} : i = j /\ i \in ReadAsFlag(toks, names)
NamesNamespaces(toks) ==
    LET first == KubectlOperand(toks)
    IN  /\ \A i \in AfterVerb(toks) : first.value # None => toks[i].name = first.name
        /\ Kind(first.name) = "namespace" =>
              /\ KubectlVerb(toks) \in resourceVerbs
              /\ first.value # None \/ (\E i, j \in AfterVerb(toks) : i # j) \/ ~Mutates(toks)
ReadInFull(c) ==
    /\ ReadAsWord(c.args) = wordsFrom(c.args, 2)
    /\ OneAndRead(c.args, {"-n", "--namespace"}) /\ OneAndRead(c.args, {"-A", "--all-namespaces"})
    /\ \A i \in DOMAIN c.args : c.args[i].name = "-A" => c.args[i].value = None
    /\ IF FromStdin(c.args) THEN \A d \in manifestDocs(c.stdin) : Kind(d.kind) # "namespace"
       ELSE OperandsAt(c.args) = AfterVerb(c.args) /\ NamesNamespaces(c.args)

(* What changed the cluster was asked for: a person approved that very     *)
(* call, or the session approves by itself; never a key that may not.      *)
(* Where kubectl's verb is no destructive one it must be the tool's, and a *)
(* --dry-run token must be kubectl's flag, and the only one (tool.go Plan, *)
(* guard.go IsWrite, DestructiveVerbsIn).  A drain and the deletion of     *)
(* namespaces are asked about even so (guard.go AlwaysConfirm).            *)
ConfirmFirst(toks) ==
    \/ KubectlVerb(toks) = "drain"
    \/ KubectlVerb(toks) = "delete" /\ Kind(KubectlOperand(toks).name) = "namespace"
AskedBeforeChanged ==
    \A c \in {e[1] : e \in effects} :
        LET toks == c.cmd.args
        IN  OneAndRead(toks, {"--dry-run"}) /\ (Alike(toks) \/ KubectlVerb(toks) \in DestructiveVerbs) =>
                /\ c \in approvals \/ (c.bypass /\ ~(Alike(toks) /\ ConfirmFirst(toks)))
                /\ role(c) # "readonly"
                /\ role(c) = "operator" => KubectlVerb(toks) \notin highRisk

(* The infrastructure namespaces: nothing in them is changed, and no row   *)
(* of theirs is shown, below the superadmin, who still gets filtered       *)
(* listings, by a command the tool reads in full (tool.go checkProtected,  *)
(* manifest.go, filter.go).                                                *)
InfrastructureWithheld ==
    /\ \A e \in effects : RowNamespace(e[2]) \in BlockedNamespaces /\ ReadInFull(e[1].cmd) => role(e[1]) = "superadmin"
    /\ \A o \in answer.rows : RowNamespace(o) \in BlockedNamespaces /\ ReadInFull(call.cmd) =>
          role(call) = "superadmin" /\ ~isAllNamespaces(call.cmd.args)

(* What the code says of every command.  A rehearsal changes nothing       *)
(* (write.go ValidateMutation: "No cluster change occurs").                *)
RehearsalsChangeNothing == job.client = "plan" => effects = {}

(* Whatever changed was approved, by a person or by the session in         *)
(* advance (tool.go: "writes need human approval").                        *)
NothingUnasked == \A e \in effects : e[1] \in approvals \/ e[1].bypass

(* Below the superadmin nothing of the infrastructure is changed (tool.go  *)
(* checkProtected: "returns a refusal if the command targets a protected   *)
(* namespace").                                                            *)
InfrastructureUntouched ==
    \A e \in effects : RowNamespace(e[2]) \in BlockedNamespaces => role(e[1]) = "superadmin"

(* Below the superadmin nothing of it is shown (tool.go Plan: "infra       *)
(* namespaces blocked, reads too").                                        *)
InfrastructureUnread ==
    \A o \in answer.rows : RowNamespace(o) \in BlockedNamespaces => role(call) = "superadmin"

(* A listing that lacks a row of what was asked says so: by the sentence   *)
(* about withheld rows, by the cut, or by the exit code (filter.go noting, *)
(* policy.go, tool.go Execute).  The caller's own grep is the caller's.    *)
PartialIsSaid ==
    pc = "answered" /\ answer.said = "rows" /\ ~call.cmd.pipes /\ answer.note = None /\ ~answer.cut =>
        \A o \in Touches(call.cmd) : ver[o] = Original => o \in answer.rows

(* A verdict rests on what happened: committed on a look that saw the      *)
(* deployment ready, rolled back on an undo that ran, of a command that    *)
(* was not refused; an automatic plan on the API server's word; opened on  *)
(* a repair that was made (write.go ExecuteTransactional, PlanMutation,    *)
(* fix.go OpenPR).                                                         *)
VerdictsAreEarned == step = "end" =>
    /\ result.status = "committed" => facts.ready /\ facts.saw
    /\ result.status \in {"rolled_back", "rollback_failed"} =>
          /\ facts.saw /\ ~facts.ready
          /\ facts.applied \notin {"refused", "error", "exited"}
          /\ facts.undone \notin {"refused", "error"}
    /\ result.status = "auto" => facts.reached /\ ClassifyRollback(job.cmd) # "irreversible"
    /\ result.status \in {"opened", "pushed", "unchanged"} => facts.repaired

(* A rollback point said to be restorable holds every object the command   *)
(* touches (tool.go: "A faithful capture of 3 of 7 objects must not read   *)
(* as a full restore point").                                              *)
RestorableIsWhole ==
    pc = "run" /\ point.restorable =>
        Touches(call.cmd) \subseteq UNION {DOMAIN point.states[i] : i \in DOMAIN point.states}

(* Refused means that nothing was sent (read.go: "kube-sre blocked it,     *)
(* nothing was sent to the cluster").                                      *)
RefusedWasNotSent ==
    pc = "answered" /\ ClassifyOutput(answer) = "refused" => call \notin sent

(* A restorable point is honest about its own targets: every one of them,  *)
(* five at most, was read whole and kept unchanged (tool.go                *)
(* captureRollbackPoint).                                                  *)
RestorableIsFaithful ==
    pc = "run" /\ point.restorable =>
        /\ Len(point.states) = Len(Targets(call)) /\ Len(Targets(call)) <= rollbackMaxTargets
        /\ \A i \in DOMAIN point.states, o \in Objects : o \in DOMAIN point.states[i] => point.states[i][o] # Absent

(* Why nothing is changed unasked: from the gates to the run the call in   *)
(* hand is one that passed them, and where it may run it was approved or   *)
(* needs no approval; what was changed was changed by such a call.         *)
Confirmed(c) == c \in approvals \/ ~NeedsApproval(c)
AskedInv ==
    /\ IsLine(call.cmd.args)
    /\ pc \in {"approval", "capture", "run"} => ~Refused(call)
    /\ pc \in {"capture", "run"} => Confirmed(call)
    /\ \A e \in effects :
          /\ IsLine(e[1].cmd.args) /\ ~Refused(e[1]) /\ Confirmed(e[1])
          /\ Mutates(e[1].cmd.args) /\ ~DryRun(e[1].cmd.args) /\ e[2] \in Touches(e[1].cmd)

(* No row of the infrastructure is in the answer to a call read in full,   *)
(* unless it is the superadmin's.                                          *)
RowsAllowed ==
    \A o \in answer.rows : RowNamespace(o) \in BlockedNamespaces /\ ReadInFull(call.cmd) =>
        role(call) = "superadmin" /\ ~isAllNamespaces(call.cmd.args)
=============================================================================
