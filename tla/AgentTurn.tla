------------------------------ MODULE AgentTurn ------------------------------
(***************************************************************************)
(* The turns of one chat session (internal/agent) and the approval of the  *)
(* writes they propose.                                                    *)
(*                                                                         *)
(* A turn loads the session's saved state, drives the coordinator's model  *)
(* and tool loop, and saves the state at its end.  A write that needs a    *)
(* human pauses the turn: the request is shown, the loop so far is saved   *)
(* with it, and the next message of the session is the answer.  Nothing    *)
(* locks a session, so turns of several requests may overlap; the process  *)
(* may crash, and a state that cannot be saved is only logged.             *)
(***************************************************************************)
EXTENDS Naturals, Sequences, FiniteSets, SequencesExt

CONSTANTS
  Replies,       (* what a user writes: a subset of AllReplies               *)
  Commands,      (* the writes the model proposes: a subset of AllCommands   *)
  Roles,         (* a subset of AllRoles                                     *)
  Bypasses,      (* the values of auto_approve in a request                    *)
  MaxRounds,     (* model calls of one loop (AGENT_COORDINATOR_RECURSION_LIMIT / 3) *)
  MaxSteps,      (* AGENT_GRAPH_RECURSION_LIMIT                              *)
  MaxTurns,      (* bound: turns of a behaviour                              *)
  MaxActive,     (* bound: turns at the same time                            *)
  MaxProposals,  (* bound: writes proposed in a behaviour                    *)
  MaxFaults      (* bound: failed loads and saves, crashes                   *)

AllReplies  == {"ask", "yes", "all", "no", "/approve"}
AllCommands == {"scale", "set", "delete", "drain"}
AllRoles    == {"readonly", "operator", "admin"}

ASSUME AgentAssumption ==
  /\ Replies \subseteq AllReplies /\ Commands \subseteq AllCommands
  /\ Roles \subseteq AllRoles /\ Bypasses \subseteq BOOLEAN
  /\ {MaxRounds, MaxSteps, MaxTurns, MaxActive, MaxProposals, MaxFaults} \subseteq Nat

Turns == 1 .. MaxTurns
Ids   == 1 .. MaxProposals

NoState   == [none |-> "state"]
NoPending == [none |-> "pending"]
NoRequest == [none |-> "request"]
NoId      == 0

VARIABLES
  saved,     (* the session's row of agent_threads                           *)
  pc,        (* where each turn is                                           *)
  req,       (* the request of each turn: reply, bypass, role                *)
  st,        (* the turn's own state                                         *)
  loop,      (* writes whose result is in the messages of the turn's loop    *)
  rounds,    (* model calls made in the loop                                 *)
  steps,     (* the turn's share of the step budget                          *)
  findings,  (* the specialists have reported                                *)
  screen,    (* the approval request shown last                              *)
  proposed,  (* history: writes proposed so far, which numbers them          *)
  ran,       (* history: writes executed, with the turn and its request      *)
  dropped,   (* history: writes whose result went with a dropped loop        *)
  declined,  (* history: writes a reply decided not to run                   *)
  calls,     (* history: model calls since a loop began                      *)
  overlaps,  (* history: two turns of the session ran at the same time       *)
  faults

loopVars    == <<loop, rounds, steps, findings>>
localVars   == <<st, loopVars>>
historyVars == <<proposed, ran, declined, dropped, calls>>
vars == <<saved, pc, req, localVars, screen, historyVars, overlaps, faults>>

Init ==
  /\ saved = NoState
  /\ pc = [t \in Turns |-> "off"]
  /\ req = [t \in Turns |-> NoRequest]
  /\ st = [t \in Turns |-> NoState]
  /\ loop = [t \in Turns |-> {}]
  /\ rounds = [t \in Turns |-> 0]
  /\ steps = [t \in Turns |-> 0]
  /\ findings = [t \in Turns |-> FALSE]
  /\ screen = NoId
  /\ proposed = 0 /\ ran = {} /\ declined = {} /\ dropped = {} /\ calls = 0
  /\ overlaps = FALSE /\ faults = 0

Active(t) == pc[t] \notin {"off", "done"}
AtRest == \A t \in Turns : ~Active(t)

Fault == faults < MaxFaults /\ faults' = faults + 1

(***************************************************************************)
(* What the replies and the commands mean (hitl.go, kube.Plan).            *)
(***************************************************************************)
IsAutoApproveRequest(m) == m = "all"

(* Variant of Approves that takes what is not a denial for an approval.    *)
NotDenied(m) == m # "no"

(* A reply to a pending request approves it only in so many words.         *)
Approves(m) == m = "yes" \/ IsAutoApproveRequest(m)

HighRisk(c)      == c \in {"delete", "drain"}
AlwaysConfirm(c) == c \in {"set", "drain"}

(* Does the role of the caller rule the write out?                         *)
Refused(c, role) == role = "readonly" \/ (role = "operator" /\ HighRisk(c))

(* The execution of write number id by turn t, as history.                 *)
Run(id, c, t) == [id |-> id, cmd |-> c, turn |-> t, req |-> req[t]]

(* Must a human approve it?                                                *)
Gated(c, bypass) == ~bypass \/ AlwaysConfirm(c)

(***************************************************************************)
(* The turn up to the coordinator.                                         *)
(***************************************************************************)
(* A message arrives.                                                      *)
Start(t, m, auto, role) ==
  /\ pc[t] = "off" /\ \A u \in Turns : u < t => pc[u] # "off"
  /\ Cardinality({u \in Turns : Active(u)}) < MaxActive
  /\ req' = [req EXCEPT ![t] = [reply |-> m, role |-> role, answers |-> screen,
                                bypass |-> auto \/ IsAutoApproveRequest(m)]]
  /\ pc' = [pc EXCEPT ![t] = "load"]
  /\ steps' = [steps EXCEPT ![t] = 3]
  /\ overlaps' = (overlaps \/ ~AtRest)
  /\ UNCHANGED <<saved, st, loop, rounds, findings, screen, historyVars, faults>>

HasPending(s) == s # NoState /\ s.pending # NoPending

(* Variant of RoleOf that goes on under the role of the paused turn.       *)
PausedRole(t) == IF HasPending(saved) THEN saved.role ELSE req[t].role

(* The role a turn acts under is that of its own caller.                   *)
RoleOf(t) == req[t].role

(* prev, or freshTurn.                                                     *)
Loaded(t) ==
  IF HasPending(saved) THEN [saved EXCEPT !.role = RoleOf(t)]
  ELSE [known |-> IF saved = NoState THEN {} ELSE saved.known,
        pending |-> NoPending, role |-> RoleOf(t)]

Load(t) ==
  /\ pc[t] = "load"
  /\ st' = [st EXCEPT ![t] = Loaded(t)]
  /\ pc' = [pc EXCEPT ![t] = IF HasPending(saved) THEN "resume" ELSE "fresh"]
  /\ UNCHANGED <<saved, req, loop, rounds, steps, findings, screen, historyVars, faults>>

(* The turn is over and its memory gone.                                   *)
Leave(t) ==
  /\ pc' = [pc EXCEPT ![t] = "done"]
  /\ req' = [req EXCEPT ![t] = NoRequest]
  /\ st' = [st EXCEPT ![t] = NoState]
  /\ loop' = [loop EXCEPT ![t] = {}]
  /\ rounds' = [rounds EXCEPT ![t] = 0]
  /\ steps' = [steps EXCEPT ![t] = 0]
  /\ findings' = [findings EXCEPT ![t] = FALSE]

LoadFails(t) ==
  /\ pc[t] = "load"
  /\ Fault
  /\ Leave(t)
  /\ UNCHANGED <<saved, screen, historyVars>>

(* save, of a fresh turn before and after its context is fetched and of    *)
(* every turn at its end.  A failure is logged.                            *)
Stored(t) == saved' = st[t] /\ UNCHANGED faults
NotStored == Fault /\ UNCHANGED saved

SaveFresh(t) ==
  /\ pc[t] \in {"fresh", "fetched"}
  /\ Stored(t) \/ NotStored
  /\ pc' = [pc EXCEPT ![t] = IF @ = "fresh" THEN "fetched" ELSE "node"]
  /\ UNCHANGED <<req, localVars, screen, historyVars>>

SaveEnd(t) ==
  /\ pc[t] = "save"
  /\ Stored(t) \/ NotStored
  /\ Leave(t)
  /\ UNCHANGED <<screen, historyVars>>

(***************************************************************************)
(* resolvePending: the reply decides the call that waits.                  *)
(***************************************************************************)
(* Variant of ResumedLoop that forgets what ran before the pause.          *)
NoLoop(t) == {}

(* The saved loop goes on with the result of the call.                     *)
ResumedLoop(t) == st[t].pending.loop \cup {st[t].pending.id}

(* Variant of ResumedRounds that starts the budget afresh.                 *)
NoRounds(t) == 0

(* Variant of ResumedRounds that counts the paused call again.             *)
RoundsAgain(t) == st[t].pending.rounds + 1

(* The calls made before the pause count.                                  *)
ResumedRounds(t) == st[t].pending.rounds

(* Variant of Answered that leaves the request pending.                    *)
StillPending(s) == s

Answered(s) == [s EXCEPT !.pending = NoPending]

Resume(t) ==
  /\ pc[t] = "resume"
  /\ LET p == st[t].pending
     IN IF Approves(req[t].reply) /\ ~Refused(p.cmd, st[t].role)
        THEN ran' = ran \cup {Run(p.id, p.cmd, t)} /\ UNCHANGED declined
        ELSE declined' = declined \cup {p.id} /\ UNCHANGED ran
  /\ loop' = [loop EXCEPT ![t] = ResumedLoop(t)]
  /\ rounds' = [rounds EXCEPT ![t] = ResumedRounds(t)]
  /\ st' = [st EXCEPT ![t] = Answered(@)]
  /\ pc' = [pc EXCEPT ![t] = "chat"]
  /\ UNCHANGED <<saved, req, steps, findings, screen, proposed, dropped, calls, faults>>

(***************************************************************************)
(* The graph: its step budget, the model loop and the specialists.         *)
(***************************************************************************)
(* The turn is over; loop messages that are not in the state go with it.   *)
EndTurn(t) == pc' = [pc EXCEPT ![t] = "save"]

DropLoop(t) ==
  /\ dropped' = dropped \cup loop[t]
  /\ loop' = [loop EXCEPT ![t] = {}]
  /\ rounds' = [rounds EXCEPT ![t] = 0]

GraphExhausted(t) ==
  /\ pc[t] = "node" /\ steps[t] > MaxSteps
  /\ EndTurn(t)
  /\ UNCHANGED <<saved, req, localVars, screen, historyVars, faults>>

(* The findings are synthesized, or the model fails.                       *)
Synthesize(t) ==
  /\ pc[t] = "node" /\ steps[t] <= MaxSteps /\ findings[t]
  /\ EndTurn(t)
  /\ UNCHANGED <<saved, req, localVars, screen, historyVars, faults>>

(* A loop of its own for this visit of the coordinator.                    *)
BeginLoop(t) ==
  /\ pc[t] = "node" /\ steps[t] <= MaxSteps /\ ~findings[t]
  /\ pc' = [pc EXCEPT ![t] = "chat"]
  /\ calls' = 0
  /\ UNCHANGED <<saved, req, localVars, screen, proposed, ran, declined, dropped, faults>>

LoopExhausted(t) ==
  /\ pc[t] = "chat" /\ rounds[t] >= MaxRounds
  /\ DropLoop(t)
  /\ EndTurn(t)
  /\ UNCHANGED <<saved, req, st, steps, findings, screen, proposed, ran, declined, calls, faults>>

ModelCalled(t) ==
  /\ pc[t] = "chat" /\ rounds[t] < MaxRounds
  /\ calls' = calls + 1
  /\ UNCHANGED <<saved, req, faults>>

(* The final answer: the messages of the loop join the conversation.       *)
Answer(t) ==
  /\ ModelCalled(t)
  /\ st' = [st EXCEPT ![t].known = @ \cup loop[t]]
  /\ loop' = [loop EXCEPT ![t] = {}]
  /\ rounds' = [rounds EXCEPT ![t] = 0]
  /\ EndTurn(t)
  /\ UNCHANGED <<steps, findings, screen, proposed, ran, declined, dropped>>

(* The model fails (so it does when the client has gone away), or returns  *)
(* no text.                                                                *)
NoAnswer(t) ==
  /\ ModelCalled(t)
  /\ DropLoop(t)
  /\ EndTurn(t)
  /\ UNCHANGED <<st, steps, findings, screen, proposed, ran, declined>>

(* Variant of MoreSteps that does not charge an investigation.             *)
NoMoreSteps(t) == steps[t]

(* What an investigation and the next visit of the coordinator cost.       *)
MoreSteps(t) == steps[t] + 2

(* A routing sentinel: targeted reads, or the specialists.                 *)
Route(t, specialists) ==
  /\ ModelCalled(t)
  /\ DropLoop(t)
  /\ findings' = [findings EXCEPT ![t] = specialists]
  /\ steps' = [steps EXCEPT ![t] = MoreSteps(t)]
  /\ pc' = [pc EXCEPT ![t] = "node"]
  /\ UNCHANGED <<st, screen, proposed, ran, declined>>

(* A batch of tool calls (runBatch): cmds are the writes among them.  The  *)
(* first that needs a human is held, others that do are skipped, the rest  *)
(* run.                                                                    *)
Batches == {<<>>} \cup {<<c>> : c \in Commands} \cup {<<c, d>> : c, d \in Commands}

NeedHuman(t, cmds) == {i \in DOMAIN cmds : /\ ~Refused(cmds[i], st[t].role)
                                          /\ Gated(cmds[i], req[t].bypass)}

Held(t, cmds) == {i \in NeedHuman(t, cmds) : \A j \in NeedHuman(t, cmds) : i <= j}

(* Variant of Executed that runs all but the held write.                   *)
AllButHeld(t, cmds) ==
  {i \in DOMAIN cmds \ Held(t, cmds) : ~Refused(cmds[i], st[t].role)}

Executed(t, cmds) ==
  {i \in DOMAIN cmds \ NeedHuman(t, cmds) : ~Refused(cmds[i], st[t].role)}

Batch(t, cmds) ==
  LET held == Held(t, cmds)
      done == loop[t] \cup {proposed + i : i \in DOMAIN cmds \ held}
  IN /\ ModelCalled(t)
     /\ proposed + Len(cmds) <= MaxProposals
     /\ proposed' = proposed + Len(cmds)
     /\ ran' = ran \cup {Run(proposed + i, cmds[i], t) : i \in Executed(t, cmds)}
     /\ rounds' = [rounds EXCEPT ![t] = @ + 1]
     /\ loop' = [loop EXCEPT ![t] = IF held = {} THEN done ELSE {}]
     /\ IF held = {} THEN UNCHANGED <<st, pc, screen>>
        ELSE \E i \in held :
               /\ st' = [st EXCEPT ![t].pending =
                           [id |-> proposed + i, cmd |-> cmds[i], loop |-> done,
                            rounds |-> rounds[t] + 1]]
               /\ screen' = proposed + i
               /\ EndTurn(t)
     /\ UNCHANGED <<steps, findings, declined, dropped>>

(***************************************************************************)
(* The process dies with every turn it runs.                               *)
(***************************************************************************)
Crash ==
  /\ ~AtRest
  /\ Fault
  /\ pc' = [t \in Turns |-> IF Active(t) THEN "done" ELSE pc[t]]
  /\ req' = [t \in Turns |-> NoRequest]
  /\ st' = [t \in Turns |-> NoState]
  /\ loop' = [t \in Turns |-> {}]
  /\ rounds' = [t \in Turns |-> 0]
  /\ steps' = [t \in Turns |-> 0]
  /\ findings' = [t \in Turns |-> FALSE]
  /\ UNCHANGED <<saved, screen, historyVars, overlaps>>

TurnStep(t) ==
  \/ Load(t) \/ LoadFails(t) \/ SaveFresh(t) \/ SaveEnd(t) \/ Resume(t)
  \/ GraphExhausted(t) \/ Synthesize(t) \/ BeginLoop(t)
  \/ LoopExhausted(t) \/ Answer(t) \/ NoAnswer(t)
  \/ \E specialists \in BOOLEAN : Route(t, specialists)
  \/ \E cmds \in Batches : Batch(t, cmds)

Step(t) == TurnStep(t) /\ UNCHANGED overlaps

Next ==
  \/ \E t \in Turns : Step(t)
  \/ \E t \in Turns, m \in Replies, auto \in Bypasses, role \in Roles :
       Start(t, m, auto, role)
  \/ Crash

Spec == Init /\ [][Next]_vars
=============================================================================
