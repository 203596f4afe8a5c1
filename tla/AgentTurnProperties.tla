------------------------- MODULE AgentTurnProperties -------------------------
(***************************************************************************)
(* What the turns of a session have to guarantee (internal/agent).         *)
(***************************************************************************)
EXTENDS AgentTurn

PendingCall == [id : Ids, cmd : Commands, loop : SUBSET Ids, rounds : 0 .. MaxRounds]
State == [known : SUBSET Ids, pending : PendingCall \cup {NoPending}, role : Roles]
Request == [reply : Replies, role : Roles, answers : Ids \cup {NoId}, bypass : BOOLEAN]

Stages == {"off", "load", "fresh", "fetched", "node", "chat", "resume", "save",
           "done"}

(* Every variable has its type.                                            *)
TypeOK ==
  /\ saved \in State \cup {NoState}
  /\ pc \in [Turns -> Stages]
  /\ req \in [Turns -> Request \cup {NoRequest}]
  /\ st \in [Turns -> State \cup {NoState}]
  /\ \A t \in Turns : (req[t] # NoRequest) <=> Active(t)
  /\ \A t \in Turns : (st[t] # NoState) <=> (Active(t) /\ pc[t] # "load")
  /\ loop \in [Turns -> SUBSET Ids]
  /\ rounds \in [Turns -> 0 .. MaxRounds]
  /\ steps \in [Turns -> Nat] /\ findings \in [Turns -> BOOLEAN]
  /\ screen \in Ids \cup {NoId}
  /\ proposed \in 0 .. MaxProposals
  /\ ran \subseteq [id : Ids, cmd : Commands, turn : Turns, req : Request]
  /\ declined \subseteq Ids /\ dropped \subseteq Ids /\ calls \in Nat /\ faults \in Nat
  /\ overlaps \in BOOLEAN

(* Turns of the session came one after the other, and each was saved.      *)
InTurn == ~overlaps /\ faults = 0

(* A write that needs a human runs only in a turn whose message approves,  *)
(* and no write runs under a role that rules it out, whatever overlaps,    *)
(* crashes or is not saved (hitl.go: an approval must be recognised;       *)
(* resolvePending: a change of role since the request still counts).       *)
RunsAreLicensed ==
  \A w \in ran :
     /\ ~Refused(w.cmd, w.req.role)
     /\ Gated(w.cmd, w.req.bypass) => w.req.reply \in {"yes", "all"}

(* In turn, an approval runs the write shown last to the user (agent.go    *)
(* 161: the reply is an answer to the pending action) and no other.        *)
RunsWhatWasShown ==
  InTurn => \A w \in ran : Gated(w.cmd, w.req.bypass) => w.id = w.req.answers

(* In turn, a write runs once, however often its session is resumed.       *)
RunsOnce == InTurn => \A v, w \in ran : v.id = w.id => v.turn = w.turn

(* When nothing runs, the request shown last waits for its reply exactly   *)
(* until a reply has decided it, and no other request waits.               *)
ShownIsPending ==
  AtRest /\ InTurn =>
    IF screen = NoId \/ screen \in declined \/ \E w \in ran : w.id = screen
    THEN ~HasPending(saved)
    ELSE HasPending(saved) /\ saved.pending.id = screen

(* When nothing runs, the conversation knows every write that ran, over    *)
(* any number of pauses, unless the loop that ran it ended without an      *)
(* answer.                                                                 *)
AnsweredWritesRemembered ==
  AtRest /\ InTurn => \A w \in ran :
     w.id \in dropped \cup saved.known
              \cup (IF HasPending(saved) THEN saved.pending.loop ELSE {})

(* A loop makes no more model calls than its budget, over all the turns an *)
(* approval pause spreads it.                                              *)
LoopIsBounded == InTurn => calls <= MaxRounds

(* What a turn has left to do, as a number: the visits its step budget     *)
(* allows, the model calls of this one, and the stages around them.        *)
VisitsLeft(t) == (MaxSteps + 5 - steps[t]) * (MaxRounds + 3)

Left(t) ==
  CASE pc[t] = "load" -> VisitsLeft(t) + MaxRounds + 6
    [] pc[t] = "fresh" -> VisitsLeft(t) + MaxRounds + 5
    [] pc[t] \in {"fetched", "resume"} -> VisitsLeft(t) + MaxRounds + 4
    [] pc[t] = "node" -> VisitsLeft(t) + MaxRounds + 3
    [] pc[t] = "chat" -> VisitsLeft(t) + MaxRounds + 2 - rounds[t]
    [] pc[t] = "save" -> 1
    [] OTHER -> 0

(* A turn ends, however the model routes it and however often it calls     *)
(* tools: every step but the arrival of a request brings one turn nearer   *)
(* to its end, and takes none further from it.                             *)
TurnsRunDown ==
  [][/\ \A t \in Turns : Active(t) => Left(t)' <= Left(t)
     /\ \/ \E t \in Turns : ~Active(t) /\ Active(t)'
        \/ \E t \in Turns : Active(t) /\ Left(t)' < Left(t)]_vars

(* A write that a reply decided not to run never runs.                     *)
DeclinedNeverRuns == InTurn => \A w \in ran : w.id \notin declined

(* What a user of a session relies on over any number of pauses, replies   *)
(* and resumed turns: what was shown runs, once, and nothing else; what    *)
(* was declined does not; what waits is what was shown last; the session   *)
(* remembers what ran and the loop keeps its budget.                       *)
ApprovalsAreKept ==
  /\ RunsWhatWasShown /\ RunsOnce /\ DeclinedNeverRuns
  /\ ShownIsPending /\ AnsweredWritesRemembered /\ LoopIsBounded

(* Expected to fail, see README.                                           *)
(* "The reply is an answer to the pending action" (agent.go 161) and "its  *)
(* state is saved per session, the client shows the command with its risk  *)
(* level and a yes or no in the same session resumes it" (ARCHITECTURE.md  *)
(* 54-56): no approval runs a write other than the one shown last.         *)
ReplyAnswersWhatWasShown ==
  \A w \in ran : Gated(w.cmd, w.req.bypass) => w.req.answers \in {NoId, w.id}
=============================================================================
