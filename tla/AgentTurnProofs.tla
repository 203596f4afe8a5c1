--------------------------- MODULE AgentTurnProofs ---------------------------
(***************************************************************************)
(* Theorems about AgentTurn, for any number of turns, overlapping or not,  *)
(* any budgets, replies, roles and faults.                                 *)
(*                                                                         *)
(* TypeOK is not inductive: that a reply finds a call to decide follows    *)
(* from how the turn was loaded (Answering).  That a write is licensed     *)
(* follows from the role the loaded state carries, which has to be that of *)
(* the turn's own caller even when another role paused it (OwnRole).       *)
(***************************************************************************)
EXTENDS AgentTurnProperties, TLAPS

Answering == \A t \in Turns : pc[t] = "resume" => st[t].pending # NoPending

OwnRole == \A t \in Turns : st[t] # NoState => st[t].role = req[t].role

TypeInv == TypeOK /\ Answering /\ OwnRole

LEMMA Nothings ==
  /\ NoState \notin State
  /\ NoPending \notin PendingCall
  /\ NoRequest \notin Request
<1>1. NoState \notin State
  BY DEF NoState, State
<1>2. NoPending \notin PendingCall
  BY DEF NoPending, PendingCall
<1>3. NoRequest \notin Request
  BY DEF NoRequest, Request
<1>4. QED
  BY <1>1, <1>2, <1>3

LEMMA Bounds ==
  MaxRounds \in Nat /\ MaxSteps \in Nat /\ MaxTurns \in Nat /\ MaxProposals \in Nat
BY AgentAssumption

LEMMA InitTyped == Init => TypeInv
<1> SUFFICES ASSUME Init PROVE TypeInv
  OBVIOUS
<1>1. /\ saved \in State \cup {NoState}
      /\ \A t \in Turns : ~Active(t)
      /\ pc \in [Turns -> Stages]
  BY DEF Init, Active, Stages
<1>2. /\ req \in [Turns -> Request \cup {NoRequest}]
      /\ st \in [Turns -> State \cup {NoState}]
      /\ \A t \in Turns : req[t] = NoRequest /\ st[t] = NoState
  BY DEF Init
<1>3. /\ loop \in [Turns -> SUBSET Ids] /\ rounds \in [Turns -> 0 .. MaxRounds]
      /\ steps \in [Turns -> Nat] /\ findings \in [Turns -> BOOLEAN]
  BY Bounds DEF Init
<1>4. screen \in Ids \cup {NoId} /\ proposed \in 0 .. MaxProposals
  <2>1. screen = NoId /\ proposed = 0
    BY DEF Init
  <2>2. QED
    BY <2>1, Bounds
<1>5. calls \in Nat /\ faults \in Nat /\ overlaps \in BOOLEAN
  <2>1. calls = 0 /\ faults = 0 /\ overlaps = FALSE
    BY DEF Init
  <2>2. QED
    BY <2>1
<1>6. /\ declined \subseteq Ids /\ dropped \subseteq Ids
      /\ ran \subseteq [id : Ids, cmd : Commands, turn : Turns, req : Request]
  BY DEF Init
<1>7. Answering
  BY <1>1 DEF Active, Answering
<1>8. QED
  BY <1>1, <1>2, <1>3, <1>4, <1>5, <1>6, <1>7 DEF TypeInv, TypeOK, OwnRole

LEMMA LeaveTyped ==
  ASSUME TypeInv, NEW t \in Turns, Leave(t),
         saved' \in State \cup {NoState}, faults' \in Nat,
         UNCHANGED <<screen, historyVars, overlaps>>
  PROVE  TypeInv'
  BY AgentAssumption
     DEF Leave, TypeInv, TypeOK, Answering, OwnRole, Stages, Active, historyVars

(* Steps of a turn that leave its own state as it is.                      *)
LEMMA StageTyped ==
  ASSUME TypeInv, NEW t \in Turns, NEW stage \in Stages,
         Active(t), pc[t] # "load", stage \notin {"off", "load", "resume", "done"},
         pc' = [pc EXCEPT ![t] = stage],
         UNCHANGED <<saved, req, st, steps, screen, proposed, ran, overlaps>>,
         findings' \in [Turns -> BOOLEAN], loop' \in [Turns -> SUBSET Ids],
         rounds' \in [Turns -> 0 .. MaxRounds], dropped' \subseteq Ids,
         declined' \subseteq Ids, calls' \in Nat, faults' \in Nat
  PROVE  TypeInv'
  BY DEF TypeInv, TypeOK, Answering, OwnRole, Active

LEMMA DropTyped ==
  ASSUME TypeInv, NEW t \in Turns, DropLoop(t)
  PROVE  /\ loop' \in [Turns -> SUBSET Ids]
         /\ rounds' \in [Turns -> 0 .. MaxRounds]
         /\ dropped' \subseteq Ids
<1>1. loop[t] \subseteq Ids
  BY DEF TypeInv, TypeOK
<1>2. loop' \in [Turns -> SUBSET Ids] /\ dropped' \subseteq Ids
  BY <1>1 DEF TypeInv, TypeOK, DropLoop
<1>3. rounds' \in [Turns -> 0 .. MaxRounds]
  BY Bounds DEF TypeInv, TypeOK, DropLoop
<1>4. QED
  BY <1>2, <1>3

LEMMA BatchIsSeq ==
  ASSUME NEW cmds \in Batches
  PROVE  /\ Len(cmds) \in Nat /\ DOMAIN cmds = 1 .. Len(cmds)
         /\ \A i \in DOMAIN cmds : cmds[i] \in Commands
<1>1. cmds \in Seq(Commands)
  <2>1. CASE cmds = <<>>
    BY <2>1
  <2>2. CASE \E c \in Commands : cmds = <<c>>
    BY <2>2
  <2>3. CASE \E c, d \in Commands : cmds = <<c, d>>
    BY <2>3
  <2>4. QED
    BY <2>1, <2>2, <2>3 DEF Batches
<1>2. QED
  BY <1>1

LEMMA BatchTyped ==
  ASSUME TypeInv, NEW t \in Turns, NEW cmds \in Batches, Batch(t, cmds),
         UNCHANGED overlaps
  PROVE  TypeInv'
<1> DEFINE held == Held(t, cmds)
           done == loop[t] \cup {proposed + i : i \in DOMAIN cmds \ held}
<1> USE DEF TypeInv, TypeOK
<1>1. /\ pc[t] = "chat" /\ rounds[t] < MaxRounds
      /\ UNCHANGED <<saved, req, faults, steps, findings, declined, dropped>>
      /\ calls' \in Nat
  BY DEF Batch, ModelCalled
<1>2. /\ proposed \in Nat /\ proposed' = proposed + Len(cmds)
      /\ proposed' <= MaxProposals
  BY Bounds DEF Batch
<1>3. Len(cmds) \in Nat /\ \A i \in DOMAIN cmds : i \in Nat \ {0} /\ i <= Len(cmds)
  BY BatchIsSeq
<1>4. proposed' \in 0 .. MaxProposals
  BY <1>2, <1>3, Bounds
<1>5. \A i \in DOMAIN cmds : proposed + i \in Ids
  BY <1>2, <1>3, Bounds DEF Ids
<1>6. done \subseteq Ids /\ held \subseteq DOMAIN cmds
  BY <1>5 DEF Held, NeedHuman
<1>7. req[t] \in Request /\ st[t] \in State
  BY <1>1, Nothings DEF Active
<1>8. ran' \subseteq [id : Ids, cmd : Commands, turn : Turns, req : Request]
  <2>1. \A i \in Executed(t, cmds) :
          Run(proposed + i, cmds[i], t) \in [id : Ids, cmd : Commands, turn : Turns, req : Request]
    BY <1>5, <1>7, BatchIsSeq DEF Executed, Run
  <2>2. ran' = ran \cup {Run(proposed + i, cmds[i], t) : i \in Executed(t, cmds)}
    BY DEF Batch
  <2>3. QED
    BY <2>1, <2>2
<1>9. rounds[t] + 1 \in 0 .. MaxRounds /\ rounds' \in [Turns -> 0 .. MaxRounds]
  <2>1. rounds[t] + 1 \in 0 .. MaxRounds
    BY <1>1, Bounds
  <2>2. rounds' = [rounds EXCEPT ![t] = rounds[t] + 1]
    BY DEF Batch
  <2>3. QED
    BY <2>1, <2>2
<1>10. loop' \in [Turns -> SUBSET Ids]
  BY <1>6 DEF Batch
<1>11. CASE held = {}
  <2>1. UNCHANGED <<st, pc, screen>>
    BY <1>11 DEF Batch
  <2>2. QED
    BY <1>1, <1>4, <1>8, <1>9, <1>10, <2>1 DEF Answering, OwnRole, Active
<1>12. CASE held # {}
  <2>1. PICK i \in held :
          /\ st' = [st EXCEPT ![t].pending = [id |-> proposed + i, cmd |-> cmds[i],
                                               loop |-> done, rounds |-> rounds[t] + 1]]
          /\ screen' = proposed + i
          /\ pc' = [pc EXCEPT ![t] = "save"]
    BY <1>12 DEF Batch, EndTurn
  <2>2. proposed + i \in Ids /\ cmds[i] \in Commands
    BY <1>5, <1>6, BatchIsSeq
  <2>3. [id |-> proposed + i, cmd |-> cmds[i], loop |-> done, rounds |-> rounds[t] + 1]
          \in PendingCall
    BY <1>6, <1>9, <2>2 DEF PendingCall
  <2>4. /\ st' \in [Turns -> State \cup {NoState}] /\ st'[t] \in State
        /\ st'[t].role = st[t].role
        /\ \A u \in Turns \ {t} : st'[u] = st[u]
    BY <1>7, <2>1, <2>3 DEF State
  <2>5. QED
    BY <1>1, <1>4, <1>8, <1>9, <1>10, <2>1, <2>2, <2>4, Nothings
       DEF Answering, OwnRole, Active, Stages
<1>13. QED
  BY <1>11, <1>12

LEMMA StepTyped ==
  ASSUME TypeInv, NEW t \in Turns, TurnStep(t), UNCHANGED overlaps
  PROVE  TypeInv'
<1> USE Bounds, Nothings DEF Active, historyVars, loopVars, localVars
<1>1. CASE Load(t)
  <2>1. req[t] \in Request /\ req[t].role \in Roles
    BY <1>1 DEF Load, TypeInv, TypeOK, Request
  <2>2. /\ Loaded(t) \in State
        /\ Loaded(t).role = req[t].role
        /\ HasPending(saved) => Loaded(t).pending # NoPending
    <3>1. CASE HasPending(saved)
      BY <2>1, <3>1 DEF TypeInv, TypeOK, Loaded, HasPending, RoleOf, State
    <3>2. CASE ~HasPending(saved)
      BY <2>1, <3>2 DEF TypeInv, TypeOK, Loaded, HasPending, RoleOf, State
    <3>3. QED
      BY <3>1, <3>2
  <2>3. /\ st' \in [Turns -> State \cup {NoState}] /\ st'[t] = Loaded(t)
        /\ \A u \in Turns \ {t} : st'[u] = st[u]
    BY <1>1, <2>2 DEF Load, TypeInv, TypeOK
  <2>4. QED
    BY <1>1, <2>2, <2>3 DEF Load, TypeInv, TypeOK, Answering, OwnRole, Stages
<1>2. CASE LoadFails(t)
  BY <1>2, LeaveTyped DEF LoadFails, Fault, TypeInv, TypeOK
<1>3. CASE SaveFresh(t)
  BY <1>3 DEF SaveFresh, Stored, NotStored, Fault, TypeInv, TypeOK, Answering, OwnRole, Stages
<1>4. CASE SaveEnd(t)
  BY <1>4, LeaveTyped DEF SaveEnd, Stored, NotStored, Fault, TypeInv, TypeOK
<1>6. CASE GraphExhausted(t)
  BY <1>6, StageTyped DEF GraphExhausted, EndTurn, TypeInv, TypeOK, Stages
<1>7. CASE Synthesize(t)
  BY <1>7, StageTyped DEF Synthesize, EndTurn, TypeInv, TypeOK, Stages
<1>8. CASE BeginLoop(t)
  BY <1>8, StageTyped DEF BeginLoop, TypeInv, TypeOK, Stages
<1>9. CASE LoopExhausted(t)
  BY <1>9, StageTyped, DropTyped DEF LoopExhausted, EndTurn, TypeInv, TypeOK, Stages
<1>10. CASE NoAnswer(t)
  <2>1. /\ pc[t] = "chat" /\ DropLoop(t) /\ pc' = [pc EXCEPT ![t] = "save"]
        /\ UNCHANGED <<saved, req, st, steps, findings, screen, proposed, ran, declined, faults>>
        /\ calls' \in Nat
    BY <1>10 DEF NoAnswer, ModelCalled, EndTurn, TypeInv, TypeOK
  <2>2. QED
    BY <2>1, StageTyped, DropTyped DEF TypeInv, TypeOK, Stages
<1>11. CASE Answer(t)
  <2>1. st'[t].role = st[t].role /\ st'[t].pending = st[t].pending
        /\ st' \in [Turns -> State \cup {NoState}] /\ st'[t] # NoState
    BY <1>11 DEF Answer, ModelCalled, TypeInv, TypeOK, State
  <2>2. QED
    BY <1>11, <2>1 DEF Answer, ModelCalled, EndTurn, TypeInv, TypeOK, Answering, OwnRole, Stages
<1>12. CASE \E specialists \in BOOLEAN : Route(t, specialists)
  BY <1>12, DropTyped DEF Route, ModelCalled, MoreSteps, TypeInv, TypeOK, Stages,
     Answering, OwnRole
<1>13. CASE Resume(t)
  <2> DEFINE p == st[t].pending
  <2>1. p \in PendingCall /\ st[t] \in State /\ req[t] \in Request
    BY <1>13 DEF Resume, TypeInv, TypeOK, Answering, State
  <2>2. p.id \in Ids /\ p.cmd \in Commands /\ p.loop \subseteq Ids /\ p.rounds \in 0 .. MaxRounds
    BY <2>1 DEF PendingCall
  <2>3. /\ st' \in [Turns -> State \cup {NoState}] /\ st'[t] # NoState
        /\ st'[t].role = st[t].role
    BY <1>13, <2>1 DEF Resume, Answered, TypeInv, TypeOK, State
  <2>4. /\ declined' \subseteq Ids
        /\ ran' \subseteq [id : Ids, cmd : Commands, turn : Turns, req : Request]
    BY <1>13, <2>1, <2>2 DEF Resume, Run, TypeInv, TypeOK
  <2>5. /\ loop' \in [Turns -> SUBSET Ids]
        /\ rounds' \in [Turns -> 0 .. MaxRounds]
    BY <1>13, <2>2 DEF Resume, ResumedLoop, ResumedRounds, TypeInv, TypeOK
  <2>6. QED
    BY <1>13, <2>3, <2>4, <2>5 DEF Resume, TypeInv, TypeOK, Answering, OwnRole, Stages
<1>14. CASE \E cmds \in Batches : Batch(t, cmds)
  BY <1>14, BatchTyped
<1>15. QED
  BY <1>1, <1>2, <1>3, <1>4, <1>6, <1>7, <1>8, <1>9, <1>10, <1>11, <1>12, <1>13, <1>14
     DEF TurnStep

LEMMA StartTyped ==
  ASSUME TypeInv, NEW t \in Turns, NEW m \in Replies, NEW auto \in Bypasses,
         NEW role \in Roles, Start(t, m, auto, role)
  PROVE  TypeInv'
<1>1. [reply |-> m, role |-> role, answers |-> screen,
       bypass |-> auto \/ IsAutoApproveRequest(m)] \in Request
  BY AgentAssumption DEF Request, TypeInv, TypeOK
<1>2. overlaps' \in BOOLEAN
  BY DEF Start, TypeInv, TypeOK
<1>3. QED
  BY <1>1, <1>2, Nothings
     DEF Start, TypeInv, TypeOK, Answering, OwnRole, Active, Stages, historyVars

LEMMA CrashTyped ==
  ASSUME TypeInv, Crash
  PROVE  TypeInv'
  BY Bounds, Nothings
     DEF Crash, Fault, TypeInv, TypeOK, Answering, OwnRole, Active, Stages, historyVars

LEMMA NextTyped == TypeInv /\ [Next]_vars => TypeInv'
<1> SUFFICES ASSUME TypeInv, [Next]_vars PROVE TypeInv'
  OBVIOUS
<1>1. CASE \E t \in Turns : Step(t)
  BY <1>1, StepTyped DEF Step
<1>2. CASE \E t \in Turns, m \in Replies, auto \in Bypasses, role \in Roles :
             Start(t, m, auto, role)
  BY <1>2, StartTyped
<1>3. CASE Crash
  BY <1>3, CrashTyped
<1>4. CASE UNCHANGED vars
  BY <1>4 DEF vars, localVars, loopVars, historyVars, TypeInv, TypeOK, Answering, OwnRole,
              Active
<1>5. QED
  BY <1>1, <1>2, <1>3, <1>4 DEF Next

LEMMA AlwaysTyped == Spec => []TypeInv
  BY InitTyped, NextTyped, PTL DEF Spec

(* The session, its turns and what they remember keep their type           *)
(* (internal/agent: State, DBCheckpoints, directAnswer).                   *)
THEOREM TurnTypeCorrect == Spec => []TypeOK
<1>1. TypeInv => TypeOK
  BY DEF TypeInv
<1>2. QED
  BY <1>1, AlwaysTyped, PTL

(***************************************************************************)
(* Licences.                                                               *)
(***************************************************************************)
Licensed(w) ==
  /\ ~Refused(w.cmd, w.req.role)
  /\ Gated(w.cmd, w.req.bypass) => w.req.reply \in {"yes", "all"}

(* Who has just run, ran under a licence of its own turn.                  *)
LEMMA RunLicensed ==
  ASSUME TypeInv, NEW t \in Turns, NEW id, NEW c,
         st[t] # NoState, ~Refused(c, st[t].role),
         Approves(req[t].reply) \/ ~Gated(c, req[t].bypass)
  PROVE  Licensed(Run(id, c, t))
  BY DEF TypeInv, OwnRole, Licensed, Run, Approves, IsAutoApproveRequest

LEMMA StepLicensed ==
  ASSUME TypeInv, RunsAreLicensed, NEW t \in Turns, TurnStep(t)
  PROVE  RunsAreLicensed'
<1> USE DEF historyVars
<1>1. SUFFICES ASSUME NEW w \in ran', w \notin ran PROVE Licensed(w)
  BY <1>1 DEF RunsAreLicensed, Licensed
<1>2. CASE Resume(t)
  <2>1. st[t] # NoState
    BY <1>2 DEF Resume, TypeInv, TypeOK, Active
  <2>2. /\ Approves(req[t].reply) /\ ~Refused(st[t].pending.cmd, st[t].role)
        /\ w = Run(st[t].pending.id, st[t].pending.cmd, t)
    BY <1>1, <1>2 DEF Resume
  <2>3. QED
    BY <2>1, <2>2, RunLicensed
<1>3. CASE \E cmds \in Batches : Batch(t, cmds)
  <2>1. PICK cmds \in Batches : Batch(t, cmds)
    BY <1>3
  <2>2. st[t] # NoState
    BY <2>1 DEF Batch, ModelCalled, TypeInv, TypeOK, Active
  <2>3. PICK i \in Executed(t, cmds) : w = Run(proposed + i, cmds[i], t)
    BY <1>1, <2>1 DEF Batch
  <2>4. ~Refused(cmds[i], st[t].role) /\ ~Gated(cmds[i], req[t].bypass)
    BY <2>3 DEF Executed, NeedHuman
  <2>5. QED
    BY <2>2, <2>3, <2>4, RunLicensed
<1>4. CASE UNCHANGED ran
  BY <1>1, <1>4
<1>5. QED
  BY <1>2, <1>3, <1>4
     DEF TurnStep, Load, LoadFails, SaveFresh, SaveEnd, GraphExhausted, Synthesize,
         BeginLoop, LoopExhausted, Answer, NoAnswer, Route

(* No write that needs a human runs but in a turn whose own message        *)
(* approves, and none under a role of its caller that rules it out,        *)
(* however turns overlap, crash and lose what they saved (hitl.go,         *)
(* IsApproval; tools.go, resolvePending and runBatch).                     *)
THEOREM WritesAlwaysLicensed == Spec => []RunsAreLicensed
<1>1. Init => RunsAreLicensed
  BY DEF Init, RunsAreLicensed
<1>2. TypeInv /\ RunsAreLicensed /\ [Next]_vars => RunsAreLicensed'
  <2> SUFFICES ASSUME TypeInv, RunsAreLicensed, [Next]_vars PROVE RunsAreLicensed'
    OBVIOUS
  <2>1. CASE \E t \in Turns : Step(t)
    BY <2>1, StepLicensed DEF Step
  <2>2. CASE UNCHANGED ran
    BY <2>2 DEF RunsAreLicensed
  <2>3. QED
    BY <2>1, <2>2 DEF Next, Start, Crash, historyVars, vars
<1>3. QED
  BY <1>1, <1>2, AlwaysTyped, PTL DEF Spec

(***************************************************************************)
(* Turns end.                                                              *)
(***************************************************************************)
(* The step budget is overrun by one routing at most, and only where the   *)
(* graph looks at it next.                                                 *)
StepsBounded ==
  \A t \in Turns :
     /\ steps[t] <= MaxSteps + 5
     /\ pc[t] \notin {"node", "save"} => steps[t] <= MaxSteps + 3

LEMMA StepsStayBounded ==
  TypeInv /\ StepsBounded /\ [Next]_vars => StepsBounded'
<1> SUFFICES ASSUME TypeInv, StepsBounded, [Next]_vars PROVE StepsBounded'
  OBVIOUS
<1> USE Bounds DEF TypeInv, TypeOK, StepsBounded
<1>1. CASE UNCHANGED steps /\ \A t \in Turns : pc'[t] \in {pc[t], "save", "node"}
  BY <1>1
<1>2. CASE Crash
  BY <1>2 DEF Crash
<1>3. CASE \E t \in Turns, m \in Replies, auto \in Bypasses, role \in Roles :
             Start(t, m, auto, role)
  BY <1>3 DEF Start
<1>4. CASE \E t \in Turns : TurnStep(t)
  <2>1. PICK t \in Turns : TurnStep(t)
    BY <1>4
  <2>2. CASE Leave(t)
    BY <2>2 DEF Leave
  <2>3. CASE Resume(t)
    BY <2>3 DEF Resume
  <2>4. CASE BeginLoop(t)
    BY <2>4 DEF BeginLoop, localVars, loopVars
  <2>5. CASE \E specialists \in BOOLEAN : Route(t, specialists)
    BY <2>5 DEF Route, ModelCalled, MoreSteps
  <2>6. CASE Load(t)
    BY <2>6 DEF Load
  <2>7. CASE \E cmds \in Batches : Batch(t, cmds)
    <3>1. UNCHANGED steps /\ (UNCHANGED pc \/ pc' = [pc EXCEPT ![t] = "save"])
      BY <2>7 DEF Batch, EndTurn
    <3>2. QED
      BY <3>1, <1>1
  <2>8. CASE SaveFresh(t)
    BY <2>8 DEF SaveFresh, localVars, loopVars
  <2>9. QED
    BY <1>1, <2>1, <2>2, <2>3, <2>4, <2>5, <2>6, <2>7, <2>8
       DEF TurnStep, LoadFails, SaveEnd, GraphExhausted, Synthesize,
           LoopExhausted, Answer, NoAnswer, EndTurn, localVars, loopVars
<1>5. QED
  BY <1>1, <1>2, <1>3, <1>4 DEF Next, Step, vars, localVars, loopVars

LEMMA AlwaysBounded == Spec => []StepsBounded
<1>1. Init => StepsBounded
  BY Bounds DEF Init, StepsBounded
<1>2. QED
  BY <1>1, StepsStayBounded, AlwaysTyped, PTL DEF Spec

LEMMA VisitsNat ==
  ASSUME NEW n \in Nat, n <= MaxSteps + 5
  PROVE  (MaxSteps + 5 - n) * (MaxRounds + 3) \in Nat
<1>1. MaxSteps + 5 - n \in Nat /\ MaxRounds + 3 \in Nat
  BY Bounds
<1>2. \A a, b \in Nat : a * b \in Nat
  OBVIOUS
<1>3. QED
  BY <1>1, <1>2

LEMMA VisitsShrink ==
  ASSUME NEW n \in Nat
  PROVE  (MaxSteps + 5 - (n + 2)) * (MaxRounds + 3)
           = (MaxSteps + 5 - n) * (MaxRounds + 3) - 2 * (MaxRounds + 3)
<1>1. \A a, b \in Int : (a - 2) * b = a * b - 2 * b
  OBVIOUS
<1>2. MaxSteps + 5 - n \in Int /\ MaxRounds + 3 \in Int
      /\ MaxSteps + 5 - (n + 2) = (MaxSteps + 5 - n) - 2
  BY Bounds
<1>3. QED
  BY <1>1, <1>2

LEMMA LeftCounts ==
  ASSUME TypeInv, StepsBounded, NEW t \in Turns
  PROVE  /\ VisitsLeft(t) \in Nat
         /\ Left(t) \in Nat
         /\ Active(t) => Left(t) >= 1
<1>1. VisitsLeft(t) \in Nat
  BY VisitsNat DEF VisitsLeft, TypeInv, TypeOK, StepsBounded
<1>2. rounds[t] \in 0 .. MaxRounds /\ pc[t] \in Stages
  BY DEF TypeInv, TypeOK
<1>3. QED
  BY <1>1, <1>2, Bounds DEF Left, Stages, Active

LEMMA StepRunsDown ==
  ASSUME TypeInv, TypeInv', StepsBounded, NEW t \in Turns, TurnStep(t)
  PROVE  /\ Active(t) /\ Left(t)' \in Int /\ Left(t)' < Left(t)
         /\ \A u \in Turns \ {t} : Left(u)' = Left(u)
<1>1. VisitsLeft(t) \in Nat /\ rounds[t] \in 0 .. MaxRounds /\ MaxRounds \in Nat
      /\ steps[t] \in Nat
  BY LeftCounts, Bounds DEF TypeInv, TypeOK
<1>2. Active(t)
  BY DEF TurnStep, Load, LoadFails, SaveFresh, SaveEnd, Resume, GraphExhausted, Synthesize,
         BeginLoop, LoopExhausted, ModelCalled, Answer, NoAnswer, Route, Batch, Active
<1>3. Left(t)' < Left(t)
  <2> USE DEF Left, VisitsLeft
  <2>1. rounds'[t] \in Nat /\ pc \in [Turns -> Stages] /\ steps \in [Turns -> Nat]
        /\ rounds \in [Turns -> 0 .. MaxRounds]
    BY Bounds DEF TypeInv, TypeOK
  <2>2. CASE pc' = [pc EXCEPT ![t] = "done"]
    BY <1>2, <2>1, <2>2, LeftCounts
  <2>3. CASE pc[t] \in {"node", "chat"} /\ pc' = [pc EXCEPT ![t] = "save"]
    BY <1>1, <2>1, <2>3
  <2>4. CASE Load(t)
    BY <1>1, <2>1, <2>4 DEF Load
  <2>5. CASE SaveFresh(t)
    BY <1>1, <2>1, <2>5 DEF SaveFresh, localVars, loopVars
  <2>6. CASE Resume(t) \/ BeginLoop(t)
    BY <1>1, <2>1, <2>6 DEF Resume, BeginLoop, localVars, loopVars
  <2>7. CASE \E specialists \in BOOLEAN : Route(t, specialists)
    <3>1. /\ pc[t] = "chat" /\ pc'[t] = "node" /\ rounds[t] < MaxRounds
          /\ steps'[t] = steps[t] + 2
      BY <2>1, <2>7 DEF Route, ModelCalled, MoreSteps
    <3>2. VisitsLeft(t)' = VisitsLeft(t) - 2 * (MaxRounds + 3)
      BY <1>1, <3>1, VisitsShrink
    <3>3. QED
      BY <1>1, <3>1, <3>2
  <2>8. CASE \E cmds \in Batches : Batch(t, cmds)
    <3>1. /\ pc[t] = "chat" /\ rounds'[t] = rounds[t] + 1 /\ UNCHANGED steps
          /\ UNCHANGED pc \/ pc' = [pc EXCEPT ![t] = "save"]
      BY <2>1, <2>8 DEF Batch, ModelCalled, EndTurn
    <3>2. QED
      BY <1>1, <2>1, <2>3, <3>1
  <2>9. QED
    BY <2>2, <2>3, <2>4, <2>5, <2>6, <2>7, <2>8
       DEF TurnStep, LoadFails, SaveEnd, Leave, GraphExhausted, Synthesize,
           LoopExhausted, Answer, NoAnswer, ModelCalled, EndTurn
<1>4. \A u \in Turns \ {t} : Left(u)' = Left(u)
  <2> SUFFICES ASSUME NEW u \in Turns \ {t} PROVE Left(u)' = Left(u)
    OBVIOUS
  <2>1. pc \in [Turns -> Stages] /\ steps \in [Turns -> Nat]
        /\ rounds \in [Turns -> 0 .. MaxRounds]
    BY DEF TypeInv, TypeOK
  <2>2. pc'[u] = pc[u] /\ steps'[u] = steps[u] /\ rounds'[u] = rounds[u]
    <3>1. CASE Leave(t)
      BY <2>1, <3>1 DEF Leave
    <3>2. CASE \E cmds \in Batches : Batch(t, cmds)
      BY <2>1, <3>2 DEF Batch, ModelCalled, EndTurn
    <3>3. CASE \E specialists \in BOOLEAN : Route(t, specialists)
      BY <2>1, <3>3 DEF Route, DropLoop, ModelCalled
    <3>4. QED
      BY <2>1, <3>1, <3>2, <3>3
         DEF TurnStep, Load, LoadFails, SaveFresh, SaveEnd, Resume, GraphExhausted,
             Synthesize, BeginLoop, LoopExhausted, Answer, NoAnswer, ModelCalled,
             EndTurn, DropLoop, localVars, loopVars
  <2>3. QED
    BY <2>2 DEF Left, VisitsLeft
<1>5. Left(t)' \in Int
  <2>1. rounds'[t] \in Int /\ steps'[t] \in Int /\ MaxSteps \in Int /\ MaxRounds \in Int
    BY Bounds DEF TypeInv, TypeOK
  <2>2. \A a, b \in Int : a * b \in Int
    OBVIOUS
  <2>3. VisitsLeft(t)' \in Int
    BY <2>1, <2>2 DEF VisitsLeft
  <2>4. QED
    BY <2>1, <2>3 DEF Left
<1>6. QED
  BY <1>2, <1>3, <1>4, <1>5

(* A turn ends for every budget and every number of turns: each step but   *)
(* the arrival of a request brings a running turn nearer to its end, and   *)
(* none takes one further from it (agent.go, runGraph; coordinator.go,     *)
(* directAnswer).                                                          *)
THEOREM TurnsAlwaysRunDown == Spec => TurnsRunDown
<1> DEFINE Down == /\ \A t \in Turns : Active(t) => Left(t)' <= Left(t)
                   /\ \/ \E t \in Turns : ~Active(t) /\ Active(t)'
                      \/ \E t \in Turns : Active(t) /\ Left(t)' < Left(t)
<1>1. TypeInv /\ TypeInv' /\ StepsBounded /\ [Next]_vars => [Down]_vars
  <2> SUFFICES ASSUME TypeInv, TypeInv', StepsBounded, Next PROVE Down
    OBVIOUS
  <2>1. \A t \in Turns : Left(t) \in Nat /\ (Active(t) => Left(t) >= 1)
    BY LeftCounts
  <2>2. CASE \E t \in Turns : Step(t)
    <3>1. PICK t \in Turns : TurnStep(t)
      BY <2>2 DEF Step
    <3>2. /\ Active(t) /\ Left(t)' < Left(t)
          /\ Left(t)' \in Int
          /\ \A u \in Turns \ {t} : Left(u)' = Left(u)
      BY <3>1, StepRunsDown
    <3>3. \A u \in Turns : Left(u)' <= Left(u)
      <4> SUFFICES ASSUME NEW u \in Turns PROVE Left(u)' <= Left(u)
        OBVIOUS
      <4>1. CASE u = t
        BY <3>2, <2>1, <4>1
      <4>2. CASE u # t
        BY <3>2, <2>1, <4>2
      <4>3. QED
        BY <4>1, <4>2
    <3>4. QED
      BY <3>2, <3>3
  <2>3. CASE \E t \in Turns, m \in Replies, auto \in Bypasses, role \in Roles :
               Start(t, m, auto, role)
    <3>1. PICK t \in Turns : /\ pc[t] = "off" /\ pc' = [pc EXCEPT ![t] = "load"]
                             /\ steps' = [steps EXCEPT ![t] = 3] /\ UNCHANGED rounds
      BY <2>3 DEF Start
    <3>2. ~Active(t) /\ Active(t)'
      BY <3>1 DEF Active, TypeInv, TypeOK
    <3>3. \A u \in Turns \ {t} : Left(u)' = Left(u)
      BY <3>1 DEF Left, VisitsLeft, TypeInv, TypeOK
    <3>4. QED
      BY <2>1, <3>2, <3>3
  <2>4. CASE Crash
    <3>1. PICK t \in Turns : Active(t)
      BY <2>4 DEF Crash, AtRest
    <3>2. \A u \in Turns : Active(u) => Left(u)' = 0
      BY <2>4 DEF Crash, Left, Active
    <3>3. QED
      BY <2>1, <3>1, <3>2
  <2>5. QED
    BY <2>2, <2>3, <2>4 DEF Next
<1>2. QED
  BY <1>1, AlwaysTyped, AlwaysBounded, PTL DEF Spec, TurnsRunDown

(***************************************************************************)
(* Approvals, over the pauses of a session.                                *)
(*                                                                         *)
(* ApprovalsAreKept speaks of a session at rest; what makes it inductive   *)
(* is where its content is while a turn runs.  The session's memory is     *)
(* carried by the saved state until a turn has loaded it, by the turn's    *)
(* own state and its loop until it is saved, and by the saved state again  *)
(* (Carried): in each of these places the pending call is the one shown    *)
(* last exactly while no reply has decided it, every write that ran is     *)
(* known, and the calls made so far are counted.                           *)
(***************************************************************************)
Decided(id) == id = NoId \/ id \in declined \/ \E w \in ran : w.id = id

Known(s) ==
  IF s = NoState THEN {}
  ELSE s.known \cup (IF s.pending = NoPending THEN {} ELSE s.pending.loop)

Carried(s, results) ==
  /\ Decided(screen) => ~HasPending(s)
  /\ ~Decided(screen) => HasPending(s) /\ s.pending.id = screen
  /\ \A w \in ran : w.id \in dropped \cup results \cup Known(s)
  /\ HasPending(s) => s.pending.rounds = calls

Settled == {"fresh", "fetched", "node", "chat"}

TurnKept(t) ==
  /\ pc[t] # "chat" => loop[t] = {}
  /\ pc[t] \notin {"chat", "save"} => rounds[t] = 0
  /\ pc[t] = "chat" => rounds[t] = calls
  /\ pc[t] \in {"load", "resume"} => req[t].answers = screen
  /\ pc[t] = "load" => Carried(saved, {})
  /\ Active(t) /\ pc[t] # "load" => Carried(st[t], loop[t])
  /\ pc[t] \in Settled => st[t].pending = NoPending

(* A write is numbered once.                                               *)
Numbered ==
  /\ \A w \in ran : w.id <= proposed
  /\ \A i \in declined : i <= proposed
  /\ screen <= proposed

Alone == \A t, u \in Turns : Active(t) /\ Active(u) => t = u
ShownRan == \A w \in ran : Gated(w.cmd, w.req.bypass) => w.id = w.req.answers
RanOnce == \A v, w \in ran : v.id = w.id => v.turn = w.turn
DeclinedStay == \A w \in ran : w.id \notin declined

SessionKept ==
  /\ Numbered /\ Alone /\ ShownRan /\ RanOnce /\ DeclinedStay
  /\ calls <= MaxRounds
  /\ AtRest => Carried(saved, {})
  /\ \A t \in Turns : TurnKept(t)

ApprovalInv == InTurn => SessionKept

LEMMA CarriedOn ==
  ASSUME NEW s, NEW s2, NEW done, NEW done2, Carried(s, done),
         UNCHANGED <<screen, ran, declined>>,
         HasPending(s2) <=> HasPending(s),
         HasPending(s) => s2.pending = s.pending /\ calls' = calls,
         dropped \cup done \cup Known(s) \subseteq dropped' \cup done2 \cup Known(s2)
  PROVE  Carried(s2, done2)'
<1>1. Decided(screen)' <=> Decided(screen)
  BY DEF Decided
<1>2. \A w \in ran' : w.id \in dropped' \cup done2 \cup Known(s2)
  BY DEF Carried
<1>3. HasPending(s2)' = HasPending(s2) /\ Known(s2)' = Known(s2)
  BY DEF HasPending, Known
<1>4. QED
  BY <1>1, <1>2, <1>3 DEF Carried

(* A step of a turn is about that turn.                                    *)
LEMMA OthersSame ==
  ASSUME TypeInv, NEW t \in Turns, TurnStep(t)
  PROVE  /\ Active(t)
         /\ \A u \in Turns \ {t} : pc'[u] = pc[u] /\ loop'[u] = loop[u] /\ rounds'[u] = rounds[u]
<1>1. Active(t)
  BY DEF TurnStep, Load, LoadFails, SaveFresh, SaveEnd, Resume, GraphExhausted, Synthesize,
         BeginLoop, LoopExhausted, ModelCalled, Answer, NoAnswer, Route, Batch, Active
<1>2. /\ pc \in [Turns -> Stages] /\ loop \in [Turns -> SUBSET Ids]
      /\ rounds \in [Turns -> 0 .. MaxRounds]
  BY DEF TypeInv, TypeOK
<1>3. SUFFICES ASSUME NEW u \in Turns \ {t}
               PROVE  pc'[u] = pc[u] /\ loop'[u] = loop[u] /\ rounds'[u] = rounds[u]
  BY <1>1
<1>4. CASE Leave(t)
  BY <1>2, <1>4 DEF Leave
<1>5. CASE \E cmds \in Batches : Batch(t, cmds)
  <2>1. PICK cmds \in Batches : Batch(t, cmds)
    BY <1>5
  <2>2. \E done : loop' = [loop EXCEPT ![t] = done]
    BY <2>1 DEF Batch
  <2>3. rounds' = [rounds EXCEPT ![t] = @ + 1] /\ (UNCHANGED pc \/ pc' = [pc EXCEPT ![t] = "save"])
    BY <2>1 DEF Batch, EndTurn
  <2>4. QED
    BY <1>2, <2>2, <2>3
<1>6. CASE \E specialists \in BOOLEAN : Route(t, specialists)
  BY <1>2, <1>6 DEF Route, DropLoop, ModelCalled
<1>7. QED
  BY <1>2, <1>4, <1>5, <1>6
     DEF TurnStep, Load, LoadFails, SaveFresh, SaveEnd, Resume, GraphExhausted,
         Synthesize, BeginLoop, LoopExhausted, Answer, NoAnswer, ModelCalled,
         EndTurn, DropLoop, localVars, loopVars

LEMMA OthersKept ==
  ASSUME TypeInv, SessionKept, NEW t \in Turns, TurnStep(t)
  PROVE  /\ Alone' /\ (AtRest' => ~Active(t)')
         /\ \A u \in Turns \ {t} : TurnKept(u)'
<1>1. \A u \in Turns \ {t} : /\ ~Active(u) /\ TurnKept(u)
                             /\ pc'[u] = pc[u] /\ loop'[u] = loop[u] /\ rounds'[u] = rounds[u]
  BY OthersSame DEF SessionKept, Alone
<1>2. \A u \in Turns \ {t} : ~Active(u)'
  BY <1>1 DEF Active
<1>3. ASSUME NEW u \in Turns \ {t}
      PROVE  TurnKept(u)'
  <2>1. pc'[u] \in {"off", "done"} /\ loop'[u] = {} /\ rounds'[u] = 0
    BY <1>1 DEF Active, TurnKept
  <2>2. QED
    BY <2>1 DEF TurnKept, Active, Settled
<1>4. QED
  BY <1>2, <1>3 DEF Alone, AtRest

(* Steps in which nothing is proposed, run, declined or shown.             *)
LEMMA QuietKept ==
  ASSUME TypeInv, SessionKept, NEW t \in Turns, TurnStep(t), TurnKept(t)', calls' <= MaxRounds,
         UNCHANGED <<screen, proposed, ran, declined>>,
         ~Active(t)' => Carried(saved, {})'
  PROVE  SessionKept'
<1>1. Numbered' /\ ShownRan' /\ RanOnce' /\ DeclinedStay'
  BY DEF SessionKept, Numbered, ShownRan, RanOnce, DeclinedStay
<1>2. \A u \in Turns : TurnKept(u)'
  BY OthersKept
<1>3. QED
  BY <1>1, <1>2, OthersKept DEF SessionKept

(* What the running turn carries.                                          *)
LEMMA RunningIs ==
  ASSUME TypeInv, SessionKept, NEW t \in Turns, Active(t), pc[t] # "load"
  PROVE  /\ st[t] \in State /\ st[t] # NoState /\ Carried(st[t], loop[t])
         /\ pc[t] \in Settled => ~HasPending(st[t])
         /\ req[t] \in Request
  BY Nothings DEF TypeInv, TypeOK, SessionKept, TurnKept, HasPending

LEMMA LoadKept ==
  ASSUME TypeInv, SessionKept, NEW t \in Turns, Load(t), TurnStep(t)
  PROVE  SessionKept'
<1>1. /\ pc[t] = "load" /\ st' = [st EXCEPT ![t] = Loaded(t)]
      /\ pc' = [pc EXCEPT ![t] = IF HasPending(saved) THEN "resume" ELSE "fresh"]
      /\ UNCHANGED <<saved, req, loop, rounds, screen, proposed, ran, declined, dropped, calls>>
  BY DEF Load, historyVars
<1>2. Carried(saved, {}) /\ loop[t] = {} /\ rounds[t] = 0 /\ req[t].answers = screen
  BY <1>1 DEF SessionKept, TurnKept
<1>3. PICK s : s = Loaded(t)
  OBVIOUS
<1>4. /\ HasPending(s) <=> HasPending(saved)
      /\ HasPending(saved) => s.pending = saved.pending
      /\ ~HasPending(saved) => s.pending = NoPending
      /\ Known(s) = Known(saved)
  <2>1. saved \in State \cup {NoState}
    BY DEF TypeInv, TypeOK
  <2>2. CASE HasPending(saved)
    <3>1. saved \in State /\ saved.pending # NoPending
      BY <2>1, <2>2 DEF HasPending
    <3>2. s = [saved EXCEPT !.role = RoleOf(t)]
      BY <1>3, <2>2 DEF Loaded
    <3>3. s.pending = saved.pending /\ s.known = saved.known
      BY <3>1, <3>2 DEF State
    <3>4. s # NoState
      <4>1. DOMAIN s = {"known", "pending", "role"} /\ DOMAIN NoState = {"none"}
        BY <3>1, <3>2 DEF State, NoState
      <4>2. QED
        BY <4>1
    <3>5. QED
      BY <2>2, <3>1, <3>3, <3>4, Nothings DEF HasPending, Known
  <2>3. CASE ~HasPending(saved)
    <3>1. s = [known |-> IF saved = NoState THEN {} ELSE saved.known, pending |-> NoPending, role |-> RoleOf(t)]
      BY <1>3, <2>3 DEF Loaded
    <3>2. s # NoState /\ s.pending = NoPending /\ s.known = IF saved = NoState THEN {} ELSE saved.known
      BY <3>1 DEF NoState
    <3>3. QED
      BY <2>3, <3>2 DEF HasPending, Known
  <2>4. QED
    BY <2>2, <2>3
<1>5. Carried(s, {})'
  BY <1>1, <1>2, <1>4, CarriedOn
<1>6. st'[t] = s /\ pc'[t] = IF HasPending(saved) THEN "resume" ELSE "fresh"
  BY <1>1, <1>3 DEF TypeInv, TypeOK
<1>7. TurnKept(t)'
  <2>1. Carried(st[t], loop[t])'
    BY <1>1, <1>2, <1>5, <1>6 DEF Carried
  <2>2. pc'[t] \in {"resume", "fresh"} /\ (pc'[t] = "fresh" => st'[t].pending = NoPending)
    BY <1>4, <1>6
  <2>3. QED
    BY <1>1, <1>2, <2>1, <2>2 DEF TurnKept, Settled
<1>8. Active(t)' /\ calls' <= MaxRounds
  BY <1>1, <1>6 DEF Active, SessionKept
<1>9. QED
  BY <1>1, <1>7, <1>8, QuietKept

LEMMA SaveEndKept ==
  ASSUME TypeInv, SessionKept, NEW t \in Turns, SaveEnd(t), TurnStep(t), UNCHANGED faults
  PROVE  SessionKept'
<1>1. pc[t] = "save" /\ Leave(t) /\ UNCHANGED <<screen, proposed, ran, declined, dropped, calls>>
  BY DEF SaveEnd, historyVars
<1>2. saved' = st[t]
  BY DEF SaveEnd, Stored, NotStored, Fault, TypeInv, TypeOK
<1>3. Carried(st[t], loop[t]) /\ loop[t] = {}
  BY <1>1, RunningIs DEF Active, SessionKept, TurnKept
<1>4. PICK s : s = st[t]
  OBVIOUS
<1>5. Carried(s, {})'
  BY <1>1, <1>3, <1>4, CarriedOn
<1>6. Carried(saved, {})'
  BY <1>2, <1>4, <1>5 DEF Carried
<1>7. pc'[t] = "done" /\ loop'[t] = {} /\ rounds'[t] = 0
  BY <1>1 DEF Leave, TypeInv, TypeOK
<1>8. TurnKept(t)'
  BY <1>7 DEF TurnKept, Active, Settled
<1>9. calls' <= MaxRounds
  BY <1>1 DEF SessionKept
<1>10. QED
  BY <1>1, <1>6, <1>8, <1>9, QuietKept

(* Steps of a turn for which nothing waits, and that decide nothing.       *)
LEMMA SettledKept ==
  ASSUME TypeInv, SessionKept, NEW t \in Turns, TurnStep(t), pc[t] \in Settled,
         NEW stage \in Settled \cup {"save"}, pc' = [pc EXCEPT ![t] = stage],
         UNCHANGED <<screen, proposed, ran, declined>>,
         NEW s, st'[t] = s, s # NoState, s.pending = st[t].pending,
         NEW done, loop'[t] = done,
         dropped \cup loop[t] \cup Known(st[t]) \subseteq dropped' \cup done \cup Known(s),
         stage # "chat" => done = {},
         stage \notin {"chat", "save"} => rounds'[t] = 0,
         stage = "chat" => rounds'[t] = calls',
         calls' <= MaxRounds
  PROVE  SessionKept'
<1>1. Carried(st[t], loop[t]) /\ ~HasPending(st[t]) /\ st[t] # NoState
  BY RunningIs DEF Active, Settled
<1>2. s.pending = NoPending /\ ~HasPending(s)
  BY <1>1 DEF HasPending
<1>3. PICK s1, done1 : s1 = st[t] /\ done1 = loop[t]
  OBVIOUS
<1>4. Carried(s, done)'
  BY <1>1, <1>2, <1>3, CarriedOn
<1>5. Carried(st[t], loop[t])'
  BY <1>4 DEF Carried
<1>6. pc'[t] = stage
  BY DEF TypeInv, TypeOK
<1>7. TurnKept(t)'
  BY <1>2, <1>5, <1>6 DEF TurnKept, Settled
<1>8. Active(t)'
  BY <1>6 DEF Active, Settled
<1>9. QED
  BY <1>7, <1>8, QuietKept

LEMMA DropIs ==
  ASSUME TypeInv, NEW t \in Turns, DropLoop(t)
  PROVE  /\ loop'[t] = {} /\ rounds'[t] = 0
         /\ dropped \cup loop[t] \subseteq dropped'
  BY DEF TypeInv, TypeOK, DropLoop

LEMMA CallsIs ==
  ASSUME TypeInv, SessionKept, NEW t \in Turns, pc[t] = "chat"
  PROVE  /\ rounds[t] = calls /\ calls <= MaxRounds
         /\ rounds[t] < MaxRounds => calls + 1 <= MaxRounds
  BY Bounds DEF TypeInv, TypeOK, SessionKept, TurnKept

LEMMA QuietStepKept ==
  ASSUME TypeInv, SessionKept, NEW t \in Turns, TurnStep(t),
         \/ SaveFresh(t) \/ GraphExhausted(t) \/ Synthesize(t) \/ BeginLoop(t) \/ LoopExhausted(t)
         \/ Answer(t) \/ NoAnswer(t) \/ \E specialists \in BOOLEAN : Route(t, specialists)
  PROVE  SessionKept'
<1> DEFINE s == st'[t]
<1>1. ASSUME pc[t] \in Settled
      PROVE  /\ st[t] \in State /\ st[t] # NoState
             /\ pc[t] # "chat" => loop[t] = {} /\ rounds[t] = 0
             /\ calls <= MaxRounds
  BY <1>1, RunningIs DEF Active, SessionKept, TurnKept, Settled
<1>2. CASE SaveFresh(t)
  <2>1. PICK stage : /\ stage = IF pc[t] = "fresh" THEN "fetched" ELSE "node"
                     /\ pc[t] \in {"fresh", "fetched"} /\ pc' = [pc EXCEPT ![t] = stage]
                     /\ UNCHANGED <<st, loop, rounds, screen, proposed, ran, declined, dropped, calls>>
    BY <1>2 DEF SaveFresh, localVars, loopVars, historyVars, TypeInv, TypeOK
  <2>2. pc[t] \in Settled /\ stage \in Settled \cup {"save"} /\ stage \notin {"chat", "save"}
    BY <2>1 DEF Settled
  <2>3. PICK s2, done : s2 = st[t] /\ done = loop[t]
    OBVIOUS
  <2>4. /\ done = {} /\ rounds'[t] = 0 /\ s2 # NoState
        /\ calls' <= MaxRounds
        /\ dropped \cup loop[t] \cup Known(st[t]) \subseteq dropped' \cup done \cup Known(s2)
    BY <1>1, <2>1, <2>2, <2>3 DEF Settled
  <2>5. QED
    BY <2>1, <2>2, <2>3, <2>4, SettledKept
<1>3. CASE GraphExhausted(t) \/ Synthesize(t)
  <2>1. /\ pc[t] = "node" /\ pc' = [pc EXCEPT ![t] = "save"]
        /\ UNCHANGED <<st, loop, rounds, screen, proposed, ran, declined, dropped, calls>>
    BY <1>3 DEF GraphExhausted, Synthesize, EndTurn, localVars, loopVars, historyVars
  <2>2. pc[t] \in Settled /\ "save" \in Settled \cup {"save"}
    BY <2>1 DEF Settled
  <2>3. PICK s2, done : s2 = st[t] /\ done = loop[t]
    OBVIOUS
  <2>4. /\ done = {} /\ s2 # NoState /\ calls' <= MaxRounds
        /\ dropped \cup loop[t] \cup Known(st[t]) \subseteq dropped' \cup done \cup Known(s2)
    BY <1>1, <2>1, <2>2, <2>3
  <2>5. QED
    BY <2>1, <2>2, <2>3, <2>4, SettledKept
<1>4. CASE BeginLoop(t)
  <2>1. /\ pc[t] = "node" /\ pc' = [pc EXCEPT ![t] = "chat"] /\ calls' = 0
        /\ UNCHANGED <<st, loop, rounds, screen, proposed, ran, declined, dropped>>
    BY <1>4 DEF BeginLoop, localVars, loopVars
  <2>2. pc[t] \in Settled /\ "chat" \in Settled \cup {"save"}
    BY <2>1 DEF Settled
  <2>3. PICK s2, done : s2 = st[t] /\ done = loop[t]
    OBVIOUS
  <2>4. /\ s2 # NoState /\ calls' <= MaxRounds /\ rounds'[t] = calls'
        /\ dropped \cup loop[t] \cup Known(st[t]) \subseteq dropped' \cup done \cup Known(s2)
    BY <1>1, <2>1, <2>2, <2>3, Bounds
  <2>5. QED
    BY <2>1, <2>2, <2>3, <2>4, SettledKept
<1>5. CASE LoopExhausted(t) \/ NoAnswer(t) \/ \E specialists \in BOOLEAN : Route(t, specialists)
  <2>1. PICK stage \in {"save", "node"} :
          /\ pc[t] = "chat" /\ pc' = [pc EXCEPT ![t] = stage] /\ DropLoop(t)
          /\ UNCHANGED <<st, screen, proposed, ran, declined>>
          /\ calls' = calls \/ (calls' = calls + 1 /\ rounds[t] < MaxRounds)
    BY <1>5 DEF LoopExhausted, NoAnswer, Route, ModelCalled, EndTurn
  <2>2. pc[t] \in Settled /\ stage \in Settled \cup {"save"} /\ stage # "chat"
    BY <2>1 DEF Settled
  <2>3. PICK s2, done : s2 = st[t] /\ done = {}
    OBVIOUS
  <2>4. calls' <= MaxRounds
    BY <2>1, CallsIs
  <2>5. /\ s2 # NoState /\ loop'[t] = done /\ rounds'[t] = 0
        /\ dropped \cup loop[t] \cup Known(st[t]) \subseteq dropped' \cup done \cup Known(s2)
    BY <1>1, <2>1, <2>2, <2>3, DropIs
  <2>6. QED
    BY <2>1, <2>2, <2>3, <2>4, <2>5, SettledKept
<1>6. CASE Answer(t)
  <2>1. /\ pc[t] = "chat" /\ pc' = [pc EXCEPT ![t] = "save"] /\ rounds[t] < MaxRounds
        /\ st' = [st EXCEPT ![t].known = @ \cup loop[t]]
        /\ loop' = [loop EXCEPT ![t] = {}]
        /\ UNCHANGED <<screen, proposed, ran, declined, dropped>>
        /\ calls' = calls + 1
    BY <1>6 DEF Answer, ModelCalled, EndTurn
  <2>2. pc[t] \in Settled /\ "save" \in Settled \cup {"save"}
    BY <2>1 DEF Settled
  <2>3. PICK s2 : s2 = [st[t] EXCEPT !.known = @ \cup loop[t]]
    OBVIOUS
  <2>4. st'[t] = s2 /\ loop'[t] = {}
    BY <2>1, <2>3 DEF TypeInv, TypeOK
  <2>5. /\ s2.known = st[t].known \cup loop[t] /\ s2.pending = st[t].pending /\ s2 \in [known : SUBSET Ids, pending : PendingCall \cup {NoPending}, role : Roles]
    <3>1. st[t] \in State /\ loop[t] \subseteq Ids
      BY <1>1, <2>2 DEF TypeInv, TypeOK
    <3>2. QED
      BY <2>3, <3>1 DEF State
  <2>6. s2 # NoState
    BY <2>5, Nothings DEF State
  <2>7. Known(st[t]) \cup loop[t] \subseteq Known(s2)
    BY <1>1, <2>2, <2>5, <2>6 DEF Known
  <2>8. calls' <= MaxRounds
    BY <2>1, CallsIs
  <2>9. PICK done : done = {}
    OBVIOUS
  <2>10. dropped \cup loop[t] \cup Known(st[t]) \subseteq dropped' \cup done \cup Known(s2)
    BY <2>1, <2>7
  <2>11. QED
    BY <2>1, <2>2, <2>4, <2>5, <2>6, <2>8, <2>9, <2>10, SettledKept, ZenonT(60)
<1>7. QED
  BY <1>2, <1>3, <1>4, <1>5, <1>6

(* The reply to what was shown runs it or declines it, and is the first to *)
(* do either.                                                              *)
LEMMA ResumeKept ==
  ASSUME TypeInv, SessionKept, NEW t \in Turns, Resume(t), TurnStep(t)
  PROVE  SessionKept'
<1> DEFINE p == st[t].pending
<1>1. /\ pc[t] = "resume" /\ pc' = [pc EXCEPT ![t] = "chat"]
      /\ loop' = [loop EXCEPT ![t] = p.loop \cup {p.id}]
      /\ rounds' = [rounds EXCEPT ![t] = p.rounds]
      /\ st' = [st EXCEPT ![t] = Answered(@)]
      /\ UNCHANGED <<saved, req, screen, proposed, dropped, calls>>
  BY DEF Resume, ResumedLoop, ResumedRounds
<1>2. /\ st[t] \in State /\ st[t] # NoState /\ p # NoPending /\ p \in PendingCall
      /\ Carried(st[t], loop[t]) /\ loop[t] = {} /\ req[t].answers = screen
  <2>1. /\ st[t] \in State /\ st[t] # NoState /\ Carried(st[t], loop[t])
    BY <1>1, RunningIs DEF Active
  <2>2. loop[t] = {} /\ req[t].answers = screen
    BY <1>1 DEF SessionKept, TurnKept
  <2>3. p # NoPending
    BY <1>1 DEF TypeInv, Answering
  <2>4. p \in PendingCall
    BY <2>1, <2>3 DEF State
  <2>5. QED
    BY <2>1, <2>2, <2>3, <2>4
<1>3. ~Decided(screen) /\ p.id = screen /\ p.rounds = calls
  BY <1>2 DEF Carried, HasPending
<1>4. /\ screen \notin declined /\ \A w \in ran : w.id # screen
  BY <1>3 DEF Decided
<1>5. PICK w : /\ w = Run(p.id, p.cmd, t)
               /\ w.id = screen /\ w.turn = t /\ w.req.answers = screen
  <2>1. PICK w : w = Run(p.id, p.cmd, t)
    OBVIOUS
  <2>2. w.id = p.id /\ w.turn = t /\ w.req = req[t]
    BY <2>1 DEF Run
  <2>3. w.req.answers = screen
    BY <1>2, <2>2
  <2>4. QED
    BY <1>3, <2>1, <2>2, <2>3
<1>6. \/ ran' = ran \cup {w} /\ declined' = declined
      \/ ran' = ran /\ declined' = declined \cup {screen}
  BY <1>3, <1>5 DEF Resume
<1>7. Numbered'
  BY <1>1, <1>5, <1>6 DEF SessionKept, Numbered
<1>8. ShownRan' /\ RanOnce' /\ DeclinedStay'
  BY <1>4, <1>5, <1>6 DEF SessionKept, ShownRan, RanOnce, DeclinedStay
<1>9. PICK s : s = Answered(st[t])
  OBVIOUS
<1>10. s.pending = NoPending /\ s.known = st[t].known /\ s # NoState
  <2>1. s \in State /\ s.pending = NoPending /\ s.known = st[t].known
    BY <1>2, <1>9 DEF Answered, State
  <2>2. QED
    BY <2>1, Nothings
<1>11. st'[t] = s /\ loop'[t] = p.loop \cup {screen} /\ rounds'[t] = calls' /\ pc'[t] = "chat"
  BY <1>1, <1>3, <1>9 DEF TypeInv, TypeOK
<1>12. Decided(screen)'
  BY <1>1, <1>5, <1>6 DEF Decided
<1>13. \A v \in ran' : v.id \in dropped' \cup loop'[t] \cup Known(s)
  <2>1. Known(st[t]) = st[t].known \cup p.loop /\ Known(s) = st[t].known
    BY <1>2, <1>10 DEF Known
  <2>2. \A v \in ran : v.id \in dropped \cup st[t].known \cup p.loop
    BY <1>2, <2>1 DEF Carried
  <2>3. QED
    BY <1>1, <1>5, <1>6, <1>11, <2>1, <2>2
<1>14. Carried(st[t], loop[t])'
  <2>1. ~HasPending(st[t])' /\ Known(st[t])' = Known(s)
    BY <1>10, <1>11 DEF HasPending, Known
  <2>2. QED
    BY <1>12, <1>13, <2>1 DEF Carried
<1>15. TurnKept(t)'
  BY <1>10, <1>11, <1>14 DEF TurnKept, Settled
<1>16. \A u \in Turns : TurnKept(u)'
  BY <1>15, OthersKept
<1>17. Active(t)' /\ calls' <= MaxRounds
  BY <1>1, <1>11 DEF Active, SessionKept
<1>18. QED
  BY <1>7, <1>8, <1>16, <1>17, OthersKept DEF SessionKept

(* A batch runs new writes; what it holds for a human is new as well.      *)
LEMMA BatchKept ==
  ASSUME TypeInv, SessionKept, NEW t \in Turns, NEW cmds \in Batches, Batch(t, cmds), TurnStep(t)
  PROVE  SessionKept'
<1> DEFINE held == Held(t, cmds)
           done == loop[t] \cup {proposed + i : i \in DOMAIN cmds \ held}
           new == {Run(proposed + i, cmds[i], t) : i \in Executed(t, cmds)}
<1>1. /\ pc[t] = "chat" /\ rounds[t] < MaxRounds /\ calls' = calls + 1
      /\ UNCHANGED <<saved, req, declined, dropped>>
      /\ proposed' = proposed + Len(cmds)
      /\ ran' = ran \cup new
      /\ rounds' = [rounds EXCEPT ![t] = @ + 1]
      /\ loop' = [loop EXCEPT ![t] = IF held = {} THEN done ELSE {}]
  BY DEF Batch, ModelCalled
<1>2. /\ st[t] \in State /\ st[t] # NoState /\ Carried(st[t], loop[t]) /\ ~HasPending(st[t])
      /\ st[t].pending = NoPending
  BY <1>1, RunningIs DEF Active, Settled, HasPending
<1>3. rounds[t] + 1 = calls' /\ calls' <= MaxRounds
  BY <1>1, CallsIs
<1>4. /\ proposed \in Nat /\ Len(cmds) \in Nat
      /\ \A i \in DOMAIN cmds : i \in Nat /\ i >= 1 /\ i <= Len(cmds)
  BY BatchIsSeq, Bounds DEF TypeInv, TypeOK
<1>5. \A i \in DOMAIN cmds : proposed + i > proposed /\ proposed + i <= proposed'
  BY <1>1, <1>4
<1>6. \A w \in new : \E i \in DOMAIN cmds \ held :
        /\ w.id = proposed + i /\ w.turn = t /\ ~Gated(w.cmd, w.req.bypass)
  <2>1. SUFFICES ASSUME NEW i \in Executed(t, cmds), NEW w, w = Run(proposed + i, cmds[i], t)
                 PROVE  /\ i \in DOMAIN cmds \ held /\ w.id = proposed + i /\ w.turn = t
                        /\ ~Gated(w.cmd, w.req.bypass)
    OBVIOUS
  <2>2. i \in DOMAIN cmds /\ i \notin NeedHuman(t, cmds) /\ ~Refused(cmds[i], st[t].role)
    BY DEF Executed
  <2>3. w.id = proposed + i /\ w.turn = t /\ w.cmd = cmds[i] /\ w.req.bypass = req[t].bypass
    BY <2>1 DEF Run
  <2>4. QED
    BY <2>2, <2>3 DEF NeedHuman, Held
<1>7. /\ \A w \in ran : w.id \in Nat /\ w.id <= proposed
      /\ \A i \in declined : i <= proposed /\ i \in Nat
      /\ screen <= proposed /\ screen \in Nat
  BY DEF SessionKept, Numbered, TypeInv, TypeOK, Ids, NoId
<1>8. \A w \in new : w.id \notin declined /\ w.id \in Nat /\ w.id > proposed /\ w.id <= proposed' /\ \A v \in ran : v.id # w.id
  BY <1>4, <1>5, <1>6, <1>7
<1>9. ShownRan' /\ DeclinedStay'
  BY <1>1, <1>6, <1>8 DEF SessionKept, ShownRan, DeclinedStay
<1>10. RanOnce'
  <2>1. \A v, w \in new : v.turn = w.turn
    BY <1>6
  <2>2. QED
    BY <1>1, <1>8, <2>1 DEF SessionKept, RanOnce
<1>11. proposed' \in Nat /\ proposed <= proposed'
  BY <1>1, <1>4
<1>12. (\A w \in ran' : w.id <= proposed') /\ (\A i \in declined' : i <= proposed')
  BY <1>1, <1>4, <1>7, <1>8, <1>11
<1>13. \A w \in ran' : w.id \in dropped \cup done \cup st[t].known
  <2>1. Known(st[t]) = st[t].known
    BY <1>2 DEF Known
  <2>2. \A w \in ran : w.id \in dropped \cup loop[t] \cup st[t].known
    BY <1>2, <2>1 DEF Carried
  <2>3. QED
    BY <1>1, <1>6, <2>2
<1>14. CASE held = {}
  <2>1. UNCHANGED <<st, pc, screen>> /\ loop'[t] = done /\ rounds'[t] = calls'
    BY <1>1, <1>3, <1>14 DEF Batch, TypeInv, TypeOK
  <2>2. Decided(screen)'
    BY <1>1, <1>2, <2>1 DEF Decided, Carried
  <2>3. ~HasPending(st[t])' /\ Known(st[t])' = st[t].known
    BY <1>2, <2>1 DEF HasPending, Known
  <2>4. Carried(st[t], loop[t])'
    BY <1>1, <1>13, <2>1, <2>2, <2>3 DEF Carried
  <2>5. TurnKept(t)'
    BY <1>1, <1>2, <2>1, <2>4 DEF TurnKept, Settled
  <2>6. screen' <= proposed'
    BY <1>4, <1>7, <1>11, <2>1
  <2>7. Active(t)' /\ \A u \in Turns : TurnKept(u)'
    BY <1>1, <2>1, <2>5, OthersKept DEF Active
  <2>8. QED
    BY <1>3, <1>9, <1>10, <1>12, <2>6, <2>7, OthersKept DEF SessionKept, Numbered
<1>15. CASE held # {}
  <2>1. PICK i \in held :
          /\ st' = [st EXCEPT ![t].pending = [id |-> proposed + i, cmd |-> cmds[i],
                                               loop |-> done, rounds |-> rounds[t] + 1]]
          /\ screen' = proposed + i
          /\ pc' = [pc EXCEPT ![t] = "save"]
    BY <1>15 DEF Batch, EndTurn
  <2>2. i \in DOMAIN cmds
    BY DEF Held, NeedHuman
  <2>3. PICK p : p = [id |-> proposed + i, cmd |-> cmds[i], loop |-> done, rounds |-> rounds[t] + 1]
    OBVIOUS
  <2>4. p # NoPending /\ p.id = screen' /\ p.loop = done /\ p.rounds = calls'
    BY <1>3, <2>1, <2>3 DEF NoPending
  <2>5. PICK s : s = [st[t] EXCEPT !.pending = p]
    OBVIOUS
  <2>6. st'[t] = s /\ loop'[t] = {} /\ pc'[t] = "save"
    BY <1>1, <1>15, <2>1, <2>3, <2>5 DEF TypeInv, TypeOK
  <2>7. s.known = st[t].known /\ s.pending = p /\ s # NoState
    <3>1. s.known = st[t].known /\ s.pending = p /\ DOMAIN s = {"known", "pending", "role"}
      BY <1>2, <2>5 DEF State
    <3>2. DOMAIN NoState = {"none"}
      BY DEF NoState
    <3>3. QED
      BY <3>1, <3>2
  <2>8. ~Decided(screen)'
    <3>1. screen' > proposed /\ screen' # NoId /\ screen' \in Nat
      <4>1. i \in Nat /\ i >= 1
        BY <1>4, <2>2
      <4>2. QED
        BY <1>4, <2>1, <4>1 DEF NoId
    <3>2. screen' \notin declined'
      BY <1>1, <1>4, <1>7, <3>1
    <3>3. \A w \in ran : w.id # screen'
      BY <1>4, <1>7, <3>1
    <3>4. \A w \in new : w.id # screen'
      <4>1. SUFFICES ASSUME NEW w \in new PROVE w.id # screen'
        OBVIOUS
      <4>2. PICK j \in DOMAIN cmds \ held : w.id = proposed + j
        BY <1>6
      <4>3. j # i /\ j \in Nat /\ i \in Nat
        BY <1>4, <2>2
      <4>4. QED
        BY <1>4, <2>1, <4>2, <4>3
    <3>5. QED
      BY <1>1, <3>1, <3>2, <3>3, <3>4 DEF Decided
  <2>9. HasPending(st[t])' /\ st'[t].pending.id = screen' /\ st'[t].pending.rounds = calls' /\ Known(st[t])' = st[t].known \cup done
    BY <2>4, <2>6, <2>7 DEF HasPending, Known
  <2>10. Carried(st[t], loop[t])'
    BY <1>1, <1>13, <2>8, <2>9 DEF Carried
  <2>11. TurnKept(t)'
    BY <2>6, <2>10 DEF TurnKept, Settled
  <2>12. screen' <= proposed'
    BY <1>5, <2>1, <2>2
  <2>13. Active(t)' /\ \A u \in Turns : TurnKept(u)'
    BY <2>6, <2>11, OthersKept DEF Active
  <2>14. QED
    BY <1>3, <1>9, <1>10, <1>12, <2>12, <2>13, OthersKept DEF SessionKept, Numbered
<1>16. QED
  BY <1>14, <1>15

LEMMA ApprovalStep == TypeInv /\ ApprovalInv /\ [Next]_vars => ApprovalInv'
<1> SUFFICES ASSUME TypeInv, ApprovalInv, [Next]_vars, InTurn'
             PROVE  SessionKept'
    BY DEF ApprovalInv
<1> USE DEF historyVars
<1>1. faults \in Nat /\ overlaps \in BOOLEAN /\ overlaps' = FALSE /\ faults' = 0
  BY DEF TypeInv, TypeOK, InTurn
<1>2. ~Fault
  BY <1>1 DEF Fault
<1>3. CASE \E t \in Turns : Step(t)
  <2>1. PICK t \in Turns : TurnStep(t) /\ UNCHANGED overlaps
    BY <1>3 DEF Step
  <2>2. UNCHANGED faults
    BY <1>2, <2>1 DEF TurnStep, Load, LoadFails, SaveFresh, SaveEnd, Stored, NotStored, Resume, GraphExhausted,
          Synthesize, BeginLoop, LoopExhausted, ModelCalled, Answer, NoAnswer, Route, Batch
  <2>3. SessionKept
    BY <1>1, <2>1, <2>2 DEF ApprovalInv, InTurn
  <2>4. ~LoadFails(t)
    BY <1>2 DEF LoadFails
  <2>5. QED
    BY <2>1, <2>2, <2>3, <2>4, LoadKept, SaveEndKept, QuietStepKept, ResumeKept, BatchKept DEF TurnStep
<1>4. CASE \E t \in Turns, m \in Replies, auto \in Bypasses, role \in Roles : Start(t, m, auto, role)
  <2>1. PICK t \in Turns, m \in Replies, auto \in Bypasses, role \in Roles : Start(t, m, auto, role)
    BY <1>4
  <2>2. AtRest /\ SessionKept
    BY <1>1, <2>1 DEF Start, ApprovalInv, InTurn
  <2>3. /\ pc' = [pc EXCEPT ![t] = "load"] /\ pc[t] = "off"
        /\ UNCHANGED <<saved, st, loop, rounds, screen, proposed, ran, declined, dropped, calls>>
        /\ req'[t].answers = screen
    BY <2>1 DEF Start, TypeInv, TypeOK
  <2>4. Carried(saved, {})'
    BY <2>2, <2>3 DEF SessionKept, Carried, Decided, HasPending, Known
  <2>5. \A u \in Turns : pc'[u] = IF u = t THEN "load" ELSE pc[u]
    BY <2>3 DEF TypeInv, TypeOK
  <2>6. TurnKept(t)'
    <3>1. loop[t] = {} /\ rounds[t] = 0
      BY <2>2, <2>3 DEF SessionKept, TurnKept
    <3>2. QED
      BY <2>3, <2>4, <2>5, <3>1 DEF TurnKept, Settled
  <2>7. ASSUME NEW u \in Turns, u # t
        PROVE  ~Active(u)' /\ TurnKept(u)'
    <3>1. pc'[u] = pc[u] /\ pc[u] \in {"off", "done"} /\ loop[u] = {} /\ rounds[u] = 0
      BY <2>2, <2>5, <2>7 DEF AtRest, Active, SessionKept, TurnKept
    <3>2. QED
      BY <2>3, <3>1 DEF TurnKept, Active, Settled
  <2>8. Alone' /\ ~AtRest' /\ \A u \in Turns : TurnKept(u)'
    BY <2>5, <2>6, <2>7 DEF Alone, AtRest, Active
  <2>9. Numbered' /\ ShownRan' /\ RanOnce' /\ DeclinedStay' /\ calls' <= MaxRounds
    BY <2>2, <2>3 DEF SessionKept, Numbered, ShownRan, RanOnce, DeclinedStay
  <2>10. QED
    BY <2>8, <2>9 DEF SessionKept
<1>5. CASE Crash
  BY <1>2, <1>5 DEF Crash
<1>6. CASE UNCHANGED vars
  <2>1. SessionKept
    BY <1>1, <1>6 DEF ApprovalInv, InTurn, vars
  <2>2. QED
    BY <1>6, <2>1 DEF vars, localVars, loopVars, SessionKept, TurnKept, Carried, Decided, HasPending, Known, Numbered,
          Alone, ShownRan, RanOnce, DeclinedStay, AtRest, Active
<1>7. QED
  BY <1>3, <1>4, <1>5, <1>6 DEF Next

LEMMA ApprovalStart == Init => ApprovalInv
<1> SUFFICES ASSUME Init PROVE SessionKept
    BY DEF ApprovalInv
<1>1. /\ saved = NoState /\ ran = {} /\ declined = {} /\ screen = NoId /\ proposed = 0 /\ calls = 0
      /\ \A t \in Turns : pc[t] = "off" /\ loop[t] = {} /\ rounds[t] = 0
  BY DEF Init
<1>2. Carried(saved, {})
  BY <1>1 DEF Carried, Decided, HasPending, Known
<1>3. Numbered /\ ShownRan /\ RanOnce /\ DeclinedStay /\ calls <= MaxRounds
  BY <1>1, Bounds DEF Numbered, ShownRan, RanOnce, DeclinedStay, NoId
<1>4. Alone /\ \A t \in Turns : TurnKept(t)
  BY <1>1 DEF Alone, Active, TurnKept, Settled
<1>5. QED
  BY <1>2, <1>3, <1>4 DEF SessionKept

(* What a user of a session relies on (agent.go, RunTurn; tools.go,        *)
(* resolvePending and runBatch): while its turns come one after the other  *)
(* and are saved, an approval runs the write shown last, once, and no      *)
(* other; a declined write never runs; what waits is what was shown last;  *)
(* the session knows what ran; a loop keeps its budget over its pauses --  *)
(* for any number of turns, proposals, replies and rounds.                 *)
THEOREM ApprovalsAlwaysKept == Spec => []ApprovalsAreKept
<1>1. ApprovalInv /\ TypeInv => ApprovalsAreKept
  <2> SUFFICES ASSUME ApprovalInv, TypeInv PROVE ApprovalsAreKept
      OBVIOUS
  <2>1. RunsWhatWasShown /\ RunsOnce /\ DeclinedNeverRuns /\ LoopIsBounded
    BY DEF ApprovalInv, SessionKept, ShownRan, RanOnce, DeclinedStay, RunsWhatWasShown, RunsOnce,
           DeclinedNeverRuns, LoopIsBounded
  <2>2. ASSUME AtRest, InTurn
        PROVE  Carried(saved, {})
    BY <2>2 DEF ApprovalInv, SessionKept
  <2>3. ShownIsPending
    BY <2>2 DEF ShownIsPending, Carried, Decided
  <2>4. AnsweredWritesRemembered
    <3>1. SUFFICES ASSUME AtRest, InTurn, NEW w \in ran
                   PROVE  w.id \in dropped \cup saved.known
                                     \cup (IF HasPending(saved) THEN saved.pending.loop ELSE {})
      BY DEF AnsweredWritesRemembered
    <3>2. w.id \in dropped \cup Known(saved)
      BY <2>2, <3>1 DEF Carried
    <3>3. QED
      BY <3>2 DEF Known, HasPending
  <2>5. QED
    BY <2>1, <2>3, <2>4 DEF ApprovalsAreKept
<1>2. QED
  BY <1>1, ApprovalStart, ApprovalStep, AlwaysTyped, PTL DEF Spec
=============================================================================
