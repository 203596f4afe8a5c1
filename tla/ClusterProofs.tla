---------------------------- MODULE ClusterProofs ----------------------------
(***************************************************************************)
(* Theorems about what is done to the cluster and what is seen of it.      *)
(*                                                                         *)
(* The guarded kubectl and its clients, for every table of names, every    *)
(* cluster and every set of jobs: verdicts are earned, a rollback point    *)
(* said to be restorable is, and a listing that lacks a row says so.  For  *)
(* every command line, kubectl having its own reading of it, nothing is    *)
(* changed unasked and the infrastructure is withheld, but for what the    *)
(* two read apart (AskedInv, RowsAllowed).                                 *)
(*                                                                         *)
(* Perception, for every set of pods, detectors, shown and reviewers, any   *)
(* bounds and any deployment: only promoted detectors act, what is loaded  *)
(* can fire and stays, and nothing failing escapes a watch that is caught  *)
(* up.  The last needs to know where the word of a pod is before the       *)
(* engine has it (ToldInv), and that a fired key whose report was          *)
(* withdrawn is cleared before the next failure is heard of (FiredInv).    *)
(***************************************************************************)
EXTENDS AciVerbs, Perception, FiniteSetTheorems, SequenceTheorems, WellFoundedInduction, TLAPS

Sayings == {"", "refused", "cancelled", "error", "exited", "rows", "text"}
Answers == [said : Sayings, rows : SUBSET Objects, note : {"", "after", "inside"}, cut : BOOLEAN]

LEMMA SayIs ==
  ASSUME NEW s \in Sayings, NEW r \in SUBSET Objects, NEW n \in {"", "after", "inside"}, NEW c \in BOOLEAN
  PROVE  Say(s, r, n, c) \in Answers
  BY DEF Say, Answers

LEMMA NoAnswerIs == NoAnswer \in Answers
  BY DEF NoAnswer, Answers, Sayings, None

-----------------------------------------------------------------------------
(* What is touched are objects of the cluster. *)

LEMMA TouchesObjects ==
  ASSUME NEW c
  PROVE  Touches(c) \subseteq Objects
<1>1. \A ns : OfDocs(c.stdin, ns) \subseteq Objects
  BY DEF OfDocs
<1>2. OnTheLine(c.args) \subseteq Objects
  BY DEF OnTheLine
<1>3. \A os \in SUBSET Objects : Inside(os) \subseteq Objects
  BY DEF Inside
<1>4. QED
  BY <1>1, <1>2, <1>3 DEF Touches, WithInside

LEMMA FilteredIs ==
  ASSUME NEW cmd, NEW shown \in SUBSET Objects, NEW one
  PROVE  /\ Filtered(cmd, shown, one) \in Answers
         /\ Filtered(cmd, shown, one).said \in {"refused", "rows"}
         /\ Filtered(cmd, shown, one).said = "rows" /\ Filtered(cmd, shown, one).note = None =>
                Filtered(cmd, shown, one).rows = shown
<1> DEFINE listing == IsNamespaceListing(cmd.args) \/ isAllNamespaces(cmd.args)
           dropped == IF listing THEN {o \in shown : RowNamespace(o) \in BlockedNamespaces} ELSE {}
           place == IF Structured(Format(cmd.args)) THEN "inside" ELSE "after"
<1>1. Filtered(cmd, shown, one) =
        IF listing /\ Unfilterable(cmd, one) THEN Say("refused", {}, None, FALSE)
        ELSE Say("rows", shown \ dropped, noting(dropped, place), FALSE)
  BY DEF Filtered
<1>2. /\ noting(dropped, place) \in {"", "after", "inside"}
      /\ noting(dropped, place) = None => dropped = {}
  BY DEF noting, None
<1>3. dropped \subseteq Objects /\ shown \ dropped \subseteq Objects
  OBVIOUS
<1>4. Say("refused", {}, None, FALSE) \in Answers /\ Say("rows", shown \ dropped, noting(dropped, place), FALSE) \in Answers
  BY <1>2, <1>3, SayIs DEF Sayings, None
<1> HIDE DEF listing, dropped, place
<1>5. CASE listing /\ Unfilterable(cmd, one)
  BY <1>1, <1>4, <1>5 DEF Say
<1>6. CASE ~(listing /\ Unfilterable(cmd, one))
  <2>1. Filtered(cmd, shown, one) = Say("rows", shown \ dropped, noting(dropped, place), FALSE)
    BY <1>1, <1>6
  <2>2. /\ Filtered(cmd, shown, one).said = "rows"
        /\ Filtered(cmd, shown, one).note = noting(dropped, place)
        /\ Filtered(cmd, shown, one).rows = shown \ dropped
    BY <2>1 DEF Say
  <2>3. QED
    BY <1>2, <1>4, <2>1, <2>2
<1>7. QED
  BY <1>5, <1>6

LEMMA OutcomeIs ==
  ASSUME NEW kind \in RunEnds, NEW part \in SUBSET Objects
  PROVE  /\ Outcome(kind, part) \in Answers
         /\ Outcome(kind, part).said = "rows" /\ Outcome(kind, part).note = None =>
                kind \in {"answer", "ok"} /\ Outcome(kind, part).rows = Shown \cap part
<1> DEFINE verb == ExtractVerb(call.cmd.args)
           shown == IF IsWrite(verb, call.cmd.args) THEN {} ELSE Shown \cap part
           one == Cardinality(OperandsAt(call.cmd.args)) > 1
           listed == Filtered(call.cmd, shown, one)
<1>1. shown \in SUBSET Objects
  OBVIOUS
<1>2. PICK l : l = listed
  OBVIOUS
<1>3. /\ l \in Answers /\ l.said \in {"refused", "rows"}
      /\ l.said = "rows" /\ l.note = None => l.rows = shown
  <2> HIDE DEF shown, one
  <2> QED
    BY <1>1, <1>2, FilteredIs
<1>4. Outcome(kind, part) =
        IF kind \in {"missing", "timeout"} THEN Say("error", {}, None, FALSE)
        ELSE IF kind = "exit"
        THEN IF l.said = "refused" THEN Say("exited", {}, "after", FALSE) ELSE [l EXCEPT !.said = "exited"]
        ELSE IF IsWrite(verb, call.cmd.args) THEN Say("text", {}, None, FALSE) ELSE l
  BY <1>2 DEF Outcome, Ending
<1>5. /\ Say("error", {}, None, FALSE) \in Answers /\ Say("text", {}, None, FALSE) \in Answers
      /\ Say("exited", {}, "after", FALSE) \in Answers
  BY SayIs DEF Sayings, None
<1>6. [l EXCEPT !.said = "exited"] \in Answers /\ [l EXCEPT !.said = "exited"].said = "exited"
  BY <1>3 DEF Answers, Sayings
<1>7. QED
  BY <1>3, <1>4, <1>5, <1>6 DEF Say, RunEnds

LEMMA BoundedIs ==
  ASSUME NEW a \in Answers, NEW kept \in SUBSET Objects
  PROVE  /\ Bounded(a, kept) \in Answers
         /\ Bounded(a, kept).said = a.said
         /\ ~Bounded(a, kept).cut => Bounded(a, kept) = a
<1>1. /\ Cut(a, kept) \in Answers /\ Cut(a, kept).said = a.said /\ Cut(a, kept).cut
  BY DEF Cut, Answers, None
<1>2. QED
  BY <1>1 DEF Bounded, Answers

-----------------------------------------------------------------------------
(* The guard's state. *)

Versions == {Absent, Original, ByTool, ByOthers}
Pictures == UNION {[os -> Versions] : os \in SUBSET Objects}
Points == [states : Seq(Pictures), restorable : BOOLEAN, intended : Nat]

(* The documents of a command can be counted. *)
Countable(c) == IsFiniteSet(DOMAIN c.cmd.stdin)

GuardTyped ==
    /\ ver \in [Objects -> Versions] /\ answer \in Answers /\ long \in BOOLEAN /\ point \in Points
    /\ pc \in {"idle", "approval", "capture", "run", "answered"}
    /\ Countable(call)

(* What was read of the targets is kept as it was read. *)
Faithful(p) ==
    \A i \in DOMAIN p.states, o \in Objects : o \in DOMAIN p.states[i] => p.states[i][o] # Absent

(* While targets are being read, what was read and what is left are among  *)
(* the targets of the call.                                                *)
Capturing ==
    /\ todo \in Seq(ToSet(Targets(call)))
    /\ point.intended = Len(Targets(call))
    /\ Len(point.states) + Len(todo) <= point.intended
    /\ Len(point.states) + Len(todo) <= rollbackMaxTargets
    /\ point.restorable => Faithful(point)

GuardInv ==
    /\ GuardTyped
    /\ pc = "capture" => Capturing
    /\ RestorableIsFaithful
    /\ PartialIsSaid

LEMMA TargetsAreList ==
  ASSUME NEW c, Countable(c)
  PROVE  Targets(c) \in Seq(ToSet(Targets(c))) /\ Len(Targets(c)) \in Nat
<1> DEFINE cmd == c.cmd
           ts == rollbackTargets(ExtractVerb(cmd.args), cmd.args, cmd.stdin)
           at == {i \in DOMAIN cmd.stdin : cmd.stdin[i].kind # None /\ cmd.stdin[i].name # None}
           named == Picked(cmd.stdin, at)
           kept == KeptFrom(WithoutSubcommand(ExtractVerb(cmd.args), cmd.args), ExtractVerb(cmd.args))
<1>1. IsFiniteSet(at) /\ Cardinality(at) \in Nat
  BY FS_Subset, FS_CardinalityType DEF Countable
<1>2. DOMAIN named = 1 .. Cardinality(at)
  BY DEF Picked
<1>3. \A s : (\E n \in Nat : DOMAIN s = 1 .. n /\ s = [i \in DOMAIN s |-> s[i]]) => s \in Seq(ToSet(s)) /\ Len(s) \in Nat
  BY DEF ToSet
<1>4. \A s : s = << >> => s \in Seq(ToSet(s)) /\ Len(s) \in Nat
  BY DEF ToSet
<1>5. \A x : <<x>> \in Seq(ToSet(<<x>>)) /\ Len(<<x>>) \in Nat
  BY DEF ToSet
<1>6. CASE cmd.stdin # << >>
  <2> DEFINE line(d) == <<W("kubectl"), W("get"), W(d.kind), W(d.name)>>
                        \o (IF d.ns = None THEN << >> ELSE <<FV("-n", d.ns)>>)
             listed == [i \in DOMAIN named |-> line(named[i])]
  <2>1. ts = listed
    BY <1>6 DEF rollbackTargets
  <2>2. \E n \in Nat : DOMAIN listed = 1 .. n /\ listed = [i \in DOMAIN listed |-> listed[i]]
    <3> HIDE DEF line, named, at
    <3> QED
      BY <1>1, <1>2
  <2>3. QED
    <3> HIDE DEF listed
    <3> QED
      BY <1>3, <1>4, <2>1, <2>2 DEF Targets
<1>7. CASE cmd.stdin = << >>
  <2>1. ts = IF kept = << >> THEN << >> ELSE <<<<W("kubectl"), W("get")>> \o kept>>
    BY <1>7 DEF rollbackTargets
  <2>2. PICK x : x = <<W("kubectl"), W("get")>> \o kept
    OBVIOUS
  <2>3. ts = << >> \/ ts = <<x>>
    <3> HIDE DEF ts, kept
    <3> QED
      BY <2>1, <2>2
  <2>4. QED
    <3> HIDE DEF ts, kept
    <3>1. Targets(c) = << >> \/ Targets(c) = <<x>>
      <4>1. Targets(c) = << >> \/ Targets(c) = ts
        BY DEF Targets, ts
      <4> QED
        BY <2>3, <4>1
    <3>2. QED
      BY <1>4, <1>5, <3>1
<1>8. QED
  BY <1>6, <1>7

(* Execute begins with every target to read and nothing read.              *)
LEMMA BeginsClean ==
  ASSUME NEW c, Countable(c), call' = c, BeginExecute(c)
  PROVE  /\ pc' \in {"run", "capture"} /\ point' \in Points
         /\ (pc = "capture" => Capturing)'
         /\ RestorableIsFaithful'
<1> DEFINE ts == Targets(c)
           n == IF Len(ts) < rollbackMaxTargets THEN Len(ts) ELSE rollbackMaxTargets
<1>1. ts \in Seq(ToSet(ts)) /\ Len(ts) \in Nat
  BY TargetsAreList
<1>2. /\ pc' = IF ts = << >> THEN "run" ELSE "capture"
      /\ todo' = SubSeq(ts, 1, n)
      /\ point' = [states |-> << >>, restorable |-> TRUE, intended |-> Len(ts)]
  BY DEF BeginExecute
<1>3. n \in 0 .. Len(ts) /\ n <= rollbackMaxTargets
  BY <1>1 DEF rollbackMaxTargets
<1> HIDE DEF n
<1>4. todo' \in Seq(ToSet(ts)) /\ Len(todo') = n
  <2>1. \A i \in 1 .. n : ts[i] \in ToSet(ts)
    BY <1>1, <1>3 DEF ToSet
  <2>2. SubSeq(ts, 1, n) \in Seq(ToSet(ts)) /\ Len(SubSeq(ts, 1, n)) = n
    BY <1>3, <2>1, SubSeqProperties
  <2> QED
    BY <1>2, <2>2
<1>5. \A s : s = << >> => s \in Seq(Pictures) /\ Len(s) = 0 /\ DOMAIN s = {}
  OBVIOUS
<1>6. /\ point'.states = << >> /\ point'.restorable = TRUE /\ point'.intended = Len(ts)
      /\ point' \in Points
  BY <1>1, <1>2, <1>5 DEF Points
<1>7. Targets(call)' = ts
  OBVIOUS
<1>8. Faithful(point)'
  BY <1>5, <1>6 DEF Faithful
<1>9. (pc = "capture" => Capturing)'
  BY <1>1, <1>3, <1>4, <1>5, <1>6, <1>7, <1>8 DEF Capturing
<1>10. RestorableIsFaithful'
  <2>1. SUFFICES ASSUME (pc = "run")'
                 PROVE  Len(point'.states) = Len(ts) /\ Len(ts) <= rollbackMaxTargets /\ Faithful(point)'
    BY <1>7 DEF RestorableIsFaithful, Faithful
  <2>2. ts = << >>
    BY <1>2, <2>1
  <2>3. QED
    BY <1>5, <1>6, <1>8, <2>2 DEF rollbackMaxTargets
<1>11. QED
  BY <1>2, <1>6, <1>9, <1>10

-----------------------------------------------------------------------------
(* Each step of the guard keeps what is known of it. *)

LEMMA PlanKeeps ==
  ASSUME GuardInv, NEW c, Countable(c), Plan(c)
  PROVE  GuardInv'
<1>1. call' = c /\ ver' = ver /\ long' \in BOOLEAN
  BY DEF Plan
<1>2. CASE Refused(c)
  <2>1. pc' = "answered" /\ answer' = Say("refused", {}, None, FALSE) /\ point' = point
    BY <1>2 DEF Plan
  <2>2. answer' \in Answers /\ answer'.said = "refused"
    <3>1. Say("refused", {}, None, FALSE) \in Answers
      BY SayIs DEF Sayings, None
    <3> QED
      BY <2>1, <3>1 DEF Say
  <2>3. GuardTyped' /\ (pc = "capture" => Capturing)' /\ RestorableIsFaithful'
    BY <1>1, <2>1, <2>2 DEF GuardInv, GuardTyped, Countable, RestorableIsFaithful
  <2>4. PartialIsSaid'
    BY <2>2 DEF PartialIsSaid
  <2>5. QED
    BY <2>3, <2>4 DEF GuardInv
<1>3. CASE ~Refused(c)
  <2>1. answer' = NoAnswer /\ answer' \in Answers /\ answer'.said = ""
    <3>1. answer' = NoAnswer
      BY <1>3 DEF Plan
    <3>2. NoAnswer.said = ""
      BY DEF NoAnswer, None
    <3> QED
      BY <3>1, <3>2, NoAnswerIs
  <2>2. PartialIsSaid'
    BY <2>1 DEF PartialIsSaid
  <2>3. CASE NeedsApproval(c)
    <3>1. pc' = "approval" /\ point' = point
      BY <1>3, <2>3 DEF Plan
    <3>2. QED
      BY <1>1, <2>1, <2>2, <3>1 DEF GuardInv, GuardTyped, Countable, RestorableIsFaithful
  <2>4. CASE ~NeedsApproval(c)
    <3>1. BeginExecute(c)
      BY <1>3, <2>4 DEF Plan
    <3>2. /\ pc' \in {"run", "capture"} /\ point' \in Points
          /\ (pc = "capture" => Capturing)' /\ RestorableIsFaithful'
      BY <1>1, <3>1, BeginsClean
    <3>3. GuardTyped'
      BY <1>1, <2>1, <3>2 DEF GuardInv, GuardTyped, Countable
    <3>4. QED
      BY <2>2, <3>2, <3>3 DEF GuardInv
  <2>5. QED
    BY <2>3, <2>4
<1>4. QED
  BY <1>2, <1>3

LEMMA ApproveKeeps ==
  ASSUME GuardInv, Approve
  PROVE  GuardInv'
<1>1. /\ pc = "approval" /\ BeginExecute(call) /\ call' = call
      /\ ver' = ver /\ answer' = answer /\ long' = long /\ Countable(call)
  BY DEF Approve, GuardInv, GuardTyped
<1>2. /\ pc' \in {"run", "capture"} /\ point' \in Points
      /\ (pc = "capture" => Capturing)' /\ RestorableIsFaithful'
  BY <1>1, BeginsClean
<1>3. GuardTyped'
  BY <1>1, <1>2 DEF GuardInv, GuardTyped, Countable
<1>4. PartialIsSaid'
  BY <1>2 DEF PartialIsSaid
<1>5. QED
  BY <1>2, <1>3, <1>4 DEF GuardInv

LEMMA DeclineKeeps ==
  ASSUME GuardInv, Decline
  PROVE  GuardInv'
<1>1. /\ pc' = "answered" /\ answer' = Say("cancelled", {}, None, FALSE)
      /\ ver' = ver /\ call' = call /\ point' = point /\ long' = long
  BY DEF Decline
<1>2. answer' \in Answers /\ answer'.said = "cancelled"
  <2>1. Say("cancelled", {}, None, FALSE) \in Answers
    BY SayIs DEF Sayings, None
  <2> QED
    BY <1>1, <2>1 DEF Say
<1>3. GuardTyped' /\ (pc = "capture" => Capturing)' /\ RestorableIsFaithful'
  BY <1>1, <1>2 DEF GuardInv, GuardTyped, Countable, RestorableIsFaithful
<1>4. PartialIsSaid'
  BY <1>2 DEF PartialIsSaid
<1>5. QED
  BY <1>3, <1>4 DEF GuardInv

LEMMA CaptureKeeps ==
  ASSUME GuardInv, NEW x, Capture(x)
  PROVE  GuardInv'
<1> DEFINE os == ReadBy(Head(todo))
           picture == [o \in os |-> IF x = "whole" THEN ver[o] ELSE Absent]
<1>1. /\ pc = "capture" /\ todo # << >> /\ todo' = Tail(todo)
      /\ x \in {"whole", "redacted", "failed"} /\ (Readable(Head(todo)) \/ x = "failed")
      /\ point' = IF x = "failed" THEN point
                  ELSE [point EXCEPT !.states = Append(point.states, picture), !.restorable = point.restorable /\ x = "whole"]
      /\ UNCHANGED <<ver, call, pc, answer, long>>
  BY DEF Capture
<1>2. GuardTyped /\ Capturing
  BY <1>1 DEF GuardInv
<1>3. /\ todo' \in Seq(ToSet(Targets(call))) /\ Len(todo') = Len(todo) - 1 /\ Len(todo) \in Nat
  BY <1>1, <1>2 DEF Capturing
<1>4. PICK q : q = point.states
  OBVIOUS
<1>5. q \in Seq(Pictures) /\ Len(q) \in Nat /\ point.intended \in Nat /\ point.restorable \in BOOLEAN
  BY <1>2, <1>4 DEF GuardTyped, Points
<1>6. os \in SUBSET Objects
  BY TouchesObjects DEF ReadBy
<1>7. PICK p : p = picture
  OBVIOUS
<1>8. p \in Pictures
  <2>1. \A o \in os : ver[o] \in Versions
    BY <1>2, <1>6 DEF GuardTyped
  <2>2. p \in [os -> Versions]
    BY <1>7, <2>1 DEF Versions
  <2>3. QED
    BY <1>6, <2>2 DEF Pictures
<1>9. Append(q, p) \in Seq(Pictures) /\ Len(Append(q, p)) = Len(q) + 1
  BY <1>5, <1>8
<1>10. CASE x = "failed"
  <2>1. point' = point
    BY <1>1, <1>10
  <2>2. Capturing'
    <3>1. Len(point'.states) = Len(q) /\ Len(point.states) = Len(q)
      BY <1>4, <2>1
    <3>2. Len(q) + (Len(todo) - 1) <= Len(q) + Len(todo)
      BY <1>3, <1>5
    <3>3. Len(point'.states) + Len(todo') <= point.intended
      <4>1. Len(q) + Len(todo) <= point.intended
        BY <1>2, <3>1 DEF Capturing
      <4> QED
        BY <1>3, <1>5, <3>1, <3>2, <4>1
    <3>4. Len(point'.states) + Len(todo') <= rollbackMaxTargets
      <4>1. Len(q) + Len(todo) <= rollbackMaxTargets
        BY <1>2, <3>1 DEF Capturing
      <4> QED
        BY <1>3, <1>5, <3>1, <3>2, <4>1 DEF rollbackMaxTargets
    <3>5. Targets(call)' = Targets(call) /\ Faithful(point)' = Faithful(point)
      BY <1>1, <2>1 DEF Faithful
    <3>6. QED
      BY <1>2, <1>3, <2>1, <3>3, <3>4, <3>5 DEF Capturing
  <2>3. QED
    BY <1>1, <1>2, <2>1, <2>2 DEF GuardInv, GuardTyped, Countable, RestorableIsFaithful, PartialIsSaid
<1>11. CASE x # "failed"
  <2>1. /\ point'.states = Append(q, p) /\ point'.restorable = (point.restorable /\ x = "whole")
        /\ point'.intended = point.intended /\ point' \in Points
    <3>1. point' = [point EXCEPT !.states = Append(q, p), !.restorable = point.restorable /\ x = "whole"]
      BY <1>1, <1>4, <1>7, <1>11
    <3>2. point \in Points
      BY <1>2 DEF GuardTyped
    <3>3. PICK b \in BOOLEAN : b = (point.restorable /\ x = "whole")
      OBVIOUS
    <3>4. PICK s \in Seq(Pictures) : s = Append(q, p)
      BY <1>9
    <3>5. point' = [point EXCEPT !.states = s, !.restorable = b]
      BY <3>1, <3>3, <3>4
    <3>6. point'.states = s /\ point'.restorable = b /\ point'.intended = point.intended /\ point' \in Points
      BY <3>2, <3>5 DEF Points
    <3> QED
      BY <3>3, <3>4, <3>6
  <2>2. point'.restorable => Faithful(point)'
    <3>1. SUFFICES ASSUME point.restorable, x = "whole",
                          NEW i \in DOMAIN Append(q, p), NEW o \in Objects, o \in DOMAIN Append(q, p)[i]
                   PROVE  Append(q, p)[i][o] # Absent
      BY <2>1 DEF Faithful
    <3>2. CASE i \in DOMAIN q
      <4>1. Append(q, p)[i] = q[i]
        BY <1>5, <1>8, <3>2
      <4>2. QED
        BY <1>2, <1>4, <3>1, <3>2, <4>1 DEF Capturing, Faithful
    <3>3. CASE i \notin DOMAIN q
      <4>1. Append(q, p)[i] = p
        BY <1>5, <1>8, <3>1, <3>3
      <4>2. o \in os
        BY <1>7, <3>1, <4>1
      <4>3. ver[o] # Absent
        BY <1>1, <1>11, <4>2 DEF Readable
      <4>4. QED
        BY <1>7, <3>1, <4>1, <4>2, <4>3
    <3>4. QED
      BY <3>2, <3>3
  <2>3. Capturing'
    <3>1. Len(point.states) = Len(q)
      BY <1>4
    <3>2. Len(point'.states) = Len(q) + 1
      BY <1>9, <2>1
    <3>3. Len(q) + 1 + (Len(todo) - 1) = Len(q) + Len(todo)
      BY <1>3, <1>5
    <3>4. Len(point'.states) + Len(todo') = Len(point.states) + Len(todo)
      BY <1>3, <3>1, <3>2, <3>3
    <3>5. Targets(call)' = Targets(call)
      BY <1>1
    <3>6. QED
      BY <1>2, <1>3, <2>1, <2>2, <3>4, <3>5 DEF Capturing
  <2>4. QED
    BY <1>1, <1>2, <2>1, <2>3 DEF GuardInv, GuardTyped, Countable, RestorableIsFaithful, PartialIsSaid
<1>12. QED
  BY <1>10, <1>11

LEMMA ArmPointKeeps ==
  ASSUME GuardInv, ArmPoint
  PROVE  GuardInv'
<1>1. /\ pc = "capture" /\ todo = << >> /\ pc' = "run"
      /\ point' = IF point.states = << >> THEN NoPoint ELSE Armed(point)
      /\ UNCHANGED <<ver, call, answer, long>>
  BY DEF ArmPoint
<1>2. GuardTyped /\ Capturing
  BY <1>1 DEF GuardInv
<1>3. PICK q : q = point.states
  OBVIOUS
<1>4. q \in Seq(Pictures) /\ Len(q) \in Nat /\ point.intended \in Nat /\ point.restorable \in BOOLEAN /\ point \in Points
  BY <1>2, <1>3 DEF GuardTyped, Points
<1>5. Len(todo) = 0
  BY <1>1
<1>6. Len(q) <= rollbackMaxTargets
  BY <1>2, <1>3, <1>4, <1>5 DEF Capturing, rollbackMaxTargets
<1>7. CASE point.states = << >>
  <2>1. point' = NoPoint
    BY <1>1, <1>7
  <2>2. \A s : s = << >> => s \in Seq(Pictures)
    OBVIOUS
  <2>3. point' \in Points /\ ~point'.restorable
    BY <2>1, <2>2 DEF NoPoint, Points
  <2>4. QED
    BY <1>1, <1>2, <2>3 DEF GuardInv, GuardTyped, Countable, RestorableIsFaithful, PartialIsSaid
<1>8. CASE point.states # << >>
  <2>1. PICK b \in BOOLEAN : b = (point.restorable /\ Len(point.states) = point.intended)
    OBVIOUS
  <2>2. point' = [point EXCEPT !.restorable = b]
    BY <1>1, <1>8, <2>1 DEF Armed
  <2>3. /\ point'.states = q /\ point'.restorable = b /\ point' \in Points
    BY <1>3, <1>4, <2>2 DEF Points
  <2>4. RestorableIsFaithful'
    <3>1. SUFFICES ASSUME b
                   PROVE  Len(q) = Len(Targets(call)) /\ Len(Targets(call)) <= rollbackMaxTargets
                          /\ \A i \in DOMAIN q, o \in Objects : o \in DOMAIN q[i] => q[i][o] # Absent
      BY <1>1, <2>3 DEF RestorableIsFaithful
    <3>2. Faithful(point) /\ Len(q) = Len(Targets(call))
      BY <1>2, <1>3, <2>1, <3>1 DEF Capturing
    <3>3. QED
      BY <1>3, <1>6, <3>2 DEF Faithful
  <2>5. QED
    BY <1>1, <1>2, <2>3, <2>4 DEF GuardInv, GuardTyped, Countable, PartialIsSaid
<1>9. QED
  BY <1>7, <1>8

LEMMA RunKeeps ==
  ASSUME GuardInv, NEW kind, NEW part, NEW kept, Run(kind, part, kept)
  PROVE  GuardInv'
<1>1. /\ pc' = "answered" /\ kind \in RunEnds /\ part \subseteq Whole /\ kept \subseteq Outcome(kind, part).rows
      /\ kind = "answer" => part = Whole
      /\ kind = "ok" => part = Whole
      /\ Change(part) /\ answer' = Bounded(Outcome(kind, part), kept)
      /\ UNCHANGED <<call, todo, point, long>>
  BY DEF Run
<1>2. GuardTyped
  BY DEF GuardInv
<1>3. Whole \subseteq Objects
  BY TouchesObjects DEF Whole
<1>4. PICK out : out = Outcome(kind, part)
  OBVIOUS
<1>5. /\ out \in Answers
      /\ out.said = "rows" /\ out.note = None => kind \in {"answer", "ok"} /\ out.rows = Shown \cap part
  BY <1>1, <1>3, <1>4, OutcomeIs
<1>6. kept \in SUBSET Objects
  BY <1>1, <1>4, <1>5 DEF Answers
<1>7. /\ answer' \in Answers /\ answer'.said = out.said
      /\ ~answer'.cut => answer' = out
  BY <1>1, <1>4, <1>5, <1>6, BoundedIs
<1>8. ver' \in [Objects -> Versions] /\ \A o \in Objects : ver'[o] = Original => ver[o] = Original
  <2>1. CASE ver' = ver
    BY <1>2, <2>1 DEF GuardTyped
  <2>2. CASE ver' = After(part)
    BY <1>2, <2>2 DEF GuardTyped, After, Versions, Absent, Original, ByTool, ByOthers
  <2>3. QED
    BY <1>1, <2>1, <2>2 DEF Change
<1>9. GuardTyped'
  BY <1>1, <1>2, <1>7, <1>8 DEF GuardTyped, Countable
<1>10. PartialIsSaid'
  <2>1. SUFFICES ASSUME answer'.said = "rows", answer'.note = None, ~answer'.cut,
                        NEW o \in Touches(call.cmd), ver'[o] = Original
                 PROVE  o \in answer'.rows
    BY <1>1 DEF PartialIsSaid
  <2>2. answer' = out /\ kind \in {"answer", "ok"} /\ out.rows = Shown \cap part
    BY <1>5, <1>7, <2>1
  <2>3. part = Whole
    BY <1>1, <2>2
  <2>4. o \in Objects /\ ver[o] # Absent
    BY <1>3, <1>8, <2>1 DEF Whole, Absent, Original
  <2>5. QED
    BY <2>2, <2>3, <2>4 DEF Shown, Whole
<1>11. QED
  BY <1>1, <1>9, <1>10 DEF GuardInv, RestorableIsFaithful

LEMMA OthersKeep ==
  ASSUME GuardInv, NEW o \in Objects, OthersChange(o)
  PROVE  GuardInv'
<1>1. /\ ver' = [ver EXCEPT ![o] = IF ver[o] = Absent THEN ByOthers ELSE Absent]
      /\ UNCHANGED <<call, pc, todo, point, answer, long>>
  BY DEF OthersChange
<1>2. GuardTyped
  BY DEF GuardInv
<1>3. ver' \in [Objects -> Versions] /\ \A p \in Objects : ver'[p] = Original => ver[p] = Original
  BY <1>1, <1>2 DEF GuardTyped, Versions, Absent, Original, ByTool, ByOthers
<1>4. GuardTyped'
  BY <1>1, <1>2, <1>3 DEF GuardTyped, Countable
<1>5. (pc = "capture" => Capturing)' /\ RestorableIsFaithful'
  BY <1>1 DEF GuardInv, Capturing, Faithful, RestorableIsFaithful
<1>6. PartialIsSaid'
  BY <1>1, <1>3, TouchesObjects DEF GuardInv, PartialIsSaid
<1>7. QED
  BY <1>4, <1>5, <1>6 DEF GuardInv

LEMMA GuardStepKeeps ==
  ASSUME GuardInv, GuardStep
  PROVE  GuardInv'
  BY ApproveKeeps, DeclineKeeps, ArmPointKeeps, CaptureKeeps, RunKeeps, OthersKeep DEF GuardStep

LEMMA HeldKeeps ==
  ASSUME GuardInv, Hold
  PROVE  GuardInv'
  BY DEF Hold, guardVars, GuardInv, GuardTyped, Countable, Capturing, Faithful, RestorableIsFaithful, PartialIsSaid

LEMMA GuardBegins ==
  ASSUME GuardInit
  PROVE  GuardInv
<1>1. \A s : s = << >> => s \in Seq(Pictures) /\ IsFiniteSet(DOMAIN s)
  <2>1. \A s : s = << >> => s \in Seq(Pictures) /\ DOMAIN s = {}
    OBVIOUS
  <2> QED
    BY <2>1, FS_EmptySet
<1>2. point \in Points /\ ~point.restorable
  BY <1>1 DEF GuardInit, NoPoint, Points
<1>3. Countable(call)
  <2>1. call.cmd.stdin = << >>
    BY DEF GuardInit, NoCall
  <2> QED
    BY <1>1, <2>1 DEF Countable
<1>4. GuardTyped /\ pc = "idle"
  BY <1>2, <1>3, NoAnswerIs DEF GuardInit, GuardTyped, Versions
<1>5. QED
  BY <1>4 DEF GuardInv, RestorableIsFaithful, PartialIsSaid
-----------------------------------------------------------------------------
(* Whatever a client asks for is a command whose documents can be counted. *)

LEMMA JobsCount ==
  ASSUME NEW j \in Jobs, NEW c \in {j.cmd, j.undo}
  PROVE  DOMAIN c = {"args", "stdin", "pipes"} /\ IsFiniteSet(DOMAIN c.stdin)
<1>1. DOMAIN c = {"args", "stdin", "pipes"} /\ c.stdin \in Seq(ToSet(c.stdin))
  BY JobsAssumption
<1>2. PICK s : s = c.stdin
  OBVIOUS
<1>3. s \in Seq(ToSet(s))
  BY <1>1, <1>2
<1>4. DOMAIN s = 1 .. Len(s) /\ Len(s) \in Nat
  BY <1>3
<1>5. IsFiniteSet(DOMAIN s)
  BY <1>4, FS_Interval
<1>6. QED
  BY <1>1, <1>2, <1>5

LEMMA IssueKeeps ==
  ASSUME GuardInv, NEW cmd, NEW r, NEW b, NEW i, IsFiniteSet(DOMAIN cmd.stdin), Issue(cmd, r, b, i)
  PROVE  GuardInv'
<1> DEFINE c == [cmd |-> cmd, role |-> r, bypass |-> b, identity |-> i]
<1>1. Plan(c)
  BY DEF Issue
<1>2. Countable(c)
  BY DEF Countable
<1> HIDE DEF c
<1>3. QED
  BY <1>1, <1>2, PlanKeeps

LEMMA RewrittenCounts ==
  ASSUME NEW cmd, DOMAIN cmd = {"args", "stdin", "pipes"}, IsFiniteSet(DOMAIN cmd.stdin), NEW a
  PROVE  IsFiniteSet(DOMAIN [cmd EXCEPT !.args = a].stdin)
<1>1. [cmd EXCEPT !.args = a].stdin = cmd.stdin
  OBVIOUS
<1>2. QED
  BY <1>1

LEMMA ClientKeeps ==
  ASSUME GuardInv, job \in Jobs, Client
  PROVE  GuardInv' /\ job' = job
<1>1. DOMAIN job.cmd = {"args", "stdin", "pipes"} /\ IsFiniteSet(DOMAIN job.cmd.stdin) /\ IsFiniteSet(DOMAIN job.undo.stdin)
  BY JobsCount
<1>2. CASE Ask
  BY <1>1, <1>2, IssueKeeps DEF Ask, Same
<1>3. CASE Told
  BY <1>3, HeldKeeps DEF Told, Same
<1>4. CASE Verb
  BY <1>1, <1>4, IssueKeeps, HeldKeeps DEF Verb, Same
<1>5. CASE RunAs
  <2> DEFINE cmd == [job.cmd EXCEPT !.args = Append(@, FV("--as", ServiceAccount(job.role)))]
  <2>1. CASE Hold
    BY <1>5, <2>1, HeldKeeps DEF RunAs, Same
  <2>2. CASE Issue(cmd, "admin", TRUE, ServiceAccount(job.role))
    <3>1. IsFiniteSet(DOMAIN cmd.stdin)
      BY <1>1, RewrittenCounts
    <3>2. GuardInv'
      <4> HIDE DEF cmd
      <4> QED
        BY <2>2, <3>1, IssueKeeps
    <3>3. QED
      BY <1>5, <3>2 DEF RunAs, Same
  <2>3. QED
    BY <1>5, <2>1, <2>2 DEF RunAs
<1>6. CASE PlanMutation
  <2> DEFINE cmd == withServerDryRun(job.cmd)
  <2>1. CASE Hold
    BY <1>6, <2>1, HeldKeeps DEF PlanMutation, Same
  <2>2. CASE Issue(cmd, job.role, TRUE, None)
    <3>1. IsFiniteSet(DOMAIN cmd.stdin)
      BY <1>1, RewrittenCounts DEF withServerDryRun
    <3>2. GuardInv'
      <4> HIDE DEF cmd
      <4> QED
        BY <2>2, <3>1, IssueKeeps
    <3>3. QED
      BY <1>6, <3>2 DEF PlanMutation, Same
  <2>3. QED
    BY <1>6, <2>1, <2>2 DEF PlanMutation
<1>7. CASE Validated
  BY <1>7, HeldKeeps DEF Validated, Same
<1>8. CASE Apply
  BY <1>1, <1>8, IssueKeeps DEF Apply, Same
<1>9. IsFiniteSet(DOMAIN GetApp.stdin)
  <2>1. GetApp.stdin = << >>
    BY DEF GetApp, Cmd
  <2>2. \A s : s = << >> => DOMAIN s = {}
    OBVIOUS
  <2> QED
    BY <2>1, <2>2, FS_EmptySet
<1>10. CASE Applied
  BY <1>9, <1>10, IssueKeeps, HeldKeeps DEF Applied, Same
<1>11. CASE Undone
  BY <1>11, HeldKeeps DEF Undone, Same
<1>12. CASE \E s \in SUBSET answer.rows : VerbTail(s)
  BY <1>12, HeldKeeps DEF VerbTail, Same
<1>13. CASE \E r \in BOOLEAN : Look(r)
  BY <1>1, <1>13, IssueKeeps, HeldKeeps DEF Look, Same
<1>14. CASE \E r, s, p, g \in BOOLEAN : Fix(r, s, p, g)
  BY <1>14, HeldKeeps DEF Fix, Same
<1>15. QED
  BY <1>2, <1>3, <1>4, <1>5, <1>6, <1>7, <1>8, <1>10, <1>11, <1>12, <1>13, <1>14 DEF Client

-----------------------------------------------------------------------------
(* What a client may conclude where it stands.  Before its end it has      *)
(* concluded nothing but the plan it is validating; whoever looks has      *)
(* applied something that was sent, and whoever undoes has looked.         *)

Facts == [applied : Sayings, undone : Sayings, ready : BOOLEAN, saw : BOOLEAN, reached : BOOLEAN,
          repaired : BOOLEAN, shown : SUBSET Objects]
Sent(said) == said \in Sayings \ {"refused", "error", "exited"}

Earning ==
    /\ job \in Jobs /\ facts \in Facts
    /\ step \in {"begin", "told", "validate", "applied", "looked", "undone", "end"}
    /\ result = [status |-> result.status, truncated |-> result.truncated]
    /\ step \in {"begin", "told", "applied", "looked", "undone"} => result.status = None
    /\ step = "validate" =>
          /\ result.status \in {"auto", "approve"}
          /\ result.status = "auto" => ClassifyRollback(job.cmd) # "irreversible"
    /\ step \in {"looked", "undone"} => Sent(facts.applied)
    /\ step = "undone" => facts.saw /\ ~facts.ready
    /\ VerdictsAreEarned

(* The statuses that claim nothing. *)
Claims == {"committed", "rolled_back", "rollback_failed", "auto", "opened", "pushed", "unchanged"}

LEMMA ConcludeIs ==
  ASSUME Earning, NEW s, Conclude(s)
  PROVE  step' = "end" /\ result'.status = s /\ result' = [status |-> result'.status, truncated |-> result'.truncated]
<1>1. PICK t, u : result = [status |-> t, truncated |-> u]
  BY DEF Earning
<1>2. result' = [result EXCEPT !.status = s] /\ step' = "end"
  BY DEF Conclude
<1>3. result' = [status |-> s, truncated |-> u]
  BY <1>1, <1>2
<1>4. QED
  BY <1>2, <1>3

LEMMA Unclaimed ==
  ASSUME Earning, NEW s, s \notin Claims, Conclude(s), facts' \in Facts, Same
  PROVE  Earning'
<1>1. step' = "end" /\ result'.status = s /\ result' = [status |-> result'.status, truncated |-> result'.truncated] /\ job' = job
  BY ConcludeIs DEF Same
<1>2. QED
  BY <1>1 DEF Earning, VerdictsAreEarned, Claims

(* ClassifyOutput. *)
LEMMA ClassifiedAs ==
  ASSUME NEW a \in Answers
  PROVE  /\ ClassifyOutput(a) \in {"ok", "refused", "failed"}
         /\ ClassifyOutput(a) = "ok" => Sent(a.said)
         /\ ClassifyOutput(a) # "refused" => a.said \notin {"refused", "error"}
  BY DEF ClassifyOutput, Answers, Sent

LEMMA ClientEarns ==
  ASSUME GuardInv, Earning, Client
  PROVE  Earning'
<1>1. answer \in Answers /\ answer.said \in Sayings /\ answer.rows \in SUBSET Objects
  BY DEF GuardInv, GuardTyped, Answers
<1>2. CASE Ask
  BY <1>2 DEF Ask, Goto, Same, Earning, VerdictsAreEarned
<1>3. CASE Told
  <2>1. Conclude(answer.said) /\ facts' = facts /\ Same
    BY <1>3 DEF Told
  <2>2. answer.said \notin Claims
    BY <1>1 DEF Sayings, Claims
  <2>3. QED
    BY <2>1, <2>2, Unclaimed DEF Earning
<1>4. CASE Verb
  <2>1. CASE IsReadOnly(job.cmd)
    BY <1>4, <2>1 DEF Verb, Goto, Same, Earning, VerdictsAreEarned
  <2>2. CASE ~IsReadOnly(job.cmd)
    <3>1. Conclude("contract") /\ facts' = facts /\ Same
      BY <1>4, <2>2 DEF Verb
    <3>2. QED
      BY <3>1, Unclaimed DEF Earning, Claims
  <2>3. QED
    BY <2>1, <2>2
<1>5. CASE RunAs
  <2>1. CASE Unbounded(job.role, job.cmd)
    <3>1. Conclude("sandbox_error") /\ facts' = facts /\ Same
      BY <1>5, <2>1 DEF RunAs
    <3>2. QED
      BY <3>1, Unclaimed DEF Earning, Claims
  <2>2. CASE ~Unbounded(job.role, job.cmd)
    BY <1>5, <2>2 DEF RunAs, Goto, Same, Earning, VerdictsAreEarned
  <2>3. QED
    BY <2>1, <2>2
<1>6. CASE PlanMutation
  <2>1. PICK d : d = DecideWrite(job.gate, job.cmd, job.rung)
    OBVIOUS
  <2>2. d \in {"deny", "auto", "approve"} /\ (d = "auto" => ClassifyRollback(job.cmd) # "irreversible")
    BY <2>1 DEF DecideWrite
  <2>3. CASE d = "deny"
    <3>1. Conclude("deny") /\ facts' = facts /\ Same
      BY <1>6, <2>1, <2>3 DEF PlanMutation
    <3>2. QED
      BY <3>1, Unclaimed DEF Earning, Claims
  <2>4. CASE d # "deny"
    <3>1. step' = "validate" /\ result' = [result EXCEPT !.status = d] /\ facts' = facts /\ job' = job
      BY <1>6, <2>1, <2>4 DEF PlanMutation, Same
    <3>2. PICK t, u : result = [status |-> t, truncated |-> u]
      BY DEF Earning
    <3>3. result' = [status |-> d, truncated |-> u]
      BY <3>1, <3>2
    <3>4. QED
      BY <2>2, <2>4, <3>1, <3>3 DEF Earning, VerdictsAreEarned
  <2>5. QED
    BY <2>3, <2>4
<1>7. CASE Validated
  <2>1. /\ step = "validate" /\ job' = job
        /\ facts' = [facts EXCEPT !.reached = answer.said \notin {"refused", "error"}]
        /\ Conclude(IF result.status = "auto" /\ ~ReachedCluster(answer) THEN "approve" ELSE result.status)
    BY <1>7 DEF Validated, Same
  <2>2. facts' \in Facts /\ facts'.reached = (answer.said \notin {"refused", "error"})
    <3>1. PICK b \in BOOLEAN : b = (answer.said \notin {"refused", "error"})
      OBVIOUS
    <3>2. facts' = [facts EXCEPT !.reached = b]
      BY <2>1, <3>1
    <3>3. QED
      BY <3>1, <3>2 DEF Earning, Facts
  <2>3. PICK s : s = IF result.status = "auto" /\ ~ReachedCluster(answer) THEN "approve" ELSE result.status
    OBVIOUS
  <2>4. step' = "end" /\ result'.status = s /\ result' = [status |-> result'.status, truncated |-> result'.truncated]
    BY <2>1, <2>3, ConcludeIs
  <2>5. s \in {"auto", "approve"} /\ (s = "auto" => ReachedCluster(answer) /\ ClassifyRollback(job.cmd) # "irreversible")
    BY <2>1, <2>3 DEF Earning
  <2>6. QED
    BY <2>1, <2>2, <2>4, <2>5 DEF Earning, VerdictsAreEarned, ReachedCluster
<1>8. CASE Apply
  BY <1>8 DEF Apply, Goto, Same, Earning, VerdictsAreEarned
<1>9. CASE Applied
  <2>1. /\ step = "applied" /\ job' = job /\ Same
        /\ facts' = [facts EXCEPT !.applied = answer.said]
    BY <1>9 DEF Applied, Same
  <2>2. facts' \in Facts /\ facts'.applied = answer.said
    BY <1>1, <2>1 DEF Earning, Facts
  <2>3. CASE Conclude("apply_refused") \/ Conclude("apply_failed")
    BY <2>1, <2>2, <2>3, Unclaimed DEF Claims
  <2>4. CASE ClassifyOutput(answer) = "ok" /\ step' = "looked" /\ result' = result
    <3>1. Sent(facts'.applied)
      BY <1>1, <2>2, <2>4, ClassifiedAs
    <3>2. QED
      BY <2>1, <2>2, <2>4, <3>1 DEF Earning, VerdictsAreEarned
  <2>5. QED
    BY <1>9, <2>3, <2>4 DEF Applied, Goto
<1>10. CASE Undone
  <2>1. /\ step = "undone" /\ job' = job
        /\ facts' = [facts EXCEPT !.undone = answer.said]
        /\ Conclude(IF ClassifyOutput(answer) = "refused" THEN "rollback_refused"
                    ELSE IF ClassifyOutput(answer) = "failed" THEN "rollback_failed" ELSE "rolled_back")
    BY <1>10 DEF Undone, Same
  <2>2. /\ facts' \in Facts /\ facts'.undone = answer.said /\ facts'.applied = facts.applied
        /\ facts'.saw = facts.saw /\ facts'.ready = facts.ready
    BY <1>1, <2>1 DEF Earning, Facts
  <2>3. PICK s : s = IF ClassifyOutput(answer) = "refused" THEN "rollback_refused"
                     ELSE IF ClassifyOutput(answer) = "failed" THEN "rollback_failed" ELSE "rolled_back"
    OBVIOUS
  <2>4. step' = "end" /\ result'.status = s /\ result' = [status |-> result'.status, truncated |-> result'.truncated]
    BY <2>1, <2>3, ConcludeIs
  <2>5. s \in {"rollback_refused", "rollback_failed", "rolled_back"}
        /\ (s # "rollback_refused" => answer.said \notin {"refused", "error"})
    BY <1>1, <2>3, ClassifiedAs
  <2>6. Sent(facts.applied) /\ facts.saw /\ ~facts.ready
    BY <2>1 DEF Earning
  <2>7. QED
    BY <2>1, <2>2, <2>4, <2>5, <2>6 DEF Earning, VerdictsAreEarned, Sent
<1>11. CASE \E s \in SUBSET answer.rows : VerbTail(s)
  <2>1. PICK s \in SUBSET answer.rows : VerbTail(s)
    BY <1>11
  <2>2. facts' = [facts EXCEPT !.shown = s] /\ job' = job /\ Same
    BY <2>1 DEF VerbTail, Same
  <2>3. facts' \in Facts
    BY <1>1, <2>1, <2>2 DEF Earning, Facts
  <2>4. CASE Conclude("failed") \/ Conclude("empty")
    BY <2>2, <2>3, <2>4, Unclaimed DEF Claims
  <2>5. CASE step' = "end" /\ result' = [status |-> "body", truncated |-> s # answer.rows]
    <3>1. PICK b : b = (s # answer.rows)
      OBVIOUS
    <3>2. result' = [status |-> "body", truncated |-> b]
      BY <2>5, <3>1
    <3>3. QED
      BY <2>2, <2>3, <2>5, <3>2 DEF Earning, VerdictsAreEarned
  <2>6. QED
    BY <2>1, <2>4, <2>5 DEF VerbTail
<1>12. CASE \E r \in BOOLEAN : Look(r)
  <2>1. PICK r \in BOOLEAN : Look(r)
    BY <1>12
  <2>2. /\ step = "looked" /\ job' = job /\ Same
        /\ facts' = [facts EXCEPT !.ready = r, !.saw = ClassifyOutput(answer) = "ok"]
    BY <2>1 DEF Look, Same
  <2>3. facts' \in Facts /\ facts'.ready = r /\ (facts'.saw <=> Evaluated(answer)) /\ facts'.applied = facts.applied
    <3>1. PICK b \in BOOLEAN : b = (ClassifyOutput(answer) = "ok")
      OBVIOUS
    <3>2. facts' = [facts EXCEPT !.ready = r, !.saw = b]
      BY <2>2, <3>1
    <3>3. QED
      BY <2>1, <3>1, <3>2 DEF Earning, Facts, Evaluated
  <2>4. CASE Conclude("verify_inconclusive") \/ Conclude("verify_failed_no_rollback")
    BY <2>2, <2>3, <2>4, Unclaimed DEF Claims
  <2>5. CASE Evaluated(answer) /\ r /\ Conclude("committed")
    <3>1. step' = "end" /\ result'.status = "committed" /\ result' = [status |-> result'.status, truncated |-> result'.truncated]
      BY <2>5, ConcludeIs
    <3>2. QED
      BY <2>2, <2>3, <2>5, <3>1 DEF Earning, VerdictsAreEarned
  <2>6. CASE Evaluated(answer) /\ ~r /\ step' = "undone" /\ result' = result
    BY <2>2, <2>3, <2>6 DEF Earning, VerdictsAreEarned
  <2>7. QED
    BY <2>1, <2>4, <2>5, <2>6 DEF Look, Goto
<1>13. CASE \E r, s, p, g \in BOOLEAN : Fix(r, s, p, g)
  <2>1. PICK r \in BOOLEAN, s \in BOOLEAN, p \in BOOLEAN, g \in BOOLEAN : Fix(r, s, p, g)
    BY <1>13
  <2>2. PICK v : v = IF s THEN (IF r THEN "unchanged" ELSE "unresolved")
                     ELSE IF ~p THEN "push_failed" ELSE IF g THEN "opened" ELSE "pushed"
    OBVIOUS
  <2>3. Conclude(v) /\ (r \/ s) /\ facts' = [facts EXCEPT !.repaired = r] /\ job' = job /\ Same
    BY <2>1, <2>2 DEF Fix, ProposeFix, Same
  <2>4. facts' \in Facts /\ facts'.repaired = r
    BY <2>3 DEF Earning, Facts
  <2>5. step' = "end" /\ result'.status = v /\ result' = [status |-> result'.status, truncated |-> result'.truncated]
    BY <2>3, ConcludeIs
  <2>6. v \in {"unchanged", "unresolved", "push_failed", "opened", "pushed"} /\ (v \in {"unchanged", "opened", "pushed"} => r)
    BY <2>2, <2>3
  <2>7. QED
    BY <2>3, <2>4, <2>5, <2>6 DEF Earning, VerdictsAreEarned
<1>14. QED
  BY <1>2, <1>3, <1>4, <1>5, <1>6, <1>7, <1>8, <1>9, <1>10, <1>11, <1>12, <1>13 DEF Client
-----------------------------------------------------------------------------
(* The theorems.                                                           *)

LEMMA JobsDone ==
  Spec => [](GuardInv /\ Earning)
<1>1. Init => GuardInv /\ Earning
  <2>1. ASSUME Init
        PROVE  GuardInv /\ Earning
    <3>1. GuardInv
      BY <2>1, GuardBegins DEF Init
    <3>2. /\ job \in Jobs /\ step = "begin" /\ result = [status |-> None, truncated |-> FALSE]
          /\ facts = [applied |-> None, undone |-> None, ready |-> FALSE, saw |-> FALSE, reached |-> FALSE,
                      repaired |-> FALSE, shown |-> {}]
      BY <2>1 DEF Init, NoResult
    <3>3. facts \in Facts
      BY <3>2 DEF Facts, Sayings, None
    <3>4. QED
      BY <3>1, <3>2, <3>3 DEF Earning, VerdictsAreEarned
  <2> QED
    BY <2>1
<1>2. GuardInv /\ Earning /\ [Next]_vars => (GuardInv /\ Earning)'
  <2>1. ASSUME GuardInv, Earning, Tool
        PROVE  GuardInv' /\ Earning'
    <3>1. GuardInv'
      BY <2>1, GuardStepKeeps DEF Tool
    <3>2. Earning'
      BY <2>1 DEF Tool, Earning, VerdictsAreEarned
    <3> QED
      BY <3>1, <3>2
  <2>2. ASSUME GuardInv, Earning, Client
        PROVE  GuardInv' /\ Earning'
    BY <2>2, ClientKeeps, ClientEarns DEF Earning
  <2>3. ASSUME GuardInv, Earning, UNCHANGED vars
        PROVE  GuardInv' /\ Earning'
    BY <2>3, HeldKeeps DEF vars, Hold, Earning, VerdictsAreEarned
  <2> QED
    BY <2>1, <2>2, <2>3 DEF Next
<1> QED
  BY <1>1, <1>2, PTL DEF Spec

(* A verdict of the agent-computer interface rests on what happened, for   *)
(* every command, role, gate and rung: committed on a look that saw the    *)
(* deployment ready, rolled back on an undo that was sent, automatic on    *)
(* the API server's word (write.go ExecuteTransactional, PlanMutation,     *)
(* fix.go OpenPR).                                                         *)
THEOREM VerdictsAlwaysEarned == Spec => []VerdictsAreEarned
<1>1. Earning => VerdictsAreEarned
  BY DEF Earning
<1> QED
  BY <1>1, JobsDone, PTL

(* A rollback point said to be restorable holds what was read of every     *)
(* target of its command, whatever others do to the cluster meanwhile      *)
(* (tool.go captureRollbackPoint).                                         *)
THEOREM RestorableAlwaysFaithful == Spec => []RestorableIsFaithful
<1>1. GuardInv => RestorableIsFaithful
  BY DEF GuardInv
<1> QED
  BY <1>1, JobsDone, PTL

(* A listing that lacks a row of what was asked says so, for every table   *)
(* of protected namespaces and every command (filter.go noting, tool.go    *)
(* Execute).                                                               *)
THEOREM PartialAlwaysSaid == Spec => []PartialIsSaid
<1>1. GuardInv => PartialIsSaid
  BY DEF GuardInv
<1> QED
  BY <1>1, JobsDone, PTL

-----------------------------------------------------------------------------
(* Gathering: the places of a set of positions are filled one by one. *)

LEMMA RankIs ==
  ASSUME NEW at \in SUBSET Nat, IsFiniteSet(at), NEW i \in at
  PROVE  /\ IsFiniteSet({j \in at : j <= i})
         /\ Cardinality({j \in at : j <= i}) \in 1 .. Cardinality(at)
<1> DEFINE low == {j \in at : j <= i}
<1>1. low \in SUBSET at /\ i \in low
  OBVIOUS
<1>2. IsFiniteSet(low) /\ Cardinality(low) <= Cardinality(at)
  BY <1>1, FS_Subset
<1>3. Cardinality(low) \in Nat /\ Cardinality(at) \in Nat
  BY <1>2, FS_CardinalityType
<1>4. Cardinality(low) # 0
  BY <1>1, <1>2, FS_EmptySet
<1>5. QED
  BY <1>2, <1>3, <1>4

LEMMA RanksDiffer ==
  ASSUME NEW at \in SUBSET Nat, IsFiniteSet(at), NEW i \in at, NEW j \in at, i < j
  PROVE  Cardinality({k \in at : k <= i}) # Cardinality({k \in at : k <= j})
<1> DEFINE low == {k \in at : k <= i}
           high == {k \in at : k <= j}
<1>1. i \in Nat /\ j \in Nat /\ \A k \in at : k \in Nat
  OBVIOUS
<1>2. low \in SUBSET high /\ j \in high /\ j \notin low
  <2>1. \A k \in at : k <= i => k <= j
    BY <1>1
  <2>2. ~(j <= i) /\ j <= j
    BY <1>1
  <2>3. QED
    BY <2>1, <2>2
<1>3. IsFiniteSet(high)
  BY RankIs
<1>4. low # high
  BY <1>2
<1> HIDE DEF low, high
<1>5. Cardinality(low) # Cardinality(high)
  BY <1>2, <1>3, <1>4, FS_Subset
<1>6. QED
  BY <1>5 DEF low, high

LEMMA EveryRankIsTaken ==
  ASSUME NEW at \in SUBSET Nat, IsFiniteSet(at), NEW k \in 1 .. Cardinality(at)
  PROVE  /\ Nth(at, k) \in at
         /\ Cardinality({j \in at : j <= Nth(at, k)}) = k
<1> DEFINE rank == [i \in at |-> Cardinality({j \in at : j <= i})]
           places == 1 .. Cardinality(at)
<1>1. Cardinality(at) \in Nat
  BY FS_CardinalityType
<1>2. rank \in [at -> places]
  BY RankIs
<1>3. \A i, j \in at : rank[i] = rank[j] => i = j
  <2> TAKE i \in at, j \in at
  <2>1. i \in Nat /\ j \in Nat
    OBVIOUS
  <2>2. CASE i < j
    BY <2>2, RanksDiffer
  <2>3. CASE j < i
    BY <2>3, RanksDiffer
  <2>4. QED
    BY <2>1, <2>2, <2>3
<1>4. rank \in Injection(at, places)
  BY <1>2, <1>3 DEF Injection, IsInjective
<1>5. IsFiniteSet(places) /\ Cardinality(places) = Cardinality(at)
  BY <1>1, FS_Interval
<1>6. rank \in Surjection(at, places)
  <2> HIDE DEF rank, places
  <2> QED
    BY <1>4, <1>5, FS_Injection
<1>7. \E i \in at : Cardinality({j \in at : j <= i}) = k
  BY <1>6 DEF Surjection
<1>8. QED
  BY <1>7 DEF Nth

(* What is picked is what stands at the positions, no more and no less.    *)
LEMMA PickedIs ==
  ASSUME NEW s, NEW at \in SUBSET Nat, IsFiniteSet(at)
  PROVE  /\ Picked(s, at) = [k \in 1 .. Cardinality(at) |-> s[Nth(at, k)]]
         /\ Cardinality(at) \in Nat
         /\ ToSet(Picked(s, at)) = {s[i] : i \in at}
<1>1. Cardinality(at) \in Nat
  BY FS_CardinalityType
<1>2. Picked(s, at) = [k \in 1 .. Cardinality(at) |-> s[Nth(at, k)]]
  BY DEF Picked
<1>3. \A k \in 1 .. Cardinality(at) : Nth(at, k) \in at
  BY EveryRankIsTaken
<1>4. \A i \in at : \E k \in 1 .. Cardinality(at) : Nth(at, k) = i
  <2> TAKE i \in at
  <2>1. PICK k \in 1 .. Cardinality(at) : k = Cardinality({j \in at : j <= i})
    BY RankIs
  <2>2. Nth(at, k) \in at /\ Cardinality({j \in at : j <= Nth(at, k)}) = k
    BY EveryRankIsTaken
  <2>3. i \in Nat /\ Nth(at, k) \in Nat
    BY <2>2
  <2>4. CASE Nth(at, k) < i
    BY <2>1, <2>2, <2>4, RanksDiffer
  <2>5. CASE i < Nth(at, k)
    BY <2>1, <2>2, <2>5, RanksDiffer
  <2>6. QED
    BY <2>3, <2>4, <2>5
<1>5. DOMAIN Picked(s, at) = 1 .. Cardinality(at)
  BY <1>2
<1>6. ToSet(Picked(s, at)) = {s[i] : i \in at}
  <2>1. ToSet(Picked(s, at)) = {s[Nth(at, k)] : k \in 1 .. Cardinality(at)}
    BY <1>2, <1>5 DEF ToSet
  <2>2. QED
    BY <1>3, <1>4, <2>1
<1>7. QED
  BY <1>1, <1>2, <1>6

-----------------------------------------------------------------------------
(* What is changed was asked for. *)

(* The least position of a set of them, and the only one. *)

LEMMA LeastOne ==
  ASSUME NEW S \in SUBSET Nat, S # {}
  PROVE  \E i \in S : \A j \in S : i <= j
<1>1. PICK i \in S : \A j \in S : ~ (<<j, i>> \in OpToRel(<, Nat))
  BY NatLessThanWellFounded, WFMin
<1>2. \A j \in S : ~(j < i)
  BY <1>1 DEF OpToRel
<1>3. QED
  BY <1>2

LEMMA MinIs ==
  ASSUME NEW S \in SUBSET Nat, S # {}
  PROVE  Min(S) \in S /\ \A j \in S : Min(S) <= j
  BY LeastOne DEF Min

LEMMA OnlyOne ==
  ASSUME NEW i \in Nat
  PROVE  Min({i}) = i /\ Max({i}) = i
  BY DEF Min, Max

(* What kubectl and the tool make of a command line. *)

LEMMA LinesAre ==
  ASSUME NEW S, NEW s \in Seq(S), \A t \in S : IsToken(t)
  PROVE  IsLine(s)
<1>1. DOMAIN s = 1 .. Len(s) /\ Len(s) \in Nat /\ \A i \in DOMAIN s : s[i] \in S
  OBVIOUS
<1>2. s \in [1 .. Len(s) -> ToSet(s)]
  BY <1>1 DEF ToSet
<1>3. s \in Seq(ToSet(s))
  BY <1>1, <1>2
<1> QED BY <1>1, <1>3 DEF IsLine

LEMMA TokensAre ==
  ASSUME NEW n, NEW v
  PROVE  IsToken(W(n)) /\ IsToken(F(n)) /\ IsToken(FV(n, v))
  BY DEF IsToken, W, F, FV

LEMMA PositionsAre ==
  ASSUME NEW toks, IsLine(toks)
  PROVE  /\ Len(toks) \in Nat /\ DOMAIN toks = 1 .. Len(toks)
         /\ ReadAsWord(toks) \subseteq 2 .. Len(toks)
         /\ AfterVerb(toks) \subseteq ReadAsWord(toks)
         /\ \A names : ReadAsFlag(toks, names) = {k \in ReadAsFlag(toks, names) :
                          k \in DOMAIN toks /\ toks[k].dash /\ toks[k].name \in names}
         /\ \A s \in Nat : wordsFrom(toks, s + 2) = {k \in wordsFrom(toks, 2) : k >= s + 2}
         /\ \A k \in wordsFrom(toks, 2) : k \in 2 .. Len(toks) /\ ~toks[k].dash
<1>1. Len(toks) \in Nat /\ DOMAIN toks = 1 .. Len(toks)
  BY DEF IsLine
<1>2. ReadAsWord(toks) \subseteq 2 .. Len(toks)
  BY DEF ReadAsWord, WordsAmong, BeforeEnd, AfterEnd, NoValues
<1>3. AfterVerb(toks) \subseteq ReadAsWord(toks)
  BY DEF AfterVerb, AfterFirst
<1>4. ASSUME NEW names, NEW k \in ReadAsFlag(toks, names)
      PROVE  k \in DOMAIN toks /\ toks[k].dash /\ toks[k].name \in names
  <2>1. k \in 2 .. Len(toks) /\ toks[k].dash /\ toks[k].name \in names
    BY DEF ReadAsFlag, BeforeEnd, NoValues
  <2> QED BY <1>1, <2>1
<1>5. ASSUME NEW s \in Nat
      PROVE  wordsFrom(toks, s + 2) = {k \in wordsFrom(toks, 2) : k >= s + 2}
  BY <1>1 DEF wordsFrom
<1>6. \A k \in wordsFrom(toks, 2) : k \in 2 .. Len(toks) /\ ~toks[k].dash
  BY DEF wordsFrom
<1> QED BY <1>1, <1>2, <1>3, <1>4, <1>5, <1>6

(* A flag that stands once, and is kubectl's flag where it stands. *)
LEMMA OneFlag ==
  ASSUME NEW toks, IsLine(toks), NEW names, OneAndRead(toks, names)
  PROVE  LET ps == {k \in DOMAIN toks : toks[k].dash /\ toks[k].name \in names}
         IN  ReadAsFlag(toks, names) = ps /\ (ps = {} \/ \E i \in Nat : ps = {i})
<1> DEFINE ps == {k \in DOMAIN toks : toks[k].dash /\ toks[k].name \in names}
<1>1. \A i, j \in ps : i = j /\ i \in ReadAsFlag(toks, names)
  BY DEF OneAndRead
<1>2. ps \subseteq ReadAsFlag(toks, names)
  BY <1>1
<1>3. ReadAsFlag(toks, names) \subseteq ps
  BY PositionsAre
<1>4. ps = {} \/ \E i \in ps : ps = {i}
  BY <1>1
<1>5. ps \subseteq Nat
  BY PositionsAre
<1> QED BY <1>2, <1>3, <1>4, <1>5

LEMMA NamespaceAlike ==
  ASSUME NEW toks, IsLine(toks), OneAndRead(toks, {"-n", "--namespace"})
  PROVE  NsIn(toks) \in {extractNamespace(toks), DefaultNs}
<1>1. PICK ps : ps = {k \in DOMAIN toks : toks[k].dash /\ toks[k].name \in {"-n", "--namespace"}}
  OBVIOUS
<1>2. ReadAsFlag(toks, {"-n", "--namespace"}) = ps /\ (ps = {} \/ \E i \in Nat : ps = {i})
  BY <1>1, OneFlag
<1>3. NsIn(toks) = IF ps = {} \/ ValueAt(toks, Max(ps)) = None THEN DefaultNs ELSE ValueAt(toks, Max(ps))
  BY <1>2 DEF NsIn, OrDefault, LastValue
<1>4. extractNamespace(toks) = IF ps = {} THEN None ELSE ValueAt(toks, Min(ps))
  BY <1>1 DEF extractNamespace, FlagValue
<1>5. CASE ps = {}
  BY <1>3, <1>5
<1>6. CASE \E i \in Nat : ps = {i}
  <2>1. PICK i \in Nat : ps = {i}
    BY <1>6
  <2>2. Min(ps) = Max(ps)
    BY <2>1, OnlyOne
  <2> QED BY <1>3, <1>4, <2>1, <2>2
<1> QED BY <1>2, <1>5, <1>6

LEMMA AllAlike ==
  ASSUME NEW toks, IsLine(toks), OneAndRead(toks, {"-A", "--all-namespaces"}),
         \A i \in DOMAIN toks : toks[i].name = "-A" => toks[i].value = None,
         AllIn(toks)
  PROVE  isAllNamespaces(toks)
<1>1. PICK ps : ps = {k \in DOMAIN toks : toks[k].dash /\ toks[k].name \in {"-A", "--all-namespaces"}}
  OBVIOUS
<1>2. ReadAsFlag(toks, {"-A", "--all-namespaces"}) = ps /\ (ps = {} \/ \E i \in Nat : ps = {i})
  BY <1>1, OneFlag
<1>3. ps # {} /\ toks[Max(ps)].value \in {None, "true", "1"}
  BY <1>2 DEF AllIn, LastSays
<1>4. PICK i \in Nat : ps = {i}
  BY <1>2, <1>3
<1>5. toks[i].value \in {None, "true", "1"}
  BY <1>3, <1>4, OnlyOne
<1>6. PICK qs : qs = {k \in DOMAIN toks : toks[k] = F("-A") \/ (toks[k].dash /\ toks[k].name = "--all-namespaces")}
  OBVIOUS
<1>7. qs \subseteq ps
  BY <1>1, <1>6 DEF F
<1>8. i \in qs
  <2>1. i \in DOMAIN toks /\ toks[i].dash /\ toks[i].name \in {"-A", "--all-namespaces"}
    BY <1>1, <1>4
  <2>2. IsToken(toks[i])
    BY <2>1 DEF IsLine
  <2>3. CASE toks[i].name = "-A"
    <3>1. toks[i].dash = TRUE /\ toks[i].value = None
      BY <2>1, <2>2, <2>3 DEF IsToken
    <3>2. toks[i] = F("-A")
      BY <2>2, <2>3, <3>1 DEF IsToken, F
    <3> QED BY <1>6, <2>1, <3>2
  <2>4. CASE toks[i].name = "--all-namespaces"
    BY <1>6, <2>1, <2>4
  <2> QED BY <2>1, <2>3, <2>4
<1>9. qs = {i}
  BY <1>4, <1>7, <1>8
<1>10. isAllNamespaces(toks) = (qs # {} /\ toks[Min(qs)].value \notin {"false", "0", "no"})
  BY <1>6 DEF isAllNamespaces
<1> QED BY <1>5, <1>9, <1>10, OnlyOne DEF None

LEMMA DryRunSeen ==
  ASSUME NEW cmd, IsLine(cmd.args), OneAndRead(cmd.args, {"--dry-run"}), HasDryRun(cmd)
  PROVE  DryRun(cmd.args)
<1>1. PICK toks : toks = cmd.args
  OBVIOUS
<1>2. PICK ps : ps = {k \in DOMAIN toks : toks[k].dash /\ toks[k].name \in {"--dry-run"}}
  OBVIOUS
<1>3. ReadAsFlag(toks, {"--dry-run"}) = ps /\ (ps = {} \/ \E i \in Nat : ps = {i})
  BY <1>1, <1>2, OneFlag
<1>4. PICK i \in DOMAIN toks : toks[i] \in {F("--dry-run"), FV("--dry-run", "client"), FV("--dry-run", "server")}
  BY <1>1 DEF HasDryRun
<1>5. toks[i].dash /\ toks[i].name = "--dry-run" /\ toks[i].value \in {None, "client", "server"}
  <2>1. PICK t : t = toks[i]
    OBVIOUS
  <2>2. CASE t = F("--dry-run")
    BY <2>1, <2>2 DEF F
  <2>3. CASE t = FV("--dry-run", "client")
    BY <2>1, <2>3 DEF FV
  <2>4. CASE t = FV("--dry-run", "server")
    BY <2>1, <2>4 DEF FV
  <2> QED BY <1>4, <2>1, <2>2, <2>3, <2>4
<1>6. i \in ps /\ i \in Nat
  BY <1>1, <1>2, <1>4, <1>5, PositionsAre
<1>7. ps = {i} /\ Max(ps) = i
  BY <1>3, <1>6, OnlyOne
<1>8. DryRun(toks) = (ps # {} /\ toks[Max(ps)].value \in {None, "client", "server"})
  BY <1>3 DEF DryRun, LastSays
<1> QED BY <1>1, <1>5, <1>7, <1>8

(* The tool's verb, where it stands. *)
LEMMA VerbStands ==
  ASSUME NEW toks, IsLine(toks)
  PROVE  LET ws == wordsFrom(toks, 2)
         IN  /\ ws = {} => ExtractVerb(toks) = None /\ At(toks, operandIndex(toks)) = W(None)
             /\ ws # {} => /\ skipFlags(toks, 2) = Min(ws) /\ Min(ws) \in 2 .. Len(toks)
                           /\ ExtractVerb(toks) = Verbatim(toks[Min(ws)])
                           /\ operandIndex(toks) = skipFlags(toks, Min(ws) + 1)
<1>1. PICK ws : ws = wordsFrom(toks, 2)
  OBVIOUS
<1>2. Len(toks) \in Nat /\ \A k \in ws : k \in 2 .. Len(toks)
  BY <1>1, PositionsAre
<1>3. skipFlags(toks, 2) = IF ws = {} THEN Len(toks) + 1 ELSE Min(ws)
  BY <1>1 DEF skipFlags
<1>4. ASSUME ws = {}
      PROVE  ExtractVerb(toks) = None /\ At(toks, operandIndex(toks)) = W(None)
  <2>1. skipFlags(toks, 2) = Len(toks) + 1
    BY <1>3, <1>4
  <2>2. ExtractVerb(toks) = None
    <3>1. At(toks, Len(toks) + 1) = W(None)
      BY <1>2 DEF At
    <3>2. Verbatim(W(None)) = None
      BY DEF Verbatim, W
    <3> QED BY <2>1, <3>1, <3>2 DEF ExtractVerb
  <2>3. operandIndex(toks) = skipFlags(toks, (Len(toks) + 1) + 1)
    BY <2>1 DEF operandIndex
  <2>4. wordsFrom(toks, Len(toks) + 2) = {}
    BY <1>1, <1>4, PositionsAre
  <2>5. operandIndex(toks) = Len(toks) + 1
    <3>1. (Len(toks) + 1) + 1 = Len(toks) + 2
      BY <1>2
    <3> QED BY <2>3, <2>4, <3>1 DEF skipFlags
  <2> QED BY <1>2, <2>2, <2>5 DEF At
<1>5. ASSUME ws # {}
      PROVE  /\ skipFlags(toks, 2) = Min(ws) /\ Min(ws) \in 2 .. Len(toks)
             /\ ExtractVerb(toks) = Verbatim(toks[Min(ws)])
             /\ operandIndex(toks) = skipFlags(toks, Min(ws) + 1)
  <2>1. skipFlags(toks, 2) = Min(ws)
    BY <1>3, <1>5
  <2>2. ws \in SUBSET Nat
    BY <1>2
  <2>3. Min(ws) \in ws
    BY <1>5, <2>2, MinIs
  <2>4. Min(ws) \in 2 .. Len(toks)
    BY <1>2, <2>3
  <2>5. At(toks, Min(ws)) = toks[Min(ws)]
    BY <1>2, <2>4 DEF At
  <2> QED BY <2>1, <2>4, <2>5 DEF ExtractVerb, operandIndex
<1> QED BY <1>1, <1>4, <1>5

(* The same words are the same verb and the same operand. *)
LEMMA SameWords ==
  ASSUME NEW toks, IsLine(toks), ReadAsWord(toks) = wordsFrom(toks, 2)
  PROVE  /\ Alike(toks)
         /\ AfterVerb(toks) # {} =>
              /\ operandIndex(toks) = Min(AfterVerb(toks)) /\ Min(AfterVerb(toks)) \in AfterVerb(toks)
              /\ \A i \in AfterVerb(toks) :
                    i = Min(AfterVerb(toks)) \/ i \in wordsFrom(toks, Min(AfterVerb(toks)) + 1)
<1>1. PICK ws : ws = wordsFrom(toks, 2) /\ ws = ReadAsWord(toks)
  OBVIOUS
<1>2. Len(toks) \in Nat /\ ws \in SUBSET Nat /\ \A k \in ws : k \in 2 .. Len(toks) /\ ~toks[k].dash
  BY <1>1, PositionsAre
<1>3. AfterVerb(toks) = {i \in ws : \E j \in ws : j < i}
  BY <1>1 DEF AfterVerb, AfterFirst
<1>4. KubectlVerb(toks) = IF ws = {} \/ toks[Min(ws)].dash THEN None ELSE Verbatim(toks[Min(ws)])
  BY <1>1 DEF KubectlVerb, VerbOf, First, Verbatim, W
<1>5. CASE ws = {}
  <2>1. AfterVerb(toks) = {} /\ KubectlVerb(toks) = None
    BY <1>3, <1>4, <1>5
  <2>2. KubectlOperand(toks) = W(None)
    BY <2>1 DEF KubectlOperand, First
  <2>3. ExtractVerb(toks) = None /\ At(toks, operandIndex(toks)) = W(None)
    BY <1>1, <1>5, VerbStands
  <2> QED BY <2>1, <2>2, <2>3 DEF Alike
<1>6. CASE ws # {}
  <2>1. PICK v : v = Min(ws)
    OBVIOUS
  <2>2. v \in ws /\ v \in 2 .. Len(toks) /\ ~toks[v].dash /\ \A j \in ws : v <= j
    BY <1>2, <1>6, <2>1, MinIs
  <2>3. ExtractVerb(toks) = Verbatim(toks[v]) /\ operandIndex(toks) = skipFlags(toks, v + 1)
    BY <1>1, <1>6, <2>1, VerbStands
  <2>4. KubectlVerb(toks) = Verbatim(toks[v])
    BY <1>4, <1>6, <2>1, <2>2
  <2>5. PICK after : after = AfterVerb(toks)
    OBVIOUS
  <2>6. ASSUME NEW i \in after
        PROVE  i \in ws /\ i >= v + 1
    <3>1. PICK j \in ws : i \in ws /\ j < i
      BY <1>3, <2>5, <2>6
    <3>2. v <= j /\ i \in Nat /\ j \in Nat /\ v \in Nat
      BY <1>2, <2>2, <3>1
    <3> QED BY <3>1, <3>2
  <2>7. ASSUME NEW i \in ws, i >= v + 1
        PROVE  i \in after
    <3>1. v < i /\ v \in ws
      BY <1>2, <2>2, <2>7
    <3> QED BY <1>3, <2>5, <2>7, <3>1
  <2>8. after = wordsFrom(toks, v + 1)
    <3>1. v - 1 \in Nat /\ (v - 1) + 2 = v + 1
      BY <2>2
    <3>2. wordsFrom(toks, (v - 1) + 2) = {k \in ws : k >= (v - 1) + 2}
      BY <1>1, <3>1, PositionsAre
    <3>3. wordsFrom(toks, v + 1) = {k \in ws : k >= v + 1}
      BY <3>1, <3>2
    <3> QED BY <2>6, <2>7, <3>3
  <2>9. operandIndex(toks) = IF after = {} THEN Len(toks) + 1 ELSE Min(after)
    BY <2>3, <2>8 DEF skipFlags
  <2>10. CASE after = {}
    <3>1. KubectlOperand(toks) = W(None)
      BY <2>5, <2>10 DEF KubectlOperand, First
    <3>2. At(toks, operandIndex(toks)) = W(None)
      BY <1>2, <2>9, <2>10 DEF At
    <3> QED BY <2>3, <2>4, <2>5, <2>10, <3>1, <3>2 DEF Alike
  <2>11. CASE after # {}
    <3>1. after \in SUBSET Nat
      BY <1>2, <2>6
    <3>2. PICK at : at = Min(after)
      OBVIOUS
    <3>3. at \in after /\ at \in 2 .. Len(toks) /\ \A j \in after : at <= j
      <4>1. Min(after) \in after /\ \A j \in after : Min(after) <= j
        BY <2>11, <3>1, MinIs
      <4> QED BY <1>2, <2>6, <3>2, <4>1
    <3>4. KubectlOperand(toks) = toks[at] /\ At(toks, operandIndex(toks)) = toks[at]
      BY <1>2, <2>5, <2>9, <2>11, <3>2, <3>3 DEF KubectlOperand, First, At
    <3>5. \A i \in after : i = at \/ i \in wordsFrom(toks, at + 1)
      <4>1. at - 1 \in Nat /\ (at - 1) + 2 = at + 1
        BY <3>3
      <4>2. wordsFrom(toks, (at - 1) + 2) = {k \in ws : k >= (at - 1) + 2}
        BY <1>1, <4>1, PositionsAre
      <4>3. wordsFrom(toks, at + 1) = {k \in ws : k >= at + 1}
        BY <4>1, <4>2
      <4>4. \A i \in after : i \in ws /\ i \in Nat /\ (i = at \/ i >= at + 1)
        BY <1>2, <2>6, <3>3
      <4> QED BY <4>3, <4>4
    <3> QED BY <2>3, <2>4, <2>5, <2>9, <2>11, <3>2, <3>3, <3>4, <3>5 DEF Alike
  <2> QED BY <2>10, <2>11
<1> QED BY <1>5, <1>6

(* A verb that writes by its subcommand writes by the tool's reading, even *)
(* where a flag's value is spelled like the verb.                          *)
LEMMA SubcommandSeen ==
  ASSUME NEW toks, IsLine(toks), NEW verb, verb = ExtractVerb(toks), verb \in DOMAIN readOnlySubcommands,
         \A s \in readOnlySubcommands[verb] : At(toks, operandIndex(toks)) # W(s)
  PROVE  IsWrite(verb, toks)
<1>1. verb \in {"rollout", "config", "certificate", "auth"} /\ verb # None
  BY DEF readOnlySubcommands, None
<1>2. PICK ws : ws = wordsFrom(toks, 2)
  OBVIOUS
<1>3. Len(toks) \in Nat /\ ws \in SUBSET Nat /\ DOMAIN toks = 1 .. Len(toks) /\ \A k \in ws : k \in 2 .. Len(toks) /\ ~toks[k].dash
  BY <1>2, PositionsAre
<1>4. ws # {}
  BY <1>1, <1>2, VerbStands
<1>5. PICK v : v = Min(ws)
  OBVIOUS
<1>6. v \in ws /\ v \in 2 .. Len(toks) /\ ~toks[v].dash /\ \A j \in ws : v <= j
  BY <1>3, <1>4, <1>5, MinIs
<1>7. verb = Verbatim(toks[v]) /\ operandIndex(toks) = skipFlags(toks, v + 1)
  BY <1>2, <1>4, <1>5, VerbStands
<1>8. toks[v] = W(verb)
  <2>1. IsToken(toks[v])
    BY <1>3, <1>6 DEF IsLine
  <2>2. toks[v].value = None /\ toks[v].name = verb
    BY <1>1, <1>7 DEF Verbatim
  <2>3. toks[v].dash = FALSE
    BY <1>6, <2>1 DEF IsToken
  <2> QED BY <2>1, <2>2, <2>3 DEF IsToken, W
<1>9. PICK like : like = {i \in DOMAIN toks : toks[i] = W(verb)}
  OBVIOUS
<1>10. v \in like /\ like \in SUBSET Nat
  BY <1>3, <1>6, <1>8, <1>9
<1>11. PICK p : p = Min(like)
  OBVIOUS
<1>12. p \in like /\ p \in 1 .. Len(toks) /\ p <= v
  <2>1. Min(like) \in like /\ \A j \in like : Min(like) <= j
    BY <1>10, MinIs
  <2> QED BY <1>3, <1>9, <1>10, <1>11, <2>1
<1>13. IsWrite(verb, toks) = (\A s \in readOnlySubcommands[verb] : At(toks, skipFlags(toks, p + 1)) # W(s))
  BY <1>1, <1>9, <1>10, <1>11 DEF IsWrite
<1>14. CASE p = v
  BY <1>7, <1>13, <1>14
<1>15. CASE p # v
  <2>1. p + 1 <= v /\ p - 1 \in Nat /\ (p - 1) + 2 = p + 1
    BY <1>6, <1>12, <1>15
  <2>2. wordsFrom(toks, (p - 1) + 2) = {k \in ws : k >= (p - 1) + 2}
    BY <1>2, <2>1, PositionsAre
  <2>3. PICK rest : rest = wordsFrom(toks, p + 1)
    OBVIOUS
  <2>4. rest = {k \in ws : k >= p + 1}
    BY <2>1, <2>2, <2>3
  <2>5. v \in rest /\ rest \in SUBSET Nat /\ \A j \in rest : v <= j
    <3>1. v >= p + 1
      BY <1>6, <1>12, <2>1
    <3>2. rest \subseteq ws
      BY <2>4
    <3> QED BY <1>3, <1>6, <2>4, <3>1, <3>2
  <2>6. Min(rest) = v
    <3>1. Min(rest) \in rest /\ \A j \in rest : Min(rest) <= j
      BY <2>5, MinIs
    <3>2. Min(rest) \in Nat /\ v \in Nat /\ Min(rest) <= v /\ v <= Min(rest)
      BY <1>6, <2>5, <3>1
    <3> QED BY <3>2
  <2>7. skipFlags(toks, p + 1) = v
    BY <2>3, <2>5, <2>6 DEF skipFlags
  <2>8. At(toks, skipFlags(toks, p + 1)) = W(verb)
    BY <1>3, <1>6, <1>8, <2>7 DEF At
  <2>9. \A s \in readOnlySubcommands[verb] : W(verb) # W(s)
    <3>1. verb \notin readOnlySubcommands[verb]
      BY <1>1 DEF readOnlySubcommands
    <3>2. \A s : W(verb) = W(s) => verb = s
      BY DEF W
    <3> QED BY <3>1, <3>2
  <2> QED BY <1>13, <2>8, <2>9
<1> QED BY <1>14, <1>15

LEMMA ChangeIsWrite ==
  ASSUME NEW toks, IsLine(toks), Alike(toks), Mutates(toks)
  PROVE  IsWrite(ExtractVerb(toks), toks)
<1>1. PICK verb : verb = ExtractVerb(toks)
  OBVIOUS
<1>2. verb = KubectlVerb(toks) /\ KubectlOperand(toks) = At(toks, operandIndex(toks))
  BY <1>1 DEF Alike
<1>3. /\ verb # None /\ verb \notin readOnlyVerbs
      /\ verb \in DOMAIN readOnlySubcommands => \A s \in readOnlySubcommands[verb] : At(toks, operandIndex(toks)) # W(s)
  BY <1>2 DEF Mutates
<1>4. CASE verb \in DOMAIN readOnlySubcommands
  BY <1>1, <1>3, <1>4, SubcommandSeen
<1>5. CASE verb \notin DOMAIN readOnlySubcommands
  BY <1>1, <1>3, <1>5 DEF IsWrite
<1> QED BY <1>4, <1>5

(* A destructive verb of kubectl's is among the tokens the tool looks      *)
(* through, whatever it takes for the verb.                                *)
LEMMA DestructiveSeen ==
  ASSUME NEW toks, IsLine(toks), KubectlVerb(toks) \in DestructiveVerbs
  PROVE  KubectlVerb(toks) \in DestructiveVerbsIn(toks)
<1>1. PICK ws : ws = ReadAsWord(toks)
  OBVIOUS
<1>2. ws \in SUBSET Nat /\ \A k \in ws : k \in 2 .. Len(toks)
  BY <1>1, PositionsAre
<1>3. None \notin DestructiveVerbs /\ "type/name" \notin DestructiveVerbs
  BY DEF DestructiveVerbs, highRisk, mediumRisk, None
<1>4. ws # {} /\ ~toks[Min(ws)].dash /\ KubectlVerb(toks) = Verbatim(toks[Min(ws)])
  BY <1>1, <1>3 DEF KubectlVerb, VerbOf, First, Verbatim, W
<1>5. Min(ws) \in 2 .. Len(toks)
  BY <1>2, <1>4, MinIs
<1>6. toks[Min(ws)].value = None /\ KubectlVerb(toks) = toks[Min(ws)].name
  BY <1>3, <1>4 DEF Verbatim
<1> QED BY <1>4, <1>5, <1>6 DEF DestructiveVerbsIn

-----------------------------------------------------------------------------
(* What is reached is told. *)

LEMMA DocsTold ==
  ASSUME NEW c, IsLine(c.args), OneAndRead(c.args, {"-n", "--namespace"}),
         \A d \in manifestDocs(c.stdin) : Kind(d.kind) # "namespace",
         NEW o \in OfDocs(c.stdin, NsIn(c.args))
  PROVE  o.kind # "namespace" /\ o.ns \in NamespacesNamed(c) \cup {DefaultNs}
<1>1. PICK d \in UNION {{doc} \cup doc.items : doc \in ToSet(c.stdin)} :
        /\ Kind(d.kind) = o.kind
        /\ o.kind = "namespace" \/ (IF d.ns = None THEN NsIn(c.args) ELSE d.ns) = o.ns
  BY DEF OfDocs
<1>2. d \in manifestDocs(c.stdin)
  BY <1>1 DEF manifestDocs
<1>3. o.kind # "namespace"
  BY <1>1, <1>2
<1>4. d.ns # None => d.ns \in manifestNamespaces(c.stdin)
  BY <1>2 DEF manifestNamespaces
<1>5. NsIn(c.args) \in {extractNamespace(c.args), DefaultNs}
  BY NamespaceAlike
<1> QED BY <1>1, <1>3, <1>4, <1>5 DEF NamespacesNamed

LEMMA TargetTold ==
  ASSUME NEW toks, IsLine(toks), ReadAsWord(toks) = wordsFrom(toks, 2),
         OperandsAt(toks) = AfterVerb(toks), NamesNamespaces(toks),
         NEW o \in OnTheLine(toks), o.kind = "namespace"
  PROVE  \/ o.name \in targetedNamespaces(ExtractVerb(toks), toks)
         \/ IsNamespaceListing(toks) /\ ~Mutates(toks)
<1>1. PICK ops : ops = AfterVerb(toks)
  OBVIOUS
<1>2. PICK at : at = Min(ops)
  OBVIOUS
<1>3. PICK first : first = toks[at]
  OBVIOUS
<1>4. o \in Objects /\ ops # {} /\ Selected(toks, ops, o)
  BY <1>1 DEF OnTheLine
<1>5. /\ Alike(toks) /\ operandIndex(toks) = at /\ at \in ops
      /\ \A i \in ops : i = at \/ i \in wordsFrom(toks, at + 1)
  BY <1>1, <1>2, <1>4, SameWords
<1>6. KubectlOperand(toks) = first /\ at \in 2 .. Len(toks)
  BY <1>1, <1>2, <1>3, <1>4, <1>5, PositionsAre DEF KubectlOperand, First
<1>7. /\ \A i \in ops : first.value # None => toks[i].name = first.name
      /\ Kind(first.name) = "namespace" =>
            /\ KubectlVerb(toks) \in resourceVerbs
            /\ first.value # None \/ (\E i, j \in ops : i # j) \/ ~Mutates(toks)
  BY <1>1, <1>6 DEF NamesNamespaces
<1>8. PICK names : names = {toks[i] : i \in ops \ {at}}
  OBVIOUS
<1>9. \/ first.value # None /\ \E i \in ops : o.kind = Kind(toks[i].name) /\ o.name = toks[i].value
      \/ first.value = None /\ KubectlVerb(toks) \in podVerbs /\ o.kind = "pod"
      \/ o.kind = Kind(first.name) /\ first.value = None /\ (W(o.name) \in names \/ names = {})
  <2>2. first = First(toks, ops) /\ names = {toks[i] : i \in ops \ {Min(ops)}}
    BY <1>2, <1>3, <1>4, <1>8 DEF First
  <2>3. CASE first.value # None
    <3>1. \E i \in ops : o.kind = Kind(toks[i].name) /\ o.name = toks[i].value
      BY <1>4, <2>2, <2>3 DEF Selected
    <3> QED BY <2>3, <3>1
  <2>4. CASE first.value = None /\ KubectlVerb(toks) \in podVerbs
    <3>1. o.kind = "pod"
      BY <1>4, <2>2, <2>4 DEF Selected
    <3> QED BY <2>4, <3>1
  <2>5. CASE first.value = None /\ KubectlVerb(toks) \notin podVerbs
    <3>1. o.kind = Kind(first.name) /\ (W(o.name) \in names \/ names = {})
      BY <1>4, <2>2, <2>5 DEF Selected
    <3> QED BY <2>5, <3>1
  <2> QED BY <2>3, <2>4, <2>5
<1>10. Kind(first.name) = "namespace"
  BY <1>7, <1>9
<1>11. first.name \in namespaceKinds
  BY <1>10, GuardAssumption DEF Kind, namespaceKinds
<1>12. PICK verb : verb = ExtractVerb(toks)
  OBVIOUS
<1>13. extractResourceType(verb, toks) \in namespaceKinds
  <2>1. verb \in resourceVerbs
    BY <1>5, <1>7, <1>10, <1>12 DEF Alike
  <2>2. At(toks, at) = first
    BY <1>3, <1>6, PositionsAre DEF At
  <2>3. operandAfterVerb(toks) = first.name
    BY <1>5, <2>2 DEF operandAfterVerb
  <2> QED BY <1>11, <2>1, <2>3 DEF extractResourceType
<1>14. targetedNamespaces(verb, toks) = {first.value} \cup {LastSegment(toks[i]) : i \in wordsFrom(toks, at + 1)}
  <2>1. ~(at > Len(toks))
    BY <1>6, PositionsAre
  <2> QED BY <1>3, <1>5, <1>13, <2>1 DEF targetedNamespaces
<1>15. CASE first.value # None
  <2>1. PICK i \in ops : o.name = toks[i].value
    BY <1>9, <1>15
  <2>2. o.name # None
    BY <1>4, GuardAssumption
  <2>3. LastSegment(toks[i]) = o.name
    BY <2>1, <2>2 DEF LastSegment
  <2>4. i = at \/ i \in wordsFrom(toks, at + 1)
    BY <1>5, <2>1
  <2>5. CASE i = at
    <3>1. o.name = first.value
      BY <1>3, <2>1, <2>5
    <3> QED BY <1>12, <1>14, <3>1
  <2>6. CASE i \in wordsFrom(toks, at + 1)
    BY <1>12, <1>14, <2>3, <2>6
  <2> QED BY <2>4, <2>5, <2>6
<1>16. CASE W(o.name) \in names
  <2>1. PICK i \in ops \ {at} : toks[i] = W(o.name)
    BY <1>8, <1>16
  <2>2. LastSegment(toks[i]) = o.name
    <3>1. toks[i].value = None /\ toks[i].name = o.name
      BY <2>1 DEF W
    <3> QED BY <3>1 DEF LastSegment
  <2>3. i \in wordsFrom(toks, at + 1)
    BY <1>5, <2>1
  <2> QED BY <1>12, <1>14, <2>2, <2>3
<1>17. CASE first.value = None /\ names = {}
  <2>1. \A i \in ops : i = at
    BY <1>8, <1>17
  <2>2. ~Mutates(toks)
    BY <1>7, <1>10, <1>17, <2>1
  <2>3. IsNamespaceListing(toks)
    BY <1>12, <1>13 DEF IsNamespaceListing
  <2> QED BY <2>2, <2>3
<1> QED BY <1>9, <1>15, <1>16, <1>17

LEMMA TouchedTold ==
  ASSUME NEW c, IsLine(c.args), ReadInFull(c), ~isAllNamespaces(c.args), NEW o \in Touches(c)
  PROVE  \/ RowNamespace(o) \in NamespacesNamed(c) \cup {DefaultNs}
         \/ IsNamespaceListing(c.args) /\ ~Mutates(c.args)
<1>1. PICK toks : toks = c.args
  OBVIOUS
<1>2. /\ ReadAsWord(toks) = wordsFrom(toks, 2)
      /\ OneAndRead(toks, {"-n", "--namespace"}) /\ OneAndRead(toks, {"-A", "--all-namespaces"})
      /\ \A i \in DOMAIN toks : toks[i].name = "-A" => toks[i].value = None
      /\ IF FromStdin(toks) THEN \A d \in manifestDocs(c.stdin) : Kind(d.kind) # "namespace"
         ELSE OperandsAt(toks) = AfterVerb(toks) /\ NamesNamespaces(toks)
  BY <1>1 DEF ReadInFull
<1>3. ~AllIn(toks)
  BY <1>1, <1>2, AllAlike
<1> DEFINE Known(x) == \/ RowNamespace(x) \in NamespacesNamed(c) \cup {DefaultNs}
                       \/ IsNamespaceListing(toks) /\ ~Mutates(toks)
<1>4. PICK os : os = IF FromStdin(toks) THEN OfDocs(c.stdin, NsIn(toks)) ELSE OnTheLine(toks)
  OBVIOUS
<1>5. ASSUME NEW x \in os
      PROVE  Known(x)
  <2>1. CASE FromStdin(toks)
    <3>1. x.kind # "namespace" /\ x.ns \in NamespacesNamed(c) \cup {DefaultNs}
      BY <1>1, <1>2, <1>4, <1>5, <2>1, DocsTold
    <3> QED BY <3>1 DEF RowNamespace
  <2>2. CASE ~FromStdin(toks) /\ x.kind = "namespace"
    <3>1. x \in OnTheLine(toks) /\ OperandsAt(toks) = AfterVerb(toks) /\ NamesNamespaces(toks)
      BY <1>2, <1>4, <1>5, <2>2
    <3>2. x.name \in targetedNamespaces(ExtractVerb(toks), toks) \/ (IsNamespaceListing(toks) /\ ~Mutates(toks))
      BY <1>1, <1>2, <2>2, <3>1, TargetTold
    <3> QED BY <1>1, <2>2, <3>2 DEF RowNamespace, NamespacesNamed
  <2>3. CASE ~FromStdin(toks) /\ x.kind # "namespace"
    <3>1. x.ns = NsIn(toks)
      BY <1>3, <1>4, <1>5, <2>3 DEF OnTheLine
    <3>2. NsIn(toks) \in {extractNamespace(toks), DefaultNs}
      BY <1>1, <1>2, NamespaceAlike
    <3> QED BY <1>1, <2>3, <3>1, <3>2 DEF RowNamespace, NamespacesNamed
  <2> QED BY <2>1, <2>2, <2>3
<1>6. Touches(c) = IF KubectlVerb(toks) = "delete" THEN Inside(os) ELSE os
  BY <1>1, <1>4 DEF Touches, WithInside
<1>7. CASE o \in os
  BY <1>1, <1>5, <1>7
<1>8. CASE o \notin os
  <2>1. PICK n \in os : n.kind = "namespace" /\ o.ns = n.name
    BY <1>6, <1>8 DEF Inside
  <2>2. Known(n) /\ RowNamespace(n) = n.name
    BY <1>5, <2>1 DEF RowNamespace
  <2>3. CASE o.kind # "namespace"
    <3>1. RowNamespace(o) = RowNamespace(n)
      BY <2>1, <2>2, <2>3 DEF RowNamespace
    <3> QED BY <1>1, <2>2, <3>1
  <2>4. CASE o.kind = "namespace"
    <3>1. o \in Objects /\ n \in Objects
      BY <1>4, <1>6, <1>8, <2>1 DEF Inside, OfDocs, OnTheLine
    <3>2. o.ns = None /\ n.name # None
      BY <2>4, <3>1, GuardAssumption
    <3> QED BY <2>1, <3>2
  <2> QED BY <2>3, <2>4
<1> QED BY <1>7, <1>8

-----------------------------------------------------------------------------
(* What passes the gates. *)

(* A call past the gates that is not the superadmin's names no namespace   *)
(* of the infrastructure, and writes to all of them at once by no flag.    *)
LEMMA AdmittedNames ==
  ASSUME NEW c, ~Refused(c), role(c) # "superadmin"
  PROVE  /\ NamespacesNamed(c.cmd) \cap BlockedNamespaces = {}
         /\ ~(isAllNamespaces(c.cmd.args) /\ IsWrite(ExtractVerb(c.cmd.args), c.cmd.args))
<1>1. ~checkProtected(c.cmd)
  BY DEF Refused
<1> QED BY <1>1 DEF checkProtected, allNamespacesHit

LEMMA ConfirmAlways ==
  ASSUME NEW toks, IsLine(toks), Alike(toks), ConfirmFirst(toks)
  PROVE  AlwaysConfirm(ExtractVerb(toks), toks)
<1>1. KubectlVerb(toks) = ExtractVerb(toks) /\ KubectlOperand(toks).name = operandAfterVerb(toks)
  BY DEF Alike, operandAfterVerb
<1>2. CASE KubectlVerb(toks) = "drain"
  BY <1>1, <1>2 DEF AlwaysConfirm
<1>3. CASE KubectlVerb(toks) = "delete" /\ Kind(KubectlOperand(toks).name) = "namespace"
  <2>1. operandAfterVerb(toks) \in namespaceKinds
    BY <1>1, <1>3, GuardAssumption DEF Kind, namespaceKinds
  <2>2. namespaceKinds \subseteq confirmDeleteTargets
    BY DEF namespaceKinds, confirmDeleteTargets
  <2> QED BY <1>1, <1>3, <2>1, <2>2 DEF AlwaysConfirm
<1> QED BY <1>2, <1>3 DEF ConfirmFirst

LEMMA ChangeIsAsked ==
  ASSUME NEW c, IsLine(c.cmd.args), ~Refused(c), Confirmed(c), Mutates(c.cmd.args), ~DryRun(c.cmd.args),
         OneAndRead(c.cmd.args, {"--dry-run"}),
         Alike(c.cmd.args) \/ KubectlVerb(c.cmd.args) \in DestructiveVerbs
  PROVE  /\ c \in approvals \/ (c.bypass /\ ~(Alike(c.cmd.args) /\ ConfirmFirst(c.cmd.args)))
         /\ role(c) # "readonly"
         /\ role(c) = "operator" => KubectlVerb(c.cmd.args) \notin highRisk
<1>1. PICK toks : IsLine(toks) /\ toks = c.cmd.args
  OBVIOUS
<1>2. PICK verb : verb = ExtractVerb(toks)
  OBVIOUS
<1>3. Alike(toks) => KubectlVerb(toks) = verb /\ IsWrite(verb, toks)
  BY <1>1, <1>2, ChangeIsWrite DEF Alike
<1>4. KubectlVerb(toks) \in DestructiveVerbs => KubectlVerb(toks) \in DestructiveVerbsIn(toks)
  BY <1>1, DestructiveSeen
<1>5. IsMutation(c.cmd)
  BY <1>1, <1>2, <1>3, <1>4 DEF IsMutation
<1>6. ~HasDryRun(c.cmd)
  BY DryRunSeen
<1>7. role(c) # "readonly"
  BY <1>5 DEF Refused
<1>8. role(c) = "operator" => KubectlVerb(toks) \notin highRisk
  <2>1. SUFFICES ASSUME role(c) = "operator", KubectlVerb(toks) \in highRisk
                 PROVE  FALSE
    OBVIOUS
  <2>2. ({verb} \cup DestructiveVerbsIn(toks)) \cap highRisk = {}
    BY <1>1, <1>2, <2>1 DEF Refused
  <2>3. KubectlVerb(toks) \in DestructiveVerbs
    BY <2>1 DEF DestructiveVerbs
  <2> QED BY <1>4, <2>1, <2>2, <2>3
<1>9. c \in approvals \/ (c.bypass /\ ~AlwaysConfirm(verb, toks))
  BY <1>1, <1>2, <1>5, <1>6 DEF Confirmed, NeedsApproval
<1>10. Alike(toks) /\ ConfirmFirst(toks) => AlwaysConfirm(verb, toks)
  BY <1>1, <1>2, ConfirmAlways
<1> QED BY <1>1, <1>7, <1>8, <1>9, <1>10

LEMMA ReadAlike ==
  ASSUME NEW c, IsLine(c.args), ReadInFull(c), Mutates(c.args)
  PROVE  IsWrite(ExtractVerb(c.args), c.args)
  BY SameWords, ChangeIsWrite DEF ReadInFull

LEMMA ChangeIsOutside ==
  ASSUME DefaultNs \notin BlockedNamespaces,
         NEW c, IsLine(c.cmd.args), ~Refused(c), ReadInFull(c.cmd), Mutates(c.cmd.args),
         NEW o \in Touches(c.cmd), RowNamespace(o) \in BlockedNamespaces
  PROVE  role(c) = "superadmin"
<1>1. SUFFICES ASSUME role(c) # "superadmin" PROVE FALSE
  OBVIOUS
<1>2. IsWrite(ExtractVerb(c.cmd.args), c.cmd.args)
  BY ReadAlike
<1>3. /\ NamespacesNamed(c.cmd) \cap BlockedNamespaces = {}
      /\ ~isAllNamespaces(c.cmd.args)
  BY <1>1, <1>2, AdmittedNames
<1>4. RowNamespace(o) \in NamespacesNamed(c.cmd) \cup {DefaultNs}
  BY <1>3, TouchedTold
<1> QED BY <1>3, <1>4

(* What a run may show: rows of what the command touches, and of a listing *)
(* none of the infrastructure.                                             *)
LEMMA FilteredRows ==
  ASSUME NEW cmd, NEW shown, NEW one, NEW o \in Filtered(cmd, shown, one).rows
  PROVE  /\ o \in shown
         /\ IsNamespaceListing(cmd.args) \/ isAllNamespaces(cmd.args) => RowNamespace(o) \notin BlockedNamespaces
<1> DEFINE listing == IsNamespaceListing(cmd.args) \/ isAllNamespaces(cmd.args)
           dropped == IF listing THEN {x \in shown : RowNamespace(x) \in BlockedNamespaces} ELSE {}
           note == noting(dropped, IF Structured(Format(cmd.args)) THEN "inside" ELSE "after")
<1>1. Filtered(cmd, shown, one) =
        IF listing /\ Unfilterable(cmd, one) THEN Say("refused", {}, None, FALSE)
        ELSE Say("rows", shown \ dropped, note, FALSE)
  BY DEF Filtered
<1>2. \A s, r, n, x : Say(s, r, n, x).rows = r
  BY DEF Say
<1>3. Filtered(cmd, shown, one).rows \subseteq shown \ dropped
  <2> HIDE DEF listing, dropped, note
  <2>1. CASE listing /\ Unfilterable(cmd, one)
    <3>1. Filtered(cmd, shown, one) = Say("refused", {}, None, FALSE)
      BY <1>1, <2>1, Zenon
    <3>2. Filtered(cmd, shown, one).rows = {}
      BY <3>1 DEF Say
    <3> QED BY <3>2
  <2>2. CASE ~(listing /\ Unfilterable(cmd, one))
    <3>1. Filtered(cmd, shown, one) = Say("rows", shown \ dropped, note, FALSE)
      BY <1>1, <2>2, Zenon
    <3>2. Filtered(cmd, shown, one).rows = shown \ dropped
      BY <3>1 DEF Say
    <3> QED BY <3>2
  <2> QED BY <2>1, <2>2, Zenon
<1> QED BY <1>3

LEMMA OutcomeRows ==
  ASSUME NEW kind, NEW part, NEW o \in Outcome(kind, part).rows
  PROVE  /\ o \in Touches(call.cmd) /\ ~IsWrite(ExtractVerb(call.cmd.args), call.cmd.args)
         /\ IsNamespaceListing(call.cmd.args) \/ isAllNamespaces(call.cmd.args) => RowNamespace(o) \notin BlockedNamespaces
<1> DEFINE verb == ExtractVerb(call.cmd.args)
           shown == IF IsWrite(verb, call.cmd.args) THEN {} ELSE Shown \cap part
           one == Cardinality(OperandsAt(call.cmd.args)) > 1
<1>1. PICK l : l = Filtered(call.cmd, shown, one)
  OBVIOUS
<1>2. Outcome(kind, part) =
        IF kind \in {"missing", "timeout"} THEN Say("error", {}, None, FALSE)
        ELSE IF kind = "exit"
        THEN IF l.said = "refused" THEN Say("exited", {}, "after", FALSE) ELSE [l EXCEPT !.said = "exited"]
        ELSE IF IsWrite(verb, call.cmd.args) THEN Say("text", {}, None, FALSE) ELSE l
  BY <1>1 DEF Outcome, Ending
<1>3. \A s, r, n, x : Say(s, r, n, x).rows = r
  BY DEF Say
<1>4. [l EXCEPT !.said = "exited"].rows = l.rows
  <2>1. DOMAIN l = {"said", "rows", "note", "cut"}
    BY <1>1 DEF Filtered, Say
  <2> QED BY <2>1
<1>5. o \in l.rows
  <2> HIDE DEF verb
  <2>1. PICK out : out = Outcome(kind, part)
    OBVIOUS
  <2>2. \/ out = Say("error", {}, None, FALSE) \/ out = Say("exited", {}, "after", FALSE)
        \/ out = [l EXCEPT !.said = "exited"]
        \/ out = Say("text", {}, None, FALSE) \/ out = l
    BY <1>2, <2>1, Zenon
  <2>3. out.rows \in {{}, l.rows}
    <3>1. CASE \/ out = Say("error", {}, None, FALSE) \/ out = Say("exited", {}, "after", FALSE)
                \/ out = Say("text", {}, None, FALSE)
      BY <3>1 DEF Say
    <3> QED BY <1>4, <2>2, <3>1
  <2> QED BY <2>1, <2>3
<1>6. /\ o \in shown
      /\ IsNamespaceListing(call.cmd.args) \/ isAllNamespaces(call.cmd.args) => RowNamespace(o) \notin BlockedNamespaces
  <2> HIDE DEF shown, one
  <2> QED BY <1>1, <1>5, FilteredRows
<1>7. o \in Shown /\ ~IsWrite(verb, call.cmd.args)
  BY <1>6
<1> QED BY <1>6, <1>7 DEF Shown

LEMMA RunAllows ==
  ASSUME DefaultNs \notin BlockedNamespaces, IsLine(call.cmd.args), ~Refused(call), ReadInFull(call.cmd),
         NEW kind, NEW part, NEW o \in Outcome(kind, part).rows, RowNamespace(o) \in BlockedNamespaces
  PROVE  role(call) = "superadmin" /\ ~isAllNamespaces(call.cmd.args)
<1>1. /\ o \in Touches(call.cmd)
      /\ ~IsNamespaceListing(call.cmd.args) /\ ~isAllNamespaces(call.cmd.args)
  BY OutcomeRows
<1>2. RowNamespace(o) \in NamespacesNamed(call.cmd) \cup {DefaultNs}
  BY <1>1, TouchedTold
<1>3. RowNamespace(o) \in NamespacesNamed(call.cmd) \cap BlockedNamespaces
  BY <1>2
<1> QED BY <1>1, <1>3, AdmittedNames

-----------------------------------------------------------------------------
(* Each step keeps what is known of the call in hand. *)

LEMMA AskedBegins ==
  ASSUME GuardInit
  PROVE  AskedInv /\ RowsAllowed
<1>1. call.cmd.args = << >> /\ pc = "idle" /\ effects = {} /\ answer.rows = {}
  BY DEF GuardInit, NoCall, NoAnswer
<1>2. \A s : s = << >> => IsLine(s)
  BY DEF IsLine
<1> QED BY <1>1, <1>2 DEF AskedInv, RowsAllowed

LEMMA PlanAsks ==
  ASSUME AskedInv, NEW c, IsLine(c.cmd.args), Plan(c)
  PROVE  AskedInv' /\ RowsAllowed'
<1>1. /\ call' = c /\ effects' = effects /\ approvals' = approvals
      /\ \/ Refused(c) /\ pc' = "answered" /\ answer' = Say("refused", {}, None, FALSE)
         \/ ~Refused(c) /\ answer' = NoAnswer /\ (pc' = "approval" \/ ~NeedsApproval(c))
  BY DEF Plan
<1>2. answer'.rows = {}
  BY <1>1 DEF Say, NoAnswer
<1>3. pc' \in {"approval", "capture", "run"} => ~Refused(call')
  BY <1>1
<1>4. pc' \in {"capture", "run"} => Confirmed(call)'
  BY <1>1 DEF Confirmed
<1>5. \A x : Confirmed(x) => Confirmed(x)'
  BY <1>1 DEF Confirmed
<1>6. IsLine(call'.cmd.args)
  BY <1>1
<1>7. RowsAllowed'
  BY <1>2 DEF RowsAllowed
<1>8. AskedInv'
  BY <1>1, <1>3, <1>4, <1>5, <1>6 DEF AskedInv
<1> QED BY <1>7, <1>8

LEMMA ApproveAsks ==
  ASSUME AskedInv, Approve
  PROVE  AskedInv'
<1>1. /\ pc = "approval" /\ approvals' = approvals \cup {call}
      /\ UNCHANGED <<call, answer, effects>>
  BY DEF Approve
<1>2. ~Refused(call') /\ call' \in approvals'
  BY <1>1 DEF AskedInv
<1>3. \A c : Confirmed(c) => Confirmed(c)'
  BY <1>1 DEF Confirmed
<1> QED BY <1>1, <1>2, <1>3 DEF AskedInv, Confirmed

LEMMA StillAsks ==
  ASSUME AskedInv, UNCHANGED <<call, approvals, effects>>,
         pc' = pc \/ pc' = "answered" \/ (pc = "capture" /\ pc' = "run")
  PROVE  AskedInv'
<1>1. \A c : Confirmed(c) <=> Confirmed(c)'
  BY DEF Confirmed
<1> QED BY <1>1 DEF AskedInv

LEMMA StillAllowed ==
  ASSUME RowsAllowed, UNCHANGED call, answer' = answer \/ answer'.rows = {}
  PROVE  RowsAllowed'
  BY DEF RowsAllowed

LEMMA RunAsks ==
  ASSUME AskedInv, NEW kind, NEW part, NEW kept, Run(kind, part, kept)
  PROVE  AskedInv'
<1>1. /\ pc = "run" /\ pc' = "answered" /\ UNCHANGED <<call, approvals>>
      /\ part \subseteq Touches(call.cmd) /\ Change(part)
  BY DEF Run, Whole
<1>2. IsLine(call.cmd.args) /\ ~Refused(call) /\ Confirmed(call)
  BY <1>1 DEF AskedInv
<1>3. \A c : Confirmed(c) <=> Confirmed(c)'
  BY <1>1 DEF Confirmed
<1>4. ASSUME NEW e \in effects'
      PROVE  /\ IsLine(e[1].cmd.args) /\ ~Refused(e[1]) /\ Confirmed(e[1])
             /\ Mutates(e[1].cmd.args) /\ ~DryRun(e[1].cmd.args) /\ e[2] \in Touches(e[1].cmd)
  <2>1. CASE e \in effects
    BY <2>1 DEF AskedInv
  <2>2. CASE e \notin effects
    <3>1. /\ effects' = effects \cup {<<call, o>> : o \in part}
          /\ Mutates(call.cmd.args) /\ ~DryRun(call.cmd.args)
      BY <1>1, <2>2 DEF Change
    <3>2. PICK o \in part : e = <<call, o>>
      BY <2>2, <3>1
    <3>3. e[1] = call /\ e[2] = o
      BY <3>2
    <3> QED BY <1>1, <1>2, <3>1, <3>3
  <2> QED BY <2>1, <2>2
<1> QED BY <1>1, <1>2, <1>3, <1>4 DEF AskedInv

LEMMA RunShows ==
  ASSUME DefaultNs \notin BlockedNamespaces, AskedInv, NEW kind, NEW part, NEW kept, Run(kind, part, kept)
  PROVE  RowsAllowed'
<1>1. /\ pc = "run" /\ UNCHANGED call /\ kept \subseteq Outcome(kind, part).rows
      /\ answer' = Bounded(Outcome(kind, part), kept)
  BY DEF Run
<1>2. IsLine(call.cmd.args) /\ ~Refused(call)
  BY <1>1 DEF AskedInv
<1>3. answer'.rows \subseteq Outcome(kind, part).rows
  BY <1>1 DEF Bounded, Cut
<1>4. \A o \in Outcome(kind, part).rows : RowNamespace(o) \in BlockedNamespaces /\ ReadInFull(call.cmd) =>
         role(call) = "superadmin" /\ ~isAllNamespaces(call.cmd.args)
  BY <1>2, RunAllows
<1> QED BY <1>1, <1>3, <1>4 DEF RowsAllowed

LEMMA GuardStepAsks ==
  ASSUME AskedInv, GuardStep
  PROVE  AskedInv'
<1>1. CASE Approve
  BY <1>1, ApproveAsks
<1>2. CASE Decline
  BY <1>2, StillAsks DEF Decline
<1>3. CASE ArmPoint
  BY <1>3, StillAsks DEF ArmPoint
<1>4. CASE \E x \in {"whole", "redacted", "failed"} : Capture(x)
  BY <1>4, StillAsks DEF Capture
<1>5. CASE \E k \in RunEnds, p \in SUBSET Whole : \E q \in SUBSET Outcome(k, p).rows : Run(k, p, q)
  BY <1>5, RunAsks
<1>6. CASE \E o \in Objects : OthersChange(o)
  BY <1>6, StillAsks DEF OthersChange
<1> QED BY <1>1, <1>2, <1>3, <1>4, <1>5, <1>6 DEF GuardStep

LEMMA GuardStepShows ==
  ASSUME DefaultNs \notin BlockedNamespaces, AskedInv, RowsAllowed, GuardStep
  PROVE  RowsAllowed'
<1>1. CASE Approve
  BY <1>1, StillAllowed DEF Approve
<1>2. CASE Decline
  BY <1>2, StillAllowed DEF Decline, Say
<1>3. CASE ArmPoint
  BY <1>3, StillAllowed DEF ArmPoint
<1>4. CASE \E x \in {"whole", "redacted", "failed"} : Capture(x)
  BY <1>4, StillAllowed DEF Capture
<1>5. CASE \E k \in RunEnds, p \in SUBSET Whole : \E q \in SUBSET Outcome(k, p).rows : Run(k, p, q)
  BY <1>5, RunShows
<1>6. CASE \E o \in Objects : OthersChange(o)
  BY <1>6, StillAllowed DEF OthersChange
<1> QED BY <1>1, <1>2, <1>3, <1>4, <1>5, <1>6 DEF GuardStep

LEMMA RehearsedTokens ==
  ASSUME NEW cmd, DOMAIN cmd = {"args", "stdin", "pipes"}, IsLine(cmd.args)
  PROVE  IsLine(withServerDryRun(cmd).args)
<1> DEFINE toks == cmd.args
           drop == {i \in DOMAIN toks : \/ toks[i].name = "--dry-run"
                                        \/ i > 1 /\ toks[i - 1] = F("--dry-run") /\ toks[i].name \in {"client", "server", "none"}}
           at == DOMAIN toks \ drop
<1>1. withServerDryRun(cmd) = [cmd EXCEPT !.args = Picked(toks, at) \o <<FV("--dry-run", "server")>>]
  BY DEF withServerDryRun
<1>2. DOMAIN toks = 1 .. Len(toks) /\ Len(toks) \in Nat /\ \A i \in DOMAIN toks : IsToken(toks[i])
  BY DEF IsLine
<1>3. at \in SUBSET Nat /\ IsFiniteSet(at) /\ at \subseteq DOMAIN toks
  <2>1. at \subseteq DOMAIN toks
    OBVIOUS
  <2>2. IsFiniteSet(DOMAIN toks) /\ DOMAIN toks \subseteq Nat
    BY <1>2, FS_Interval
  <2> HIDE DEF at
  <2> QED BY <2>1, <2>2, FS_Subset
<1>4. PICK p : p = Picked(toks, at)
  OBVIOUS
<1>5. PICK S : S = {toks[i] : i \in DOMAIN toks} \cup {FV("--dry-run", "server")}
  OBVIOUS
<1>6. \A t \in S : IsToken(t)
  BY <1>2, <1>5, TokensAre
<1>7. p \o <<FV("--dry-run", "server")>> \in Seq(S)
  <2>1. /\ p = [k \in 1 .. Cardinality(at) |-> toks[Nth(at, k)]] /\ Cardinality(at) \in Nat
        /\ \A k \in 1 .. Cardinality(at) : Nth(at, k) \in at
    <3> HIDE DEF at
    <3>1. p = [k \in 1 .. Cardinality(at) |-> toks[Nth(at, k)]] /\ Cardinality(at) \in Nat
      BY <1>3, <1>4, PickedIs
    <3>2. \A k \in 1 .. Cardinality(at) : Nth(at, k) \in at
      BY <1>3, EveryRankIsTaken
    <3> QED BY <3>1, <3>2
  <2>2. \A k \in 1 .. Cardinality(at) : toks[Nth(at, k)] \in S
    <3> HIDE DEF at
    <3> QED BY <1>3, <1>5, <2>1
  <2> HIDE DEF at
  <2>3. p \in [1 .. Cardinality(at) -> S]
    BY <2>1, <2>2
  <2>4. p \in Seq(S)
    BY <2>1, <2>3
  <2>5. PICK t \in S : t = FV("--dry-run", "server")
    BY <1>5
  <2> QED BY <2>4, <2>5
<1>8. withServerDryRun(cmd).args = p \o <<FV("--dry-run", "server")>>
  <2> HIDE DEF at
  <2> QED BY <1>1, <1>4
<1> QED BY <1>6, <1>7, <1>8, LinesAre

LEMMA JobsTokens ==
  ASSUME NEW j \in Jobs
  PROVE  /\ IsLine(j.cmd.args) /\ IsLine(j.undo.args) /\ IsLine(GetApp.args)
         /\ IsLine(withServerDryRun(j.cmd).args)
         /\ IsLine([j.cmd EXCEPT !.args = Append(@, FV("--as", ServiceAccount(j.role)))].args)
<1>1. /\ DOMAIN j.cmd = {"args", "stdin", "pipes"} /\ IsLine(j.cmd.args) /\ IsLine(j.undo.args)
  BY JobsAssumption
<1>2. IsLine(GetApp.args)
  <2>1. PICK a, b, c, d, e : a = W("kubectl") /\ b = W("get") /\ c = W(App.kind) /\ d = W(App.name) /\ e = FV("-n", App.ns)
    OBVIOUS
  <2>2. \A t \in {a, b, c, d, e} : IsToken(t)
    BY <2>1, TokensAre
  <2>3. PICK S : S = {a, b, c, d, e}
    OBVIOUS
  <2>4. <<a, b, c, d, e>> \in Seq(S)
    <3>1. a \in S /\ b \in S /\ c \in S /\ d \in S /\ e \in S
      BY <2>3
    <3> QED BY <3>1
  <2>5. GetApp.args = <<a, b, c, d, e>>
    BY <2>1 DEF GetApp, Cmd
  <2>6. \A t \in S : IsToken(t)
    BY <2>2, <2>3
  <2> QED BY <2>4, <2>5, <2>6, LinesAre
<1>3. IsLine(withServerDryRun(j.cmd).args)
  BY <1>1, RehearsedTokens
<1>4. PICK t : t = FV("--as", ServiceAccount(j.role))
  OBVIOUS
<1>5. IsToken(t)
  BY <1>4, TokensAre
<1>6. PICK s : s = j.cmd.args
  OBVIOUS
<1>7. [j.cmd EXCEPT !.args = Append(s, t)].args = Append(s, t)
  BY <1>1
<1>8. IsLine(Append(s, t))
  <2>1. PICK S : S = ToSet(s) \cup {t}
    OBVIOUS
  <2>2. IsLine(s)
    BY <1>1, <1>6
  <2>3. \A x \in S : IsToken(x)
    BY <1>5, <2>1, <2>2 DEF IsLine, ToSet
  <2>4. s \in Seq(S)
    <3>1. s \in Seq(ToSet(s)) /\ ToSet(s) \subseteq S
      BY <2>1, <2>2 DEF IsLine
    <3> QED BY <3>1
  <2>5. Append(s, t) \in Seq(S)
    BY <2>1, <2>4
  <2> QED BY <2>3, <2>5, LinesAre
<1> QED BY <1>1, <1>2, <1>3, <1>4, <1>6, <1>7, <1>8

LEMMA HeldAsks ==
  ASSUME Hold
  PROVE  (AskedInv => AskedInv') /\ (RowsAllowed => RowsAllowed')
  BY StillAsks, StillAllowed DEF Hold, guardVars

LEMMA IssueAsks ==
  ASSUME NEW cmd, NEW r, NEW b, NEW i, IsLine(cmd.args), Issue(cmd, r, b, i)
  PROVE  (AskedInv => AskedInv') /\ (AskedInv /\ RowsAllowed => RowsAllowed')
<1> DEFINE c == [cmd |-> cmd, role |-> r, bypass |-> b, identity |-> i]
<1>1. Plan(c) /\ IsLine(c.cmd.args)
  BY DEF Issue
<1> HIDE DEF c
<1> QED BY <1>1, PlanAsks

LEMMA ClientAsks ==
  ASSUME job \in Jobs, Client, AskedInv
  PROVE  AskedInv' /\ (RowsAllowed => RowsAllowed') /\ job' = job
<1>1. /\ IsLine(job.cmd.args) /\ IsLine(job.undo.args) /\ IsLine(GetApp.args)
      /\ IsLine(withServerDryRun(job.cmd).args)
      /\ IsLine([job.cmd EXCEPT !.args = Append(@, FV("--as", ServiceAccount(job.role)))].args)
  BY JobsTokens
<1>2. CASE Ask
  BY <1>1, <1>2, IssueAsks DEF Ask, Same
<1>3. CASE Told
  BY <1>3, HeldAsks DEF Told, Same
<1>4. CASE Verb
  BY <1>1, <1>4, IssueAsks, HeldAsks DEF Verb, Same
<1>5. CASE RunAs
  <2>1. PICK cmd : cmd = [job.cmd EXCEPT !.args = Append(@, FV("--as", ServiceAccount(job.role)))]
    OBVIOUS
  <2>2. IsLine(cmd.args)
    BY <1>1, <2>1
  <2>3. job' = job /\ (Hold \/ Issue(cmd, "admin", TRUE, ServiceAccount(job.role)))
    BY <1>5, <2>1 DEF RunAs, Same
  <2> QED BY <2>2, <2>3, IssueAsks, HeldAsks
<1>6. CASE PlanMutation
  <2>1. PICK cmd : cmd = withServerDryRun(job.cmd)
    OBVIOUS
  <2>2. job' = job /\ (Hold \/ Issue(cmd, job.role, TRUE, None))
    BY <1>6, <2>1 DEF PlanMutation, Same
  <2> QED BY <1>1, <2>1, <2>2, IssueAsks, HeldAsks
<1>7. CASE Validated
  BY <1>7, HeldAsks DEF Validated, Same
<1>8. CASE Apply
  BY <1>1, <1>8, IssueAsks DEF Apply, Same
<1>9. CASE Applied
  BY <1>1, <1>9, IssueAsks, HeldAsks DEF Applied, Same
<1>10. CASE Undone
  BY <1>10, HeldAsks DEF Undone, Same
<1>11. CASE \E s \in SUBSET answer.rows : VerbTail(s)
  BY <1>11, HeldAsks DEF VerbTail, Same
<1>12. CASE \E r \in BOOLEAN : Look(r)
  BY <1>1, <1>12, IssueAsks, HeldAsks DEF Look, Same
<1>13. CASE \E r, s, p, g \in BOOLEAN : Fix(r, s, p, g)
  BY <1>13, HeldAsks DEF Fix, Same
<1> QED BY <1>2, <1>3, <1>4, <1>5, <1>6, <1>7, <1>8, <1>9, <1>10, <1>11, <1>12, <1>13 DEF Client

LEMMA AskedFirst == Spec => [](AskedInv /\ job \in Jobs)
<1>1. Init => AskedInv /\ job \in Jobs
  BY AskedBegins DEF Init
<1>2. AskedInv /\ job \in Jobs /\ [Next]_vars => (AskedInv /\ job \in Jobs)'
  <2>1. ASSUME AskedInv, job \in Jobs, Tool
        PROVE  AskedInv' /\ (job \in Jobs)'
    BY <2>1, GuardStepAsks DEF Tool
  <2>2. ASSUME AskedInv, job \in Jobs, Client
        PROVE  AskedInv' /\ (job \in Jobs)'
    BY <2>2, ClientAsks
  <2>3. ASSUME AskedInv, job \in Jobs, UNCHANGED vars
        PROVE  AskedInv' /\ (job \in Jobs)'
    BY <2>3, HeldAsks DEF vars, Hold
  <2> QED BY <2>1, <2>2, <2>3 DEF Next
<1> QED BY <1>1, <1>2, PTL DEF Spec

(* Whatever the jobs, roles and answers, and whatever others do to the     *)
(* cluster meanwhile, nothing is changed that was not asked for: a person  *)
(* approved that very call, or the session approves by itself and the call *)
(* is not one that is always asked about; a read-only key changes nothing  *)
(* and an operator's no high-risk verb (tool.go Plan, guard.go             *)
(* AlwaysConfirm, IsWrite).  A command line may be any sequence of tokens; *)
(* excused are the lines whose --dry-run token is not kubectl's one flag,  *)
(* and those of which kubectl and the tool read another verb or operand,   *)
(* where kubectl's verb is no destructive one either.                      *)
THEOREM NothingChangedUnasked == Spec => []AskedBeforeChanged
<1>1. AskedInv => AskedBeforeChanged
  BY ChangeIsAsked DEF AskedInv, AskedBeforeChanged
<1> QED BY <1>1, AskedFirst, PTL

(* The infrastructure namespaces are neither changed nor shown below the   *)
(* superadmin, for every such set of namespaces and every command line     *)
(* that the tool reads in full, where the context's own namespace is none  *)
(* of them (tool.go checkProtected, manifest.go, filter.go).               *)
THEOREM InfrastructureAlwaysWithheld ==
  ASSUME DefaultNs \notin BlockedNamespaces
  PROVE  Spec => []InfrastructureWithheld
<1>1. Init => RowsAllowed
  BY AskedBegins DEF Init
<1>2. AskedInv /\ job \in Jobs /\ RowsAllowed /\ [Next]_vars => RowsAllowed'
  <2>1. ASSUME AskedInv, RowsAllowed, Tool
        PROVE  RowsAllowed'
    BY <2>1, GuardStepShows DEF Tool
  <2>2. ASSUME AskedInv, RowsAllowed, job \in Jobs, Client
        PROVE  RowsAllowed'
    BY <2>2, ClientAsks
  <2>3. ASSUME RowsAllowed, UNCHANGED vars
        PROVE  RowsAllowed'
    BY <2>3, HeldAsks DEF vars, Hold
  <2> QED BY <2>1, <2>2, <2>3 DEF Next
<1>3. AskedInv /\ RowsAllowed => InfrastructureWithheld
  BY ChangeIsOutside DEF AskedInv, RowsAllowed, InfrastructureWithheld
<1> QED BY <1>1, <1>2, <1>3, AskedFirst, PTL DEF Spec

-----------------------------------------------------------------------------
(* The table of detectors and what is loaded from it.                      *)

Statuses == {"absent", "shadow", "candidate", "active", "demoted"}
Raws == {r.raw : r \in Legacy} \cup Compiled \cup Proposed \cup {NoBlock}
Reviews == [name : ToSet(Stored) \cup {"none"}, pc : {"idle", "checked"}]
Sweeps == [pc : {"idle", "next", "querying", "panic"}, i : Nat \ {0}, n : Nat, block : Names \cup {"none"}]

StoreTyped ==
    /\ rows \in [ToSet(Stored) -> [status : Statuses, raw : Raws]]
    /\ review \in [Reviewers -> Reviews]
    /\ \A p \in Reviewers : review[p].pc = "checked" => review[p].name \in ToSet(Stored)
    /\ refreshed \in [ToSet(Stored) -> Statuses]
    /\ loaded \in [active : Seq(Names), shadow : Seq(Names)]
    /\ sweep \in Sweeps

(* A row is active, in the table and in what was read of it, only for a    *)
(* detector a person promoted, and so is every stored detector that acts;  *)
(* the sweep holds a name it took from the acting ones.                    *)
Promoted ==
    /\ \A n \in ToSet(Stored) : rows[n].status = "active" => n \in approved
    /\ ToSet(loaded.active) \subseteq BaseSet \cup approved
    /\ sweep.pc = "querying" => sweep.block \in BaseSet \cup approved

(* A row once read stays in the table. *)
RowsStay == \A n \in ToSet(Stored) : refreshed[n] # "absent" => rows[n].status # "absent"

StoreInv == StoreTyped /\ Promoted /\ RowsStay

LEMMA StoredNames == ToSet(Stored) \subseteq Names \ BaseSet /\ BaseSet \subseteq Names
  BY StoreAssumption, EngineAssumption DEF ToSet, BaseSet

LEMMA EmptyNames == \A s : s = << >> => s \in Seq(Names) /\ ToSet(s) = {}
  BY DEF ToSet

(* The names loaded for a status are those of the rows that load.          *)
LEMMA LoadIs ==
  ASSUME NEW rs, NEW reached, NEW status
  PROVE  /\ Load(rs, reached, status) \in Seq(Names)
         /\ ToSet(Load(rs, reached, status)) = {n \in ToSet(Stored) : n \in reached /\ Loads(rs, n, status)}
<1> DEFINE at == {i \in DOMAIN Stored : Stored[i] \in reached /\ Loads(rs, Stored[i], status)}
<1>1. DOMAIN Stored = 1 .. Len(Stored) /\ Len(Stored) \in Nat /\ \A i \in DOMAIN Stored : Stored[i] \in Names
  BY StoreAssumption
<1>2. IsFiniteSet(DOMAIN Stored)
  BY <1>1, FS_Interval
<1>3. at \in SUBSET Nat /\ IsFiniteSet(at)
  BY <1>1, <1>2, FS_Subset
<1>4. Load(rs, reached, status) = Picked(Stored, at)
  BY DEF Load
<1>5. ToSet(Load(rs, reached, status)) = {Stored[i] : i \in at}
  <2> HIDE DEF at
  <2> QED
    BY <1>3, <1>4, PickedIs
<1>6. {Stored[i] : i \in at} = {n \in ToSet(Stored) : n \in reached /\ Loads(rs, n, status)}
  BY DEF ToSet
<1>7. \A k \in 1 .. Cardinality(at) : Nth(at, k) \in at
  <2> HIDE DEF at
  <2> QED
    BY <1>3, EveryRankIsTaken
<1>8. at \subseteq DOMAIN Stored
  OBVIOUS
<1>9. Load(rs, reached, status) \in Seq(Names)
  <2> HIDE DEF at
  <2>1. /\ Picked(Stored, at) = [k \in 1 .. Cardinality(at) |-> Stored[Nth(at, k)]]
        /\ Cardinality(at) \in Nat
    BY <1>3, PickedIs
  <2>2. Picked(Stored, at) \in [1 .. Cardinality(at) -> Names]
    BY <1>1, <1>7, <1>8, <2>1
  <2>3. QED
    BY <1>4, <2>1, <2>2
<1>10. QED
  BY <1>5, <1>6, <1>9

LEMMA ToSetConcat ==
  ASSUME NEW s \in Seq(Names), NEW t \in Seq(Names)
  PROVE  s \o t \in Seq(Names) /\ ToSet(s \o t) = ToSet(s) \cup ToSet(t)
<1>1. /\ s \o t \in Seq(Names) /\ Len(s \o t) = Len(s) + Len(t)
      /\ Len(s) \in Nat /\ Len(t) \in Nat
  OBVIOUS
<1>2. \A i \in 1 .. Len(s) + Len(t) : (s \o t)[i] = IF i <= Len(s) THEN s[i] ELSE t[i - Len(s)]
  OBVIOUS
<1>3. ToSet(s \o t) \subseteq ToSet(s) \cup ToSet(t)
  <2> SUFFICES ASSUME NEW i \in 1 .. Len(s) + Len(t)
               PROVE  (s \o t)[i] \in ToSet(s) \cup ToSet(t)
    BY <1>1 DEF ToSet
  <2>1. CASE i <= Len(s)
    BY <1>1, <1>2, <2>1 DEF ToSet
  <2>2. CASE ~(i <= Len(s))
    <3>1. i - Len(s) \in 1 .. Len(t) /\ (s \o t)[i] = t[i - Len(s)]
      BY <1>1, <1>2, <2>2
    <3>2. QED
      BY <3>1 DEF ToSet
  <2>3. QED
    BY <2>1, <2>2
<1>4. ToSet(s) \subseteq ToSet(s \o t)
  <2> SUFFICES ASSUME NEW i \in 1 .. Len(s)
               PROVE  s[i] \in ToSet(s \o t)
    BY DEF ToSet
  <2>1. i \in 1 .. Len(s \o t) /\ (s \o t)[i] = s[i]
    BY <1>1, <1>2
  <2>2. QED
    BY <1>1, <2>1 DEF ToSet
<1>5. ToSet(t) \subseteq ToSet(s \o t)
  <2> SUFFICES ASSUME NEW i \in 1 .. Len(t)
               PROVE  t[i] \in ToSet(s \o t)
    BY DEF ToSet
  <2>1. Len(s) + i \in 1 .. Len(s \o t) /\ (s \o t)[Len(s) + i] = t[i]
    BY <1>1, <1>2
  <2>2. QED
    BY <1>1, <2>1 DEF ToSet
<1>6. QED
  BY <1>1, <1>3, <1>4, <1>5

(* byName finds a detector of the list, of the name asked for.             *)
LEMMA ByNameIs ==
  ASSUME NEW ds \in Seq(Names), NEW name, \E i \in DOMAIN ds : Bears(ds, i, name)
  PROVE  byName(ds, name) \in ToSet(ds) /\ Playbook[byName(ds, name)] = name
<1> DEFINE at == {i \in DOMAIN ds : Bears(ds, i, name)}
<1>1. DOMAIN ds = 1 .. Len(ds) /\ Len(ds) \in Nat
  OBVIOUS
<1>2. at \subseteq Nat /\ at # {}
  BY <1>1
<1>3. \E i \in at : \A j \in at : i <= j
  <2> HIDE DEF at
  <2> QED
    BY <1>2, LeastOne
<1>4. \E i \in DOMAIN ds : Bears(ds, i, name) /\ \A j \in DOMAIN ds : Bears(ds, j, name) => i <= j
  BY <1>3
<1>5. PICK i \in DOMAIN ds : byName(ds, name) = ds[i] /\ Bears(ds, i, name)
  BY <1>4 DEF byName
<1>6. QED
  BY <1>5 DEF Bears, ToSet

-----------------------------------------------------------------------------
tableVars == <<rows, review, refreshed, unread, approved, loaded, sweep>>

(* What the steps beside the store, the sweep and the refresh leave alone. *)
LEMMA WatchLeavesTheTable ==
  ASSUME \/ Up(World) \/ Up(Streaming) \/ Up(Consume) \/ Up(Elapse) \/ Up(EngineTick)
  PROVE  UNCHANGED <<tableVars, blocks>>
<1>1. CASE Up(World)
  BY <1>1 DEF Up, World, tableVars, engineVars, storeVars
<1>2. CASE Up(Streaming)
  BY <1>2 DEF Up, Streaming, tableVars, engineVars, storeVars
<1>3. CASE Up(Consume)
  BY <1>3 DEF Up, Consume, Process, tableVars, storeVars
<1>4. CASE Up(Elapse)
  BY <1>4 DEF Up, Elapse, tableVars, storeVars
<1>5. CASE Up(EngineTick)
  BY <1>5 DEF Up, EngineTick, Tick, tableVars, storeVars
<1>6. QED
  BY <1>1, <1>2, <1>3, <1>4, <1>5

LEMMA TableFrame ==
  ASSUME StoreInv, UNCHANGED tableVars
  PROVE  StoreInv'
  BY DEF StoreInv, StoreTyped, Promoted, RowsStay, tableVars

LEMMA SweepTurns ==
  ASSUME NEW s \in Sweeps, NEW b \in Names \cup {"none"}, NEW to \in {"next", "querying"}
  PROVE  /\ [s EXCEPT !.i = @ + 1] \in Sweeps /\ [s EXCEPT !.i = @ + 1].pc = s.pc
         /\ [s EXCEPT !.pc = to, !.block = b] \in Sweeps
         /\ [s EXCEPT !.pc = to, !.block = b].pc = to /\ [s EXCEPT !.pc = to, !.block = b].block = b
         /\ [s EXCEPT !.pc = to, !.i = @ + 1, !.block = b] \in Sweeps
         /\ [s EXCEPT !.pc = to, !.i = @ + 1, !.block = b].pc = to
<1>1. PICK j \in Nat \ {0} : j = s.i + 1
  BY DEF Sweeps
<1>2. [s EXCEPT !.i = @ + 1] = [s EXCEPT !.i = j]
  BY <1>1
<1>3. [s EXCEPT !.pc = to, !.i = @ + 1, !.block = b] = [s EXCEPT !.pc = to, !.i = j, !.block = b]
  BY <1>1 DEF Sweeps
<1>4. [s EXCEPT !.i = j] \in Sweeps /\ [s EXCEPT !.i = j].pc = s.pc
  BY DEF Sweeps
<1>5. /\ [s EXCEPT !.pc = to, !.block = b] \in Sweeps
      /\ [s EXCEPT !.pc = to, !.block = b].pc = to /\ [s EXCEPT !.pc = to, !.block = b].block = b
  BY DEF Sweeps
<1>6. [s EXCEPT !.pc = to, !.i = j, !.block = b] \in Sweeps /\ [s EXCEPT !.pc = to, !.i = j, !.block = b].pc = to
  BY DEF Sweeps
<1>7. QED
  BY <1>2, <1>3, <1>4, <1>5, <1>6

LEMMA SweepKeepsTable ==
  ASSUME StoreInv, Sweep
  PROVE  StoreInv'
<1>1. UNCHANGED <<rows, review, refreshed, unread, approved, loaded>>
  BY DEF Sweep, SweepStart, SweepNext, SweepAnswer, storeVars
<1>2. sweep \in Sweeps /\ loaded.active \in Seq(Names) /\ ToSet(loaded.active) \subseteq BaseSet \cup approved
  BY DEF StoreInv, StoreTyped, Promoted
<1>3. sweep' \in Sweeps /\ (sweep'.pc = "querying" => sweep'.block \in BaseSet \cup approved)
  <2>1. CASE SweepStart
    BY <1>2, <2>1 DEF SweepStart, Sweeps
  <2>2. CASE SweepNext
    <3>1. CASE sweep.i > sweep.n
      BY <1>2, <2>2, <3>1 DEF SweepNext, Sweeps, NoSweep
    <3>2. CASE ~(sweep.i > sweep.n) /\ ~InRange
      BY <1>2, <2>2, <3>2 DEF SweepNext, Sweeps
    <3>3. CASE ~(sweep.i > sweep.n) /\ InRange
      <4>1. sweep.i \in 1 .. Len(loaded.active)
        BY <1>2, <3>3 DEF InRange, Sweeps
      <4>2. PICK b : b = loaded.active[sweep.i]
        OBVIOUS
      <4>3. b \in Names /\ b \in BaseSet \cup approved
        BY <1>2, <4>1, <4>2 DEF ToSet
      <4>4. \/ sweep' = [sweep EXCEPT !.i = @ + 1]
            \/ sweep' = [sweep EXCEPT !.pc = "querying", !.block = b]
        BY <2>2, <3>3, <4>2 DEF SweepNext
      <4>5. sweep.pc = "next"
        BY <2>2 DEF SweepNext
      <4>6. QED
        <5>1. /\ [sweep EXCEPT !.i = @ + 1] \in Sweeps /\ [sweep EXCEPT !.i = @ + 1].pc = sweep.pc
              /\ [sweep EXCEPT !.pc = "querying", !.block = b] \in Sweeps
              /\ [sweep EXCEPT !.pc = "querying", !.block = b].block = b
          BY <1>2, <4>3, SweepTurns
        <5>2. CASE sweep' = [sweep EXCEPT !.i = @ + 1]
          BY <4>5, <5>1, <5>2
        <5>3. CASE sweep' = [sweep EXCEPT !.pc = "querying", !.block = b]
          BY <4>3, <5>1, <5>3
        <5>4. QED
          BY <4>4, <5>2, <5>3
    <3>4. QED
      BY <3>1, <3>2, <3>3
  <2>3. CASE \E a \in Trends, o \in dep.objects : SweepAnswer(a, o)
    <3>1. sweep' = [sweep EXCEPT !.pc = "next", !.i = @ + 1, !.block = "none"]
      BY <2>3 DEF SweepAnswer
    <3>2. /\ [sweep EXCEPT !.pc = "next", !.i = @ + 1, !.block = "none"] \in Sweeps
          /\ [sweep EXCEPT !.pc = "next", !.i = @ + 1, !.block = "none"].pc = "next"
      <4>1. "none" \in Names \cup {"none"} /\ "next" \in {"next", "querying"}
        OBVIOUS
      <4>2. QED
        BY <1>2, <4>1, SweepTurns, ZenonT(60)
    <3>3. QED
      BY <3>1, <3>2
  <2>4. QED
    BY <2>1, <2>2, <2>3 DEF Sweep
<1>4. QED
  BY <1>1, <1>3 DEF StoreInv, StoreTyped, Promoted, RowsStay

LEMMA ReviewKeepsTable ==
  ASSUME StoreInv, StoreStep, UNCHANGED <<loaded, sweep>>
  PROVE  StoreInv'
<1> USE DEF StoreInv, StoreTyped, Promoted, RowsStay
<1>1. ASSUME NEW n \in ToSet(Stored) \ Learned, NEW raw \in Compiled, createDetector(n, raw)
      PROVE  StoreInv'
  <2>1. rows' = [rows EXCEPT ![n] = [status |-> "shadow", raw |-> raw]] /\ UNCHANGED <<review, refreshed, approved>>
    BY <1>1 DEF createDetector
  <2>2. [status |-> "shadow", raw |-> raw] \in [status : Statuses, raw : Raws]
    BY DEF Statuses, Raws
  <2>3. QED
    BY <2>1, <2>2
<1>2. ASSUME NEW n \in Learned, NEW raw \in Proposed, ProposeDetectorCandidates(n, raw)
      PROVE  StoreInv'
  <2>1. rows' = [rows EXCEPT ![n] = [status |-> "candidate", raw |-> raw]] /\ UNCHANGED <<review, refreshed, approved>>
    BY <1>2 DEF ProposeDetectorCandidates
  <2>2. [status |-> "candidate", raw |-> raw] \in [status : Statuses, raw : Raws] /\ n \in ToSet(Stored)
    BY StoreAssumption DEF Statuses, Raws
  <2>3. QED
    BY <2>1, <2>2
<1>3. ASSUME NEW p \in Reviewers, NEW n \in ToSet(Stored), PromoteCheck(p, n)
      PROVE  StoreInv'
  <2>1. review' = [review EXCEPT ![p] = [name |-> n, pc |-> "checked"]] /\ UNCHANGED <<rows, refreshed, approved>>
    BY <1>3 DEF PromoteCheck
  <2>2. [name |-> n, pc |-> "checked"] \in Reviews
    BY DEF Reviews
  <2>3. QED
    BY <2>1, <2>2
<1>4. ASSUME NEW p \in Reviewers, NEW n \in ToSet(Stored), Demote(p, n)
      PROVE  StoreInv'
  <2>1. rows' = [rows EXCEPT ![n].status = "demoted"] /\ UNCHANGED <<review, refreshed, approved>>
    BY <1>4 DEF Demote
  <2>2. rows' \in [ToSet(Stored) -> [status : Statuses, raw : Raws]]
    BY <2>1 DEF Statuses
  <2>3. \A m \in ToSet(Stored) : rows'[m].status = IF m = n THEN "demoted" ELSE rows[m].status
    BY <2>1
  <2>4. QED
    BY <2>1, <2>2, <2>3
<1>5. ASSUME NEW p \in Reviewers, PromoteWrite(p)
      PROVE  StoreInv'
  <2>1. PICK n \in ToSet(Stored) : n = review[p].name
    BY <1>5 DEF PromoteWrite
  <2>2. /\ rows' = [rows EXCEPT ![n].status = "active"] /\ approved' = approved \cup {n}
        /\ review' = [review EXCEPT ![p] = NoReview] /\ UNCHANGED refreshed
    BY <1>5, <2>1 DEF PromoteWrite
  <2>3. rows' \in [ToSet(Stored) -> [status : Statuses, raw : Raws]]
    BY <2>2 DEF Statuses
  <2>4. \A m \in ToSet(Stored) : rows'[m].status = IF m = n THEN "active" ELSE rows[m].status
    BY <2>2
  <2>5. NoReview \in Reviews /\ NoReview.pc # "checked"
    BY DEF NoReview, Reviews
  <2>6. QED
    BY <2>2, <2>3, <2>4, <2>5
<1>6. QED
  BY <1>1, <1>2, <1>3, <1>4, <1>5 DEF StoreStep

LEMMA RefreshKeepsTable ==
  ASSUME StoreInv, NEW reached \in SUBSET ToSet(Stored), refreshStored(reached)
  PROVE  StoreInv'
<1>1. /\ loaded' = [active |-> BaseNames \o Load(rows, reached, "active"), shadow |-> Load(rows, reached, "shadow")]
      /\ refreshed' = [n \in ToSet(Stored) |-> IF n \in reached THEN rows[n].status ELSE refreshed[n]]
      /\ UNCHANGED <<rows, review, approved, sweep>>
  BY DEF refreshStored, SetStored
<1>2. /\ BaseNames \o Load(rows, reached, "active") \in Seq(Names) /\ Load(rows, reached, "shadow") \in Seq(Names)
      /\ ToSet(BaseNames \o Load(rows, reached, "active")) = BaseSet \cup {n \in ToSet(Stored) : n \in reached /\ Loads(rows, n, "active")}
  BY LoadIs, ToSetConcat, EngineAssumption DEF BaseSet
<1>3. PICK a, b : a = BaseNames \o Load(rows, reached, "active") /\ b = Load(rows, reached, "shadow")
  OBVIOUS
<1>4. loaded' \in [active : Seq(Names), shadow : Seq(Names)] /\ loaded'.active = a
  BY <1>1, <1>2, <1>3
<1>5. ToSet(a) \subseteq BaseSet \cup approved
  BY <1>2, <1>3 DEF Loads, StoreInv, Promoted
<1>6. refreshed' \in [ToSet(Stored) -> Statuses]
  BY <1>1 DEF StoreInv, StoreTyped
<1>7. QED
  BY <1>1, <1>4, <1>5, <1>6 DEF StoreInv, StoreTyped, Promoted, RowsStay

LEMMA TableInitially == PerceptionInit => StoreInv
<1> SUFFICES ASSUME PerceptionInit
             PROVE  StoreInv
  OBVIOUS
<1>1. PICK legacy \in SUBSET Legacy : StoreInit(legacy)
  BY DEF PerceptionInit
<1>2. \A e : e = << >> => e \in Seq(Names)
  OBVIOUS
<1>3. loaded \in [active : Seq(Names), shadow : Seq(Names)] /\ ToSet(loaded.active) = BaseSet
  BY <1>2, EngineAssumption DEF PerceptionInit, BaseSet
<1>4. sweep \in Sweeps /\ sweep.pc # "querying"
  BY DEF PerceptionInit, NoSweep, Sweeps
<1>5. {NoRow} \cup legacy \subseteq [status : Statuses, raw : Raws]
  BY LegacyAssumption DEF NoRow, Statuses, Raws
<1>6. rows \in [ToSet(Stored) -> [status : Statuses, raw : Raws]]
  BY <1>1, <1>5 DEF StoreInit
<1>7. NoReview \in Reviews /\ NoReview.pc # "checked" /\ "absent" \in Statuses
  BY DEF NoReview, Reviews, Statuses
<1>8. QED
  BY <1>1, <1>3, <1>4, <1>6, <1>7 DEF StoreInit, StoreInv, StoreTyped, Promoted, RowsStay

LEMMA CrashKeepsTable ==
  ASSUME StoreInv, Crash \/ Restart
  PROVE  StoreInv'
<1>1. CASE Crash
  <2>1. review' = [p \in Reviewers |-> NoReview] /\ UNCHANGED <<rows, refreshed, approved, loaded, sweep>>
    BY <1>1 DEF Crash, engineVars
  <2>2. NoReview \in Reviews /\ NoReview.pc # "checked"
    BY DEF NoReview, Reviews
  <2>3. QED
    BY <2>1, <2>2 DEF StoreInv, StoreTyped, Promoted, RowsStay
<1>2. CASE Restart
  <2>1. /\ loaded' = [active |-> BaseNames, shadow |-> << >>] /\ sweep' = NoSweep
        /\ refreshed' = [n \in ToSet(Stored) |-> "absent"]
        /\ UNCHANGED <<rows, review, approved>>
    BY <1>2 DEF Restart, Fresh
  <2>2. \A e : e = << >> => e \in Seq(Names)
    OBVIOUS
  <2>3. loaded' \in [active : Seq(Names), shadow : Seq(Names)] /\ ToSet(loaded'.active) = BaseSet
    BY <2>1, <2>2, EngineAssumption DEF BaseSet
  <2>4. NoSweep \in Sweeps /\ NoSweep.pc # "querying" /\ "absent" \in Statuses
    BY DEF NoSweep, Sweeps, Statuses
  <2>5. QED
    BY <2>1, <2>3, <2>4 DEF StoreInv, StoreTyped, Promoted, RowsStay
<1>3. QED
  BY <1>1, <1>2

LEMMA TableIsKept == StoreInv /\ [PerceptionNext]_perceptionVars => StoreInv'
<1> SUFFICES ASSUME StoreInv, [PerceptionNext]_perceptionVars
             PROVE  StoreInv'
  OBVIOUS
<1>1. CASE \/ Up(World) \/ Up(Streaming) \/ Up(Consume) \/ Up(Elapse) \/ Up(EngineTick)
  BY <1>1, WatchLeavesTheTable, TableFrame
<1>2. CASE Up(Sweep)
  BY <1>2, SweepKeepsTable DEF Up
<1>3. CASE Up(Refresh)
  <2>1. ASSUME NEW reached \in SUBSET ToSet(Stored), refreshStored(reached)
        PROVE  StoreInv'
    BY <2>1, RefreshKeepsTable
  <2>2. CASE refreshFails
    BY <2>2, TableFrame DEF refreshFails, engineVars, storeVars, tableVars
  <2>3. QED
    BY <1>3, <2>1, <2>2 DEF Up, Refresh
<1>4. CASE Up(Reviewing)
  BY <1>4, ReviewKeepsTable DEF Up, Reviewing, engineVars
<1>5. CASE Crash \/ Restart
  BY <1>5, CrashKeepsTable
<1>6. CASE UNCHANGED perceptionVars
  BY <1>6, TableFrame DEF perceptionVars, engineVars, storeVars, tableVars
<1>7. QED
  BY <1>1, <1>2, <1>3, <1>4, <1>5, <1>6 DEF PerceptionNext

(* The table of stored detectors keeps its shape and its record of who     *)
(* promoted what (store.go Stage, Promote, Demote, Load).                  *)
THEOREM TableAlways == PerceptionSpec => []StoreInv
<1>1. PerceptionInit => StoreInv
  BY TableInitially
<1>2. StoreInv /\ [PerceptionNext]_perceptionVars => StoreInv'
  BY TableIsKept
<1>3. QED
  BY <1>1, <1>2, PTL DEF PerceptionSpec

-----------------------------------------------------------------------------
(* Who acts. *)

LEMMA ApprovedGrows ==
  ASSUME [PerceptionNext]_perceptionVars
  PROVE  approved \subseteq approved'
<1>1. CASE Up(Reviewing)
  BY <1>1 DEF Up, Reviewing, StoreStep, createDetector, ProposeDetectorCandidates, PromoteCheck, Demote, PromoteWrite
<1>2. CASE \/ Up(World) \/ Up(Streaming) \/ Up(Consume) \/ Up(Elapse) \/ Up(EngineTick)
  BY <1>2, WatchLeavesTheTable DEF tableVars
<1>3. CASE Up(Sweep) \/ Up(Refresh)
  BY <1>3 DEF Up, Sweep, Refresh, refreshStored, refreshFails, storeVars
<1>4. CASE Crash \/ Restart \/ UNCHANGED perceptionVars
  BY <1>4 DEF Crash, Restart, perceptionVars, storeVars
<1>5. QED
  BY <1>1, <1>2, <1>3, <1>4 DEF PerceptionNext

(* A finding names a detector that is loaded to act, or the one the sweep  *)
(* took from the acting ones: keys of others are forgotten, not fired.     *)
LEMMA ActingOnly ==
  ASSUME StoreInv, OnlyPromotedActs, [PerceptionNext]_perceptionVars
  PROVE  OnlyPromotedActs'
<1>1. ToSet(loaded.active) \subseteq BaseSet \cup approved
  BY DEF StoreInv, Promoted
<1>2. approved \subseteq approved'
  BY ApprovedGrows
<1>3. \A f \in findings' \ findings : f.detector \in BaseSet \cup approved
  <2>1. CASE Up(Consume)
    <3>1. \A f \in findings' \ findings : \E n \in ToSet(loaded.active) \cup BaseSet : \E o, st : f = Finding(n, o, st, "watch")
      BY <2>1 DEF Up, Consume, Process, Findings, Firing
    <3>2. QED
      BY <1>1, <3>1 DEF Finding
  <2>2. CASE Up(EngineTick)
    <3>1. \A f \in findings' \ findings : \E n \in ToSet(loaded.active) : \E o, st : f = Finding(n, o, st, "watch")
      <4>1. \A f \in findings' \ findings : \E k \in DueKeys(keys, loaded.active) :
                f = Finding(byName(loaded.active, k[1]), k[2], keys[k], "watch")
        BY <2>2 DEF Up, EngineTick, Tick
      <4>2. ASSUME NEW k \in DueKeys(keys, loaded.active)
            PROVE  byName(loaded.active, k[1]) \in ToSet(loaded.active)
        <5>1. loaded.active \in Seq(Names)
          BY DEF StoreInv, StoreTyped
        <5>2. \E i \in DOMAIN loaded.active : Bears(loaded.active, i, k[1])
          BY DEF DueKeys, Orphans
        <5>3. QED
          BY <5>1, <5>2, ByNameIs
      <4>3. QED
        BY <4>1, <4>2
    <3>2. QED
      BY <1>1, <3>1 DEF Finding
  <2>3. CASE Up(Sweep)
    <3>1. \A f \in findings' \ findings : sweep.pc = "querying" /\ \E o, st : f = Finding(sweep.block, o, st, "trend")
      <4>1. CASE SweepStart \/ SweepNext
        BY <4>1 DEF SweepStart, SweepNext
      <4>2. ASSUME NEW a \in Trends, NEW o \in dep.objects, SweepAnswer(a, o)
            PROVE  /\ sweep.pc = "querying"
                   /\ \A f \in findings' \ findings : f = Finding(sweep.block, o, [evidence |-> "predicted"], "trend")
        BY <4>2 DEF SweepAnswer
      <4>3. QED
        BY <2>3, <4>1, <4>2 DEF Up, Sweep
    <3>2. QED
      BY <3>1 DEF Finding, StoreInv, Promoted
  <2>4. CASE \/ Up(World) \/ Up(Streaming) \/ Up(Elapse) \/ Up(Refresh) \/ Up(Reviewing) \/ Crash \/ Restart
             \/ UNCHANGED perceptionVars
    BY <2>4 DEF Up, World, Streaming, Elapse, Refresh, refreshStored, refreshFails, SetStored, Reviewing, Crash,
                Restart, perceptionVars, engineVars
  <2>5. QED
    BY <2>1, <2>2, <2>3, <2>4 DEF PerceptionNext
<1>4. QED
  BY <1>2, <1>3 DEF OnlyPromotedActs

(* Whatever was authored, proposed, promoted, demoted and refreshed, and   *)
(* in whatever order: only a detector of the playbooks or one a person has *)
(* promoted ever hands a finding on (engine.go Process, Tick,              *)
(* EvaluateTrends; store.go Load; perception.go refreshStored).            *)
THEOREM OnlyPromotedEverActs == PerceptionSpec => []OnlyPromotedActs
<1>1. PerceptionInit => OnlyPromotedActs
  BY DEF PerceptionInit, OnlyPromotedActs
<1>2. StoreInv /\ OnlyPromotedActs /\ [PerceptionNext]_perceptionVars => OnlyPromotedActs'
  BY ActingOnly
<1>3. QED
  BY <1>1, <1>2, TableAlways, PTL DEF PerceptionSpec

-----------------------------------------------------------------------------
(* What is loaded. *)

LEMMA LiveIsBlock ==
  ASSUME NEW raw
  PROVE  /\ LivePart(raw) # NoBlock => isDetectBlock(raw)
         /\ \A p \in LivePart(raw).watch : ~NeverMatches(p)
         /\ \A t \in LivePart(raw).trend : ~TrendNeverFires(t)
<1>1. /\ LivePart(raw).watch = {p \in ParseBlock(raw).watch : ~NeverMatches(p)}
      /\ LivePart(raw).trend = {t \in ParseBlock(raw).trend : ~TrendNeverFires(t)}
      /\ LivePart(raw) = [watch |-> LivePart(raw).watch, trend |-> LivePart(raw).trend]
  BY DEF LivePart
<1>2. ParseBlock(raw).watch \subseteq raw.watch /\ ParseBlock(raw).trend = raw.trend
  BY DEF ParseBlock
<1>3. ~isDetectBlock(raw) => LivePart(raw).watch = {} /\ LivePart(raw).trend = {}
  BY <1>1, <1>2 DEF isDetectBlock
<1>4. LivePart(raw) # NoBlock => isDetectBlock(raw)
  BY <1>1, <1>3 DEF NoBlock
<1>5. QED
  BY <1>1, <1>4

LEMMA RefreshLoads ==
  ASSUME StoreInv, DetectorsStayLoaded, NEW reached \in SUBSET ToSet(Stored), refreshStored(reached)
  PROVE  DetectorsStayLoaded'
<1>1. /\ loaded' = [active |-> BaseNames \o Load(rows, reached, "active"), shadow |-> Load(rows, reached, "shadow")]
      /\ blocks' = Blocks(rows)
      /\ refreshed' = [n \in ToSet(Stored) |-> IF n \in reached THEN rows[n].status ELSE refreshed[n]]
      /\ unread' = ToSet(Stored) \ reached /\ UNCHANGED rows
  BY DEF refreshStored, SetStored
<1>2. /\ ToSet(loaded'.active) = BaseSet \cup {n \in ToSet(Stored) : n \in reached /\ Loads(rows, n, "active")}
      /\ ToSet(loaded'.shadow) = {n \in ToSet(Stored) : n \in reached /\ Loads(rows, n, "shadow")}
  BY <1>1, LoadIs, ToSetConcat, EngineAssumption DEF BaseSet
<1>3. \A n \in ToSet(Stored) : blocks'[n] = LivePart(rows[n].raw)
  BY <1>1, StoredNames DEF Blocks
<1>4. ASSUME NEW n \in ToSet(Stored), n \in ToSet(loaded'.active) \cup ToSet(loaded'.shadow)
      PROVE  /\ blocks'[n] # NoBlock
             /\ \A p \in blocks'[n].watch : ~NeverMatches(p)
             /\ \A t \in blocks'[n].trend : ~TrendNeverFires(t)
  <2>1. LivePart(rows[n].raw) # NoBlock
    BY <1>2, <1>4, StoredNames DEF Loads
  <2>2. QED
    BY <1>3, <2>1, LiveIsBlock
<1>5. LoadedCanFire'
  BY <1>4 DEF LoadedCanFire, BlockOf
<1>6. ASSUME NEW n \in ToSet(Stored), n \in reached, refreshed'[n] = "active", LivePart(rows[n].raw) # NoBlock
      PROVE  n \in ToSet(loaded'.active)
  <2>1. rows[n].status = "active"
    <3>1. refreshed'[n] = IF n \in reached THEN rows[n].status ELSE refreshed[n]
      BY <1>1
    <3>2. QED
      BY <1>6, <3>1
  <2>2. isDetectBlock(rows[n].raw)
    BY <1>6, LiveIsBlock
  <2>3. Loads(rows, n, "active")
    BY <1>6, <2>1, <2>2 DEF Loads
  <2>4. QED
    BY <1>2, <1>6, <2>3
<1>7. RefreshNeverDisarms'
  <2>1. ASSUME NEW n \in ToSet(Stored), Promotable(n)'
        PROVE  n \in ToSet(loaded'.active) \cup unread'
    <3>1. refreshed'[n] = "active" /\ LivePart(rows[n].raw) # NoBlock
      <4>1. refreshed'[n] = "active" /\ LivePart(rows'[n].raw) # NoBlock
        BY <2>1 DEF Promotable
      <4>2. rows' = rows
        BY <1>1
      <4>3. QED
        BY <4>1, <4>2
    <3>2. CASE n \in reached
      BY <1>6, <3>1, <3>2
    <3>3. CASE n \notin reached
      BY <1>1, <3>3
    <3>4. QED
      BY <3>2, <3>3
  <2>2. QED
    BY <2>1 DEF RefreshNeverDisarms
<1>8. QED
  BY <1>5, <1>7 DEF DetectorsStayLoaded

(* A row keeps the text it was read with: only an absent one is written.   *)
LEMMA ReviewKeepsLoaded ==
  ASSUME StoreInv, DetectorsStayLoaded, StoreStep, UNCHANGED <<loaded, blocks, running>>
  PROVE  DetectorsStayLoaded'
<1>1. UNCHANGED <<refreshed, unread>>
  BY DEF StoreStep, createDetector, ProposeDetectorCandidates, PromoteCheck, Demote, PromoteWrite
<1>2. \A n \in ToSet(Stored) : rows[n].status # "absent" => rows'[n].raw = rows[n].raw
  <2> USE DEF StoreInv, StoreTyped
  <2>1. CASE \E n \in ToSet(Stored) \ Learned, raw \in Compiled : createDetector(n, raw)
    BY <2>1 DEF createDetector
  <2>2. CASE \E n \in Learned, raw \in Proposed : ProposeDetectorCandidates(n, raw)
    BY <2>2 DEF ProposeDetectorCandidates
  <2>3. CASE \E p \in Reviewers, n \in ToSet(Stored) : PromoteCheck(p, n) \/ Demote(p, n)
    BY <2>3 DEF PromoteCheck, Demote
  <2>4. CASE \E p \in Reviewers : PromoteWrite(p)
    BY <2>4 DEF PromoteWrite
  <2>5. QED
    BY <2>1, <2>2, <2>3, <2>4 DEF StoreStep
<1>3. \A n \in ToSet(Stored) : refreshed[n] = "active" => rows'[n].raw = rows[n].raw
  BY <1>2 DEF StoreInv, RowsStay
<1>4. LoadedCanFire'
  BY DEF DetectorsStayLoaded, LoadedCanFire, BlockOf
<1>5. RefreshNeverDisarms'
  BY <1>1, <1>3 DEF DetectorsStayLoaded, RefreshNeverDisarms, Promotable
<1>6. QED
  BY <1>4, <1>5 DEF DetectorsStayLoaded

LEMMA LoadedFrame ==
  ASSUME DetectorsStayLoaded, UNCHANGED <<rows, refreshed, unread, loaded, blocks>>, running' => running
  PROVE  DetectorsStayLoaded'
BY DEF DetectorsStayLoaded, LoadedCanFire, RefreshNeverDisarms, Promotable, BlockOf

LEMMA LoadedIsKept ==
  ASSUME StoreInv, DetectorsStayLoaded, [PerceptionNext]_perceptionVars
  PROVE  DetectorsStayLoaded'
<1>1. CASE \/ Up(World) \/ Up(Streaming) \/ Up(Consume) \/ Up(Elapse) \/ Up(EngineTick)
  BY <1>1, WatchLeavesTheTable, LoadedFrame DEF tableVars, Up
<1>2. CASE Up(Sweep)
  <2>1. UNCHANGED <<rows, refreshed, unread, loaded, blocks, running>>
    BY <1>2 DEF Up, Sweep, SweepStart, SweepNext, SweepAnswer, storeVars
  <2>2. QED
    BY <2>1, LoadedFrame
<1>3. CASE Up(Refresh)
  <2>1. ASSUME NEW reached \in SUBSET ToSet(Stored), refreshStored(reached)
        PROVE  DetectorsStayLoaded'
    BY <2>1, RefreshLoads
  <2>2. CASE refreshFails
    BY <1>3, <2>2, LoadedFrame DEF Up, refreshFails, engineVars, storeVars
  <2>3. QED
    BY <1>3, <2>1, <2>2 DEF Up, Refresh
<1>4. CASE Up(Reviewing)
  BY <1>4, ReviewKeepsLoaded DEF Up, Reviewing, engineVars
<1>5. CASE Crash
  BY <1>5, LoadedFrame DEF Crash, engineVars
<1>6. CASE Restart
  <2>1. /\ loaded' = [active |-> BaseNames, shadow |-> << >>]
        /\ refreshed' = [n \in ToSet(Stored) |-> "absent"]
    BY <1>6 DEF Restart, Fresh
  <2>2. ToSet(loaded'.active) = BaseSet /\ ToSet(loaded'.shadow) = {}
    BY <2>1, EmptyNames DEF BaseSet
  <2>3. LoadedCanFire'
    BY <2>2, StoredNames DEF LoadedCanFire
  <2>4. RefreshNeverDisarms'
    BY <2>1 DEF RefreshNeverDisarms, Promotable
  <2>5. QED
    BY <2>3, <2>4 DEF DetectorsStayLoaded
<1>7. CASE UNCHANGED perceptionVars
  BY <1>7, LoadedFrame DEF perceptionVars, engineVars, storeVars
<1>8. QED
  BY <1>1, <1>2, <1>3, <1>4, <1>5, <1>6, <1>7 DEF PerceptionNext

(* Every stored detector the engine holds can fire, and a row last read as *)
(* active stays in it through failed and cut refreshes, reviews and        *)
(* restarts, unless the refresh in force broke off before that row         *)
(* (store.go Load, perception.go refreshStored).                           *)
THEOREM DetectorsAlwaysStay == PerceptionSpec => []DetectorsStayLoaded
<1>1. PerceptionInit => DetectorsStayLoaded
  <2> SUFFICES ASSUME PerceptionInit
               PROVE  DetectorsStayLoaded
    OBVIOUS
  <2>1. loaded = [active |-> BaseNames, shadow |-> << >>] /\ refreshed = [n \in ToSet(Stored) |-> "absent"]
    BY DEF PerceptionInit, StoreInit
  <2>2. ToSet(loaded.active) = BaseSet /\ ToSet(loaded.shadow) = {}
    BY <2>1, EmptyNames DEF BaseSet
  <2>3. QED
    BY <2>1, <2>2, StoredNames DEF DetectorsStayLoaded, LoadedCanFire, RefreshNeverDisarms, Promotable
<1>2. StoreInv /\ DetectorsStayLoaded /\ [PerceptionNext]_perceptionVars => DetectorsStayLoaded'
  BY LoadedIsKept
<1>3. QED
  BY <1>1, <1>2, TableAlways, PTL DEF PerceptionSpec

-----------------------------------------------------------------------------
(* What is on its way. *)

Kinds == {"ADDED", "MODIFIED", "DELETED"}
StatusTexts == {displayStatus(p) : p \in PodStates} \cup EventReasons
Observations == [kind : {"pod_status", "event"}, object : Pods, status : StatusTexts, type : Kinds, lag : Nat]
Happenings == [object : Pods, reason : EventReasons, age : {"before", "after"}]
PodDocs == [object : Pods, body : PodStates, type : Kinds]
EventDocs == [object : Pods, body : Happenings, type : {"ADDED"}]
Docs(s) == IF s[1] = "pods" THEN {d \in PodDocs : Covers(s, d.object)} ELSE EventDocs
KeyStates == [armed : Nat, quiet : Nat, fired : BOOLEAN, evidence : {"withheld", "message", "status"}]
StreamStates == {"idle", "connected", "draining", "backoff", "stopped"}

(* Elements of a set in a sequence: none of mine, some of them, or the     *)
(* last of mine a good one.                                                *)
NoneIn(q, mine) == \A j \in 1 .. Len(q) : q[j] \notin mine
SomeIn(q, mine) == \E j \in 1 .. Len(q) : q[j] \in mine
LastIn(q, good, mine) ==
    \E i \in 1 .. Len(q) : q[i] \in good /\ \A j \in 1 .. Len(q) : q[j] \in mine => j <= i

(* The documents and the observations of a pod: those that show it as it   *)
(* is, and those that make a detector forget it.                           *)
Shows(n, st) == \E p \in BaseBlocks[n].watch : p.kind = "Pod" /\ st \in p.matches
Judges(n) == \E p \in BaseBlocks[n].watch : p.kind = "Pod"
DocsOf(o) == {d \in PodDocs : d.object = o}
DocsNow(o) == {d \in DocsOf(o) : d.body = cluster[o] /\ d.type # "DELETED"}
ClearingDocs(n, o) == {d \in DocsOf(o) : d.type = "DELETED" \/ ~Shows(n, displayStatus(d.body))}
SeenOf(o) == {x \in Observations : x.kind = "pod_status" /\ x.object = o}
SeenNow(o) == {x \in SeenOf(o) : x.status = displayStatus(cluster[o]) /\ x.type # "DELETED"}
Clearing(n, o) == {x \in SeenOf(o) : x.type = "DELETED" \/ ~Shows(n, x.status)}

WatchTyped ==
    /\ dep \in Deployments
    /\ cluster \in [Pods -> PodStates \cup {Gone}]
    /\ history \subseteq Happenings /\ IsFiniteSet(history)
    /\ stream \in [specs(dep) -> StreamStates]
    /\ pipe = [s \in specs(dep) |-> pipe[s]]
    /\ \A s \in specs(dep) : pipe[s] \in Seq(Docs(s)) /\ (stream[s] \notin ConnectedStates => pipe[s] = << >>)
    /\ queue \in Seq(Observations) /\ Len(queue) <= QueueSize
    /\ shed \in Nat

KeysTyped(ks) == ks = [k \in DOMAIN ks |-> ks[k]] /\ \A k \in DOMAIN ks : ks[k] \in KeyStates
EngineTyped ==
    /\ KeysTyped(keys)
    /\ BaseSet \subseteq ToSet(loaded.active)
    /\ \A n \in BaseSet : blocks[n] = BaseBlocks[n]

(* The base detectors that share their name with no promoted one.          *)
Named == {n \in BaseSet : NameIsItsOwn(n)}

(* What the engine knows of a failing pod whose stream is connected: the   *)
(* last word on it is still in the pipe, or in the queue, or the engine    *)
(* has had it and holds a key or has reported.                             *)
Informed(n, o, s) ==
    \/ LastIn(pipe[s], DocsNow(o), DocsOf(o))
    \/ NoneIn(pipe[s], DocsOf(o)) /\ LastIn(queue, SeenNow(o), SeenOf(o))
    \/ /\ NoneIn(pipe[s], DocsOf(o)) /\ NoneIn(queue, SeenOf(o))
       /\ <<n, o>> \in reported \/ HasKey(keys, n, o)
ToldInv ==
    shed = 0 => \A o \in dep.objects, n \in Named : \A s \in StreamsOf("pods", o) :
        stream[s] = "connected" /\ Failing(n, o) => Informed(n, o, s)

(* A key that fired for a failure since withdrawn is about to be cleared:  *)
(* the word of the recovery comes before the next failure's.               *)
Clears(n, o) == SomeIn(queue, Clearing(n, o)) \/ \E s \in StreamsOf("pods", o) : SomeIn(pipe[s], ClearingDocs(n, o))
FiredInv ==
    shed = 0 => \A n \in Named, o \in Pods :
        Judges(n) /\ HasKey(keys, n, o) /\ keys[Key(n, o)].fired /\ <<n, o>> \notin reported => Clears(n, o)

WatchInv == WatchTyped /\ EngineTyped /\ ToldInv /\ FiredInv

-----------------------------------------------------------------------------
(* Sequences of which the last one of some matters.                        *)

LEMMA AppendEntries ==
  ASSUME NEW S, NEW q \in Seq(S), NEW x \in S
  PROVE  /\ Append(q, x) \in Seq(S) /\ Len(Append(q, x)) = Len(q) + 1 /\ Len(q) \in Nat
         /\ \A j \in 1 .. Len(q) : Append(q, x)[j] = q[j]
         /\ Append(q, x)[Len(q) + 1] = x
  OBVIOUS

LEMMA TailEntries ==
  ASSUME NEW S, NEW q \in Seq(S), q # << >>
  PROVE  /\ Tail(q) \in Seq(S) /\ Len(q) \in Nat \ {0} /\ Len(Tail(q)) = Len(q) - 1
         /\ Head(q) = q[1] /\ Head(q) \in S
         /\ \A j \in 1 .. Len(q) - 1 : Tail(q)[j] = q[j + 1]
  OBVIOUS

LEMMA NothingIn ==
  ASSUME NEW q, q = << >>, NEW mine, NEW good
  PROVE  NoneIn(q, mine) /\ ~SomeIn(q, mine) /\ ~LastIn(q, good, mine)
  BY DEF NoneIn, SomeIn, LastIn

LEMMA AppendLast ==
  ASSUME NEW S, NEW q \in Seq(S), NEW x \in S, NEW mine, NEW good
  PROVE  /\ x \in good => LastIn(Append(q, x), good, mine)
         /\ x \notin mine /\ LastIn(q, good, mine) => LastIn(Append(q, x), good, mine)
         /\ x \notin mine /\ NoneIn(q, mine) => NoneIn(Append(q, x), mine)
         /\ SomeIn(q, mine) => SomeIn(Append(q, x), mine)
         /\ x \in mine => SomeIn(Append(q, x), mine)
<1> DEFINE r == Append(q, x)
<1>1. /\ Len(r) = Len(q) + 1 /\ Len(q) \in Nat
      /\ \A j \in 1 .. Len(q) : r[j] = q[j]
      /\ r[Len(q) + 1] = x
  BY AppendEntries
<1>2. \A j \in 1 .. Len(r) : j \in 1 .. Len(q) \/ j = Len(q) + 1
  BY <1>1
<1>3. \A j \in 1 .. Len(q) : j \in 1 .. Len(r)
  BY <1>1
<1>4. Len(q) + 1 \in 1 .. Len(r) /\ \A j \in 1 .. Len(r) : j <= Len(q) + 1
  BY <1>1
<1> HIDE DEF r
<1>5. x \in good => LastIn(r, good, mine)
  BY <1>1, <1>4 DEF LastIn
<1>6. x \notin mine /\ LastIn(q, good, mine) => LastIn(r, good, mine)
  <2> SUFFICES ASSUME x \notin mine, LastIn(q, good, mine)
               PROVE  LastIn(r, good, mine)
    OBVIOUS
  <2>1. PICK i \in 1 .. Len(q) : q[i] \in good /\ \A j \in 1 .. Len(q) : q[j] \in mine => j <= i
    BY DEF LastIn
  <2>2. i \in 1 .. Len(r) /\ r[i] \in good
    BY <1>1, <1>3, <2>1
  <2>3. \A j \in 1 .. Len(r) : r[j] \in mine => j <= i
    BY <1>1, <1>2, <2>1
  <2>4. QED
    BY <2>2, <2>3 DEF LastIn
<1>7. x \notin mine /\ NoneIn(q, mine) => NoneIn(r, mine)
  BY <1>1, <1>2 DEF NoneIn
<1>8. SomeIn(q, mine) => SomeIn(r, mine)
  BY <1>1, <1>3 DEF SomeIn
<1>9. x \in mine => SomeIn(r, mine)
  BY <1>1, <1>4 DEF SomeIn
<1>10. QED
  BY <1>5, <1>6, <1>7, <1>8, <1>9 DEF r

LEMMA TailLast ==
  ASSUME NEW S, NEW q \in Seq(S), q # << >>, NEW mine, NEW good, good \subseteq mine
  PROVE  /\ NoneIn(q, mine) => NoneIn(Tail(q), mine) /\ Head(q) \notin mine
         /\ LastIn(q, good, mine) =>
                LastIn(Tail(q), good, mine) \/ (Head(q) \in good /\ NoneIn(Tail(q), mine))
         /\ SomeIn(q, mine) => SomeIn(Tail(q), mine) \/ Head(q) \in mine
<1> DEFINE r == Tail(q)
<1>1. /\ Len(q) \in Nat \ {0} /\ Len(r) = Len(q) - 1 /\ Head(q) = q[1]
      /\ \A j \in 1 .. Len(q) - 1 : r[j] = q[j + 1]
  BY TailEntries
<1>2. \A j \in 1 .. Len(r) : r[j] = q[j + 1] /\ j + 1 \in 1 .. Len(q)
  BY <1>1
<1>3. \A j \in 1 .. Len(q) : j = 1 \/ (j - 1 \in 1 .. Len(r) /\ r[j - 1] = q[j])
  <2> TAKE j \in 1 .. Len(q)
  <2>1. CASE j # 1
    <3>1. j - 1 \in 1 .. Len(r) /\ (j - 1) + 1 = j
      BY <1>1, <2>1
    <3>2. QED
      BY <1>2, <3>1
  <2>2. QED
    BY <2>1
<1>4. 1 \in 1 .. Len(q)
  BY <1>1
<1> HIDE DEF r
<1>5. NoneIn(q, mine) => NoneIn(r, mine) /\ Head(q) \notin mine
  BY <1>1, <1>2, <1>4 DEF NoneIn
<1>6. SomeIn(q, mine) => SomeIn(r, mine) \/ Head(q) \in mine
  BY <1>1, <1>3 DEF SomeIn
<1>7. LastIn(q, good, mine) => LastIn(r, good, mine) \/ (Head(q) \in good /\ NoneIn(r, mine))
  <2> SUFFICES ASSUME LastIn(q, good, mine)
               PROVE  LastIn(r, good, mine) \/ (Head(q) \in good /\ NoneIn(r, mine))
    OBVIOUS
  <2>1. PICK i \in 1 .. Len(q) : q[i] \in good /\ \A j \in 1 .. Len(q) : q[j] \in mine => j <= i
    BY DEF LastIn
  <2>2. CASE i = 1
    <3>1. Head(q) \in good
      BY <1>1, <2>1, <2>2
    <3>2. NoneIn(r, mine)
      <4> SUFFICES ASSUME NEW j \in 1 .. Len(r), r[j] \in mine
                   PROVE  FALSE
        BY DEF NoneIn
      <4>1. j + 1 \in 1 .. Len(q) /\ q[j + 1] \in mine
        BY <1>2
      <4>2. j + 1 <= i
        BY <2>1, <4>1
      <4>3. QED
        BY <1>1, <2>2, <4>2
    <3>3. QED
      BY <3>1, <3>2
  <2>3. CASE i # 1
    <3>1. i - 1 \in 1 .. Len(r) /\ r[i - 1] \in good
      BY <1>3, <2>1, <2>3
    <3>2. ASSUME NEW j \in 1 .. Len(r), r[j] \in mine
          PROVE  j <= i - 1
      <4>1. j + 1 \in 1 .. Len(q) /\ q[j + 1] \in mine
        BY <1>2, <3>2
      <4>2. j + 1 <= i
        BY <2>1, <4>1
      <4>3. QED
        BY <1>1, <4>2
    <3>3. QED
      BY <3>1, <3>2 DEF LastIn
  <2>4. QED
    BY <2>2, <2>3
<1>8. QED
  BY <1>5, <1>6, <1>7 DEF r

(* The last one of mine is one of them: a place cannot be both.            *)
LEMMA LastIsSome ==
  ASSUME NEW q, NEW mine, NEW good, good \subseteq mine, LastIn(q, good, mine)
  PROVE  SomeIn(q, mine) /\ ~NoneIn(q, mine)
  BY DEF LastIn, SomeIn, NoneIn

(* Entries that keep their side keep the last one.                         *)
LEMMA SameSides ==
  ASSUME NEW q, NEW r, NEW mine, NEW good, Len(r) = Len(q),
         \A j \in 1 .. Len(q) : (r[j] \in mine <=> q[j] \in mine) /\ (r[j] \in good <=> q[j] \in good)
  PROVE  /\ NoneIn(q, mine) => NoneIn(r, mine)
         /\ SomeIn(q, mine) => SomeIn(r, mine)
         /\ LastIn(q, good, mine) => LastIn(r, good, mine)
  BY DEF NoneIn, SomeIn, LastIn

(* A finite set as a sequence: each of its elements, once.                 *)
LEMMA SetToSeqIs ==
  ASSUME NEW S, IsFiniteSet(S)
  PROVE  /\ SetToSeq(S) \in Seq(S)
         /\ \A x \in S : \E i \in 1 .. Len(SetToSeq(S)) : SetToSeq(S)[i] = x
         /\ \A i, j \in 1 .. Len(SetToSeq(S)) : SetToSeq(S)[i] = SetToSeq(S)[j] => i = j
<1>1. Cardinality(S) \in Nat /\ ExistsBijection(1 .. Cardinality(S), S)
  BY FS_CardinalityType
<1>2. \E f \in [1 .. Cardinality(S) -> S] : IsInjective(f)
  BY <1>1 DEF ExistsBijection, Bijection, Injection
<1>3. PICK f : f = SetToSeq(S)
  OBVIOUS
<1>4. f \in [1 .. Cardinality(S) -> S] /\ IsInjective(f)
  BY <1>2, <1>3 DEF SetToSeq
<1>5. f \in Injection(1 .. Cardinality(S), S)
  BY <1>4 DEF Injection
<1>6. Cardinality(1 .. Cardinality(S)) = Cardinality(S)
  BY <1>1, FS_Interval
<1>7. f \in Surjection(1 .. Cardinality(S), S)
  BY <1>5, <1>6, FS_Injection
<1>8. \A x \in S : \E i \in 1 .. Cardinality(S) : f[i] = x
  BY <1>7 DEF Surjection
<1>9. f \in Seq(S) /\ Len(f) = Cardinality(S)
  BY <1>1, <1>4
<1>10. \A i, j \in 1 .. Cardinality(S) : f[i] = f[j] => i = j
  BY <1>4 DEF IsInjective
<1>11. QED
  BY <1>3, <1>8, <1>9, <1>10

-----------------------------------------------------------------------------
(* The streams and what they carry. *)

(* A pod is covered by one stream of pods at most. *)
LEMMA OneStream ==
  ASSUME WatchTyped, NEW o \in Pods, NEW s \in StreamsOf("pods", o), NEW t \in specs(dep), t[1] = "pods",
         Covers(t, o)
  PROVE  s = t
<1>1. AllNamespaces \notin dep.watched
  BY SensoriumAssumption DEF WatchTyped
<1>2. s \in specs(dep) /\ s[1] = "pods" /\ Covers(s, o)
  BY DEF StreamsOf
<1>3. CASE dep.watched = {}
  <2>1. specs(dep) = Resources \X {AllNamespaces}
    BY <1>3 DEF specs
  <2>2. QED
    BY <1>2, <2>1
<1>4. CASE dep.watched # {}
  <2>1. specs(dep) = Resources \X dep.watched
    BY <1>4 DEF specs
  <2>2. s[2] = NsOf[o] /\ t[2] = NsOf[o]
    BY <1>1, <1>2, <2>1 DEF Covers
  <2>3. QED
    BY <1>2, <2>1, <2>2
<1>5. QED
  BY <1>3, <1>4

LEMMA WrittenIs ==
  ASSUME WatchTyped, NEW r, NEW o, NEW doc, Written(r, o, doc), \A s \in StreamsOf(r, o) : doc \in Docs(s)
  PROVE  /\ pipe' = [s \in specs(dep) |-> pipe'[s]]
         /\ \A s \in specs(dep) :
                /\ pipe'[s] = IF s \in StreamsOf(r, o) /\ stream[s] = "connected" THEN Append(pipe[s], doc) ELSE pipe[s]
                /\ pipe'[s] \in Seq(Docs(s))
                /\ stream[s] \notin ConnectedStates => pipe'[s] = << >>
<1>1. DOMAIN pipe = specs(dep)
  BY DEF WatchTyped
<1>2. pipe' = [s \in specs(dep) |-> IF s \in StreamsOf(r, o) /\ stream[s] = "connected" THEN Append(pipe[s], doc) ELSE pipe[s]]
  BY <1>1 DEF Written
<1>3. ASSUME NEW s \in specs(dep)
      PROVE  /\ pipe'[s] = IF s \in StreamsOf(r, o) /\ stream[s] = "connected" THEN Append(pipe[s], doc) ELSE pipe[s]
             /\ pipe'[s] \in Seq(Docs(s))
             /\ stream[s] \notin ConnectedStates => pipe'[s] = << >>
  <2>1. pipe'[s] = IF s \in StreamsOf(r, o) /\ stream[s] = "connected" THEN Append(pipe[s], doc) ELSE pipe[s]
    BY <1>2
  <2>2. pipe[s] \in Seq(Docs(s)) /\ (stream[s] \notin ConnectedStates => pipe[s] = << >>)
    BY DEF WatchTyped
  <2>3. CASE s \in StreamsOf(r, o) /\ stream[s] = "connected"
    BY <2>1, <2>2, <2>3, AppendEntries DEF ConnectedStates
  <2>4. CASE ~(s \in StreamsOf(r, o) /\ stream[s] = "connected")
    BY <2>1, <2>2, <2>4
  <2>5. QED
    BY <2>3, <2>4
<1>4. QED
  BY <1>2, <1>3

(* The document a change of a pod writes. *)
LEMMA PodChangeWrites ==
  ASSUME WatchTyped, NEW o \in dep.objects, NEW p \in PodStates \cup {Gone}, PodChanges(o, p)
  PROVE  /\ o \in Pods /\ cluster' = [cluster EXCEPT ![o] = p] /\ p # cluster[o]
         /\ \E doc \in DocsOf(o) :
                /\ Written("pods", o, doc)
                /\ \A s \in StreamsOf("pods", o) : doc \in Docs(s)
                /\ p # Gone => doc.body = p /\ doc.type # "DELETED"
                /\ p = Gone => doc.type = "DELETED"
<1>1. o \in Pods
  BY SensoriumAssumption DEF WatchTyped
<1>2. cluster[o] \in PodStates \cup {Gone}
  BY <1>1 DEF WatchTyped
<1>3. cluster' = [cluster EXCEPT ![o] = p] /\ p # cluster[o]
  BY DEF PodChanges
<1>4. \A d \in DocsOf(o) : \A s \in StreamsOf("pods", o) : d \in Docs(s)
  BY DEF DocsOf, Docs, StreamsOf
<1>5. CASE p = Gone
  <2>1. PICK doc : doc = PodDoc(o, cluster[o], "DELETED")
    OBVIOUS
  <2>2. doc \in DocsOf(o) /\ doc.type = "DELETED"
    BY <1>1, <1>2, <1>3, <1>5, <2>1 DEF PodDoc, DocsOf, PodDocs, Kinds
  <2>3. Written("pods", o, doc)
    BY <1>5, <2>1 DEF PodChanges
  <2>4. QED
    BY <1>1, <1>3, <1>4, <1>5, <2>2, <2>3
<1>6. CASE p # Gone
  <2>1. PICK type \in {"ADDED", "MODIFIED"} : type = IF cluster[o] = Gone THEN "ADDED" ELSE "MODIFIED"
    OBVIOUS
  <2>2. PICK doc : doc = PodDoc(o, p, type)
    OBVIOUS
  <2>3. doc \in DocsOf(o) /\ doc.type # "DELETED" /\ doc.body = p
    BY <1>1, <1>6, <2>1, <2>2 DEF PodDoc, DocsOf, PodDocs, Kinds
  <2>4. Written("pods", o, doc)
    BY <1>6, <2>1, <2>2 DEF PodChanges
  <2>5. QED
    BY <1>1, <1>3, <1>4, <1>6, <2>3, <2>4
<1>7. QED
  BY <1>5, <1>6

LEMMA PodChangeTyped ==
  ASSUME WatchTyped, NEW o \in dep.objects, NEW p \in PodStates \cup {Gone}, PodChanges(o, p)
  PROVE  WatchTyped'
<1>1. PICK doc \in DocsOf(o) : Written("pods", o, doc) /\ \A s \in StreamsOf("pods", o) : doc \in Docs(s)
  BY PodChangeWrites
<1>2. /\ pipe' = [s \in specs(dep) |-> pipe'[s]]
      /\ \A s \in specs(dep) : pipe'[s] \in Seq(Docs(s)) /\ (stream[s] \notin ConnectedStates => pipe'[s] = << >>)
  BY <1>1, WrittenIs
<1>3. cluster' \in [Pods -> PodStates \cup {Gone}]
  BY PodChangeWrites DEF WatchTyped
<1>4. UNCHANGED <<dep, history, stream, queue, shed>>
  BY DEF PodChanges
<1>5. QED
  BY <1>2, <1>3, <1>4 DEF WatchTyped

LEMMA EventTyped ==
  ASSUME WatchTyped, NEW o \in dep.objects, NEW r \in EventReasons, EventOccurs(o, r)
  PROVE  WatchTyped' /\ \E doc \in EventDocs : Written("events", o, doc)
<1>1. o \in Pods
  BY SensoriumAssumption DEF WatchTyped
<1>2. PICK e : e = [object |-> o, reason |-> r, age |-> "after"]
  OBVIOUS
<1>3. e \in Happenings
  BY <1>1, <1>2 DEF Happenings
<1>4. history' = history \cup {e} /\ Written("events", o, EventDoc(e))
  BY <1>2 DEF EventOccurs
<1>5. EventDoc(e) \in EventDocs
  BY <1>1, <1>2, <1>3 DEF EventDoc, EventDocs
<1>6. \A s \in StreamsOf("events", o) : EventDoc(e) \in Docs(s)
  BY <1>5 DEF Docs, StreamsOf
<1>7. /\ pipe' = [s \in specs(dep) |-> pipe'[s]]
      /\ \A s \in specs(dep) : pipe'[s] \in Seq(Docs(s)) /\ (stream[s] \notin ConnectedStates => pipe'[s] = << >>)
  BY <1>4, <1>6, WrittenIs
<1>8. history' \subseteq Happenings /\ IsFiniteSet(history')
  BY <1>3, <1>4, FS_AddElement DEF WatchTyped
<1>9. UNCHANGED <<dep, cluster, stream, queue, shed>>
  BY DEF EventOccurs
<1>10. QED
  BY <1>4, <1>5, <1>7, <1>8, <1>9 DEF WatchTyped

(* What kubectl writes first: every covered pod as it stands, once.        *)
LEMMA ListingIs ==
  ASSUME WatchTyped, NEW s \in specs(dep)
  PROVE  /\ Listing(s) \in Seq(Docs(s))
         /\ \A o \in dep.objects : s \in StreamsOf("pods", o) /\ cluster[o] # Gone =>
                LastIn(Listing(s), DocsNow(o), DocsOf(o))
<1>1. CASE s[1] = "pods"
  <2> DEFINE here == {x \in dep.objects : Covers(s, x) /\ cluster[x] # Gone}
             docs == {PodDoc(o, cluster[o], "ADDED") : o \in here}
             write == [o \in here |-> PodDoc(o, cluster[o], "ADDED")]
  <2>1. dep.objects \subseteq Pods /\ IsFiniteSet(dep.objects)
    BY SensoriumAssumption DEF WatchTyped
  <2>2. IsFiniteSet(here)
    BY <2>1, FS_Subset
  <2>3. write \in Surjection(here, docs)
    BY DEF Surjection
  <2>4. IsFiniteSet(docs)
    <3> HIDE DEF here, docs, write
    <3> QED
      BY <2>2, <2>3, FS_Surjection
  <2>5. ASSUME NEW o \in here
        PROVE  PodDoc(o, cluster[o], "ADDED") \in Docs(s) /\ PodDoc(o, cluster[o], "ADDED") \in DocsNow(o)
    <3>1. PICK p \in PodStates : p = cluster[o]
      BY <2>1 DEF WatchTyped
    <3>2. [object |-> o, body |-> p, type |-> "ADDED"] \in PodDocs
      BY <2>1 DEF PodDocs, Kinds
    <3>3. QED
      BY <1>1, <3>1, <3>2 DEF PodDoc, Docs, DocsNow, DocsOf
  <2>6. docs \subseteq Docs(s)
    BY <2>5
  <2>7. Listing(s) = SetToSeq(docs)
    BY <1>1 DEF Listing
  <2>8. /\ SetToSeq(docs) \in Seq(docs)
        /\ \A x \in docs : \E i \in 1 .. Len(SetToSeq(docs)) : SetToSeq(docs)[i] = x
        /\ \A i, j \in 1 .. Len(SetToSeq(docs)) : SetToSeq(docs)[i] = SetToSeq(docs)[j] => i = j
    <3> HIDE DEF docs
    <3> QED
      BY <2>4, SetToSeqIs
  <2>9. PICK l : l = SetToSeq(docs)
    OBVIOUS
  <2>10. l \in Seq(docs) /\ l \in Seq(Docs(s))
    <3> HIDE DEF docs
    <3> QED
      BY <2>6, <2>8, <2>9
  <2>11. ASSUME NEW o \in dep.objects, s \in StreamsOf("pods", o), cluster[o] # Gone
         PROVE  LastIn(l, DocsNow(o), DocsOf(o))
    <3>1. o \in here
      BY <2>11 DEF StreamsOf
    <3>2. PICK i \in 1 .. Len(l) : l[i] = PodDoc(o, cluster[o], "ADDED")
      BY <2>8, <2>9, <3>1
    <3>3. \A x \in docs : x.object = o => x = PodDoc(o, cluster[o], "ADDED")
      BY DEF PodDoc
    <3>4. \A j \in 1 .. Len(l) : l[j] \in docs
      <4> HIDE DEF docs
      <4> QED
        BY <2>10
    <3>5. \A j \in 1 .. Len(l) : l[j] \in DocsOf(o) => l[j] = l[i]
      BY <3>2, <3>3, <3>4 DEF DocsOf
    <3>6. \A j \in 1 .. Len(l) : l[j] = l[i] => j = i
      <4> HIDE DEF docs
      <4> QED
        BY <2>8, <2>9
    <3>7. i <= i
      OBVIOUS
    <3>8. l[i] \in DocsNow(o)
      BY <2>5, <3>1, <3>2
    <3>9. QED
      BY <3>5, <3>6, <3>7, <3>8 DEF LastIn
  <2>12. QED
    BY <2>7, <2>9, <2>10, <2>11
<1>2. CASE s[1] # "pods"
  <2> DEFINE here == {x \in history : Covers(s, x.object)}
             docs == {EventDoc(e) : e \in here}
             write == [e \in here |-> EventDoc(e)]
  <2>1. IsFiniteSet(here)
    BY FS_Subset DEF WatchTyped
  <2>2. write \in Surjection(here, docs)
    BY DEF Surjection
  <2>3. IsFiniteSet(docs)
    <3> HIDE DEF here, docs, write
    <3> QED
      BY <2>1, <2>2, FS_Surjection
  <2>4. docs \subseteq Docs(s)
    BY <1>2 DEF WatchTyped, Happenings, EventDoc, EventDocs, Docs
  <2>5. Listing(s) = SetToSeq(docs)
    BY <1>2 DEF Listing
  <2>6. SetToSeq(docs) \in Seq(docs)
    <3> HIDE DEF docs
    <3> QED
      BY <2>3, SetToSeqIs
  <2>7. Listing(s) \in Seq(Docs(s))
    <3> HIDE DEF docs
    <3> QED
      BY <2>4, <2>5, <2>6
  <2>8. QED
    BY <1>2, <2>7 DEF StreamsOf
<1>3. QED
  BY <1>1, <1>2

-----------------------------------------------------------------------------
(* A document read becomes an observation of the same pod and status.      *)

LEMMA PodObservationIs ==
  ASSUME NEW d \in PodDocs
  PROVE  /\ podObservation(d) \in Observations
         /\ \A o : (podObservation(d) \in SeenOf(o) <=> d \in DocsOf(o))
         /\ \A o : d \in DocsNow(o) => podObservation(d) \in SeenNow(o)
         /\ \A n, o : d \in ClearingDocs(n, o) => podObservation(d) \in Clearing(n, o)
<1>1. PICK st \in StatusTexts : st = displayStatus(d.body)
  BY DEF PodDocs, StatusTexts
<1>2. podObservation(d) = [kind |-> "pod_status", object |-> d.object, status |-> st, type |-> d.type, lag |-> 0]
  BY <1>1 DEF podObservation
<1>3. PICK x : x = podObservation(d)
  OBVIOUS
<1>4. x \in Observations /\ x.kind = "pod_status" /\ x.object = d.object /\ x.status = st /\ x.type = d.type
  BY <1>2, <1>3 DEF PodDocs, Observations
<1>5. \A o : x \in SeenOf(o) <=> d \in DocsOf(o)
  BY <1>4 DEF SeenOf, DocsOf
<1>6. \A o : d \in DocsNow(o) => x \in SeenNow(o)
  BY <1>1, <1>4, <1>5 DEF SeenNow, DocsNow
<1>7. \A n, o : d \in ClearingDocs(n, o) => x \in Clearing(n, o)
  BY <1>1, <1>4, <1>5 DEF Clearing, ClearingDocs
<1>8. QED
  BY <1>3, <1>4, <1>5, <1>6, <1>7

LEMMA EventObservationIs ==
  ASSUME NEW d \in EventDocs
  PROVE  eventObservation(d) \in Observations /\ eventObservation(d).kind = "event"
  BY DEF eventObservation, EventDocs, Happenings, Observations, StatusTexts, Kinds

LEMMA ReadIs ==
  ASSUME WatchTyped, NEW s \in specs(dep), Read(s)
  PROVE  /\ pipe[s] # << >> /\ stream[s] \in ConnectedStates
         /\ pipe[s] \in Seq(Docs(s))
         /\ pipe' = [pipe EXCEPT ![s] = Tail(@)]
         /\ UNCHANGED <<dep, cluster, history, stream>>
         /\ \/ s[1] # "pods" /\ UNCHANGED <<queue, shed>>
            \/ \E x \in Observations :
                /\ queue' = enqueue(queue, x)
                /\ shed' = IF Len(queue) = QueueSize THEN shed + 1 ELSE shed
                /\ IF s[1] = "pods" THEN x = podObservation(Head(pipe[s])) ELSE x.kind = "event"
<1>1. /\ pipe[s] # << >> /\ stream[s] \in ConnectedStates
      /\ pipe[s] \in Seq(Docs(s))
      /\ pipe' = [pipe EXCEPT ![s] = Tail(@)]
      /\ UNCHANGED <<dep, cluster, history, stream>>
  BY DEF Read, WatchTyped
<1>2. PICK d \in Docs(s) : d = Head(pipe[s])
  BY <1>1
<1>3. PICK obs : obs = normalise(s, d)
  OBVIOUS
<1>4. IF obs = << >> THEN UNCHANGED <<queue, shed>>
      ELSE /\ queue' = enqueue(queue, obs[1])
           /\ shed' = IF Len(queue) = QueueSize THEN shed + 1 ELSE shed
  BY <1>2, <1>3 DEF Read
<1>5. CASE s[1] = "pods"
  <2>1. obs = <<podObservation(d)>>
    BY <1>3, <1>5 DEF normalise
  <2>2. obs # << >> /\ obs[1] = podObservation(d)
    BY <2>1
  <2>3. podObservation(d) \in Observations
    BY <1>2, <1>5, PodObservationIs DEF Docs
  <2>4. QED
    BY <1>1, <1>2, <1>4, <1>5, <2>2, <2>3
<1>6. CASE s[1] # "pods"
  <2>1. d \in EventDocs
    BY <1>2, <1>6 DEF Docs
  <2>2. obs = << >> \/ obs = <<eventObservation(d)>>
    BY <1>3, <1>6 DEF normalise
  <2>3. CASE obs = << >>
    BY <1>1, <1>4, <1>6, <2>3
  <2>4. CASE obs = <<eventObservation(d)>>
    <3>1. obs # << >> /\ obs[1] = eventObservation(d)
      BY <2>4
    <3>2. eventObservation(d) \in Observations /\ eventObservation(d).kind = "event"
      BY <2>1, EventObservationIs
    <3>3. QED
      BY <1>1, <1>4, <1>6, <3>1, <3>2
  <2>5. QED
    BY <2>2, <2>3, <2>4
<1>7. QED
  BY <1>5, <1>6

(* A queue that sheds nothing has the observation at its end.              *)
LEMMA EnqueueIs ==
  ASSUME WatchTyped, NEW x \in Observations
  PROVE  /\ enqueue(queue, x) \in Seq(Observations) /\ Len(enqueue(queue, x)) <= QueueSize
         /\ Len(queue) # QueueSize => enqueue(queue, x) = Append(queue, x)
<1>1. queue \in Seq(Observations) /\ Len(queue) <= QueueSize /\ QueueSize \in Nat \ {0} /\ Len(queue) \in Nat
  BY SensoriumAssumption DEF WatchTyped
<1>2. CASE Len(queue) < QueueSize
  <2>1. enqueue(queue, x) = Append(queue, x)
    BY <1>2 DEF enqueue
  <2>2. Append(queue, x) \in Seq(Observations) /\ Len(Append(queue, x)) = Len(queue) + 1
    BY <1>1, AppendEntries
  <2>3. Len(queue) + 1 <= QueueSize
    BY <1>1, <1>2
  <2>4. QED
    BY <2>1, <2>2, <2>3
<1>3. CASE ~(Len(queue) < QueueSize)
  <2>1. enqueue(queue, x) = Append(Tail(queue), x)
    BY <1>3 DEF enqueue
  <2>2. Len(queue) = QueueSize /\ queue # << >>
    BY <1>1, <1>3
  <2>3. Tail(queue) \in Seq(Observations) /\ Len(Tail(queue)) = Len(queue) - 1
    BY <1>1, <2>2, TailEntries
  <2>4. /\ Append(Tail(queue), x) \in Seq(Observations)
        /\ Len(Append(Tail(queue), x)) = Len(Tail(queue)) + 1
    BY <2>3, AppendEntries
  <2>5. Len(Append(Tail(queue), x)) <= QueueSize
    BY <1>1, <2>2, <2>3, <2>4
  <2>6. QED
    BY <2>1, <2>2, <2>4, <2>5
<1>4. QED
  BY <1>2, <1>3

LEMMA WatchStepTyped ==
  ASSUME WatchTyped, NEW s \in specs(dep), Connect(s) \/ Close(s) \/ Read(s) \/ Lose(s)
  PROVE  WatchTyped'
<1>1. CASE Connect(s)
  <2>1. UNCHANGED <<dep, cluster, history, queue, shed>>
    BY <1>1 DEF Connect
  <2>2. CASE dep.kubectl
    <3>1. stream' = [stream EXCEPT ![s] = "connected"] /\ pipe' = [pipe EXCEPT ![s] = Listing(s)]
      BY <1>1, <2>2 DEF Connect
    <3>2. Listing(s) \in Seq(Docs(s))
      BY ListingIs
    <3>3. stream' \in [specs(dep) -> StreamStates]
      BY <3>1 DEF WatchTyped, StreamStates
    <3>4. /\ pipe' = [t \in specs(dep) |-> pipe'[t]]
          /\ \A t \in specs(dep) : pipe'[t] \in Seq(Docs(t)) /\ (stream'[t] \notin ConnectedStates => pipe'[t] = << >>)
      BY <3>1, <3>2 DEF WatchTyped, ConnectedStates
    <3>5. QED
      BY <2>1, <3>3, <3>4 DEF WatchTyped
  <2>3. CASE ~dep.kubectl
    <3>1. stream' = [stream EXCEPT ![s] = "stopped"] /\ pipe' = pipe /\ stream[s] \in {"idle", "backoff"}
      BY <1>1, <2>3 DEF Connect
    <3>2. stream' \in [specs(dep) -> StreamStates]
      BY <3>1 DEF WatchTyped, StreamStates
    <3>3. \A t \in specs(dep) : stream'[t] \notin ConnectedStates => stream[t] \notin ConnectedStates
      BY <3>1 DEF WatchTyped, ConnectedStates
    <3>4. QED
      BY <2>1, <3>1, <3>2, <3>3 DEF WatchTyped
  <2>4. QED
    BY <2>2, <2>3
<1>2. CASE Close(s)
  <2>1. /\ stream' = [stream EXCEPT ![s] = "backoff"] /\ pipe[s] = << >>
        /\ UNCHANGED <<dep, cluster, history, pipe, queue, shed>>
    BY <1>2 DEF Close
  <2>2. stream' \in [specs(dep) -> StreamStates]
    BY <2>1 DEF WatchTyped, StreamStates
  <2>3. \A t \in specs(dep) : stream'[t] \notin ConnectedStates => pipe[t] = << >>
    BY <2>1 DEF WatchTyped
  <2>4. QED
    BY <2>1, <2>2, <2>3 DEF WatchTyped
<1>3. CASE Lose(s)
  <2>1. /\ stream' = [stream EXCEPT ![s] = "draining"] /\ stream[s] = "connected"
        /\ UNCHANGED <<dep, cluster, history, pipe, queue, shed>>
    BY <1>3 DEF Lose
  <2>2. stream' \in [specs(dep) -> StreamStates]
    BY <2>1 DEF WatchTyped, StreamStates
  <2>3. \A t \in specs(dep) : stream'[t] \notin ConnectedStates => stream[t] \notin ConnectedStates
    BY <2>1 DEF WatchTyped, ConnectedStates
  <2>4. QED
    BY <2>1, <2>2, <2>3 DEF WatchTyped
<1>4. CASE Read(s)
  <2>1. /\ pipe[s] # << >> /\ stream[s] \in ConnectedStates /\ pipe[s] \in Seq(Docs(s))
        /\ pipe' = [pipe EXCEPT ![s] = Tail(@)] /\ UNCHANGED <<dep, cluster, history, stream>>
    BY <1>4, ReadIs
  <2>2. Tail(pipe[s]) \in Seq(Docs(s))
    BY <2>1, TailEntries
  <2>3. /\ pipe' = [t \in specs(dep) |-> pipe'[t]]
        /\ \A t \in specs(dep) : pipe'[t] \in Seq(Docs(t)) /\ (stream'[t] \notin ConnectedStates => pipe'[t] = << >>)
    BY <2>1, <2>2 DEF WatchTyped
  <2>4. queue' \in Seq(Observations) /\ Len(queue') <= QueueSize /\ shed' \in Nat
    <3>1. CASE UNCHANGED <<queue, shed>>
      BY <3>1 DEF WatchTyped
    <3>2. CASE \E x \in Observations : /\ queue' = enqueue(queue, x)
                                       /\ shed' = IF Len(queue) = QueueSize THEN shed + 1 ELSE shed
      BY <3>2, EnqueueIs DEF WatchTyped
    <3>3. QED
      BY <1>4, <3>1, <3>2, ReadIs
  <2>5. QED
    BY <2>1, <2>3, <2>4 DEF WatchTyped
<1>5. QED
  BY <1>1, <1>2, <1>3, <1>4

LEMMA WatchInitially == SensoriumInit => WatchTyped
<1> SUFFICES ASSUME SensoriumInit
             PROVE  WatchTyped
  OBVIOUS
<1>1. dep \in Deployments /\ dep.objects \subseteq Pods /\ IsFiniteSet(dep.objects) /\ IsFiniteSet(EventReasons)
  BY SensoriumAssumption DEF SensoriumInit
<1> DEFINE old == {[object |-> o, reason |-> r, age |-> "before"] : o \in dep.objects, r \in EventReasons}
           pairs == dep.objects \X EventReasons
           age == [k \in pairs |-> [object |-> k[1], reason |-> k[2], age |-> "before"]]
<1>2. IsFiniteSet(pairs)
  BY <1>1, FS_Product
<1>3. age \in Surjection(pairs, old)
  <2>1. age \in [pairs -> old]
    OBVIOUS
  <2>2. ASSUME NEW e \in old
        PROVE  \E k \in pairs : age[k] = e
    <3>1. PICK o \in dep.objects, r \in EventReasons : e = [object |-> o, reason |-> r, age |-> "before"]
      BY <2>2
    <3>2. <<o, r>> \in pairs /\ age[<<o, r>>] = e
      BY <3>1
    <3>3. QED
      BY <3>2
  <2>3. QED
    <3> HIDE DEF pairs, old, age
    <3> QED
      BY <2>1, <2>2 DEF Surjection
<1>4. IsFiniteSet(old)
  <2> HIDE DEF pairs, age, old
  <2> QED
    BY <1>2, <1>3, FS_Surjection
<1>5. old \subseteq Happenings
  BY <1>1 DEF Happenings
<1>6. history \subseteq Happenings /\ IsFiniteSet(history)
  <2>1. history = {} \/ history = old
    BY DEF SensoriumInit
  <2>2. QED
    BY <1>4, <1>5, <2>1, FS_EmptySet
<1>7. \A e, S : e = << >> => e \in Seq(S) /\ Len(e) = 0
  OBVIOUS
<1>8. queue \in Seq(Observations) /\ Len(queue) <= QueueSize
  BY <1>7, SensoriumAssumption DEF SensoriumInit
<1>9. /\ pipe = [s \in specs(dep) |-> pipe[s]]
      /\ \A s \in specs(dep) : pipe[s] = << >> /\ pipe[s] \in Seq(Docs(s))
  BY <1>7 DEF SensoriumInit
<1>10. stream \in [specs(dep) -> StreamStates]
  BY DEF SensoriumInit, StreamStates
<1>11. QED
  BY <1>1, <1>6, <1>8, <1>9, <1>10 DEF SensoriumInit, WatchTyped

-----------------------------------------------------------------------------
(* What an observation and the clock do to the keys. *)

LEMMA ArmIs ==
  ASSUME NEW ks, KeysTyped(ks), NEW n, NEW obs \in Observations
  PROVE  /\ Arm(ks, n, obs) \in KeyStates
         /\ Arm(ks, n, obs).fired = (HasKey(ks, n, obs.object) /\ ks[Key(n, obs.object)].fired)
<1>1. PICK lag \in Nat : lag = obs.lag
  BY DEF Observations
<1>2. PICK said \in {"withheld", "message", "status"} : said = summarise(obs)
  BY DEF summarise
<1>3. CASE HasKey(ks, n, obs.object)
  <2>1. PICK st \in KeyStates : st = ks[Key(n, obs.object)]
    BY <1>3 DEF KeysTyped, HasKey
  <2>2. Arm(ks, n, obs) = [st EXCEPT !.quiet = lag]
    BY <1>1, <1>3, <2>1 DEF Arm
  <2>3. [st EXCEPT !.quiet = lag] \in KeyStates /\ [st EXCEPT !.quiet = lag].fired = st.fired /\ st.fired \in BOOLEAN
    BY DEF KeyStates
  <2>4. Arm(ks, n, obs) \in KeyStates /\ Arm(ks, n, obs).fired = st.fired
    BY <2>2, <2>3
  <2>5. st.fired = (HasKey(ks, n, obs.object) /\ st.fired)
    BY <1>3, <2>3
  <2>6. QED
    BY <2>1, <2>4, <2>5
<1>4. CASE ~HasKey(ks, n, obs.object)
  <2>1. Arm(ks, n, obs) = [armed |-> lag, quiet |-> lag, fired |-> FALSE, evidence |-> said]
    BY <1>1, <1>2, <1>4 DEF Arm
  <2>2. Arm(ks, n, obs) \in KeyStates /\ Arm(ks, n, obs).fired = FALSE
    BY <2>1 DEF KeyStates
  <2>3. (HasKey(ks, n, obs.object) /\ ks[Key(n, obs.object)].fired) = FALSE
    BY <1>4
  <2>4. QED
    BY <2>2, <2>3
<1>5. QED
  BY <1>3, <1>4

LEMMA AdvanceIs ==
  ASSUME NEW ks, KeysTyped(ks), NEW n, NEW obs \in Observations, NEW k, k = Key(n, obs.object)
  PROVE  /\ ~Proof(obs) /\ matches(n, obs) =>
                k \in DOMAIN advance(ks, n, obs) /\ advance(ks, n, obs)[k] = Arm(ks, n, obs)
         /\ ~(~Proof(obs) /\ matches(n, obs)) /\ obs.kind = "pod_status" /\ hasStatusKind(n) =>
                k \notin DOMAIN advance(ks, n, obs)
         /\ ~(~Proof(obs) /\ matches(n, obs)) /\ ~(obs.kind = "pod_status" /\ hasStatusKind(n)) =>
                advance(ks, n, obs) = ks
         /\ k \in DOMAIN advance(ks, n, obs) => advance(ks, n, obs)[k] \in KeyStates
<1>1. CASE ~Proof(obs) /\ matches(n, obs)
  <2>1. advance(ks, n, obs) = SetKey(ks, k, Arm(ks, n, obs))
    BY <1>1 DEF advance
  <2>2. k \in DOMAIN advance(ks, n, obs) /\ advance(ks, n, obs)[k] = Arm(ks, n, obs)
    BY <2>1 DEF SetKey
  <2>3. QED
    BY <1>1, <2>2, ArmIs
<1>2. CASE ~(~Proof(obs) /\ matches(n, obs)) /\ obs.kind = "pod_status" /\ hasStatusKind(n)
  <2>1. advance(ks, n, obs) = DropKeys(ks, {k})
    BY <1>2 DEF advance
  <2>2. k \notin DOMAIN advance(ks, n, obs)
    BY <2>1 DEF DropKeys
  <2>3. QED
    BY <1>2, <2>2
<1>3. CASE ~(~Proof(obs) /\ matches(n, obs)) /\ ~(obs.kind = "pod_status" /\ hasStatusKind(n))
  <2>1. advance(ks, n, obs) = ks
    BY <1>3 DEF advance
  <2>2. QED
    BY <1>3, <2>1 DEF KeysTyped
<1>4. QED
  BY <1>1, <1>2, <1>3

(* One pass: the key of a detector that shares its name with no other of   *)
(* the pass is advanced by it, and the keys of other names are left alone. *)
LEMMA AdvanceAllIs ==
  ASSUME NEW ks, KeysTyped(ks), NEW ns, NEW obs \in Observations
  PROVE  LET r == AdvanceAll(ks, ns, obs)
         IN  /\ KeysTyped(r)
             /\ \A n \in ns : (\A m \in ns : Playbook[m] = Playbook[n] => m = n) =>
                    /\ HasKey(r, n, obs.object) <=> HasKey(advance(ks, n, obs), n, obs.object)
                    /\ HasKey(r, n, obs.object) => r[Key(n, obs.object)] = advance(ks, n, obs)[Key(n, obs.object)]
             /\ \A k : (\A m \in ns : k # Key(m, obs.object)) =>
                    (k \in DOMAIN r <=> k \in DOMAIN ks) /\ (k \in DOMAIN r => r[k] = ks[k])
<1> DEFINE own == {Key(n, obs.object) : n \in ns}
           moved(k) == advance(ks, Bearer(ns, k[1]), obs)
           kept == {k \in own : k \in DOMAIN moved(k)}
           dom == (DOMAIN ks \ own) \cup kept
           r == AdvanceAll(ks, ns, obs)
<1>1. r = [k \in dom |-> IF k \in own THEN moved(k)[k] ELSE ks[k]]
  BY DEF AdvanceAll
<1>2. \A k \in own : Bearer(ns, k[1]) \in ns /\ k = Key(Bearer(ns, k[1]), obs.object)
  <2> TAKE k \in own
  <2>1. PICK n \in ns : k = <<Playbook[n], obs.object>>
    BY DEF Key
  <2>2. Bearer(ns, k[1]) \in ns /\ Playbook[Bearer(ns, k[1])] = k[1]
    BY <2>1 DEF Bearer
  <2>3. QED
    BY <2>1, <2>2 DEF Key
<1>3. \A n \in ns : Key(n, obs.object) \in own
  OBVIOUS
<1>4. \A k \in own : \E n \in ns : k = Key(n, obs.object)
  OBVIOUS
<1>5. DOMAIN r = dom /\ r = [k \in DOMAIN r |-> r[k]]
  BY <1>1
<1>6. \A k \in dom : r[k] = IF k \in own THEN moved(k)[k] ELSE ks[k]
  BY <1>1
<1>7. \A k \in own : k \in dom <=> k \in DOMAIN moved(k)
  OBVIOUS
<1>8. \A k : k \notin own => (k \in dom <=> k \in DOMAIN ks)
  OBVIOUS
<1> HIDE DEF own, kept, dom, r, moved
<1>9. \A k \in own : k \in DOMAIN moved(k) => moved(k)[k] \in KeyStates
  <2> TAKE k \in own
  <2>1. PICK n : n = Bearer(ns, k[1]) /\ k = Key(n, obs.object) /\ moved(k) = advance(ks, n, obs)
    BY <1>2 DEF moved
  <2>2. QED
    BY <2>1, AdvanceIs
<1>10. KeysTyped(r)
  <2>1. ASSUME NEW k \in DOMAIN r
        PROVE  r[k] \in KeyStates
    <3>1. CASE k \in own
      BY <1>5, <1>6, <1>7, <1>9, <3>1
    <3>2. CASE k \notin own
      BY <1>5, <1>6, <1>8, <3>2 DEF KeysTyped
    <3>3. QED
      BY <3>1, <3>2
  <2>2. QED
    BY <1>5, <2>1 DEF KeysTyped
<1>11. ASSUME NEW n \in ns, \A m \in ns : Playbook[m] = Playbook[n] => m = n
       PROVE  /\ HasKey(r, n, obs.object) <=> HasKey(advance(ks, n, obs), n, obs.object)
              /\ HasKey(r, n, obs.object) => r[Key(n, obs.object)] = advance(ks, n, obs)[Key(n, obs.object)]
  <2>1. PICK k : k = Key(n, obs.object) /\ k[1] = Playbook[n]
    <3>1. Key(n, obs.object)[1] = Playbook[n]
      BY DEF Key
    <3>2. QED
      BY <3>1
  <2>2. Bearer(ns, k[1]) = n
    <3>1. \E m \in ns : Playbook[m] = Playbook[n]
      BY <1>11
    <3>2. Bearer(ns, Playbook[n]) \in ns /\ Playbook[Bearer(ns, Playbook[n])] = Playbook[n]
      BY <3>1, Zenon DEF Bearer
    <3>3. QED
      BY <1>11, <2>1, <3>2
  <2>3. k \in own /\ moved(k) = advance(ks, n, obs)
    BY <1>3, <2>1, <2>2 DEF moved
  <2>4. QED
    BY <1>5, <1>6, <1>7, <2>1, <2>3 DEF HasKey
<1>12. ASSUME NEW k, \A m \in ns : k # Key(m, obs.object)
       PROVE  (k \in DOMAIN r <=> k \in DOMAIN ks) /\ (k \in DOMAIN r => r[k] = ks[k])
  <2>1. k \notin own
    BY <1>4, <1>12
  <2>2. QED
    BY <1>5, <1>6, <1>8, <2>1
<1>13. QED
  BY <1>10, <1>11, <1>12 DEF r

LEMMA FiredIs ==
  ASSUME NEW ks, KeysTyped(ks), NEW ns, NEW o
  PROVE  /\ DOMAIN Fired(ks, ns, o) = DOMAIN ks /\ KeysTyped(Fired(ks, ns, o))
         /\ \A k \in DOMAIN ks :
                /\ Fired(ks, ns, o)[k].fired = (ks[k].fired \/ k \in {Key(n, o) : n \in ns})
                /\ k \notin {Key(n, o) : n \in ns} => Fired(ks, ns, o)[k] = ks[k]
<1> DEFINE hit == {Key(n, o) : n \in ns}
<1>1. Fired(ks, ns, o) = [k \in DOMAIN ks |-> IF k \in hit THEN [ks[k] EXCEPT !.fired = TRUE] ELSE ks[k]]
  BY DEF Fired
<1>2. \A st \in KeyStates : /\ [st EXCEPT !.fired = TRUE] \in KeyStates /\ [st EXCEPT !.fired = TRUE].fired = TRUE
                            /\ st.fired \in BOOLEAN
  BY DEF KeyStates
<1> HIDE DEF hit
<1>3. ASSUME NEW k \in DOMAIN ks
      PROVE  /\ Fired(ks, ns, o)[k] \in KeyStates
             /\ Fired(ks, ns, o)[k].fired = (ks[k].fired \/ k \in hit)
             /\ k \notin hit => Fired(ks, ns, o)[k] = ks[k]
  <2>1. PICK st \in KeyStates : st = ks[k]
    BY DEF KeysTyped
  <2>2. Fired(ks, ns, o)[k] = IF k \in hit THEN [st EXCEPT !.fired = TRUE] ELSE st
    BY <1>1, <2>1
  <2>3. CASE k \in hit
    <3>1. Fired(ks, ns, o)[k] = [st EXCEPT !.fired = TRUE]
      BY <2>2, <2>3
    <3>2. (st.fired \/ k \in hit) = TRUE
      BY <2>3
    <3>3. Fired(ks, ns, o)[k] \in KeyStates /\ Fired(ks, ns, o)[k].fired = TRUE
      BY <1>2, <3>1
    <3>4. QED
      BY <2>1, <2>3, <3>2, <3>3
  <2>4. CASE k \notin hit
    <3>1. Fired(ks, ns, o)[k] = st
      BY <2>2, <2>4
    <3>2. st.fired = (st.fired \/ k \in hit)
      BY <1>2, <2>4
    <3>3. QED
      BY <2>1, <3>1, <3>2
  <2>5. QED
    BY <2>3, <2>4
<1>4. DOMAIN Fired(ks, ns, o) = DOMAIN ks /\ Fired(ks, ns, o) = [k \in DOMAIN Fired(ks, ns, o) |-> Fired(ks, ns, o)[k]]
  BY <1>1
<1>5. QED
  BY <1>3, <1>4 DEF KeysTyped, hit

LEMMA PassLeaves ==
  ASSUME NEW ks, KeysTyped(ks), NEW ns, NEW obs \in Observations
  PROVE  /\ KeysTyped(Pass(ks, ns, obs))
         /\ \A k : (\A m \in ns : k # Key(m, obs.object)) =>
                /\ k \in DOMAIN Pass(ks, ns, obs) <=> k \in DOMAIN ks
                /\ k \in DOMAIN ks => Pass(ks, ns, obs)[k] = ks[k]
<1>1. PICK r : r = AdvanceAll(ks, ns, obs)
  OBVIOUS
<1>2. PICK fires : fires = Firing(ks, ns, obs)
  OBVIOUS
<1>3. /\ KeysTyped(r)
      /\ \A k : (\A m \in ns : k # Key(m, obs.object)) =>
                    (k \in DOMAIN r <=> k \in DOMAIN ks) /\ (k \in DOMAIN r => r[k] = ks[k])
  BY <1>1, AdvanceAllIs
<1>4. Pass(ks, ns, obs) = Fired(r, fires, obs.object) /\ fires \subseteq ns
  BY <1>1, <1>2 DEF Pass, Firing
<1>5. /\ DOMAIN Pass(ks, ns, obs) = DOMAIN r /\ KeysTyped(Pass(ks, ns, obs))
      /\ \A k \in DOMAIN r : k \notin {Key(n, obs.object) : n \in fires} => Pass(ks, ns, obs)[k] = r[k]
  BY <1>3, <1>4, FiredIs
<1>6. ASSUME NEW k, \A m \in ns : k # Key(m, obs.object)
      PROVE  /\ k \in DOMAIN Pass(ks, ns, obs) <=> k \in DOMAIN ks
             /\ k \in DOMAIN ks => Pass(ks, ns, obs)[k] = ks[k]
  <2>1. k \notin {Key(n, obs.object) : n \in fires}
    BY <1>4, <1>6
  <2>2. QED
    BY <1>3, <1>5, <1>6, <2>1
<1>7. QED
  BY <1>5, <1>6

LEMMA WatchMatches ==
  ASSUME EngineTyped, NEW n \in BaseSet, NEW obs
  PROVE  /\ obs.kind = "pod_status" => (matches(n, obs) <=> Shows(n, obs.status))
         /\ Judges(n) => hasStatusKind(n)
<1>1. blocks[n] = BaseBlocks[n]
  BY DEF EngineTyped
<1>2. QED
  BY <1>1 DEF matches, Matches, BlockOf, Shows, Judges, hasStatusKind

(* The pass of the compiled detectors and the key of one of them on the    *)
(* pod the observation is about: an Event leaves it alone or sets it, a    *)
(* failing status sets it, one that shows the failure gone drops it, and a *)
(* key that fires is among the firing.                                     *)
LEMMA BasePass ==
  ASSUME EngineTyped, NEW obs \in Observations, NEW n \in BaseSet, NEW o \in Pods
  PROVE  LET met == Pass(keys, BaseSet, obs)
         IN  /\ HasKey(keys, n, o) /\ obs \notin SeenOf(o) => HasKey(met, n, o)
             /\ obs \in SeenOf(o) /\ obs.type # "DELETED" /\ Shows(n, obs.status) => HasKey(met, n, o)
             /\ obs \in Clearing(n, o) /\ Judges(n) => ~HasKey(met, n, o)
             /\ HasKey(met, n, o) /\ met[Key(n, o)].fired =>
                    \/ n \in Firing(keys, BaseSet, obs) /\ o = obs.object
                    \/ HasKey(keys, n, o) /\ keys[Key(n, o)].fired
<1>1. PICK met : met = Pass(keys, BaseSet, obs)
  OBVIOUS
<1>2. PICK now : now = AdvanceAll(keys, BaseSet, obs)
  OBVIOUS
<1>3. PICK fires : fires = Firing(keys, BaseSet, obs)
  OBVIOUS
<1>4. KeysTyped(keys) /\ fires \subseteq BaseSet
  BY <1>3 DEF EngineTyped, Firing
<1>5. \A m \in BaseSet : Playbook[m] = Playbook[n] => m = n
  BY EngineAssumption
<1>6. /\ KeysTyped(now)
      /\ HasKey(now, n, obs.object) <=> HasKey(advance(keys, n, obs), n, obs.object)
      /\ HasKey(now, n, obs.object) => now[Key(n, obs.object)] = advance(keys, n, obs)[Key(n, obs.object)]
  BY <1>2, <1>4, <1>5, AdvanceAllIs
<1>7. /\ DOMAIN met = DOMAIN now
      /\ \A k \in DOMAIN now : met[k].fired = (now[k].fired \/ k \in {Key(m, obs.object) : m \in fires})
  <2>1. met = Fired(now, fires, obs.object)
    BY <1>1, <1>2, <1>3 DEF Pass
  <2>2. QED
    BY <1>6, <2>1, FiredIs
<1>8. CASE o # obs.object
  <2>1. \A m \in BaseSet : Key(n, o) # Key(m, obs.object)
    BY <1>8 DEF Key
  <2>2. /\ Key(n, o) \in DOMAIN met <=> Key(n, o) \in DOMAIN keys
        /\ Key(n, o) \in DOMAIN keys => met[Key(n, o)] = keys[Key(n, o)]
    BY <1>1, <1>4, <2>1, PassLeaves
  <2>3. obs \notin SeenOf(o) /\ obs \notin Clearing(n, o)
    BY <1>8 DEF SeenOf, Clearing
  <2>4. QED
    BY <1>1, <2>2, <2>3 DEF HasKey
<1>9. CASE o = obs.object
  <2>1. PICK k : k = Key(n, obs.object)
    OBVIOUS
  <2>2. (HasKey(met, n, o) <=> k \in DOMAIN advance(keys, n, obs)) /\ (HasKey(keys, n, o) <=> k \in DOMAIN keys)
    BY <1>6, <1>7, <1>9, <2>1 DEF HasKey
  <2>3. k \in {Key(m, obs.object) : m \in fires} => n \in fires
    <3>1. \A m \in fires : k = Key(m, obs.object) => m = n
      BY <1>4, <1>5, <2>1 DEF Key
    <3>2. QED
      BY <3>1
  <2>4. k \in DOMAIN advance(keys, n, obs) /\ met[k].fired => advance(keys, n, obs)[k].fired \/ n \in fires
    BY <1>6, <1>7, <2>1, <2>3 DEF HasKey
  <2>5. /\ obs.kind = "pod_status" => (matches(n, obs) <=> Shows(n, obs.status))
        /\ Judges(n) => hasStatusKind(n)
    BY WatchMatches
  <2>6. CASE ~Proof(obs) /\ matches(n, obs)
    <3>1. k \in DOMAIN advance(keys, n, obs) /\ advance(keys, n, obs)[k] = Arm(keys, n, obs)
      BY <1>4, <2>1, <2>6, AdvanceIs
    <3>2. Arm(keys, n, obs).fired = (HasKey(keys, n, obs.object) /\ keys[Key(n, obs.object)].fired)
      BY <1>4, ArmIs
    <3>3. obs \notin Clearing(n, o)
      BY <2>5, <2>6 DEF Clearing, SeenOf, Proof
    <3>4. met[k].fired => n \in fires \/ (HasKey(keys, n, o) /\ keys[k].fired)
      BY <1>9, <2>1, <2>4, <3>1, <3>2
    <3>5. QED
      BY <1>1, <1>3, <1>9, <2>1, <2>2, <3>1, <3>3, <3>4
  <2>7. CASE ~(~Proof(obs) /\ matches(n, obs)) /\ obs.kind = "pod_status" /\ hasStatusKind(n)
    <3>1. k \notin DOMAIN advance(keys, n, obs)
      BY <1>4, <2>1, <2>7, AdvanceIs
    <3>2. obs \in SeenOf(o)
      BY <1>9, <2>7 DEF SeenOf
    <3>3. ~(obs.type # "DELETED" /\ Shows(n, obs.status))
      BY <2>5, <2>7 DEF Proof
    <3>4. QED
      BY <1>1, <2>2, <3>1, <3>2, <3>3
  <2>8. CASE ~(~Proof(obs) /\ matches(n, obs)) /\ ~(obs.kind = "pod_status" /\ hasStatusKind(n))
    <3>1. advance(keys, n, obs) = keys
      BY <1>4, <2>1, <2>8, AdvanceIs
    <3>2. ~(obs \in SeenOf(o) /\ obs.type # "DELETED" /\ Shows(n, obs.status))
      BY <2>5, <2>8 DEF Proof, SeenOf
    <3>3. ~(obs \in Clearing(n, o) /\ Judges(n))
      BY <2>5, <2>8 DEF Clearing, SeenOf
    <3>4. HasKey(met, n, o) /\ met[k].fired => keys[k].fired \/ n \in fires
      BY <2>2, <2>4, <3>1
    <3>5. QED
      BY <1>1, <1>3, <1>9, <2>1, <2>2, <3>1, <3>2, <3>3, <3>4
  <2>9. QED
    BY <2>6, <2>7, <2>8
<1>10. QED
  BY <1>8, <1>9

(* One observation and the key of a base detector that shares its name     *)
(* with no promoted one: the pass of the stored ones leaves it alone.      *)
LEMMA ConsumeKeys ==
  ASSUME StoreInv, WatchTyped, EngineTyped, Consume
  PROVE  LET obs == Head(queue)
         IN  /\ queue # << >> /\ obs \in Observations /\ queue' = Tail(queue) /\ reported \subseteq reported'
             /\ KeysTyped(keys')
             /\ \A n \in Named, o \in Pods :
                    /\ HasKey(keys, n, o) /\ obs \notin SeenOf(o) => HasKey(keys', n, o)
                    /\ obs \in SeenOf(o) /\ obs.type # "DELETED" /\ Shows(n, obs.status) => HasKey(keys', n, o)
                    /\ obs \in Clearing(n, o) /\ Judges(n) => ~HasKey(keys', n, o)
                    /\ HasKey(keys', n, o) /\ keys'[Key(n, o)].fired =>
                           \/ <<n, o>> \in reported'
                           \/ HasKey(keys, n, o) /\ keys[Key(n, o)].fired
<1>1. PICK obs \in Observations : obs = Head(queue)
  BY DEF Consume, WatchTyped
<1>2. queue # << >> /\ queue' = Tail(queue)
  BY DEF Consume
<1>3. PICK stored : stored = ToSet(loaded.active) \ BaseSet
  OBVIOUS
<1>4. PICK met : met = Pass(keys, BaseSet, obs)
  OBVIOUS
<1>5. keys' = Pass(met, stored, obs) /\ reported' = reported \cup (Firing(keys, BaseSet, obs) \X {obs.object})
  BY <1>1, <1>3, <1>4 DEF Consume, Process, WithReports
<1>6. KeysTyped(met)
  BY <1>1, <1>4, PassLeaves DEF EngineTyped
<1>7. KeysTyped(keys')
  BY <1>1, <1>5, <1>6, PassLeaves
<1>8. ASSUME NEW n \in Named, NEW o \in Pods
      PROVE  /\ HasKey(keys, n, o) /\ obs \notin SeenOf(o) => HasKey(keys', n, o)
             /\ obs \in SeenOf(o) /\ obs.type # "DELETED" /\ Shows(n, obs.status) => HasKey(keys', n, o)
             /\ obs \in Clearing(n, o) /\ Judges(n) => ~HasKey(keys', n, o)
             /\ HasKey(keys', n, o) /\ keys'[Key(n, o)].fired =>
                    <<n, o>> \in reported' \/ (HasKey(keys, n, o) /\ keys[Key(n, o)].fired)
  <2>1. n \in BaseSet /\ \A m \in approved : Playbook[m] # Playbook[n]
    BY DEF Named, NameIsItsOwn
  <2>2. stored \subseteq approved
    BY <1>3 DEF StoreInv, Promoted
  <2>3. \A m \in stored : Key(n, o) # Key(m, obs.object)
    BY <2>1, <2>2 DEF Key
  <2>4. /\ HasKey(keys', n, o) <=> HasKey(met, n, o)
        /\ HasKey(met, n, o) => keys'[Key(n, o)] = met[Key(n, o)]
    BY <1>5, <1>6, <2>3, PassLeaves DEF HasKey
  <2>5. /\ HasKey(keys, n, o) /\ obs \notin SeenOf(o) => HasKey(met, n, o)
        /\ obs \in SeenOf(o) /\ obs.type # "DELETED" /\ Shows(n, obs.status) => HasKey(met, n, o)
        /\ obs \in Clearing(n, o) /\ Judges(n) => ~HasKey(met, n, o)
        /\ HasKey(met, n, o) /\ met[Key(n, o)].fired =>
               \/ n \in Firing(keys, BaseSet, obs) /\ o = obs.object
               \/ HasKey(keys, n, o) /\ keys[Key(n, o)].fired
    BY <1>4, <2>1, BasePass
  <2>6. n \in Firing(keys, BaseSet, obs) /\ o = obs.object => <<n, o>> \in reported'
    BY <1>5
  <2>7. QED
    BY <2>4, <2>5, <2>6
<1>9. reported \subseteq reported'
  BY <1>5
<1>10. QED
  BY <1>1, <1>2, <1>7, <1>8, <1>9

(* The tick forgets a key of a base detector only when it has fired, and   *)
(* fires one only as it reports it.                                        *)
LEMMA TickKeys ==
  ASSUME EngineTyped, EngineTick
  PROVE  /\ reported \subseteq reported'
         /\ KeysTyped(keys')
         /\ \A n \in BaseSet, o \in Pods :
                /\ HasKey(keys, n, o) => HasKey(keys', n, o) \/ keys[Key(n, o)].fired
                /\ HasKey(keys', n, o) => HasKey(keys, n, o)
                /\ HasKey(keys', n, o) /\ keys'[Key(n, o)].fired => <<n, o>> \in reported' \/ keys[Key(n, o)].fired
<1> DEFINE due == DueKeys(keys, loaded.active)
           old == {k \in DOMAIN keys : Expired(keys, k)}
           gone == Orphans(keys, loaded.active) \cup old
           fire == FireDue(keys, due)
<1>1. /\ keys' = DropKeys(fire, gone)
      /\ reported' = reported \cup {k \in BaseSet \X Pods : Key(k[1], k[2]) \in due}
  BY DEF EngineTick, Tick, WithReports
<1>2. BaseSet \subseteq ToSet(loaded.active)
  BY DEF EngineTyped
<1>3. \A st \in KeyStates : [st EXCEPT !.fired = TRUE] \in KeyStates
  BY DEF KeyStates
<1>4. fire = [k \in DOMAIN keys |-> IF k \in due THEN [keys[k] EXCEPT !.fired = TRUE] ELSE keys[k]]
  BY DEF FireDue
<1>5. /\ DOMAIN fire = DOMAIN keys
      /\ \A k \in DOMAIN keys : fire[k] \in KeyStates /\ (k \notin due => fire[k] = keys[k])
  <2> HIDE DEF fire, due
  <2> QED
    BY <1>3, <1>4 DEF EngineTyped, KeysTyped
<1>6. \A n \in BaseSet, o \in Pods : Key(n, o) \in gone => keys[Key(n, o)].fired
  <2> TAKE n \in BaseSet, o \in Pods
  <2>1. PICK i \in DOMAIN loaded.active : loaded.active[i] = n
    BY <1>2 DEF ToSet
  <2>2. Key(n, o)[1] = Playbook[n]
    BY DEF Key
  <2>3. Key(n, o) \notin Orphans(keys, loaded.active)
    BY <2>1, <2>2 DEF Orphans, Bears
  <2>4. QED
    BY <2>3 DEF Expired
<1>7. \A n \in BaseSet, o \in Pods : Key(n, o) \in due => <<n, o>> \in reported'
  <2> TAKE n \in BaseSet, o \in Pods
  <2>1. <<n, o>> \in BaseSet \X Pods /\ <<n, o>>[1] = n /\ <<n, o>>[2] = o
    OBVIOUS
  <2>2. QED
    BY <1>1, <2>1
<1> HIDE DEF fire, gone, due
<1>8. keys' = [k \in DOMAIN keys \ gone |-> fire[k]]
  BY <1>1, <1>5 DEF DropKeys
<1>9. /\ KeysTyped(keys') /\ DOMAIN keys' = DOMAIN keys \ gone
      /\ \A k \in DOMAIN keys' : k \notin due => keys'[k] = keys[k]
  BY <1>5, <1>8 DEF KeysTyped
<1>10. ASSUME NEW n \in BaseSet, NEW o \in Pods
       PROVE  /\ HasKey(keys, n, o) => HasKey(keys', n, o) \/ keys[Key(n, o)].fired
              /\ HasKey(keys', n, o) => HasKey(keys, n, o)
              /\ HasKey(keys', n, o) /\ keys'[Key(n, o)].fired => <<n, o>> \in reported' \/ keys[Key(n, o)].fired
  <2>1. HasKey(keys, n, o) => HasKey(keys', n, o) \/ keys[Key(n, o)].fired
    BY <1>6, <1>9 DEF HasKey
  <2>2. HasKey(keys', n, o) => HasKey(keys, n, o)
    BY <1>9 DEF HasKey
  <2>3. HasKey(keys', n, o) /\ keys'[Key(n, o)].fired => <<n, o>> \in reported' \/ keys[Key(n, o)].fired
    BY <1>7, <1>9 DEF HasKey
  <2>4. QED
    BY <2>1, <2>2, <2>3
<1>11. QED
  BY <1>1, <1>9, <1>10

LEMMA AgedKeys ==
  ASSUME EngineTyped
  PROVE  /\ KeysTyped(Aged(keys)) /\ DOMAIN Aged(keys) = DOMAIN keys
         /\ \A k \in DOMAIN keys : Aged(keys)[k].fired = keys[k].fired
<1>1. Aged(keys) = [k \in DOMAIN keys |-> [keys[k] EXCEPT !.armed = Cap(@ + 1), !.quiet = Cap(@ + 1)]]
  BY DEF Aged
<1>2. \A a \in Nat : Cap(a + 1) \in Nat
  BY EngineAssumption, SensoriumAssumption DEF Cap, AgeCap
<1>3. ASSUME NEW k \in DOMAIN keys
      PROVE  Aged(keys)[k] \in KeyStates /\ Aged(keys)[k].fired = keys[k].fired
  <2>1. PICK st \in KeyStates : st = keys[k]
    BY DEF EngineTyped, KeysTyped
  <2>2. st.armed \in Nat /\ st.quiet \in Nat
    BY DEF KeyStates
  <2>3. PICK a \in Nat, b \in Nat : a = Cap(st.armed + 1) /\ b = Cap(st.quiet + 1)
    BY <1>2, <2>2
  <2>4. Aged(keys)[k] = [st EXCEPT !.armed = a, !.quiet = b]
    BY <1>1, <2>1, <2>3
  <2>5. [st EXCEPT !.armed = a, !.quiet = b] \in KeyStates /\ [st EXCEPT !.armed = a, !.quiet = b].fired = st.fired
    BY DEF KeyStates
  <2>6. QED
    BY <2>1, <2>4, <2>5
<1>4. DOMAIN Aged(keys) = DOMAIN keys /\ Aged(keys) = [k \in DOMAIN Aged(keys) |-> Aged(keys)[k]]
  BY <1>1
<1>5. QED
  BY <1>3, <1>4 DEF KeysTyped

-----------------------------------------------------------------------------
(* Nothing is missed, step by step. *)

LEMMA GoodAreMine ==
  ASSUME NEW n, NEW o
  PROVE  /\ DocsNow(o) \subseteq DocsOf(o) /\ SeenNow(o) \subseteq SeenOf(o)
         /\ Clearing(n, o) \subseteq SeenOf(o) /\ ClearingDocs(n, o) \subseteq DocsOf(o)
  BY DEF DocsNow, SeenNow, Clearing, ClearingDocs

(* The parts of ToldInv and FiredInv that a step must keep. *)
ToldOf(ns) == \A o \in dep.objects, n \in ns : \A s \in StreamsOf("pods", o) :
                stream[s] = "connected" /\ Failing(n, o) => Informed(n, o, s)
FiredOf(ns) == \A n \in ns, o \in Pods :
                Judges(n) /\ HasKey(keys, n, o) /\ keys[Key(n, o)].fired /\ <<n, o>> \notin reported => Clears(n, o)

LEMMA PodChangeTells ==
  ASSUME WatchTyped, NEW ns \in SUBSET BaseSet, ToldOf(ns), FiredOf(ns), NEW o \in dep.objects, NEW p \in PodStates \cup {Gone}, PodChanges(o, p),
         reported' = {k \in reported : cluster'[k[2]] = cluster[k[2]] \/ Failing(k[1], k[2])' \/ ~Watched(k[2])},
         UNCHANGED keys
  PROVE  ToldOf(ns)' /\ FiredOf(ns)'
<1>1. o \in Pods /\ cluster' = [cluster EXCEPT ![o] = p] /\ p # cluster[o] /\ cluster \in [Pods -> PodStates \cup {Gone}]
  BY PodChangeWrites DEF WatchTyped
<1>2. PICK doc \in DocsOf(o) :
        /\ Written("pods", o, doc)
        /\ \A s \in StreamsOf("pods", o) : doc \in Docs(s)
        /\ p # Gone => doc.body = p /\ doc.type # "DELETED"
        /\ p = Gone => doc.type = "DELETED"
  BY PodChangeWrites
<1>3. \A s \in specs(dep) :
        pipe'[s] = IF s \in StreamsOf("pods", o) /\ stream[s] = "connected" THEN Append(pipe[s], doc) ELSE pipe[s]
  BY <1>2, WrittenIs
<1>4. UNCHANGED <<dep, stream, queue, shed, keys>>
  BY DEF PodChanges
<1>5. \A s \in specs(dep) : pipe[s] \in Seq(Docs(s))
  BY DEF WatchTyped
<1>6. \A x : StreamsOf("pods", x)' = StreamsOf("pods", x) /\ StreamsOf("pods", x) \subseteq specs(dep)
  BY <1>4 DEF StreamsOf
<1>7. \A x \in Pods : x # o => doc \notin DocsOf(x) /\ cluster'[x] = cluster[x]
  BY <1>1, <1>2 DEF DocsOf
<1>8. dep.objects \subseteq Pods
  BY SensoriumAssumption DEF WatchTyped
<1>9. ASSUME NEW x \in dep.objects, NEW n \in ns, NEW s \in StreamsOf("pods", x), stream[s] = "connected",
             Failing(n, x)'
      PROVE  Informed(n, x, s)'
  <2>1. s \in specs(dep) /\ pipe[s] \in Seq(Docs(s))
    BY <1>5, <1>6
  <2>2. CASE x = o
    <3>1. pipe'[s] = Append(pipe[s], doc) /\ doc \in Docs(s)
      BY <1>2, <1>3, <1>9, <2>1, <2>2
    <3>2. doc \in DocsNow(o)'
      BY <1>1, <1>2, <1>9, <2>2 DEF Failing, DocsNow
    <3>3. LastIn(Append(pipe[s], doc), DocsNow(o)', DocsOf(o))
      BY <2>1, <3>1, <3>2, AppendLast
    <3>4. QED
      BY <2>2, <3>1, <3>3 DEF Informed, DocsOf
  <2>3. CASE x # o
    <3>1. cluster'[x] = cluster[x] /\ doc \notin DocsOf(x) /\ Failing(n, x)
      BY <1>7, <1>8, <1>9, <2>3 DEF Failing
    <3>2. Informed(n, x, s)
      BY <1>9, <3>1 DEF ToldOf
    <3>3. PICK now, mine : now = DocsNow(x) /\ mine = DocsOf(x)
      OBVIOUS
    <3>4. DocsNow(x)' = now /\ DocsOf(x)' = mine /\ SeenNow(x)' = SeenNow(x) /\ SeenOf(x)' = SeenOf(x)
      BY <3>1, <3>3 DEF DocsNow, DocsOf, SeenNow, SeenOf
    <3>5. /\ LastIn(pipe[s], now, mine) => LastIn(pipe'[s], now, mine)
          /\ NoneIn(pipe[s], mine) => NoneIn(pipe'[s], mine)
      <4>1. CASE s \in StreamsOf("pods", o)
        <5>1. pipe'[s] = Append(pipe[s], doc) /\ doc \in Docs(s) /\ doc \notin mine
          BY <1>2, <1>3, <1>9, <2>1, <3>1, <3>3, <4>1
        <5>2. /\ LastIn(pipe[s], now, mine) => LastIn(Append(pipe[s], doc), now, mine)
              /\ NoneIn(pipe[s], mine) => NoneIn(Append(pipe[s], doc), mine)
          BY <2>1, <5>1, AppendLast
        <5>3. QED
          BY <5>1, <5>2
      <4>2. CASE s \notin StreamsOf("pods", o)
        BY <1>3, <2>1, <4>2
      <4>3. QED
        BY <4>1, <4>2
    <3>6. <<n, x>> \in reported => <<n, x>> \in reported'
      BY <3>1
    <3>7. HasKey(keys, n, x) => HasKey(keys', n, x)
      BY <1>4
    <3>8. QED
      BY <1>4, <3>2, <3>3, <3>4, <3>5, <3>6, <3>7 DEF Informed
  <2>4. QED
    BY <2>2, <2>3
<1>10. ToldOf(ns)'
  BY <1>4, <1>6, <1>9 DEF ToldOf
<1>11. ASSUME NEW n \in ns, NEW x \in Pods, Judges(n), HasKey(keys, n, x), keys[Key(n, x)].fired, <<n, x>> \notin reported'
       PROVE  Clears(n, x)'
  <2>1. CASE <<n, x>> \notin reported
    <3>1. Clears(n, x)
      BY <1>11, <2>1 DEF FiredOf
    <3>2. ASSUME NEW s \in StreamsOf("pods", x), SomeIn(pipe[s], ClearingDocs(n, x))
          PROVE  SomeIn(pipe'[s], ClearingDocs(n, x))
      <4>1. s \in specs(dep) /\ pipe[s] \in Seq(Docs(s))
        BY <1>5, <1>6
      <4>2. CASE s \in StreamsOf("pods", o) /\ stream[s] = "connected"
        <5>1. pipe'[s] = Append(pipe[s], doc) /\ doc \in Docs(s)
          BY <1>2, <1>3, <4>1, <4>2
        <5>2. PICK c : c = ClearingDocs(n, x)
          OBVIOUS
        <5>3. SomeIn(Append(pipe[s], doc), c)
          BY <3>2, <4>1, <5>1, <5>2, AppendLast
        <5>4. QED
          BY <5>1, <5>2, <5>3
      <4>3. CASE ~(s \in StreamsOf("pods", o) /\ stream[s] = "connected")
        BY <1>3, <3>2, <4>1, <4>3
      <4>4. QED
        BY <4>2, <4>3
    <3>3. ClearingDocs(n, x)' = ClearingDocs(n, x) /\ Clearing(n, x)' = Clearing(n, x)
      BY DEF ClearingDocs, DocsOf, Clearing, SeenOf
    <3>4. QED
      BY <1>4, <1>6, <3>1, <3>2, <3>3 DEF Clears
  <2>2. CASE <<n, x>> \in reported
    <3>1. cluster'[x] # cluster[x] /\ ~Failing(n, x)' /\ Watched(x)
      BY <1>11, <2>2
    <3>2. x = o
      BY <1>7, <3>1
    <3>3. PICK s \in StreamsOf("pods", o) : stream[s] = "connected"
      BY <3>1, <3>2 DEF Watched
    <3>4. s \in specs(dep) /\ pipe[s] \in Seq(Docs(s)) /\ doc \in Docs(s) /\ pipe'[s] = Append(pipe[s], doc)
      BY <1>2, <1>3, <1>5, <1>6, <3>3
    <3>5. p # Gone => ~Shows(n, displayStatus(p))
      BY <1>1, <3>1, <3>2 DEF Failing, Shows
    <3>6. doc \in ClearingDocs(n, o)
      BY <1>2, <3>5 DEF ClearingDocs
    <3>7. SomeIn(pipe'[s], ClearingDocs(n, o))
      <4>1. PICK c : c = ClearingDocs(n, o)
        OBVIOUS
      <4>2. SomeIn(Append(pipe[s], doc), c)
        BY <3>4, <3>6, <4>1, AppendLast
      <4>3. QED
        BY <3>4, <4>1, <4>2
    <3>8. QED
      BY <1>6, <3>2, <3>3, <3>7 DEF Clears, ClearingDocs, DocsOf
  <2>3. QED
    BY <2>1, <2>2
<1>12. FiredOf(ns)'
  BY <1>4, <1>11 DEF FiredOf
<1>13. QED
  BY <1>10, <1>12

(* Steps that leave the pods, their documents and the reports alone, and   *)
(* every observation and key on its side.                                  *)
QueueKeeps ==
    \A o \in Pods :
        /\ NoneIn(queue, SeenOf(o)) => NoneIn(queue', SeenOf(o))
        /\ LastIn(queue, SeenNow(o), SeenOf(o)) => LastIn(queue', SeenNow(o), SeenOf(o))
        /\ \A n : SomeIn(queue, Clearing(n, o)) => SomeIn(queue', Clearing(n, o))
KeysKeep ==
    \A n \in BaseSet, o \in Pods :
        /\ HasKey(keys', n, o) <=> HasKey(keys, n, o)
        /\ HasKey(keys, n, o) => keys'[Key(n, o)].fired = keys[Key(n, o)].fired
PipesKeep ==
    \A s \in specs(dep) :
        s[1] = "pods" => pipe'[s] = pipe[s] /\ (stream'[s] = "connected" => stream[s] = "connected")

LEMMA QuietTells ==
  ASSUME WatchTyped, NEW ns \in SUBSET BaseSet, ToldOf(ns), FiredOf(ns), UNCHANGED <<dep, cluster, reported>>, QueueKeeps, KeysKeep, PipesKeep
  PROVE  ToldOf(ns)' /\ FiredOf(ns)'
<1>1. \A x : StreamsOf("pods", x)' = StreamsOf("pods", x)
  BY DEF StreamsOf
<1>2. \A x : \A s \in StreamsOf("pods", x) :
        pipe'[s] = pipe[s] /\ (stream'[s] = "connected" => stream[s] = "connected")
  BY DEF PipesKeep, StreamsOf
<1>3. dep.objects \subseteq Pods
  BY SensoriumAssumption DEF WatchTyped
<1>4. \A n, x : /\ DocsNow(x)' = DocsNow(x) /\ DocsOf(x)' = DocsOf(x) /\ SeenNow(x)' = SeenNow(x) /\ SeenOf(x)' = SeenOf(x)
                /\ Clearing(n, x)' = Clearing(n, x) /\ ClearingDocs(n, x)' = ClearingDocs(n, x)
  BY DEF DocsNow, DocsOf, SeenNow, SeenOf, Clearing, ClearingDocs
<1>5. ASSUME NEW x \in dep.objects, NEW n \in ns, NEW s \in StreamsOf("pods", x), stream'[s] = "connected",
             Failing(n, x)'
      PROVE  Informed(n, x, s)'
  <2>1. Failing(n, x)
    BY <1>5 DEF Failing
  <2>2. Informed(n, x, s)
    BY <1>2, <1>5, <2>1 DEF ToldOf
  <2>3. pipe'[s] = pipe[s] /\ x \in Pods
    BY <1>2, <1>3
  <2>4. /\ NoneIn(queue, SeenOf(x)) => NoneIn(queue', SeenOf(x))
        /\ LastIn(queue, SeenNow(x), SeenOf(x)) => LastIn(queue', SeenNow(x), SeenOf(x))
        /\ HasKey(keys, n, x) => HasKey(keys', n, x)
    BY <2>3 DEF QueueKeeps, KeysKeep
  <2>5. QED
    BY <1>4, <2>2, <2>3, <2>4 DEF Informed
<1>6. ToldOf(ns)'
  BY <1>1, <1>5 DEF ToldOf
<1>7. ASSUME NEW n \in ns, NEW x \in Pods, Judges(n), HasKey(keys', n, x), keys'[Key(n, x)].fired, <<n, x>> \notin reported
      PROVE  Clears(n, x)'
  <2>1. HasKey(keys, n, x) /\ keys[Key(n, x)].fired
    BY <1>7 DEF KeysKeep
  <2>2. Clears(n, x)
    BY <1>7, <2>1 DEF FiredOf
  <2>3. SomeIn(queue, Clearing(n, x)) => SomeIn(queue', Clearing(n, x))
    BY DEF QueueKeeps
  <2>4. QED
    BY <1>1, <1>2, <1>4, <2>2, <2>3 DEF Clears
<1>8. FiredOf(ns)'
  BY <1>7 DEF FiredOf
<1>9. QED
  BY <1>6, <1>8

LEMMA SameKeeps ==
  /\ UNCHANGED queue => QueueKeeps
  /\ UNCHANGED keys => KeysKeep
  /\ UNCHANGED <<pipe, stream>> => PipesKeep
<1>1. UNCHANGED queue => QueueKeeps
  BY DEF QueueKeeps
<1>2. UNCHANGED keys => KeysKeep
  BY DEF KeysKeep, HasKey
<1>3. UNCHANGED <<pipe, stream>> => PipesKeep
  BY DEF PipesKeep
<1>4. QED
  BY <1>1, <1>2, <1>3

LEMMA EventTells ==
  ASSUME WatchTyped, NEW ns \in SUBSET BaseSet, ToldOf(ns), FiredOf(ns), NEW o \in dep.objects, NEW r \in EventReasons, EventOccurs(o, r),
         UNCHANGED <<keys, reported>>
  PROVE  ToldOf(ns)' /\ FiredOf(ns)'
<1>1. PICK doc : Written("events", o, doc)
  BY EventTyped
<1>2. PipesKeep
  <2>1. DOMAIN pipe = specs(dep)
    BY DEF WatchTyped
  <2>2. ASSUME NEW s \in specs(dep), s[1] = "pods"
        PROVE  pipe'[s] = pipe[s]
    <3>1. s \notin StreamsOf("events", o)
      BY <2>2 DEF StreamsOf
    <3>2. QED
      BY <1>1, <2>1, <3>1 DEF Written
  <2>3. stream' = stream
    BY DEF EventOccurs
  <2>4. QED
    BY <2>2, <2>3 DEF PipesKeep
<1>3. UNCHANGED <<dep, cluster, queue>>
  BY DEF EventOccurs
<1>4. QED
  BY <1>2, <1>3, SameKeeps, QuietTells

LEMMA LoseOrCloseTells ==
  ASSUME WatchTyped, NEW ns \in SUBSET BaseSet, ToldOf(ns), FiredOf(ns), NEW s \in specs(dep), Lose(s) \/ Close(s), UNCHANGED <<keys, reported>>
  PROVE  ToldOf(ns)' /\ FiredOf(ns)'
<1>1. UNCHANGED <<dep, cluster, pipe, queue>>
  BY DEF Lose, Close
<1>2. \A t \in specs(dep) : stream'[t] = "connected" => stream[t] = "connected"
  BY DEF Lose, Close, WatchTyped
<1>3. PipesKeep
  BY <1>1, <1>2 DEF PipesKeep
<1>4. QED
  BY <1>1, <1>3, SameKeeps, QuietTells

(* A stream that connects starts with the list. *)
LEMMA ConnectTells ==
  ASSUME WatchTyped, NEW ns \in SUBSET BaseSet, ToldOf(ns), FiredOf(ns), NEW s \in specs(dep), Connect(s), UNCHANGED <<keys, reported>>
  PROVE  ToldOf(ns)' /\ FiredOf(ns)'
<1>1. UNCHANGED <<dep, cluster, queue>> /\ stream[s] \in {"idle", "backoff"}
  BY DEF Connect
<1>2. CASE ~dep.kubectl
  <2>1. stream' = [stream EXCEPT ![s] = "stopped"] /\ pipe' = pipe
    BY <1>2 DEF Connect
  <2>2. PipesKeep
    BY <2>1 DEF PipesKeep, WatchTyped
  <2>3. QED
    BY <1>1, <2>2, SameKeeps, QuietTells
<1>3. CASE dep.kubectl
  <2>1. stream' = [stream EXCEPT ![s] = "connected"] /\ pipe' = [pipe EXCEPT ![s] = Listing(s)]
    BY <1>3 DEF Connect
  <2>2. pipe[s] = << >>
    BY <1>1 DEF WatchTyped, ConnectedStates
  <2>3. \A t \in specs(dep) : t # s => pipe'[t] = pipe[t] /\ stream'[t] = stream[t]
    BY <2>1 DEF WatchTyped
  <2>4. pipe'[s] = Listing(s)
    BY <2>1 DEF WatchTyped
  <2>5. \A x : StreamsOf("pods", x)' = StreamsOf("pods", x) /\ StreamsOf("pods", x) \subseteq specs(dep)
    BY <1>1 DEF StreamsOf
  <2>6. \A n, x : /\ DocsNow(x)' = DocsNow(x) /\ DocsOf(x)' = DocsOf(x) /\ SeenNow(x)' = SeenNow(x) /\ SeenOf(x)' = SeenOf(x)
                  /\ Clearing(n, x)' = Clearing(n, x) /\ ClearingDocs(n, x)' = ClearingDocs(n, x)
    BY <1>1 DEF DocsNow, DocsOf, SeenNow, SeenOf, Clearing, ClearingDocs
  <2>7. ASSUME NEW x \in dep.objects, NEW n \in ns, NEW t \in StreamsOf("pods", x), stream'[t] = "connected",
               Failing(n, x)'
        PROVE  Informed(n, x, t)'
    <3>1. Failing(n, x) /\ cluster[x] # Gone
      BY <1>1, <2>7 DEF Failing
    <3>2. CASE t = s
      <4>1. LastIn(Listing(s), DocsNow(x), DocsOf(x))
        BY <2>7, <3>1, <3>2, ListingIs
      <4>2. QED
        BY <2>4, <2>6, <3>2, <4>1 DEF Informed
    <3>3. CASE t # s
      <4>1. pipe'[t] = pipe[t] /\ stream[t] = "connected"
        BY <2>3, <2>5, <2>7, <3>3
      <4>2. Informed(n, x, t)
        BY <2>7, <3>1, <4>1 DEF ToldOf
      <4>3. QED
        BY <1>1, <2>6, <4>1, <4>2 DEF Informed
    <3>4. QED
      BY <3>2, <3>3
  <2>8. ToldOf(ns)'
    BY <1>1, <2>5, <2>7 DEF ToldOf
  <2>9. ASSUME NEW n \in ns, NEW x \in Pods, Clears(n, x)
        PROVE  Clears(n, x)'
    <3>1. ~SomeIn(pipe[s], ClearingDocs(n, x))
      BY <2>2, NothingIn
    <3>2. \A t \in StreamsOf("pods", x) : SomeIn(pipe[t], ClearingDocs(n, x)) => pipe'[t] = pipe[t]
      BY <2>3, <2>5, <3>1
    <3>3. QED
      BY <1>1, <2>5, <2>6, <2>9, <3>2 DEF Clears
  <2>10. FiredOf(ns)'
    BY <1>1, <2>9 DEF FiredOf
  <2>11. QED
    BY <2>8, <2>10
<1>4. QED
  BY <1>2, <1>3

(* What is read moves from the pipe to the end of the queue.               *)
LEMMA ReadTells ==
  ASSUME WatchTyped, NEW ns \in SUBSET BaseSet, ToldOf(ns), FiredOf(ns), NEW s \in specs(dep), Read(s), shed = 0, shed' = 0, UNCHANGED <<keys, reported>>
  PROVE  ToldOf(ns)' /\ FiredOf(ns)'
<1>1. /\ pipe[s] # << >> /\ pipe[s] \in Seq(Docs(s))
      /\ pipe' = [pipe EXCEPT ![s] = Tail(@)]
      /\ UNCHANGED <<dep, cluster, history, stream>>
  BY ReadIs
<1>2. pipe'[s] = Tail(pipe[s]) /\ \A t \in specs(dep) : t # s => pipe'[t] = pipe[t]
  BY <1>1 DEF WatchTyped
<1>3. queue \in Seq(Observations)
  BY DEF WatchTyped
<1>4. ASSUME NEW x \in Observations, shed' = IF Len(queue) = QueueSize THEN shed + 1 ELSE shed, queue' = enqueue(queue, x)
      PROVE  queue' = Append(queue, x)
  <2>1. Len(queue) # QueueSize
    BY <1>4
  <2>2. QED
    BY <1>4, <2>1, EnqueueIs
<1>5. CASE s[1] # "pods"
  <2>1. PipesKeep
    BY <1>1, <1>2, <1>5 DEF PipesKeep
  <2>2. QueueKeeps
    <3>1. CASE UNCHANGED queue
      BY <3>1, SameKeeps
    <3>2. CASE \E x \in Observations : queue' = Append(queue, x) /\ x.kind = "event"
      <4>1. PICK x \in Observations : queue' = Append(queue, x) /\ x.kind = "event"
        BY <3>2
      <4>2. \A o : x \notin SeenOf(o)
        BY <4>1 DEF SeenOf
      <4>3. ASSUME NEW o \in Pods, NEW mine, mine = SeenOf(o), NEW good, good = SeenNow(o)
            PROVE  /\ NoneIn(queue, mine) => NoneIn(Append(queue, x), mine)
                   /\ LastIn(queue, good, mine) => LastIn(Append(queue, x), good, mine)
        BY <1>3, <4>2, <4>3, AppendLast
      <4>4. \A mine : SomeIn(queue, mine) => SomeIn(Append(queue, x), mine)
        BY <1>3, AppendLast
      <4>5. QED
        BY <4>1, <4>3, <4>4 DEF QueueKeeps
    <3>3. UNCHANGED queue \/ \E x \in Observations : queue' = Append(queue, x) /\ x.kind = "event"
      BY <1>4, <1>5, ReadIs
    <3>4. QED
      BY <3>1, <3>2, <3>3
  <2>3. QED
    BY <1>1, <2>1, <2>2, SameKeeps, QuietTells
<1>6. CASE s[1] = "pods"
  <2>1. PICK d \in Docs(s) : d = Head(pipe[s])
    BY <1>1
  <2>2. d \in PodDocs /\ Covers(s, d.object)
    BY <1>6, <2>1 DEF Docs
  <2>3. PICK x \in Observations : x = podObservation(d)
    BY <2>2, PodObservationIs
  <2>4. queue' = Append(queue, x)
    BY <1>4, <1>6, <2>1, <2>3, ReadIs
  <2>5. /\ \A o : (x \in SeenOf(o) <=> d \in DocsOf(o))
        /\ \A o : d \in DocsNow(o) => x \in SeenNow(o)
        /\ \A n, o : d \in ClearingDocs(n, o) => x \in Clearing(n, o)
    BY <2>2, <2>3, PodObservationIs
  <2>6. \A o : StreamsOf("pods", o)' = StreamsOf("pods", o) /\ StreamsOf("pods", o) \subseteq specs(dep)
    BY <1>1 DEF StreamsOf
  <2>7. \A n, o : /\ DocsNow(o)' = DocsNow(o) /\ DocsOf(o)' = DocsOf(o) /\ SeenNow(o)' = SeenNow(o) /\ SeenOf(o)' = SeenOf(o)
                  /\ Clearing(n, o)' = Clearing(n, o) /\ ClearingDocs(n, o)' = ClearingDocs(n, o)
    BY <1>1 DEF DocsNow, DocsOf, SeenNow, SeenOf, Clearing, ClearingDocs
  <2>8. \A o \in Pods : \A t \in StreamsOf("pods", o) : d \in DocsOf(o) => t = s
    BY <1>6, <2>2, OneStream DEF DocsOf
  <2>9. dep.objects \subseteq Pods
    BY SensoriumAssumption DEF WatchTyped
  <2>10. ASSUME NEW mine, NEW good, good \subseteq mine
         PROVE  /\ NoneIn(pipe[s], mine) => NoneIn(pipe'[s], mine) /\ d \notin mine
                /\ LastIn(pipe[s], good, mine) => LastIn(pipe'[s], good, mine) \/ (d \in good /\ NoneIn(pipe'[s], mine))
                /\ SomeIn(pipe[s], mine) => SomeIn(pipe'[s], mine) \/ d \in mine
    <3>1. PICK q \in Seq(Docs(s)) : q = pipe[s] /\ q # << >> /\ pipe'[s] = Tail(q) /\ d = Head(q)
      BY <1>1, <1>2, <2>1
    <3>2. /\ NoneIn(q, mine) => NoneIn(Tail(q), mine) /\ Head(q) \notin mine
          /\ LastIn(q, good, mine) => LastIn(Tail(q), good, mine) \/ (Head(q) \in good /\ NoneIn(Tail(q), mine))
          /\ SomeIn(q, mine) => SomeIn(Tail(q), mine) \/ Head(q) \in mine
      BY <2>10, <3>1, TailLast
    <3>3. QED
      BY <3>1, <3>2
  <2>11. ASSUME NEW mine, NEW good
         PROVE  /\ x \in good => LastIn(queue', good, mine)
                /\ x \notin mine /\ LastIn(queue, good, mine) => LastIn(queue', good, mine)
                /\ x \notin mine /\ NoneIn(queue, mine) => NoneIn(queue', mine)
                /\ SomeIn(queue, mine) => SomeIn(queue', mine)
                /\ x \in mine => SomeIn(queue', mine)
    BY <1>3, <2>4, AppendLast
  <2>12. ASSUME NEW o \in dep.objects, NEW n \in ns, NEW t \in StreamsOf("pods", o), stream[t] = "connected", Failing(n, o)
         PROVE  Informed(n, o, t)'
    <3>1. Informed(n, o, t)
      BY <2>12 DEF ToldOf
    <3>2. PICK now, mine, seen, fresh : now = DocsNow(o) /\ mine = DocsOf(o) /\ seen = SeenOf(o) /\ fresh = SeenNow(o)
      OBVIOUS
    <3>3. now \subseteq mine /\ fresh \subseteq seen /\ (x \in seen <=> d \in mine) /\ (d \in now => x \in fresh)
      BY <2>5, <3>2, GoodAreMine
    <3>4. \/ LastIn(pipe[t], now, mine)
          \/ NoneIn(pipe[t], mine) /\ LastIn(queue, fresh, seen)
          \/ NoneIn(pipe[t], mine) /\ NoneIn(queue, seen) /\ (<<n, o>> \in reported \/ HasKey(keys, n, o))
      BY <3>1, <3>2 DEF Informed
    <3>5. /\ LastIn(pipe[t], now, mine) => LastIn(pipe'[t], now, mine) \/ (d \in now /\ NoneIn(pipe'[t], mine))
          /\ NoneIn(pipe[t], mine) => NoneIn(pipe'[t], mine) /\ d \notin mine
      <4>1. CASE t = s
        BY <2>10, <3>3, <4>1
      <4>2. CASE t # s
        <5>1. pipe'[t] = pipe[t]
          BY <1>2, <2>6, <4>2
        <5>2. d \notin mine
          BY <2>8, <2>9, <3>2, <4>2
        <5>3. QED
          BY <5>1, <5>2
      <4>3. QED
        BY <4>1, <4>2
    <3>6. /\ d \in now => LastIn(queue', fresh, seen)
          /\ d \notin mine /\ LastIn(queue, fresh, seen) => LastIn(queue', fresh, seen)
          /\ d \notin mine /\ NoneIn(queue, seen) => NoneIn(queue', seen)
      BY <2>11, <3>3
    <3>7. \/ LastIn(pipe'[t], now, mine)
          \/ NoneIn(pipe'[t], mine) /\ LastIn(queue', fresh, seen)
          \/ NoneIn(pipe'[t], mine) /\ NoneIn(queue', seen) /\ (<<n, o>> \in reported \/ HasKey(keys, n, o))
      BY <3>4, <3>5, <3>6
    <3>8. DocsNow(o)' = now /\ DocsOf(o)' = mine /\ SeenOf(o)' = seen /\ SeenNow(o)' = fresh
      BY <2>7, <3>2
    <3>9. reported' = reported /\ HasKey(keys', n, o) = HasKey(keys, n, o)
      OBVIOUS
    <3>10. QED
      BY <3>7, <3>8, <3>9 DEF Informed
  <2>13. ToldOf(ns)'
    BY <1>1, <2>6, <2>12 DEF ToldOf, Failing
  <2>14. ASSUME NEW n \in ns, NEW o \in Pods, Clears(n, o)
         PROVE  Clears(n, o)'
    <3>1. PICK docs, obs : docs = ClearingDocs(n, o) /\ obs = Clearing(n, o)
      OBVIOUS
    <3>2. SomeIn(queue, obs) => SomeIn(queue', obs)
      BY <2>11
    <3>3. ASSUME NEW t \in StreamsOf("pods", o), SomeIn(pipe[t], docs)
          PROVE  SomeIn(pipe'[t], docs) \/ SomeIn(queue', obs)
      <4>1. CASE t = s
        <5>1. SomeIn(pipe'[s], docs) \/ d \in docs
          BY <2>10, <3>3, <4>1
        <5>2. d \in docs => x \in obs
          BY <2>5, <3>1
        <5>3. QED
          BY <2>11, <4>1, <5>1, <5>2
      <4>2. CASE t # s
        BY <1>2, <2>6, <3>3, <4>2
      <4>3. QED
        BY <4>1, <4>2
    <3>4. ClearingDocs(n, o)' = docs /\ Clearing(n, o)' = obs
      BY <2>7, <3>1
    <3>5. SomeIn(queue, obs) \/ \E t \in StreamsOf("pods", o) : SomeIn(pipe[t], docs)
      BY <2>14, <3>1 DEF Clears
    <3>6. SomeIn(queue', obs) \/ \E t \in StreamsOf("pods", o) : SomeIn(pipe'[t], docs)
      BY <3>2, <3>3, <3>5
    <3>7. QED
      BY <2>6, <3>4, <3>6 DEF Clears
  <2>15. FiredOf(ns)'
    BY <2>14 DEF FiredOf
  <2>16. QED
    BY <2>13, <2>15
<1>7. QED
  BY <1>5, <1>6

(* What is consumed moves from the head of the queue into the keys.        *)
LEMMA ConsumeTells ==
  ASSUME StoreInv, WatchTyped, EngineTyped, NEW ns \in SUBSET Named, ToldOf(ns), FiredOf(ns), Consume
  PROVE  ToldOf(ns)' /\ FiredOf(ns)'
<1>1. UNCHANGED <<dep, cluster, stream, pipe>> /\ queue \in Seq(Observations)
  BY DEF Consume, WatchTyped
<1>2. PICK x : x = Head(queue)
  OBVIOUS
<1>3. /\ queue # << >> /\ x \in Observations /\ queue' = Tail(queue) /\ reported \subseteq reported'
      /\ \A n \in ns, o \in Pods :
            /\ HasKey(keys, n, o) /\ x \notin SeenOf(o) => HasKey(keys', n, o)
            /\ x \in SeenOf(o) /\ x.type # "DELETED" /\ Shows(n, x.status) => HasKey(keys', n, o)
            /\ x \in Clearing(n, o) /\ Judges(n) => ~HasKey(keys', n, o)
            /\ HasKey(keys', n, o) /\ keys'[Key(n, o)].fired =>
                   <<n, o>> \in reported' \/ (HasKey(keys, n, o) /\ keys[Key(n, o)].fired)
  BY <1>2, ConsumeKeys
<1>4. ASSUME NEW mine, NEW good, good \subseteq mine
      PROVE  /\ NoneIn(queue, mine) => NoneIn(queue', mine) /\ x \notin mine
             /\ LastIn(queue, good, mine) => LastIn(queue', good, mine) \/ (x \in good /\ NoneIn(queue', mine))
             /\ SomeIn(queue, mine) => SomeIn(queue', mine) \/ x \in mine
  BY <1>1, <1>2, <1>3, <1>4, TailLast
<1>5. \A o : StreamsOf("pods", o)' = StreamsOf("pods", o)
  BY <1>1 DEF StreamsOf
<1>6. \A n, o : /\ DocsNow(o)' = DocsNow(o) /\ DocsOf(o)' = DocsOf(o) /\ SeenNow(o)' = SeenNow(o) /\ SeenOf(o)' = SeenOf(o)
                /\ Clearing(n, o)' = Clearing(n, o) /\ ClearingDocs(n, o)' = ClearingDocs(n, o)
  BY <1>1 DEF DocsNow, DocsOf, SeenNow, SeenOf, Clearing, ClearingDocs
<1>7. dep.objects \subseteq Pods
  BY SensoriumAssumption DEF WatchTyped
<1>8. ASSUME NEW o \in dep.objects, NEW n \in ns, NEW t \in StreamsOf("pods", o), stream[t] = "connected", Failing(n, o)
      PROVE  Informed(n, o, t)'
  <2>1. Informed(n, o, t) /\ o \in Pods
    BY <1>7, <1>8 DEF ToldOf
  <2>2. PICK now, mine, seen, fresh : now = DocsNow(o) /\ mine = DocsOf(o) /\ seen = SeenOf(o) /\ fresh = SeenNow(o)
    OBVIOUS
  <2>3. DocsNow(o)' = now /\ DocsOf(o)' = mine /\ SeenOf(o)' = seen /\ SeenNow(o)' = fresh /\ pipe' = pipe
    BY <1>1, <1>6, <2>2
  <2>4. fresh \subseteq seen
    BY <2>2, GoodAreMine
  <2>5. x \in fresh => HasKey(keys', n, o)
    <3>1. Shows(n, displayStatus(cluster[o]))
      BY <1>8 DEF Failing, Shows
    <3>2. x \in fresh => x \in SeenOf(o) /\ x.type # "DELETED" /\ x.status = displayStatus(cluster[o])
      BY <2>2 DEF SeenNow
    <3>3. QED
      BY <1>3, <2>1, <3>1, <3>2
  <2>6. /\ NoneIn(queue, seen) => NoneIn(queue', seen) /\ x \notin seen
        /\ LastIn(queue, fresh, seen) => LastIn(queue', fresh, seen) \/ (x \in fresh /\ NoneIn(queue', seen))
    BY <1>4, <2>4
  <2>7. x \notin seen /\ HasKey(keys, n, o) => HasKey(keys', n, o)
    BY <1>3, <2>1, <2>2
  <2>8. <<n, o>> \in reported => <<n, o>> \in reported'
    BY <1>3
  <2>9. \/ LastIn(pipe[t], now, mine)
        \/ NoneIn(pipe[t], mine) /\ LastIn(queue, fresh, seen)
        \/ NoneIn(pipe[t], mine) /\ NoneIn(queue, seen) /\ (<<n, o>> \in reported \/ HasKey(keys, n, o))
    BY <2>1, <2>2 DEF Informed
  <2>10. \/ LastIn(pipe[t], now, mine)
         \/ NoneIn(pipe[t], mine) /\ LastIn(queue', fresh, seen)
         \/ NoneIn(pipe[t], mine) /\ NoneIn(queue', seen) /\ (<<n, o>> \in reported' \/ HasKey(keys', n, o))
    BY <2>5, <2>6, <2>7, <2>8, <2>9
  <2>11. QED
    BY <2>3, <2>10 DEF Informed
<1>9. ToldOf(ns)'
  BY <1>1, <1>5, <1>8 DEF ToldOf, Failing
<1>10. ASSUME NEW n \in ns, NEW o \in Pods, Judges(n), HasKey(keys', n, o), keys'[Key(n, o)].fired, <<n, o>> \notin reported'
       PROVE  Clears(n, o)'
  <2>1. HasKey(keys, n, o) /\ keys[Key(n, o)].fired /\ <<n, o>> \notin reported
    BY <1>3, <1>10
  <2>2. Clears(n, o)
    BY <1>10, <2>1 DEF FiredOf
  <2>3. PICK obs : obs = Clearing(n, o)
    OBVIOUS
  <2>4. x \notin obs
    BY <1>3, <1>10, <2>3
  <2>5. SomeIn(queue, obs) => SomeIn(queue', obs)
    BY <1>4, <2>4
  <2>6. ClearingDocs(n, o)' = ClearingDocs(n, o) /\ Clearing(n, o)' = obs
    BY <1>6, <2>3
  <2>7. QED
    BY <1>1, <1>5, <2>2, <2>3, <2>5, <2>6 DEF Clears
<1>11. FiredOf(ns)'
  BY <1>10 DEF FiredOf
<1>12. QED
  BY <1>9, <1>11

(* The clock ages what waits and what is known, and changes neither side.  *)
LEMMA LaterIs ==
  ASSUME NEW x \in Observations
  PROVE  LET later == [x EXCEPT !.lag = @ + 1]
         IN  /\ later \in Observations
             /\ \A o : (later \in SeenOf(o) <=> x \in SeenOf(o)) /\ (later \in SeenNow(o) <=> x \in SeenNow(o))
             /\ \A n, o : later \in Clearing(n, o) <=> x \in Clearing(n, o)
<1>1. PICK a \in Nat : a = x.lag + 1
  BY DEF Observations
<1>2. PICK y : y = [x EXCEPT !.lag = a]
  OBVIOUS
<1>3. [x EXCEPT !.lag = @ + 1] = y
  BY <1>1, <1>2
<1>4. y \in Observations /\ y.kind = x.kind /\ y.object = x.object /\ y.status = x.status /\ y.type = x.type
  BY <1>2 DEF Observations
<1>5. \A o : y \in SeenOf(o) <=> x \in SeenOf(o)
  BY <1>4 DEF SeenOf
<1>6. \A o : y \in SeenNow(o) <=> x \in SeenNow(o)
  BY <1>4, <1>5 DEF SeenNow
<1>7. \A n, o : y \in Clearing(n, o) <=> x \in Clearing(n, o)
  BY <1>4, <1>5 DEF Clearing
<1>8. QED
  BY <1>3, <1>4, <1>5, <1>6, <1>7

LEMMA ElapseTyped ==
  ASSUME WatchTyped, Elapse
  PROVE  WatchTyped' /\ QueueKeeps
<1>1. /\ queue' = [i \in DOMAIN queue |-> [queue[i] EXCEPT !.lag = @ + 1]]
      /\ UNCHANGED <<dep, cluster, history, stream, pipe, shed>>
  BY DEF Elapse
<1>2. queue \in Seq(Observations) /\ DOMAIN queue = 1 .. Len(queue) /\ Len(queue) \in Nat
      /\ \A i \in 1 .. Len(queue) : queue[i] \in Observations
  BY DEF WatchTyped
<1>3. \A i \in 1 .. Len(queue) :
        /\ queue'[i] = [queue[i] EXCEPT !.lag = @ + 1] /\ queue'[i] \in Observations
        /\ \A o : (queue'[i] \in SeenOf(o) <=> queue[i] \in SeenOf(o)) /\ (queue'[i] \in SeenNow(o) <=> queue[i] \in SeenNow(o))
        /\ \A n, o : queue'[i] \in Clearing(n, o) <=> queue[i] \in Clearing(n, o)
  <2> TAKE i \in 1 .. Len(queue)
  <2>1. PICK x \in Observations : x = queue[i]
    BY <1>2
  <2>2. queue'[i] = [x EXCEPT !.lag = @ + 1]
    BY <1>1, <1>2, <2>1
  <2>3. QED
    BY <2>1, <2>2, LaterIs
<1>4. queue' \in [1 .. Len(queue) -> Observations]
  BY <1>1, <1>2, <1>3
<1>5. queue' \in Seq(Observations) /\ Len(queue') = Len(queue)
  BY <1>2, <1>4
<1>6. WatchTyped'
  BY <1>1, <1>5 DEF WatchTyped
<1>7. ASSUME NEW o \in Pods, NEW n
      PROVE  /\ NoneIn(queue, SeenOf(o)) => NoneIn(queue', SeenOf(o))
             /\ LastIn(queue, SeenNow(o), SeenOf(o)) => LastIn(queue', SeenNow(o), SeenOf(o))
             /\ SomeIn(queue, Clearing(n, o)) => SomeIn(queue', Clearing(n, o))
  <2>1. PICK seen, fresh, clear : seen = SeenOf(o) /\ fresh = SeenNow(o) /\ clear = Clearing(n, o)
    OBVIOUS
  <2>2. \A j \in 1 .. Len(queue) : /\ queue'[j] \in seen <=> queue[j] \in seen
                                   /\ queue'[j] \in fresh <=> queue[j] \in fresh
                                   /\ queue'[j] \in clear <=> queue[j] \in clear
    BY <1>3, <2>1
  <2>3. /\ NoneIn(queue, seen) => NoneIn(queue', seen)
        /\ LastIn(queue, fresh, seen) => LastIn(queue', fresh, seen)
    BY <1>5, <2>2, SameSides
  <2>4. SomeIn(queue, clear) => SomeIn(queue', clear)
    BY <1>5, <2>2, SameSides
  <2>5. QED
    BY <2>1, <2>3, <2>4
<1>8. QED
  BY <1>6, <1>7 DEF QueueKeeps

LEMMA ElapseTells ==
  ASSUME WatchTyped, EngineTyped, NEW ns \in SUBSET BaseSet, ToldOf(ns), FiredOf(ns), Elapse
  PROVE  ToldOf(ns)' /\ FiredOf(ns)'
<1>1. UNCHANGED <<dep, cluster, stream, pipe, reported>> /\ keys' = Aged(keys)
  BY DEF Elapse
<1>2. KeysKeep
  BY <1>1, AgedKeys DEF KeysKeep, HasKey
<1>3. QED
  BY <1>1, <1>2, ElapseTyped, SameKeeps, QuietTells

(* A key the tick forgets has fired: its failure is reported, or the word  *)
(* of the recovery is still to come.                                       *)
LEMMA TickTells ==
  ASSUME WatchTyped, EngineTyped, NEW ns \in SUBSET BaseSet, ToldOf(ns), FiredOf(ns), EngineTick
  PROVE  ToldOf(ns)' /\ FiredOf(ns)'
<1>1. UNCHANGED <<dep, cluster, stream, pipe, queue>>
  BY DEF EngineTick, sensoriumVars
<1>2. /\ reported \subseteq reported'
      /\ \A n \in BaseSet, o \in Pods :
            /\ HasKey(keys, n, o) => HasKey(keys', n, o) \/ keys[Key(n, o)].fired
            /\ HasKey(keys', n, o) => HasKey(keys, n, o)
            /\ HasKey(keys', n, o) /\ keys'[Key(n, o)].fired => <<n, o>> \in reported' \/ keys[Key(n, o)].fired
  BY TickKeys
<1>3. \A o : StreamsOf("pods", o)' = StreamsOf("pods", o) /\ StreamsOf("pods", o) \subseteq specs(dep)
  BY <1>1 DEF StreamsOf
<1>4. \A n, o : /\ DocsNow(o)' = DocsNow(o) /\ DocsOf(o)' = DocsOf(o) /\ SeenNow(o)' = SeenNow(o) /\ SeenOf(o)' = SeenOf(o)
                /\ Clearing(n, o)' = Clearing(n, o) /\ ClearingDocs(n, o)' = ClearingDocs(n, o)
  BY <1>1 DEF DocsNow, DocsOf, SeenNow, SeenOf, Clearing, ClearingDocs
<1>5. dep.objects \subseteq Pods
  BY SensoriumAssumption DEF WatchTyped
<1>6. ASSUME NEW o \in Pods, NEW n \in ns, NEW t \in StreamsOf("pods", o), NoneIn(pipe[t], DocsOf(o)), NoneIn(queue, SeenOf(o))
      PROVE  ~Clears(n, o)
  <2>1. ~SomeIn(queue, Clearing(n, o))
    BY <1>6, GoodAreMine DEF NoneIn, SomeIn
  <2>2. ~SomeIn(pipe[t], ClearingDocs(n, o))
    BY <1>6, GoodAreMine DEF NoneIn, SomeIn
  <2>3. \A s \in StreamsOf("pods", o) : s = t
    BY OneStream DEF StreamsOf
  <2>4. QED
    BY <2>1, <2>2, <2>3 DEF Clears
<1>7. ASSUME NEW o \in dep.objects, NEW n \in ns, NEW t \in StreamsOf("pods", o), stream[t] = "connected", Failing(n, o)
      PROVE  Informed(n, o, t)'
  <2>1. Informed(n, o, t) /\ o \in Pods
    BY <1>5, <1>7 DEF ToldOf
  <2>2. Judges(n)
    BY <1>7 DEF Failing, Judges
  <2>3. NoneIn(pipe[t], DocsOf(o)) /\ NoneIn(queue, SeenOf(o)) /\ (<<n, o>> \in reported \/ HasKey(keys, n, o)) =>
            <<n, o>> \in reported' \/ HasKey(keys', n, o)
    <3> SUFFICES ASSUME NoneIn(pipe[t], DocsOf(o)), NoneIn(queue, SeenOf(o)), <<n, o>> \notin reported', HasKey(keys, n, o)
                 PROVE  HasKey(keys', n, o)
      BY <1>2
    <3>1. ~Clears(n, o) /\ <<n, o>> \notin reported
      BY <1>2, <1>6, <2>1
    <3>2. ~keys[Key(n, o)].fired
      BY <2>1, <2>2, <3>1 DEF FiredOf
    <3>3. QED
      BY <1>2, <2>1, <3>2
  <2>4. QED
    BY <1>1, <1>4, <2>1, <2>3 DEF Informed
<1>8. ToldOf(ns)'
  BY <1>1, <1>3, <1>7 DEF ToldOf, Failing
<1>9. ASSUME NEW n \in ns, NEW o \in Pods, Judges(n), HasKey(keys', n, o), keys'[Key(n, o)].fired, <<n, o>> \notin reported'
      PROVE  Clears(n, o)'
  <2>1. HasKey(keys, n, o) /\ keys[Key(n, o)].fired /\ <<n, o>> \notin reported
    BY <1>2, <1>9
  <2>2. Clears(n, o)
    BY <1>9, <2>1 DEF FiredOf
  <2>3. QED
    BY <1>1, <1>3, <1>4, <2>2 DEF Clears
<1>10. FiredOf(ns)'
  BY <1>9 DEF FiredOf
<1>11. QED
  BY <1>8, <1>10

LEMMA RestartTells ==
  ASSUME WatchTyped, NEW ns, Restart
  PROVE  WatchTyped' /\ ToldOf(ns)' /\ FiredOf(ns)'
<1>1. /\ stream' = [s \in specs(dep) |-> "idle"] /\ pipe' = [s \in specs(dep) |-> << >>]
      /\ queue' = << >> /\ shed' = 0 /\ keys' = << >>
      /\ UNCHANGED <<dep, cluster, history>>
  BY DEF Restart, Fresh
<1>2. \A e, S : e = << >> => e \in Seq(S) /\ Len(e) = 0 /\ DOMAIN e = {}
  OBVIOUS
<1>3. queue' \in Seq(Observations) /\ Len(queue') <= QueueSize
  BY <1>1, <1>2, SensoriumAssumption
<1>4. /\ pipe' = [s \in specs(dep) |-> pipe'[s]]
      /\ \A s \in specs(dep) : pipe'[s] = << >> /\ pipe'[s] \in Seq(Docs(s))
  BY <1>1, <1>2
<1>5. stream' \in [specs(dep) -> StreamStates]
  BY <1>1 DEF StreamStates
<1>6. WatchTyped'
  BY <1>1, <1>3, <1>4, <1>5 DEF WatchTyped
<1>7. ToldOf(ns)'
  BY <1>1 DEF ToldOf, StreamsOf
<1>8. FiredOf(ns)'
  BY <1>1, <1>2 DEF FiredOf, HasKey
<1>9. QED
  BY <1>6, <1>7, <1>8

LEMMA EngineFrame ==
  ASSUME EngineTyped, UNCHANGED <<loaded, blocks>>, KeysTyped(keys')
  PROVE  EngineTyped'
  BY DEF EngineTyped

LEMMA EngineStays ==
  ASSUME EngineTyped, UNCHANGED <<loaded, blocks, keys>>
  PROVE  EngineTyped'
  BY DEF EngineTyped

LEMMA EngineIsKept ==
  ASSUME StoreInv, WatchTyped, EngineTyped, [PerceptionNext]_perceptionVars
  PROVE  EngineTyped'
<1>1. CASE Up(Consume)
  <2>1. UNCHANGED <<loaded, blocks>>
    BY <1>1 DEF Up, Consume, Process
  <2>2. KeysTyped(keys')
    BY <1>1, ConsumeKeys DEF Up
  <2>3. QED
    BY <2>1, <2>2, EngineFrame
<1>2. CASE Up(EngineTick)
  <2>1. UNCHANGED <<loaded, blocks>>
    BY <1>2 DEF Up, EngineTick, Tick
  <2>2. KeysTyped(keys')
    BY <1>2, TickKeys DEF Up
  <2>3. QED
    BY <2>1, <2>2, EngineFrame
<1>3. CASE Up(Elapse)
  <2>1. UNCHANGED <<loaded, blocks>> /\ keys' = Aged(keys)
    BY <1>3 DEF Up, Elapse
  <2>2. KeysTyped(keys')
    BY <2>1, AgedKeys
  <2>3. QED
    BY <2>1, <2>2, EngineFrame
<1>4. CASE Up(World) \/ Up(Streaming) \/ Up(Sweep) \/ Up(Reviewing) \/ Crash \/ UNCHANGED perceptionVars
  <2>1. UNCHANGED <<loaded, blocks, keys>>
    BY <1>4 DEF Up, World, Streaming, Sweep, SweepStart, SweepNext, SweepAnswer, Reviewing, Crash, perceptionVars,
                engineVars
  <2>2. QED
    BY <2>1, EngineStays
<1>5. CASE Up(Refresh)
  <2>1. CASE refreshFails
    BY <2>1, EngineStays DEF refreshFails, engineVars
  <2>2. ASSUME NEW reached \in SUBSET ToSet(Stored), refreshStored(reached)
        PROVE  EngineTyped'
    <3>1. /\ loaded' = [active |-> BaseNames \o Load(rows, reached, "active"), shadow |-> Load(rows, reached, "shadow")]
          /\ blocks' = Blocks(rows) /\ keys' = keys
      BY <2>2 DEF refreshStored, SetStored
    <3>2. BaseSet \subseteq ToSet(loaded'.active)
      BY <3>1, LoadIs, ToSetConcat, EngineAssumption DEF BaseSet
    <3>3. \A n \in BaseSet : blocks'[n] = blocks[n]
      BY <3>1, StoredNames DEF Blocks
    <3>4. QED
      BY <3>1, <3>2, <3>3 DEF EngineTyped
  <2>3. QED
    BY <1>5, <2>1, <2>2 DEF Up, Refresh
<1>6. CASE Restart
  <2>1. loaded' = [active |-> BaseNames, shadow |-> << >>] /\ keys' = << >> /\ blocks' = blocks
    BY <1>6 DEF Restart, Fresh
  <2>2. \A e : e = << >> => e = [k \in DOMAIN e |-> e[k]] /\ DOMAIN e = {}
    OBVIOUS
  <2>3. BaseSet \subseteq ToSet(loaded'.active)
    BY <2>1 DEF BaseSet
  <2>4. QED
    BY <2>1, <2>2, <2>3 DEF EngineTyped, KeysTyped
<1>7. QED
  BY <1>1, <1>2, <1>3, <1>4, <1>5, <1>6 DEF PerceptionNext

LEMMA WatchStays ==
  ASSUME WatchTyped, UNCHANGED sensoriumVars
  PROVE  WatchTyped'
  BY DEF WatchTyped, sensoriumVars

LEMMA QuietStays ==
  ASSUME WatchTyped, NEW ns \in SUBSET BaseSet, UNCHANGED <<sensoriumVars, keys, reported>>
  PROVE  WatchTyped' /\ (ToldOf(ns) /\ FiredOf(ns) => ToldOf(ns)' /\ FiredOf(ns)')
<1>1. WatchTyped'
  BY WatchStays
<1>2. UNCHANGED <<dep, cluster, reported, queue, keys, pipe, stream>>
  BY DEF sensoriumVars
<1>3. QED
  BY <1>1, <1>2, SameKeeps, QuietTells

LEMMA WorldTells ==
  ASSUME WatchTyped, NEW ns \in SUBSET BaseSet, World
  PROVE  WatchTyped' /\ (ToldOf(ns) /\ FiredOf(ns) => ToldOf(ns)' /\ FiredOf(ns)') /\ UNCHANGED shed
<1>1. keys' = keys
  BY DEF World, engineVars
<1>2. reported' = {k \in reported : cluster'[k[2]] = cluster[k[2]] \/ Failing(k[1], k[2])' \/ ~Watched(k[2])}
  BY DEF World
<1>3. ASSUME NEW o \in dep.objects, NEW p \in PodStates \cup {Gone}, PodChanges(o, p)
      PROVE  WatchTyped' /\ (ToldOf(ns) /\ FiredOf(ns) => ToldOf(ns)' /\ FiredOf(ns)') /\ UNCHANGED shed
  <2>1. WatchTyped'
    BY <1>3, PodChangeTyped
  <2>2. ToldOf(ns) /\ FiredOf(ns) => ToldOf(ns)' /\ FiredOf(ns)'
    BY <1>1, <1>2, <1>3, PodChangeTells
  <2>3. UNCHANGED shed
    BY <1>3 DEF PodChanges
  <2>4. QED
    BY <2>1, <2>2, <2>3
<1>4. UNCHANGED cluster => UNCHANGED reported
  BY <1>2
<1>5. ASSUME NEW o \in dep.objects, NEW r \in EventReasons, EventOccurs(o, r)
      PROVE  WatchTyped' /\ (ToldOf(ns) /\ FiredOf(ns) => ToldOf(ns)' /\ FiredOf(ns)') /\ UNCHANGED shed
  <2>1. UNCHANGED <<shed, cluster, reported>>
    BY <1>4, <1>5 DEF EventOccurs
  <2>2. QED
    BY <1>1, <1>5, <2>1, EventTyped, EventTells
<1>6. ASSUME NEW s \in specs(dep), Lose(s)
      PROVE  WatchTyped' /\ (ToldOf(ns) /\ FiredOf(ns) => ToldOf(ns)' /\ FiredOf(ns)') /\ UNCHANGED shed
  <2>1. UNCHANGED <<shed, cluster, reported>>
    BY <1>4, <1>6 DEF Lose
  <2>2. QED
    BY <1>1, <1>6, <2>1, WatchStepTyped, LoseOrCloseTells
<1>7. QED
  BY <1>3, <1>5, <1>6 DEF World, Environment

LEMMA StreamingTells ==
  ASSUME WatchTyped, NEW ns \in SUBSET BaseSet, Streaming
  PROVE  WatchTyped' /\ (ToldOf(ns) /\ FiredOf(ns) /\ shed = 0 /\ shed' = 0 => ToldOf(ns)' /\ FiredOf(ns)')
                     /\ (shed' = 0 => shed = 0)
<1>1. UNCHANGED <<keys, reported>>
  BY DEF Streaming, engineVars
<1>2. PICK s \in specs(dep) : Connect(s) \/ Close(s) \/ Read(s)
  BY DEF Streaming, Watch
<1>3. WatchTyped'
  BY <1>2, WatchStepTyped
<1>4. CASE Connect(s)
  BY <1>1, <1>3, <1>4, ConnectTells DEF Connect
<1>5. CASE Close(s)
  BY <1>1, <1>3, <1>5, LoseOrCloseTells DEF Close
<1>6. CASE Read(s)
  <2>1. shed' = shed \/ shed' = shed + 1
    BY <1>6, ReadIs
  <2>2. shed \in Nat
    BY DEF WatchTyped
  <2>3. shed' = 0 => shed = 0
    BY <2>1, <2>2
  <2>4. QED
    BY <1>1, <1>3, <1>6, <2>3, ReadTells
<1>7. QED
  BY <1>2, <1>4, <1>5, <1>6

LEMMA ConsumeTyped ==
  ASSUME WatchTyped, Consume
  PROVE  WatchTyped' /\ UNCHANGED shed
<1>1. queue # << >> /\ queue' = Tail(queue) /\ UNCHANGED <<dep, cluster, history, stream, pipe, shed>>
  BY DEF Consume
<1>2. queue \in Seq(Observations) /\ Len(queue) <= QueueSize
  BY DEF WatchTyped
<1>3. Tail(queue) \in Seq(Observations) /\ Len(Tail(queue)) = Len(queue) - 1 /\ Len(queue) \in Nat
  BY <1>1, <1>2, TailEntries
<1>4. Len(Tail(queue)) <= QueueSize
  BY <1>2, <1>3, SensoriumAssumption
<1>5. QED
  BY <1>1, <1>3, <1>4 DEF WatchTyped

LEMMA WatchIsKept == StoreInv /\ WatchInv /\ [PerceptionNext]_perceptionVars => WatchInv'
<1> SUFFICES ASSUME StoreInv, WatchInv, [PerceptionNext]_perceptionVars
             PROVE  WatchInv'
  OBVIOUS
<1>1. PICK ns : ns = Named'
  OBVIOUS
<1>2. ns \in SUBSET Named /\ ns \in SUBSET BaseSet
  BY <1>1, ApprovedGrows DEF Named, NameIsItsOwn
<1>3. WatchTyped /\ EngineTyped /\ (shed = 0 => ToldOf(ns) /\ FiredOf(ns))
  BY <1>2 DEF WatchInv, ToldInv, FiredInv, ToldOf, FiredOf
<1>4. EngineTyped'
  BY <1>2, <1>3, EngineIsKept
<1>5. WatchTyped' /\ (shed' = 0 => ToldOf(ns)' /\ FiredOf(ns)')
  <2>1. CASE Up(World)
    <3>1. World
      BY <2>1 DEF Up
    <3>2. QED
      BY <1>2, <1>3, <3>1, WorldTells
  <2>2. CASE Up(Streaming)
    <3>1. Streaming
      BY <2>2 DEF Up
    <3>2. QED
      BY <1>2, <1>3, <3>1, StreamingTells
  <2>3. CASE Up(Consume)
    <3>1. Consume
      BY <2>3 DEF Up
    <3>2. WatchTyped' /\ UNCHANGED shed
      BY <1>2, <1>3, <3>1, ConsumeTyped
    <3>3. ToldOf(ns) /\ FiredOf(ns) => ToldOf(ns)' /\ FiredOf(ns)'
      BY <1>2, <1>3, <3>1, ConsumeTells
    <3>4. QED
      BY <1>2, <1>3, <3>2, <3>3
  <2>4. CASE Up(Elapse)
    <3>1. Elapse /\ UNCHANGED shed
      BY <2>4 DEF Up, Elapse
    <3>2. ToldOf(ns) /\ FiredOf(ns) => ToldOf(ns)' /\ FiredOf(ns)'
      BY <1>2, <1>3, <3>1, ElapseTells
    <3>3. WatchTyped'
      BY <1>2, <1>3, <3>1, ElapseTyped
    <3>4. QED
      BY <1>2, <1>3, <3>1, <3>2, <3>3
  <2>5. CASE Up(EngineTick)
    <3>1. EngineTick /\ UNCHANGED sensoriumVars /\ UNCHANGED shed
      BY <2>5 DEF Up, EngineTick, sensoriumVars
    <3>2. ToldOf(ns) /\ FiredOf(ns) => ToldOf(ns)' /\ FiredOf(ns)'
      BY <1>2, <1>3, <3>1, TickTells
    <3>3. QED
      BY <1>2, <1>3, <3>1, <3>2, WatchStays
  <2>6. CASE Up(Sweep) \/ Up(Refresh) \/ Up(Reviewing) \/ Crash \/ UNCHANGED perceptionVars
    <3>1. UNCHANGED <<sensoriumVars, keys, reported>>
      BY <2>6 DEF Up, Sweep, SweepStart, SweepNext, SweepAnswer, Refresh, refreshStored, refreshFails, SetStored,
                  Reviewing, Crash, perceptionVars, engineVars
    <3>2. shed' = shed
      BY <3>1 DEF sensoriumVars
    <3>3. QED
      BY <1>2, <1>3, <3>1, <3>2, QuietStays
  <2>7. CASE Restart
    BY <1>2, <1>3, <2>7, RestartTells
  <2>8. QED
    BY <2>1, <2>2, <2>3, <2>4, <2>5, <2>6, <2>7 DEF PerceptionNext
<1>6. ToldInv' /\ FiredInv'
  BY <1>1, <1>5 DEF ToldInv, FiredInv, ToldOf, FiredOf
<1>7. QED
  BY <1>4, <1>5, <1>6 DEF WatchInv

LEMMA WatchStarts == PerceptionInit => WatchInv
<1> SUFFICES ASSUME PerceptionInit
             PROVE  WatchInv
  OBVIOUS
<1>1. WatchTyped
  BY WatchInitially DEF PerceptionInit
<1>2. /\ loaded = [active |-> BaseNames, shadow |-> << >>] /\ keys = << >>
      /\ blocks = [n \in Names |-> IF n \in BaseSet THEN BaseBlocks[n] ELSE NoBlock]
  BY DEF PerceptionInit
<1>3. \A e : e = << >> => e = [k \in DOMAIN e |-> e[k]] /\ DOMAIN e = {}
  OBVIOUS
<1>4. BaseSet \subseteq ToSet(loaded.active)
  BY <1>2 DEF BaseSet
<1>5. EngineTyped
  BY <1>2, <1>3, <1>4, StoredNames DEF EngineTyped, KeysTyped
<1>6. ToldInv
  <2>1. \A s \in specs(dep) : stream[s] = "idle"
    BY DEF PerceptionInit, SensoriumInit
  <2>2. QED
    BY <2>1 DEF ToldInv, StreamsOf
<1>7. FiredInv
  BY <1>2, <1>3 DEF FiredInv, HasKey
<1>8. QED
  BY <1>1, <1>5, <1>6, <1>7 DEF WatchInv

(* However the watch was lost and found again, whatever was queued and     *)
(* however the clock, the consumer, the refresh and the restarts fell      *)
(* between: once a pod's stream is connected and drained, a pod matched by *)
(* a base detector no promoted one shares its name with holds a key, or    *)
(* has been reported, or the gaps say that observations were shed          *)
(* (engine.go advance and Tick, watcher.go read and enqueue,               *)
(* perception.go Gaps).                                                    *)
THEOREM NothingEverMissed == PerceptionSpec => []NothingMissed
<1>1. PerceptionInit => WatchInv
  BY WatchStarts
<1>2. StoreInv /\ WatchInv /\ [PerceptionNext]_perceptionVars => WatchInv'
  BY WatchIsKept
<1>3. WatchInv => NothingMissed
  <2> SUFFICES ASSUME WatchInv, NEW n \in BaseSet, NEW o \in dep.objects, CaughtUp(o), Failing(n, o), NameIsItsOwn(n)
               PROVE  Noticed(n, o)
    BY DEF NothingMissed
  <2>1. PICK s \in StreamsOf("pods", o) : stream[s] = "connected" /\ pipe[s] = << >>
    BY DEF CaughtUp, Watched
  <2>2. queue = << >> /\ shed \in Nat /\ n \in Named
    BY DEF CaughtUp, WatchInv, WatchTyped, Named
  <2>3. CASE shed = 0
    <3>1. Informed(n, o, s)
      BY <2>1, <2>2, <2>3 DEF WatchInv, ToldInv
    <3>2. ~LastIn(pipe[s], DocsNow(o), DocsOf(o)) /\ ~LastIn(queue, SeenNow(o), SeenOf(o))
      BY <2>1, <2>2, NothingIn
    <3>3. QED
      BY <3>1, <3>2 DEF Informed, Noticed
  <2>4. CASE shed > 0
    <3>1. "shed" \in Gaps
      BY <2>4 DEF Gaps
    <3>2. QED
      BY <3>1 DEF Noticed
  <2>5. QED
    BY <2>2, <2>3, <2>4
<1>4. QED
  BY <1>1, <1>2, <1>3, TableAlways, PTL DEF PerceptionSpec
=============================================================================
