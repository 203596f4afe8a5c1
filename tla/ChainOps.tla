------------------------------ MODULE ChainOps ------------------------------
(***************************************************************************)
(* What is done to the hash chain of one episode after it was written:     *)
(* verifying it (recorder.VerifyEpisode, called by replay and the          *)
(* postmortem), exporting an archive, and removing the front of the chain  *)
(* an archive holds (internal/chainops), while one recorder keeps          *)
(* appending and may restart.  Exports, truncations and readers are        *)
(* separate processes; what a database transaction does is one step, and   *)
(* two queries are two steps.                                              *)
(***************************************************************************)
EXTENDS HashChain, FiniteSets, SequencesExt

CONSTANTS
  MaxRows,      (* bound: rows written in a behaviour                       *)
  MaxArchives,  (* bound: archives taken                                    *)
  MaxFaults,    (* bound: failed queries and restarts                       *)
  MaxLosses     (* bound: times the newest rows vanish                      *)

ASSUME ChainOpsAssumption ==
  {MaxRows, MaxArchives, MaxFaults, MaxLosses} \subseteq Nat

VARIABLES
  rows,       (* decision_log: the rows of the episode in seq order         *)
  anchor,     (* decision_log_head                                          *)
  truncs,     (* chain_truncation                                           *)
  cache,      (* the recorder's cached head                                 *)
  due,        (* the anchor the recorder has yet to write                   *)
  export,     (* an export between its two queries                          *)
  archives,   (* the archive files                                          *)
  view,       (* the rows a reader fetched                                  *)
  stage,      (* what the reader does next                                  *)
  verdict,    (* the reader's last verdict                                  *)
  written,    (* history: rows written so far                               *)
  removed,    (* history: rows removed by truncations                       *)
  short,      (* history: rows the anchor covers were lost                  *)
  excuses,    (* history: what may have hidden that loss                    *)
  viewShort,  (* history: the reader's rows showed such a loss              *)
  faults, losses

dbVars       == <<rows, anchor, truncs>>
recorderVars == <<cache, due>>
exportVars   == <<export, archives>>
readerVars   == <<view, stage, verdict, viewShort>>
historyVars  == <<written, removed, short, excuses, losses>>
vars == <<dbVars, recorderVars, exportVars, readerVars, historyVars, faults>>

NoBound  == -1
NoExport == [none |-> "export"]
NoRecord == [none |-> "truncation"]

Last1(s) == s[Len(s)]

Init ==
  /\ rows = <<>> /\ anchor = NoHead /\ truncs = {}
  /\ cache = NoHead /\ due = NoHead
  /\ export = NoExport /\ archives = {}
  /\ view = <<>> /\ stage = "idle" /\ verdict = "none" /\ viewShort = FALSE
  /\ written = 0 /\ removed = {} /\ short = FALSE /\ excuses = {} /\ losses = 0
  /\ faults = 0

(* Rows that the anchor covers are missing from the end of s.              *)
Behind(s, a) == a # NoHead /\ \A i \in DOMAIN s : s[i].seq < a.seq

Fault == faults < MaxFaults /\ faults' = faults + 1

(***************************************************************************)
(* The recorder: chainState, insert and the anchor, and a restart.  Rows   *)
(* that vanish between chainState's two queries vanish as well just after  *)
(* them, so the two are one step.                                          *)
(***************************************************************************)
Load ==
  /\ cache = NoHead
  /\ cache' = PastAnchor(TailOf(rows), anchor)
  /\ UNCHANGED <<dbVars, due, exportVars, readerVars, historyVars, faults>>

(* A head that could not be read is taken for one that is not there.  The  *)
(* rows then continue below what the anchor covers, and whoever is between *)
(* reading its rows and reading the anchor, and read further than they     *)
(* still go, cannot be blamed.                                             *)
GoesAsFarAs(s) == TailOf(s).seq <= TailOf(rows).seq

LoadWithoutAnchor ==
  /\ cache = NoHead
  /\ Fault
  /\ cache' = TailOf(rows)
  /\ excuses' = IF Behind(rows, anchor) THEN excuses \cup {"anchor"} ELSE excuses
  /\ viewShort' = (viewShort /\ GoesAsFarAs(view))
  /\ export' = IF export = NoExport THEN NoExport
               ELSE [export EXCEPT !.short = @ /\ GoesAsFarAs(export.rows)]
  /\ UNCHANGED <<dbVars, due, archives, view, stage, verdict>>
  /\ UNCHANGED <<written, removed, short, losses>>

Insert ==
  /\ cache # NoHead /\ due = NoHead
  /\ written < MaxRows
  /\ cache.seq \notin Seqs(rows)
  /\ LET row == [seq |-> cache.seq, prev |-> cache.hash, item |-> written + 1]
     IN /\ rows' = Append(rows, row)
        /\ cache' = [seq |-> row.seq + 1, hash |-> HashOf(row)]
        /\ due' = [seq |-> row.seq, hash |-> HashOf(row)]
  /\ written' = written + 1
  /\ UNCHANGED <<anchor, truncs, exportVars, readerVars, faults>>
  /\ UNCHANGED <<removed, short, excuses, losses>>

WriteAnchor ==
  /\ due # NoHead
  /\ anchor' = due
  /\ due' = NoHead
  /\ UNCHANGED <<rows, truncs, cache, exportVars, readerVars, historyVars, faults>>

AnchorFails ==
  /\ due # NoHead
  /\ Fault
  /\ due' = NoHead
  /\ UNCHANGED <<dbVars, cache, exportVars, readerVars, historyVars>>

Restart ==
  /\ cache # NoHead
  /\ Fault
  /\ cache' = NoHead
  /\ due' = NoHead
  /\ UNCHANGED <<dbVars, exportVars, readerVars, historyVars>>

(***************************************************************************)
(* The newest rows of the table vanish while the anchor stays: a restore   *)
(* that drops them (the case the anchors exist for).                       *)
(***************************************************************************)
Lose ==
  /\ losses < MaxLosses
  /\ \E n \in 0 .. Len(rows) - 1 :
       /\ rows' = SubSeq(rows, 1, n)
       /\ short' = (short \/ Behind(rows', anchor))
  /\ losses' = losses + 1
  /\ UNCHANGED <<anchor, truncs, recorderVars, exportVars, readerVars, faults>>
  /\ UNCHANGED <<written, removed, excuses>>

(***************************************************************************)
(* BuildExport: the rows, up to a bound or all, then the anchor.           *)
(***************************************************************************)
(* How many of the rows, which are in the order of their numbers, have a   *)
(* number of at most n.                                                    *)
Through(s, n) ==
  CHOOSE k \in 0 .. Len(s) : \A i \in 1 .. Len(s) : i <= k <=> s[i].seq <= n

UpTo(s, bound) == IF bound = NoBound THEN s ELSE SubSeq(s, 1, Through(s, bound))

ExportRows(bound) ==
  /\ export = NoExport
  /\ Cardinality(archives) < MaxArchives
  /\ export' = [bound |-> bound, rows |-> UpTo(rows, bound),
                short |-> short /\ excuses = {}]
  /\ UNCHANGED <<dbVars, recorderVars, archives, readerVars, historyVars, faults>>

ExportAnchor ==
  /\ export # NoExport
  /\ archives' = archives \cup {[bound |-> export.bound, rows |-> export.rows,
                                 anchor |-> anchor, short |-> export.short]}
  /\ export' = NoExport
  /\ UNCHANGED <<dbVars, recorderVars, readerVars, historyVars, faults>>

(* VerifySegment: a slice of a chain, from wherever it starts.             *)
VerifySegment(s) == s = <<>> \/ VerifyChain(s, s[1].seq, s[1].prev)

(* The problems of an archive's anchor: the source ahead of its head, and  *)
(* the source short of it.                                                 *)
StopsShort(a) == a.rows # <<>> /\ a.anchor # NoHead
                 /\ a.anchor.seq < Last1(a.rows).seq
ReportsMissing(a) == a.rows # <<>> /\ a.anchor # NoHead
                     /\ a.anchor.seq > Last1(a.rows).seq /\ a.bound = NoBound

(* Variant of VerifyExport that does not look for missing rows.            *)
VerifyExportLinks(a) ==
  VerifySegment(a.rows) /\ a.anchor # NoHead /\ ~StopsShort(a)

(* VerifyExport of an archive nobody edited: what its hash protects.       *)
VerifyExport(a) ==
  /\ VerifySegment(a.rows)
  /\ a.anchor # NoHead
  /\ ~StopsShort(a)
  /\ ~ReportsMissing(a)

(* Variant of DeclaredStart that reads the first record, not the last.     *)
FirstDeclared(records) ==
  IF records = {} THEN NoRecord
  ELSE CHOOSE t \in records : \A u \in records : t.through <= u.through

(* The record with the highest through_seq.                                *)
DeclaredStart(records) ==
  IF records = {} THEN NoRecord
  ELSE CHOOSE t \in records : \A u \in records : t.through >= u.through

(* Do the rows start where a verifier expects them to?                     *)
StartsAsDeclared ==
  LET t == DeclaredStart(truncs)
  IN \/ rows[1].seq = 0 /\ rows[1].prev = Genesis
     \/ t # NoRecord /\ rows[1].seq = t.resume /\ rows[1].prev = t.prev

(***************************************************************************)
(* TruncateChain: one transaction, or a refusal that changes nothing.      *)
(***************************************************************************)
(* Variant of Kept that removes one row more.                              *)
KeptLess(through) == SubSeq(rows, Through(rows, through) + 2, Len(rows))

(* The rows left by DELETE ... seq <= through.                             *)
Kept(through) == SubSeq(rows, Through(rows, through) + 1, Len(rows))

(* The rows past `through', whose first must link to the archive.          *)
Survivors(through) == SubSeq(rows, Through(rows, through) + 1, Len(rows))

(* May the rows an archive holds be removed?                               *)
Justified(a) ==
  /\ VerifyExport(a)
  /\ a.rows # <<>>
  /\ LET through == Last1(a.rows).seq
         endHash == HashOf(Last1(a.rows))
     IN /\ \E i \in DOMAIN rows : rows[i].seq = through /\ HashOf(rows[i]) = endHash
        /\ Survivors(through) # <<>>
        /\ Survivors(through)[1].prev = endHash

Truncate(a) ==
  /\ a \in archives
  /\ Justified(a)
  /\ LET through == Last1(a.rows).seq
         resume  == Survivors(through)[1]
     IN /\ \A t \in truncs : t.through # through
        /\ truncs' = truncs \cup
             {[through |-> through, resume |-> resume.seq, prev |-> resume.prev,
               archive |-> a]}
        /\ rows' = Kept(through)
        /\ removed' = removed \cup (ToSet(rows) \ ToSet(Kept(through)))
        /\ excuses' = IF resume.seq = through + 1 /\ StartsAsDeclared THEN excuses
                       ELSE excuses \cup {"seam"}
  /\ UNCHANGED <<anchor, recorderVars, exportVars, readerVars, written, short>>
  /\ UNCHANGED <<losses, faults>>

(***************************************************************************)
(* FetchEpisode and VerifyEpisode by a reader: the rows, then (when they   *)
(* do not verify from their origin) the truncation record, then the        *)
(* anchor.                                                                 *)
(***************************************************************************)
(* What the rows alone say: the anchor is next, or the truncation record,  *)
(* or the verdict is out.                                                  *)
AfterFetch(s) ==
  IF VerifyChain(s, 0, Genesis) THEN "head"
  ELSE IF s = <<>> \/ s[1].seq = 0 THEN "tampered" ELSE "declared"

AfterDeclared(s, t) ==
  IF t # NoRecord /\ s[1].seq = t.resume /\ s[1].prev = t.prev
     /\ VerifyChain(s, t.resume, t.prev)
  THEN "head" ELSE "tampered"

AfterHead(s, a) == IF HeadValid(s, a) THEN "valid" ELSE "tampered"

Verdicts == {"none", "valid", "tampered", "unverified"}

(* A step of the reader with outcome next: what it reads next, or the      *)
(* verdict.                                                                *)
ReaderGoes(next) ==
  /\ IF next \in Verdicts THEN verdict' = next /\ stage' = "idle"
     ELSE stage' = next /\ UNCHANGED verdict
  /\ UNCHANGED <<dbVars, recorderVars, exportVars, historyVars>>

Fetch ==
  /\ stage = "idle"
  /\ view' = rows
  /\ viewShort' = (short /\ excuses = {})
  /\ ReaderGoes(AfterFetch(rows))
  /\ UNCHANGED faults

ReadDeclared ==
  /\ stage = "declared"
  /\ ReaderGoes(AfterDeclared(view, DeclaredStart(truncs)))
  /\ UNCHANGED <<view, viewShort, faults>>

ReadHead ==
  /\ stage = "head"
  /\ ReaderGoes(AfterHead(view, anchor))
  /\ UNCHANGED <<view, viewShort, faults>>

(* Neither record can be read: nothing is verified.                        *)
ReadFails ==
  /\ stage \in {"declared", "head"}
  /\ Fault
  /\ ReaderGoes("unverified")
  /\ UNCHANGED <<view, viewShort>>

Next ==
  \/ Load \/ LoadWithoutAnchor \/ Insert \/ WriteAnchor \/ AnchorFails \/ Restart
  \/ Lose
  \/ \E bound \in NoBound .. MaxRows - 1 : ExportRows(bound)
  \/ ExportAnchor
  \/ \E a \in archives : Truncate(a)
  \/ Fetch \/ ReadDeclared \/ ReadHead \/ ReadFails

Spec == Init /\ [][Next]_vars

(***************************************************************************)
(* Properties.                                                             *)
(***************************************************************************)

(* What VerifyEpisode would say of the database as it stands.              *)
VerdictNow ==
  LET links == AfterFetch(rows)
      front == IF links = "declared" THEN AfterDeclared(rows, DeclaredStart(truncs))
               ELSE links
  IN IF front = "head" THEN AfterHead(rows, anchor) ELSE front

(* Housekeeping never reads as tampering: while no row was lost, a chain   *)
(* that was exported and truncated any number of times, with stale         *)
(* archives, failed anchors and restarts in between, verifies.             *)
NoFalseAlarm == losses = 0 => VerdictNow = "valid"

(* Every row a truncation removed is in an archive that a truncation       *)
(* record names and that verifies.                                         *)
RemovedRowsArchived ==
  \A row \in removed :
     \E t \in truncs : VerifyExport(t.archive) /\ row \in ToSet(t.archive.rows)

(* The loss of rows the anchor covered shows, whatever the recorder        *)
(* appends afterwards, unless one of the two steps below hid it.           *)
LossShows == short /\ excuses = {} => VerdictNow = "tampered"

(* A reader that fetched its rows after such a loss never vouches for      *)
(* them, whatever is appended, anchored or truncated before it goes on,    *)
(* short of a further loss that the recorder continues past unaware.       *)
LossCaughtByReader == viewShort /\ stage = "idle" => verdict # "valid"

(* An unbounded archive taken after such a loss, of rows that still start  *)
(* at the origin, does not verify.                                         *)
ArchiveShowsLoss ==
  \A a \in archives :
     a.short /\ a.bound = NoBound /\ a.rows # <<>> /\ a.rows[1].seq = 0
       => ~VerifyExport(a)

(* Lost rows are noticed wherever somebody looks: in the database, by a    *)
(* reader under way, in a full archive.                                    *)
LossDetected == LossShows /\ LossCaughtByReader /\ ArchiveShowsLoss

(* Expected to fail, see README.                                           *)
(* "Continue past the head rather than reusing consumed numbers: re-       *)
(* anchoring would heal the chain and erase the only evidence" (recorder.go*)
(* 423-425); "An undeclared gap is exactly what tampering looks like"      *)
(* (chainops.go 305): the loss of anchored rows stays visible.             *)
LossStaysVisible == short => VerdictNow = "tampered"
=============================================================================
