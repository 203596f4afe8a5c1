---------------------------- MODULE MemoryContext ----------------------------
(***************************************************************************)
(* What an investigation is told of the past (memoryAdapter.Load): the     *)
(* pinned context, whose four sections are read one by one, capped in rows *)
(* and then in length, and after it the similar episodes, learned rules,   *)
(* themes and recent changes.  The database may come and go between any    *)
(* two readings, and a single one may fail.                                *)
(***************************************************************************)
EXTENDS Integers, Sequences, SequencesExt

CONSTANTS
    SwitchedOff,    \* the sets of sections a deployment, or a request without a question, leaves out
    MaxFlaps        \* bound on the changes of the database's state

ASSUME ContextBounds == MaxFlaps \in Nat

VARIABLES
    settings,   \* the sections that are switched on, and that the request asks for
    up,         \* the database answers
    loading,    \* the step of Steps to take next
    pinned,     \* what LoadContext has put together, as pieces
    unread,     \* the sections of the pinned context that could not be read
    told,       \* the text the model will read, as pieces
    held,       \* what each section read held when it was read, or that it could not be
    flaps

contextVars == <<settings, up, loading, pinned, unread, told, held, flaps>>

Pinned == <<"preferences", "hints", "notes", "diagnoses">>
Recalled == <<"episodes", "rules", "themes", "changes">>
Sections == Pinned \o Recalled
Steps == <<"ping">> \o Pinned \o <<"combine">> \o Recalled \o <<"done">>
At == Steps[loading]
Advance == loading' = loading + 1
(* The sections whose loader says so when it leaves some out.              *)
Announced == ToSet(Pinned) \cup {"changes"}
(* What a section holds: nothing, all it can show, more than it can show.  *)
Holds == {"nothing", "some", "more"}

ContextInit ==
    /\ settings \in {ToSet(Sections) \ off : off \in SwitchedOff}
    /\ up \in BOOLEAN /\ loading = 1 /\ pinned = << >> /\ unread = {} /\ told = << >>
    /\ held = << >> /\ flaps = 0

DatabaseFlaps ==
    /\ At # "done" /\ flaps < MaxFlaps /\ flaps' = flaps + 1 /\ up' = ~up
    /\ UNCHANGED <<settings, loading, pinned, unread, told, held>>

Section(s) == <<"section", s>>
More(s) == <<"more", s>>                 \* the loader's own notice that it capped its rows
Unavailable(what) == <<"unavailable", what>>
Truncated == <<"truncated">>
(* LoadContext begins with a ping: without it nothing is read at all, and  *)
(* the notice of that names three of the four sections.                    *)
UnavailableNotice == Unavailable({"preferences", "hints", "diagnoses"})
Ping ==
    /\ At = "ping"
    /\ IF up THEN Advance /\ UNCHANGED <<told, held>>
       ELSE /\ loading' = Len(Pinned) + 3 /\ told' = <<UnavailableNotice>>
            /\ held' = [i \in DOMAIN Pinned |-> "unread"]
    /\ UNCHANGED <<settings, up, pinned, unread, flaps>>

(* A reading: the section is switched off, or it finds what the store      *)
(* holds just then, or it fails.  An empty section adds nothing.           *)
Shown(s, holds) ==
    CASE holds = "nothing" -> << >>
      [] holds = "more" /\ s \in Announced -> <<Section(s), More(s)>>
      [] OTHER -> <<Section(s)>>
PinnedFrame == UNCHANGED <<settings, up, told, flaps>>
LoadSection(s, holds) ==
    /\ At = s /\ Advance /\ PinnedFrame
    /\ \/ s \notin settings /\ held' = Append(held, "nothing") /\ UNCHANGED <<pinned, unread>>
       \/ /\ s \in settings /\ up /\ UNCHANGED unread
          /\ held' = Append(held, holds) /\ pinned' = pinned \o Shown(s, holds)
       \/ /\ s \in settings /\ UNCHANGED pinned
          /\ held' = Append(held, "unread") /\ unread' = unread \cup {s}
loadPrefs(holds) == LoadSection("preferences", holds)
loadFailureHints(holds) == LoadSection("hints", holds)
loadSessionNotes(holds) == LoadSection("notes", holds)
loadPastRCA(holds) == LoadSection("diagnoses", holds)
(* The notice comes first, because the cap removes the tail; what is cut   *)
(* is said to be cut.  The notice itself is far shorter than the cap.      *)
NoticedLast(notice, pieces) == pieces \o notice \* the variant that appends it
Noticed(notice, pieces) == notice \o pieces
Capped(pieces) ==
    {pieces} \cup {SubSeq(pieces, 1, n) \o <<Truncated>> : n \in 1 .. Len(pieces) - 1}
Combine ==
    /\ At = "combine" /\ Advance
    /\ told' \in Capped(Noticed(IF unread = {} THEN << >> ELSE <<Unavailable(unread)>>, pinned))
    /\ pinned' = << >>
    /\ UNCHANGED <<settings, up, unread, held, flaps>>

(* memoryAdapter.Load goes on with the best few episodes, rules and themes *)
(* and no word of the others, and with the changes, of which those not     *)
(* listed are one line with their number.                                  *)
RecalledFrame == UNCHANGED <<settings, up, pinned, unread, flaps>>
RecallSection(s, holds) ==
    /\ At = s /\ Advance /\ RecalledFrame
    /\ \/ s \notin settings /\ held' = Append(held, "nothing") /\ UNCHANGED told
       \/ s \in settings /\ up /\ held' = Append(held, holds) /\ told' = told \o Shown(s, holds)
       \/ s \in settings /\ held' = Append(held, "unread") /\ told' = told \o <<Unavailable({s})>>
RecallEpisodes(holds) == RecallSection("episodes", holds)
ActiveRules(holds) == RecallSection("rules", holds)
RecallThemeSummaries(holds) == RecallSection("themes", holds)
RecentChanges(holds) == RecallSection("changes", holds)

ReadSection(holds) ==
    \/ loadPrefs(holds) \/ loadFailureHints(holds) \/ loadSessionNotes(holds) \/ loadPastRCA(holds)
    \/ RecallEpisodes(holds) \/ ActiveRules(holds) \/ RecallThemeSummaries(holds) \/ RecentChanges(holds)
ContextNext == DatabaseFlaps \/ Ping \/ Combine \/ \E holds \in Holds : ReadSection(holds)
ContextSpec == ContextInit /\ [][ContextNext]_contextVars
-----------------------------------------------------------------------------
(* The model is told what is missing: of every section that could not be   *)
(* read it says so, of every one that leaves some of what it holds out it  *)
(* says so, and a section that is silently absent held nothing when it was *)
(* read - unless the pinned context says that it was cut.  Two kinds of    *)
(* silence are left to CappedIsSaid and EverySectionIsNamed: the best few  *)
(* of the episodes, rules and themes, and the session notes when nothing   *)
(* at all could be read.                                                   *)
Told(piece) == piece \in ToSet(told)
ToldUnread(s) == \E what \in SUBSET ToSet(Sections) : s \in what /\ Told(Unavailable(what))
CutOff(s) == s \in ToSet(Pinned) /\ Told(Truncated)
NotesUnnamed(s) == s = "notes" /\ Told(UnavailableNotice)
MissingIsSaid ==
    At = "done" =>
        \A i \in DOMAIN Sections :
            LET s == Sections[i]
            IN  /\ held[i] = "unread" => ToldUnread(s) \/ NotesUnnamed(s)
                /\ held[i] = "more" /\ s \in Announced => Told(More(s)) \/ CutOff(s)
                /\ held[i] \in {"some", "more"} => Told(Section(s)) \/ CutOff(s)
(* "A capped section must not read as a complete one, for the same reason  *)
(* a missing section must not read as an empty one" (the loaders of        *)
(* store.go), of every section memoryAdapter.Load shows.                   *)
CappedIsSaid ==
    At = "done" =>
        \A i \in DOMAIN Sections : held[i] = "more" => Told(More(Sections[i])) \/ CutOff(Sections[i])
(* "Every failed read says so in the context it returns" (memoryAdapter),  *)
(* of the reads that the failed ping stands for as well.                   *)
EverySectionIsNamed ==
    At = "done" => \A i \in DOMAIN Sections : held[i] = "unread" => ToldUnread(Sections[i])
=============================================================================
