--------------------------- MODULE LogCollection ---------------------------
(***************************************************************************)
(* The log collector (internal/collectors/logs).  A list of log files is   *)
(* made first and sorted by path; each file is then copied twice into the  *)
(* package and the copy, not the file, is parsed, line by line; the        *)
(* journal comes last.  Meanwhile lines are appended to the log, and a     *)
(* rotation renames one file after the other, the oldest first, and leaves *)
(* a new log behind.                                                       *)
(*                                                                         *)
(* A line is its number in the order of writing; a file is its set of      *)
(* lines.  A file of login accounting is copied and decoded record by      *)
(* record like a log, but is not rotated.                                  *)
(***************************************************************************)
EXTENDS Integers, Sequences, FiniteSets

CONSTANTS
  Chain,        \* the log and its rotated names, the newest first
  Accounting,   \* names of login accounting files
  Sorted,       \* all names in the order of their paths
  Primary,      \* names that are on the list whether they exist or not
  RawOf,        \* name -> name of its copy, sanitize of the path
  MaxParse,     \* maxParseLines
  Limit,        \* journal_max_lines
  MaxLines,     \* bound on the lines ever written
  MaxRotations, \* bound on the rotations
  MaxFaults     \* bound on failing reads and writes

Rotated == {Chain[k] : k \in 1 .. Len(Chain)}
Name == Rotated \union Accounting

ASSUME ChainAssumption == /\ Chain \in Seq(Rotated) /\ Len(Chain) > 1
                          /\ \A j, k \in 1 .. Len(Chain) : Chain[j] = Chain[k] => j = k
                          /\ Rotated \intersect Accounting = {}
ASSUME SortedAssumption == /\ Sorted \in Seq(Name)
                           /\ \A n \in Name : \E k \in 1 .. Len(Sorted) : Sorted[k] = n
ASSUME PrimaryAssumption == Chain[1] \in Primary /\ Accounting \subseteq Primary
                            /\ Primary \subseteq Name
\* Names whose copies collide would overwrite each other's copy.
ASSUME RawAssumption == /\ RawOf \in [Name -> Name]
                        /\ \A m, n \in Name : RawOf[m] = RawOf[n] => m = n
ASSUME LogBoundAssumption == /\ MaxParse \in Nat /\ Limit \in Nat \ {0} /\ MaxLines \in Nat
                             /\ MaxRotations \in Nat /\ MaxFaults \in Nat

VARIABLES
  there,     \* names that exist
  files,     \* Name -> lines of the file
  written,   \* lines written so far
  rot,       \* position in Chain of the next name to be renamed, 0 when idle
  rotations, \* rotations begun so far
  steady,    \* lines on the list whose moves kept to its order (history)
  pc,        \* where the collector is
  pending,   \* names still to be collected, the next one is the first by path
  listed,    \* names that were put on the list
  raw,       \* copies: name of the copy -> lines
  copied,    \* names that have both copies
  left,      \* lines of the current copy still to be parsed
  events,    \* pairs <<name, line>> of events
  status,    \* names with a record that their raw copy is all there is
  absent,    \* names reported absent
  errors,    \* names with an error event
  deaf,      \* names whose error event could not be written (history)
  seen,      \* Name -> lines the file had when it was read (history)
  journal,   \* journal records: [out, pos, events, status]
  ret,       \* "none" while the collector runs, then "ok" or "err"
  faults     \* failures so far

host == <<there, files, written, rot, rotations, steady>>
copying == <<pending, listed, raw, copied, left, seen>>
reports == <<events, status, absent, errors, deaf>>
vars == <<host, pc, copying, reports, journal, ret, faults>>

----------------------------------------------------------------------------
(* The host.                                                               *)

Log == Chain[1]
Line == 1 .. MaxLines
Place(n) == CHOOSE k \in 1 .. Len(Sorted) : Sorted[k] = n

AppendLine(n) ==
  /\ n \in there /\ written < MaxLines
  /\ written' = written + 1
  /\ files' = [files EXCEPT ![n] = @ \union {written'}]
  /\ UNCHANGED <<there, rot, rotations, steady, pc, copying, reports, journal, ret, faults>>

BeginRotation ==
  /\ rot = 0 /\ rotations < MaxRotations /\ Log \in there
  /\ rot' = Len(Chain)
  /\ rotations' = rotations + 1
  /\ UNCHANGED <<there, files, written, steady, pc, copying, reports, journal, ret, faults>>

\* The oldest file goes, each other one takes the next name, and the log is
\* created anew.  A line keeps steady when its new name is still to come.
RenameNext ==
  /\ rot > 0
  /\ LET n == Chain[rot]
         m == Chain[IF rot = Len(Chain) THEN rot ELSE rot + 1]
         keeps == rot < Len(Chain) /\ m \in listed /\ Place(n) < Place(m) IN
       /\ files' = [f \in Name |-> IF f = n THEN {} ELSE IF f = m THEN files[n] ELSE files[f]]
       /\ there' = (there \ {n}) \union (IF n \in there /\ m # n THEN {m} ELSE {})
                                 \union (IF n = Log THEN {Log} ELSE {})
       /\ steady' = IF keeps THEN steady ELSE steady \ files[n]
  /\ rot' = rot - 1
  /\ UNCHANGED <<written, rotations, pc, copying, reports, journal, ret, faults>>

HostStep == \/ \E n \in {Log} \union Accounting : AppendLine(n)
            \/ BeginRotation \/ RenameNext

----------------------------------------------------------------------------
NoJournal == [out |-> 0, pos |-> 0, events |-> 0, status |-> <<>>]
Least(S) == CHOOSE l \in S : \A m \in S : l <= m
Fault == faults < MaxFaults /\ faults' = faults + 1
Return(result) == pc' = "done" /\ ret' = result

Init ==
  /\ there \in SUBSET Name
  /\ files = [n \in Name |-> {}]
  /\ written = 0 /\ rot = 0 /\ rotations = 0 /\ steady = {}
  /\ pc = "discover"
  /\ pending = {} /\ listed = {}
  /\ raw = [n \in Name |-> {}]
  /\ copied = {} /\ left = {}
  /\ seen = [n \in Name |-> {}]
  /\ events = {} /\ status = {} /\ absent = {} /\ errors = {} /\ deaf = {}
  /\ journal = NoJournal
  /\ ret = "none"
  /\ faults = 0

\* recordError: an error event that cannot be written is dropped.
RecordError(n) ==
  \/ errors' = errors \union {n} /\ UNCHANGED <<deaf, faults>>
  \/ Fault /\ deaf' = deaf \union {n} /\ UNCHANGED errors

\* The same after a failure that counts itself.
FailAndRecord(n) ==
  /\ faults < MaxFaults
  /\ \/ faults' = faults + 1 /\ errors' = errors \union {n} /\ UNCHANGED deaf
     \/ faults + 1 < MaxFaults /\ faults' = faults + 2 /\ deaf' = deaf \union {n} /\ UNCHANGED errors

----------------------------------------------------------------------------
(* Files.                                                                  *)

\* discoverLogs: the primary names and what the patterns match.
Discover ==
  /\ pc = "discover"
  /\ listed' = Primary \union there
  /\ pending' = listed'
  /\ steady' = UNION {files[n] : n \in listed'}
  /\ pc' = "next"
  /\ UNCHANGED <<there, files, written, rot, rotations, raw, copied, left, seen, reports,
                 journal, ret, faults>>

\* Bug: the log that is last by its path is next.
CurrentReversed == CHOOSE n \in pending : \A m \in pending : Place(m) <= Place(n)

\* The list is sorted by path, so the next log is the first of those left.
Current == CHOOSE n \in pending : \A m \in pending : Place(n) <= Place(m)

\* Bug: a log that has gone is passed over.
LogGoneQuietly ==
  /\ pc = "next" /\ pending # {} /\ Current \notin there
  /\ pending' = pending \ {Current}
  /\ UNCHANGED <<host, pc, listed, raw, copied, left, seen, reports, journal, ret, faults>>

\* A log that is not there leaves an absent record and no error event.
LogGone ==
  /\ pc = "next" /\ pending # {} /\ Current \notin there
  /\ absent' = absent \union {Current}
  /\ pending' = pending \ {Current}
  /\ UNCHANGED <<host, pc, listed, raw, copied, left, seen, events, status, errors, deaf,
                 journal, ret, faults>>

\* The file is read whole and written under ai/raw.
CopyLog ==
  /\ pc = "next" /\ pending # {} /\ Current \in there
  /\ seen' = [seen EXCEPT ![Current] = files[Current]]
  /\ raw' = [raw EXCEPT ![RawOf[Current]] = files[Current]]
  /\ pc' = "legacy"
  /\ UNCHANGED <<host, pending, listed, copied, left, reports, journal, ret, faults>>

\* The read or one of the two writes fails: an error event, an absent record.
CopyFails ==
  /\ \/ pc = "next" /\ pending # {} /\ Current \in there
     \/ pc = "legacy"
  /\ FailAndRecord(Current)
  /\ absent' = absent \union {Current}
  /\ pending' = pending \ {Current}
  /\ pc' = "next"
  /\ UNCHANGED <<host, listed, raw, copied, left, seen, events, status, journal, ret>>

\* Bug: the parser opens the log, not the copy.
CopyLegacyReopen ==
  /\ pc = "legacy"
  /\ copied' = copied \union {Current}
  /\ left' = files[Current]
  /\ pc' = IF Current \in Accounting THEN "status" ELSE "parse"
  /\ UNCHANGED <<host, pending, listed, raw, seen, reports, journal, ret, faults>>

\* The second copy; the first is then opened for parsing.
CopyLegacy ==
  /\ pc = "legacy"
  /\ copied' = copied \union {Current}
  /\ left' = raw[RawOf[Current]]
  /\ pc' = IF Current \in Accounting THEN "status" ELSE "parse"
  /\ UNCHANGED <<host, pending, listed, raw, seen, reports, journal, ret, faults>>

\* writeRawCopyRecord, before login accounting is decoded.
WriteStatus ==
  /\ pc = "status"
  /\ status' = status \union {Current}
  /\ pc' = "parse"
  /\ UNCHANGED <<host, copying, events, absent, errors, deaf, journal, ret, faults>>

Parsed(n) == raw[RawOf[n]] \ left
LimitReached == Current \notin Accounting /\ Cardinality(Parsed(Current)) = MaxParse

ParseLine ==
  /\ pc = "parse" /\ left # {} /\ ~LimitReached
  /\ events' = events \union {<<Current, Least(left)>>}
  /\ left' = left \ {Least(left)}
  /\ UNCHANGED <<host, pc, pending, listed, raw, copied, seen, status, absent, errors, deaf,
                 journal, ret, faults>>

NextLog ==
  /\ pending' = pending \ {Current}
  /\ left' = {}
  /\ pc' = "next"
  /\ UNCHANGED <<host, listed, raw, copied, seen, status, absent, journal, ret>>

ParsedAll ==
  /\ pc = "parse" /\ left = {}
  /\ NextLog
  /\ UNCHANGED <<events, errors, deaf, faults>>

ParseLimit ==
  /\ pc = "parse" /\ left # {} /\ LimitReached
  /\ NextLog
  /\ RecordError(Current)
  /\ UNCHANGED events

\* Bug: a file that cannot be parsed is reported absent.
ParseFailsAbsent ==
  /\ pc = "parse" /\ left # {}
  /\ FailAndRecord(Current)
  /\ absent' = absent \union {Current}
  /\ pending' = pending \ {Current} /\ left' = {} /\ pc' = "next"
  /\ UNCHANGED <<host, listed, raw, copied, seen, events, status, journal, ret>>

\* A copy that does not decode, or a record that cannot be written, the event
\* itself or what follows it: an error event, and the rest of the file is left.
ParseFails ==
  /\ pc = "parse" /\ left # {}
  /\ NextLog
  /\ FailAndRecord(Current)
  /\ events' \in {events, events \union {<<Current, Least(left)>>}}

FilesDone ==
  /\ pc = "next" /\ pending = {}
  /\ pc' = "journal"
  /\ UNCHANGED <<host, copying, reports, journal, ret, faults>>

\* The run's context, before each log and before the journal.
Interrupt ==
  /\ pc \in {"next", "journal"}
  /\ Return("err")
  /\ UNCHANGED <<host, copying, reports, journal, faults>>

----------------------------------------------------------------------------
(* The journal.                                                            *)

JournalStatus(s) == journal' = [journal EXCEPT !.status = Append(@, s)]

\* journalctl is missing, fails, or is killed at its timeout.
JournalUnavailable ==
  /\ pc = "journal"
  /\ \E s \in {"absent", "error", "timeout"} : JournalStatus(s)
  /\ Return("ok")
  /\ UNCHANGED <<host, copying, reports, faults>>

\* Its output is copied; more lines than were asked for may be on it.
CopyJournal ==
  /\ pc = "journal"
  /\ \E k \in 0 .. Limit + 1 : journal' = [journal EXCEPT !.out = k]
  /\ pc' = "lines"
  /\ UNCHANGED <<host, copying, reports, ret, faults>>

JournalLine ==
  /\ pc = "lines" /\ journal.pos < journal.out /\ journal.pos < Limit
  /\ \/ journal' = [journal EXCEPT !.pos = @ + 1, !.events = @ + 1]
     \/ journal' = [journal EXCEPT !.pos = @ + 1, !.status = Append(@, "parse_error")]
  /\ UNCHANGED <<host, pc, copying, reports, ret, faults>>

JournalLimit ==
  /\ pc = "lines" /\ journal.pos < journal.out /\ journal.pos = Limit
  /\ JournalStatus("line_limit_reached")
  /\ Return("ok")
  /\ UNCHANGED <<host, copying, reports, faults>>

JournalEnds ==
  /\ pc = "lines" /\ journal.pos = journal.out
  /\ IF journal.out = 0 THEN JournalStatus("empty") ELSE UNCHANGED journal
  /\ Return("ok")
  /\ UNCHANGED <<host, copying, reports, faults>>

\* A checked write: the records of absence and of copies, the whole journal.
WriteFails ==
  /\ \/ pc \in {"status", "journal", "lines"}
     \/ pc = "next" /\ pending # {} /\ Current \notin there
  /\ Fault
  /\ Return("err")
  /\ UNCHANGED <<host, copying, reports, journal>>

----------------------------------------------------------------------------
Collect == \/ Discover \/ LogGone \/ CopyLog \/ CopyFails \/ CopyLegacy \/ WriteStatus
           \/ ParseLine \/ ParsedAll \/ ParseLimit \/ ParseFails \/ FilesDone \/ Interrupt
           \/ JournalUnavailable \/ CopyJournal \/ JournalLine \/ JournalLimit \/ JournalEnds
           \/ WriteFails

\* The host matters only while files are collected.
Next == Collect \/ (pc \in {"discover", "next", "legacy", "status", "parse"} /\ HostStep)

Spec == Init /\ [][Next]_vars

----------------------------------------------------------------------------
(* Properties.                                                             *)

Statuses == {"absent", "error", "timeout", "parse_error", "line_limit_reached", "empty"}

\* Every variable stays in its range.
TypeOK ==
  /\ there \subseteq Name
  /\ files \in [Name -> SUBSET Line]
  /\ written \in 0 .. MaxLines
  /\ rot \in 0 .. Len(Chain) /\ rotations \in 0 .. MaxRotations
  /\ steady \subseteq Line
  /\ pc \in {"discover", "next", "legacy", "status", "parse", "journal", "lines", "done"}
  /\ pending \subseteq listed /\ listed \subseteq Name
  /\ raw \in [Name -> SUBSET Line] /\ seen \in [Name -> SUBSET Line]
  /\ copied \subseteq listed /\ left \subseteq Line
  /\ events \subseteq copied \X Line
  /\ status \subseteq copied \intersect Accounting
  /\ absent \subseteq listed \ copied /\ errors \subseteq listed /\ deaf \subseteq listed
  /\ journal.out \in 0 .. Limit + 1 /\ journal.pos \in 0 .. Limit
  /\ journal.events \in 0 .. Limit /\ journal.status \in Seq(Statuses)
  /\ ret \in {"none", "ok", "err"}
  /\ faults \in 0 .. MaxFaults

\* Nothing lost to rotation (the order of discoverLogs): a line that was in a
\* listed file when the list was made, and has only moved to listed names that
\* come later in it, is an event, or an error event or absent record stands for
\* a file that could have shown it -- unless that error event was itself lost.
SteadyLineReported ==
  ret = "ok" =>
    \A l \in steady : \/ \E n \in listed : <<n, l>> \in events
                      \/ \E n \in listed : /\ n \in errors \union deaf
                                           /\ l \in seen[n] \/ n \in absent

\* Traceable (roadmap of phase 10): every event is of a line of the raw copy
\* that it refers to.
EventsTraceable == \A e \in events : e[2] \in raw[RawOf[e[1]]]

\* Each source speaks (Collect and parseJournalOutput): a listed file has its
\* two copies, or it is reported absent; each line of the journal up to the
\* limit has an event or a status of its own, and when there is none, or the
\* limit cut some off, a status says so.
EveryLogAccounted ==
  ret = "ok" =>
    /\ \A n \in listed : n \in copied \union absent
    /\ journal.events + Len(journal.status) = IF journal.out = 0 THEN 1 ELSE journal.out
    /\ journal.out > Limit =>
         journal.status[Len(journal.status)] = "line_limit_reached"
=============================================================================
