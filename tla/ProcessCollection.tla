------------------------- MODULE ProcessCollection -------------------------
(***************************************************************************)
(* The process collector (internal/collectors/process) on top of the       *)
(* procfs reader (internal/procfs).  It lists the process directories of   *)
(* /proc once, reads each directory file by file, writes one entity per    *)
(* process, and afterwards one lineage record per process, for which it    *)
(* goes back to /proc/PID/exe.  Nothing holds the host still: a process    *)
(* may exit, and its PID may be taken by another one, between any two      *)
(* reads.                                                                  *)
(*                                                                         *)
(* A process has an identity that is never reused, in the order of birth,  *)
(* which also stands for its start time.  What a read yields is the        *)
(* identity of the process it describes, 0 when it yields nothing.         *)
(***************************************************************************)
EXTENDS Integers, Sequences, FiniteSets

CONSTANTS
  Pid,       \* process identifiers, positive
  Nature,    \* what processes may be: [kind, hidden]
  MaxBorn,   \* bound on the processes that ever live
  MaxFaults  \* bound on failing writes and listings of the collector

ASSUME PidAssumption == Pid \subseteq Nat \ {0}
ASSUME NatureAssumption ==
  Nature \subseteq [kind : {"user", "helper", "kernel"}, hidden : BOOLEAN]
ASSUME BornAssumption == MaxBorn \in Nat
ASSUME ProcessFaultAssumption == MaxFaults \in Nat

\* What ReadProcess reads after status, in order; *_entry stands for the
\* readlinks of the entries of a directory it has just listed.
Field == <<"stat", "cmdline", "environ", "exe", "cwd", "root", "maps",
           "fd", "fd_entry", "cgroup", "namespace", "namespace_entry">>
Fields    == {Field[k] : k \in 1 .. Len(Field)}
ExeFields == {"exe_metadata", "exe_hash"}
Native    == <<"ps_auxw", "ps_-elf", "lsof">>

VARIABLES
  procs,    \* the host: Pid -> the process that has it
  born,     \* processes born so far
  pc,       \* where Collect is
  command,  \* native commands run so far
  todo,     \* listed PIDs that have not been read yet
  listed,   \* value of born when /proc was listed (history)
  snap,     \* the snapshot being taken
  next,     \* position in Field of the next read
  snaps,    \* the snapshots taken, by PID
  keys,     \* keys: Pid -> lineage key, once all snapshots are taken
  exeRead,  \* what collectExeMetadata has read for the record in progress
  entities, \* records of entities/process, in order
  lineages, \* records of facts/process_lineage, in order
  legacy,   \* the legacy ps and lsof files, each as the PIDs it shows
  errors,   \* error events about /proc: [pid, field, issue]
  expired,  \* the run's context has expired
  ret,      \* "none" while Collect runs, then "ok" or "err"
  faults    \* failures so far

host == <<procs, born>>
reading == <<command, todo, listed, snap, next, snaps, keys, exeRead>>
written == <<entities, lineages, legacy, errors>>
vars == <<host, pc, reading, written, expired, ret, faults>>

----------------------------------------------------------------------------
(* The host.                                                               *)

\* A helper is a user process whose parent or name looks like a kernel
\* thread's (kernelThreadHint); a hidden one belongs to somebody whose
\* files the collector may not read.
NoProc == [id |-> 0, state |-> "none", kind |-> "user", ppid |-> 0, hidden |-> FALSE]

Spawn(p) ==
  /\ procs[p].state = "none"
  /\ born < MaxBorn
  /\ born' = born + 1
  /\ \E n \in Nature, pp \in {0} \union {q \in Pid : procs[q].state = "alive"} :
       procs' = [procs EXCEPT ![p] = [id |-> born', state |-> "alive", kind |-> n.kind,
                                      ppid |-> pp, hidden |-> n.hidden]]
  /\ UNCHANGED <<pc, reading, written, expired, ret, faults>>

\* The children of a process that exits are given to another one or to none.
Exit(p) ==
  /\ procs[p].state = "alive"
  /\ procs' = [q \in Pid |->
                 CASE q = p -> [procs[p] EXCEPT !.state = "zombie"]
                   [] q # p /\ procs[q].ppid = p -> [procs[q] EXCEPT !.ppid = 0]
                   [] OTHER -> procs[q]]
  /\ UNCHANGED <<born, pc, reading, written, expired, ret, faults>>

Reap(p) ==
  /\ procs[p].state = "zombie"
  /\ procs' = [procs EXCEPT ![p] = NoProc]
  /\ UNCHANGED <<born, pc, reading, written, expired, ret, faults>>

\* What one read of /proc/p can yield: [val, issue].  A race is ENOENT or
\* ESRCH, denied any other error.
Guarded == {"environ", "exe", "cwd", "root", "maps", "fd", "fd_entry",
            "namespace", "namespace_entry"} \union ExeFields
OfMemory == {"cmdline", "environ", "maps"}
OfImage  == {"exe"} \union ExeFields

Yields(val)  == [val |-> val, issue |-> "none"]
Fails(issue) == [val |-> 0, issue |-> issue]

Barred(q, f)  == q.hidden /\ f \in Guarded
Bodiless(q)   == q.state = "zombie" \/ q.kind = "kernel"
Blank(q, f)   == Bodiless(q) /\ f \in OfMemory \union {"fd"}
Missing(q, f) == \/ q.state = "none"
                 \/ Bodiless(q) /\ f \in OfImage
                 \/ q.state = "zombie" /\ f \in {"cwd", "root", "namespace_entry"}

Outcomes(p, f) ==
  LET q == procs[p] IN
    IF q.state # "none" /\ Barred(q, f) THEN {Fails("denied")}
    ELSE IF Missing(q, f) THEN {Fails("race")}
    ELSE IF Blank(q, f) THEN {Yields(0)}
    ELSE {Yields(q.id)} \union (IF f = "fd_entry" THEN {Fails("race")} ELSE {})

----------------------------------------------------------------------------
(* Snapshots and what the records make of them.                            *)

NoSnap == [pid |-> 0, id |-> 0, kind |-> "user", ppid |-> 0,
           vals |-> [f \in Fields |-> 0], issues |-> [f \in Fields |-> "none"]]
NoExe  == [f \in ExeFields |-> Fails("none")]

\* processKind: no command line, no executable, and a name or parent that hints.
LooksKernel(s) == s.vals["cmdline"] = 0 /\ s.vals["exe"] = 0 /\ s.kind # "user"

KernelAbsences == {"cmdline", "environ", "exe", "cwd", "root", "maps", "fd"} \union ExeFields

\* Bug: an issue is filed as it was read.
SplitNothing(s, f, issue) == issue

\* splitProcessIssues: where the issue of reading f goes.
Split(s, f, issue) ==
  IF issue = "none" THEN "none"
  ELSE IF LooksKernel(s) /\ f \in KernelAbsences THEN "expected"
  ELSE IF issue = "race" THEN "volatile"
  ELSE "actionable"

\* lineageKey: PID and start time, or the PID alone when stat was not read.
KeyOf(s) == [pid |-> s.pid, start |-> s.vals["stat"]]
NoKey    == [pid |-> 0, start |-> 0]

----------------------------------------------------------------------------
Init ==
  /\ procs = [p \in Pid |-> NoProc]
  /\ born = 0
  /\ pc = "start"
  /\ command = 0
  /\ todo = {}
  /\ listed = 0
  /\ snap = NoSnap
  /\ next = 1
  /\ snaps = [p \in Pid |-> NoSnap]
  /\ keys = [p \in Pid |-> NoKey]
  /\ exeRead = NoExe
  /\ entities = <<>>
  /\ lineages = <<>>
  /\ legacy = <<>>
  /\ errors = {}
  /\ expired = FALSE
  /\ ret = "none"
  /\ faults = 0

Fault == faults < MaxFaults /\ faults' = faults + 1
Least(S) == CHOOSE p \in S : \A q \in S : p <= q

Return(result) == pc' = "done" /\ ret' = result

\* out.Error: its own failure is ignored.
Report(es) == \/ errors' = errors \union es /\ UNCHANGED faults
              \/ es # {} /\ Fault /\ UNCHANGED errors

Event(p, f, issue) == [pid |-> p, field |-> f, issue |-> issue]

Expire ==
  /\ ~expired /\ ret = "none"
  /\ expired' = TRUE
  /\ UNCHANGED <<host, pc, reading, written, ret, faults>>

\* A write the collector checks: the first failure ends Collect.
WriteFails ==
  /\ pc \in {"native", "absent", "entity", "lineage", "legacy"}
  /\ Fault
  /\ Return("err")
  /\ UNCHANGED <<host, reading, written, expired>>

Start ==
  /\ pc = "start"
  /\ IF expired THEN Return("err") ELSE pc' = "native" /\ UNCHANGED ret
  /\ UNCHANGED <<host, reading, written, expired, faults>>

\* writeNativeCommandOutputs: whether a command is missing, fails or gives
\* output, the next one is run; the events about commands are left out.
RunNative ==
  /\ pc = "native"
  /\ command < Len(Native)
  /\ command' = command + 1
  /\ UNCHANGED <<host, pc, todo, listed, snap, next, snaps, keys, exeRead, written,
                 expired, ret, faults>>

\* ListPIDs: one pass over the directory, sorted by number.
ListPIDs ==
  /\ pc = "native"
  /\ command = Len(Native)
  /\ listed' = born
  /\ \/ /\ todo' = {p \in Pid : procs[p].state # "none"}
        /\ pc' = "pick"
        /\ UNCHANGED <<errors, faults>>
     \/ /\ Fault
        /\ todo' = {}
        /\ errors' = errors \union {Event(0, "proc", "denied")}
        /\ pc' = "absent"
  /\ UNCHANGED <<host, command, snap, next, snaps, keys, exeRead,
                 entities, lineages, legacy, expired, ret>>

\* writeAbsent and writeLegacy(out, nil).
WriteAbsent ==
  /\ pc = "absent"
  /\ entities' = <<NoSnap>>
  /\ pc' = "legacy"
  /\ UNCHANGED <<host, reading, lineages, legacy, errors, expired, ret, faults>>

----------------------------------------------------------------------------
(* ReadProcess: status decides, everything after it is optional.           *)

\* status is gone: ENOENT is passed over, ESRCH (it was opened before the
\* exit and read after it) is reported as an error event.
StatusGone ==
  /\ pc = "pick" /\ todo # {} /\ ~expired
  /\ LET p == Least(todo) IN
       /\ procs[p].state = "none"
       /\ todo' = todo \ {p}
       /\ \/ UNCHANGED <<errors, faults>>
          \/ Report({Event(p, "status", "race")})
  /\ UNCHANGED <<host, pc, command, listed, snap, next, snaps, keys, exeRead,
                 entities, lineages, legacy, expired, ret>>

\* Bug: any error of status is taken for the end of the process.
StatusDeniedSilently ==
  /\ pc = "pick" /\ todo # {} /\ ~expired
  /\ procs[Least(todo)].hidden
  /\ todo' = todo \ {Least(todo)}
  /\ UNCHANGED <<host, pc, command, listed, snap, next, snaps, keys, exeRead, written,
                 expired, ret, faults>>

\* A proc file system mounted with hidepid bars even the status.
StatusDenied ==
  /\ pc = "pick" /\ todo # {} /\ ~expired
  /\ LET p == Least(todo) IN
       /\ procs[p].hidden
       /\ todo' = todo \ {p}
       /\ Report({Event(p, "status", "denied")})
  /\ UNCHANGED <<host, pc, command, listed, snap, next, snaps, keys, exeRead,
                 entities, lineages, legacy, expired, ret>>

ReadStatus ==
  /\ pc = "pick" /\ todo # {} /\ ~expired
  /\ LET p == Least(todo) IN
       /\ procs[p].state # "none"
       /\ todo' = todo \ {p}
       /\ snap' = [NoSnap EXCEPT !.pid = p, !.id = procs[p].id, !.kind = procs[p].kind,
                                 !.ppid = procs[p].ppid]
  /\ next' = 1
  /\ pc' = "read"
  /\ UNCHANGED <<host, command, listed, snaps, keys, exeRead, written, expired, ret, faults>>

\* An entry of fd or ns is read only when the directory could be listed.
ListedIn == [f \in {"fd_entry", "namespace_entry"} |->
               IF f = "fd_entry" THEN "fd" ELSE "namespace"]
Applies(s, f) == f \in DOMAIN ListedIn => s.vals[ListedIn[f]] # 0

ReadField ==
  /\ pc = "read"
  /\ next <= Len(Field)
  /\ LET f == Field[next] IN
       \E o \in IF Applies(snap, f) THEN Outcomes(snap.pid, f) ELSE {Fails("none")} :
         snap' = [snap EXCEPT !.vals[f] = o.val, !.issues[f] = o.issue]
  /\ next' = next + 1
  /\ UNCHANGED <<host, pc, command, todo, listed, snaps, keys, exeRead, written,
                 expired, ret, faults>>

SnapshotTaken ==
  /\ pc = "read"
  /\ next > Len(Field)
  /\ snaps' = [snaps EXCEPT ![snap.pid] = snap]
  /\ pc' = "entity"
  /\ UNCHANGED <<host, command, todo, listed, snap, next, keys, exeRead, written,
                 expired, ret, faults>>

\* Issues of the kinds that are worth an error event.
Actionable(s) == {f \in Fields : Split(s, f, s.issues[f]) = "actionable"}

\* writeProcess, and the error events of what it could not read.
WriteEntity ==
  /\ pc = "entity"
  /\ entities' = Append(entities, snap)
  /\ Report({Event(snap.pid, f, snap.issues[f]) : f \in Actionable(snap)})
  /\ snap' = NoSnap
  /\ next' = 1
  /\ pc' = "pick"
  /\ UNCHANGED <<host, command, todo, listed, snaps, keys, exeRead, lineages, legacy,
                 expired, ret>>

\* runCtx is looked at before each process.
GiveUp ==
  /\ pc = "pick" /\ todo # {} /\ expired
  /\ Return("err")
  /\ UNCHANGED <<host, reading, written, expired, faults>>

----------------------------------------------------------------------------
(* writeProcessLineage, in the order of the PIDs.                          *)

Taken == {p \in Pid : snaps[p].pid = p}
Remaining == {p \in Taken : \A k \in 1 .. Len(lineages) : lineages[k].pid # p}

\* All keys first: a parent may have a higher PID than its child.
IndexKeys ==
  /\ pc = "pick" /\ todo = {}
  /\ keys' = [p \in Pid |-> IF p \in Taken THEN KeyOf(snaps[p]) ELSE NoKey]
  /\ pc' = "exe_metadata"
  /\ UNCHANGED <<host, command, todo, listed, snap, next, snaps, exeRead, written,
                 expired, ret, faults>>

\* collectExeMetadata: stat of /proc/PID/exe, then its hash, long after the
\* link was read.
StatExe ==
  /\ pc = "exe_metadata"
  /\ Remaining # {}
  /\ \E o \in Outcomes(Least(Remaining), "exe_metadata") :
       /\ exeRead' = [NoExe EXCEPT !["exe_metadata"] = o]
       /\ pc' = IF o.issue = "none" THEN "exe_hash" ELSE "exe_report"
  /\ UNCHANGED <<host, command, todo, listed, snap, next, snaps, keys, written,
                 expired, ret, faults>>

HashExe ==
  /\ pc = "exe_hash"
  /\ \E o \in Outcomes(Least(Remaining), "exe_hash") :
       exeRead' = [exeRead EXCEPT !["exe_hash"] = o]
  /\ pc' = "exe_report"
  /\ UNCHANGED <<host, command, todo, listed, snap, next, snaps, keys, written,
                 expired, ret, faults>>

\* Bug: only parents whose record was written before are looked up.
ParentKeyByOrder(s) == IF s.ppid = 0 \/ s.ppid > s.pid THEN NoKey ELSE keys[s.ppid]

\* The parent's key, or its PID alone when it was not read.
ParentKey(s) == IF s.ppid = 0 THEN NoKey
                ELSE IF keys[s.ppid] # NoKey THEN keys[s.ppid]
                ELSE [pid |-> s.ppid, start |-> 0]

\* processLineageRecord: issues of the snapshot and of the executable.
AllIssues(s) == [f \in Fields \union ExeFields |->
                   IF f \in Fields THEN s.issues[f] ELSE exeRead[f].issue]

ReportExe ==
  /\ pc = "exe_report"
  /\ LET s == snaps[Least(Remaining)] IN
       Report({Event(s.pid, f, exeRead[f].issue) : f \in
                 {g \in ExeFields : Split(s, g, exeRead[g].issue) = "actionable"}})
  /\ pc' = "lineage"
  /\ UNCHANGED <<host, reading, entities, lineages, legacy, expired, ret>>

WriteLineage ==
  /\ pc = "lineage"
  /\ LET s == snaps[Least(Remaining)]
         is == AllIssues(s) IN
       lineages' = Append(lineages,
         [pid |-> s.pid, key |-> keys[s.pid], parent |-> ParentKey(s),
          exe |-> [f \in ExeFields |-> exeRead[f].val],
          filed |-> [f \in Fields \union ExeFields |-> Split(s, f, is[f])],
          snap |-> s])
  /\ exeRead' = NoExe
  /\ pc' = "exe_metadata"
  /\ UNCHANGED <<host, command, todo, listed, snap, next, snaps, keys, entities, legacy,
                 errors, expired, ret, faults>>

LineagesWritten ==
  /\ pc = "exe_metadata"
  /\ Remaining = {}
  /\ pc' = "legacy"
  /\ UNCHANGED <<host, reading, written, expired, ret, faults>>

\* Bug: each file lists /proc again.
WriteLegacyAgain ==
  /\ pc = "legacy"
  /\ legacy' = Append(legacy, {p \in Pid : procs[p].state # "none"})
  /\ IF Len(legacy') = 3 THEN Return("ok") ELSE UNCHANGED <<pc, ret>>
  /\ UNCHANGED <<host, reading, entities, lineages, errors, expired, faults>>

\* writeLegacy: three files that show the processes that were read.
WriteLegacy ==
  /\ pc = "legacy"
  /\ legacy' = Append(legacy, Taken)
  /\ IF Len(legacy') = 3 THEN Return("ok") ELSE UNCHANGED <<pc, ret>>
  /\ UNCHANGED <<host, reading, entities, lineages, errors, expired, faults>>

----------------------------------------------------------------------------
HostStep == \E p \in Pid : Spawn(p) \/ Exit(p) \/ Reap(p)

Collect == \/ Start \/ RunNative \/ ListPIDs \/ WriteAbsent
           \/ StatusGone \/ StatusDenied \/ ReadStatus \/ ReadField \/ SnapshotTaken
           \/ WriteEntity \/ GiveUp
           \/ IndexKeys \/ StatExe \/ HashExe \/ ReportExe \/ WriteLineage \/ LineagesWritten
           \/ WriteLegacy \/ WriteFails

\* The host matters only while Collect runs.
Next == Collect \/ (ret = "none" /\ (HostStep \/ Expire))

Spec == Init /\ [][Next]_vars

----------------------------------------------------------------------------
(* Properties.                                                             *)

Outcome  == [val : 0 .. MaxBorn, issue : {"none", "race", "denied"}]
Snapshot == [pid : Pid \union {0}, id : 0 .. MaxBorn, kind : {"user", "helper", "kernel"}, ppid : Pid \union {0},
             vals : [Fields -> 0 .. MaxBorn],
             issues : [Fields -> {"none", "race", "denied"}]]
Key      == [pid : Pid \union {0}, start : 0 .. MaxBorn]
Process  == [id : 0 .. MaxBorn, state : {"none", "alive", "zombie"}, kind : {"user", "helper", "kernel"},
             ppid : Pid \union {0}, hidden : BOOLEAN]
Filed    == {"none", "expected", "volatile", "actionable"}
Lineage  == [pid : Pid, key : Key, parent : Key, exe : [ExeFields -> 0 .. MaxBorn],
             filed : [Fields \union ExeFields -> Filed], snap : Snapshot]

\* Every variable stays in its range.
TypeOK ==
  /\ procs \in [Pid -> Process]
  /\ born \in 0 .. MaxBorn /\ listed \in 0 .. MaxBorn
  /\ pc \in {"start", "native", "absent", "pick", "read", "entity", "exe_metadata",
             "exe_hash", "exe_report", "lineage", "legacy", "done"}
  /\ command \in 0 .. Len(Native)
  /\ todo \subseteq Pid
  /\ snap \in Snapshot
  /\ next \in 1 .. Len(Field) + 1
  /\ snaps \in [Pid -> Snapshot]
  /\ keys \in [Pid -> Key]
  /\ exeRead \in [ExeFields -> Outcome]
  /\ entities \in Seq(Snapshot)
  /\ lineages \in Seq(Lineage)
  /\ legacy \in Seq(SUBSET Pid)
  /\ errors \subseteq [pid : Pid \union {0},
                       field : Fields \union ExeFields \union {"status", "proc"},
                       issue : {"race", "denied"}]
  /\ expired \in BOOLEAN
  /\ ret \in {"none", "ok", "err"}
  /\ faults \in 0 .. MaxFaults

Succeeded == ret = "ok" /\ Event(0, "proc", "denied") \notin errors

\* It was there when /proc was listed and it has not been reaped since.
Stable(p) == procs[p].state # "none" /\ procs[p].id <= listed

OneOf(S) == Cardinality(S) = 1

\* Completeness (Collect's loop and its continue statements): a process that
\* was there from the listing to the return of a successful Collect has one
\* entity and one lineage record, and neither carries a fact of another
\* process, however many processes came and went around it; a process whose
\* status may not be read has an error event instead.
StableProcessReported ==
  Succeeded =>
    \A p \in {q \in Pid : Stable(q)} :
      \/ /\ OneOf({k \in 1 .. Len(entities) : entities[k].pid = p})
         /\ OneOf({k \in 1 .. Len(lineages) : lineages[k].pid = p})
         /\ \A k \in 1 .. Len(lineages) : lineages[k].pid = p =>
              /\ lineages[k].snap.id = procs[p].id
              /\ lineages[k].key = [pid |-> p, start |-> procs[p].id]
              /\ \A f \in Fields : lineages[k].snap.vals[f] \in {0, procs[p].id}
              /\ \A f \in ExeFields : lineages[k].exe[f] \in {0, procs[p].id}
      \/ /\ procs[p].hidden
         /\ faults > 0 \/ Event(p, "status", "denied") \in errors
         /\ \A k \in 1 .. Len(entities) : entities[k].pid # p

\* Ancestry (writeProcessLineage's two loops): between two processes that were
\* there throughout, the child's parent_key is the parent's lineage_key,
\* whichever of the two has the higher PID.
StableParentLinked ==
  Succeeded =>
    \A k, l \in 1 .. Len(lineages) :
      LET c == lineages[k].pid
          p == lineages[l].pid IN
        Stable(c) /\ Stable(p) /\ procs[c].ppid = p => lineages[k].parent = lineages[l].key

\* One set of processes (snapshots kept in memory): the entities, the lineage
\* records and the three legacy files of a successful Collect show the same
\* snapshots, although they are written at different times.
StreamsAgree ==
  Succeeded =>
    /\ Len(legacy) = 3
    /\ \A k \in 1 .. Len(entities) : \E l \in 1 .. Len(lineages) : lineages[l].snap = entities[k]
    /\ \A l \in 1 .. Len(lineages) : \E k \in 1 .. Len(entities) : entities[k] = lineages[l].snap
    /\ \A n \in 1 .. 3 : legacy[n] = {entities[k].pid : k \in 1 .. Len(entities)}
=============================================================================
