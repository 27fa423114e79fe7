------------------------ MODULE ProcessCollectionProofs ------------------------
(***************************************************************************)
(* Proofs about ProcessCollection for every set of PIDs and every bound:   *)
(* what the host does between two reads never mixes two processes in one   *)
(* record, and no process that stays is lost.                              *)
(***************************************************************************)
EXTENDS ProcessCollection, FiniteSetTheorems, SequenceTheorems, WellFoundedInduction, TLAPS

----------------------------------------------------------------------------
(* The inductive invariants.                                               *)

\* A snapshot in progress is of some process, a record in progress as well.
TypeInv ==
  /\ TypeOK
  /\ pc \in {"read", "entity"} => snap.pid \in Pid
  /\ pc \in {"exe_hash", "exe_report", "lineage"} => Remaining # {}

Opening == pc \in {"start", "native"}
Lineal  == pc \in {"exe_metadata", "exe_hash", "exe_report", "lineage"}

\* A run that may still end well, over a directory that could be listed.
Sound == ret # "err" /\ Event(0, "proc", "denied") \notin errors

\* What was written is what was read, and each process was read once.
EntitiesInv ==
  /\ Opening => entities = <<>> /\ Taken = {}
  /\ todo \intersect Taken = {}
  /\ pc = "read" => snap.pid \notin todo \union Taken
  /\ pc = "entity" => snap.pid \notin todo /\ snap.pid \in Taken /\ snap = snaps[snap.pid]
  /\ \A k \in 1 .. Len(entities) : /\ entities[k].pid \in Taken
                                   /\ entities[k] = snaps[entities[k].pid]
                                   /\ pc = "entity" => entities[k].pid # snap.pid
  /\ \A p \in Taken : \/ pc = "entity" /\ p = snap.pid
                      \/ \E k \in 1 .. Len(entities) : entities[k].pid = p
  /\ \A k, l \in 1 .. Len(entities) : entities[k].pid = entities[l].pid => k = l

LineagesInv ==
  /\ Opening \/ pc \in {"pick", "read", "entity"} => lineages = <<>>
  /\ \A l \in 1 .. Len(lineages) : /\ lineages[l].pid \in Taken
                                   /\ lineages[l].snap = snaps[lineages[l].pid]
  /\ \A k, l \in 1 .. Len(lineages) : lineages[k].pid = lineages[l].pid => k = l
  /\ pc \in {"legacy", "done"} => Remaining = {}

LegacyInv ==
  /\ pc \notin {"legacy", "done"} => legacy = <<>>
  /\ \A n \in 1 .. Len(legacy) : legacy[n] = Taken
  /\ pc = "legacy" => Len(legacy) < 3
  /\ pc = "done" => Len(legacy) = 3

StreamInv ==
  /\ ret # "none" <=> pc = "done"
  /\ Sound => pc # "absent" /\ EntitiesInv /\ LineagesInv /\ LegacyInv

\* A snapshot of a process that is still there describes that process.
Describes(s, p) ==
  /\ s.id = procs[p].id
  /\ \A f \in Fields : s.vals[f] \in {0, procs[p].id}
  /\ procs[p].ppid \in {0, s.ppid}

\* A process whose status may not be read.
Refused(p) == procs[p].hidden /\ (faults > 0 \/ Event(p, "status", "denied") \in errors)

\* How far a process that stays has come.
Followed(p) ==
  \/ p \in todo
  \/ /\ pc = "read" /\ snap.pid = p /\ Describes(snap, p)
     /\ next > 1 => snap.vals["stat"] = procs[p].id
  \/ p \in Taken /\ Describes(snaps[p], p) /\ snaps[p].vals["stat"] = procs[p].id
  \/ p \notin Taken /\ Refused(p) /\ ~(pc = "read" /\ snap.pid = p)

\* What the lineage record of a process says of its executable and its parent.
Linked(l) ==
  LET p == l.pid IN
    /\ l.key = KeyOf(snaps[p])
    /\ Stable(p) => \A f \in ExeFields : l.exe[f] \in {0, procs[p].id}
    /\ snaps[p].ppid \in Taken => l.parent = KeyOf(snaps[snaps[p].ppid])

FollowedInv == ~Opening => \A p \in Pid : Stable(p) => Followed(p)

LinkedInv ==
  /\ Lineal \/ pc \in {"legacy", "done"} => todo = {}
  /\ Lineal => \A p \in Taken : keys[p] = KeyOf(snaps[p])
  /\ pc \in {"exe_hash", "exe_report", "lineage"} /\ Stable(Least(Remaining)) =>
       \A f \in ExeFields : exeRead[f].val \in {0, procs[Least(Remaining)].id}
  /\ \A l \in 1 .. Len(lineages) : Linked(lineages[l])

ProcInv ==
  /\ listed <= born /\ \A p \in Pid : procs[p].id <= born
  /\ Sound => FollowedInv /\ LinkedInv

----------------------------------------------------------------------------
(* Numbers, fields and outcomes.                                           *)

\* A set of naturals that is not empty has a least element: the intervals below
\* its elements are finite, and strict inclusion is well-founded on such sets.
LEMMA LeastNatural ==
  ASSUME NEW S, S \subseteq Nat, S # {}
  PROVE  \E p \in S : \A q \in S : p <= q
<1>. DEFINE Below(p) == 0 .. p - 1
            F == {Below(p) : p \in S}
<1>1. \A p \in S : IsFiniteSet(Below(p)) /\ Below(p) \subseteq Nat
  BY FS_Interval
<1>2. F \subseteq FiniteSubsetsOf(Nat) /\ F # {}
  BY <1>1 DEF FiniteSubsetsOf
<1>3. PICK X \in F : \A Y \in F : ~(<<Y, X>> \in StrictSubsetOrdering(Nat))
  <2>. HIDE DEF F
  <2>. QED
    BY <1>2, FS_StrictSubsetOrderingWellFounded, WFMin
<1>4. PICK p \in S : X = Below(p)
  OBVIOUS
<1>5. ASSUME NEW q \in S, ~(p <= q) PROVE FALSE
  <2>1. Below(q) \subseteq Below(p) /\ q \in Below(p) /\ q \notin Below(q)
    BY <1>5
  <2>2. <<Below(q), Below(p)>> \in StrictSubsetOrdering(Nat)
    BY <1>1, <2>1 DEF StrictSubsetOrdering
  <2>. QED
    BY <1>3, <1>4, <2>2
<1>. QED
  BY <1>5

\* The next PID is one of those that are left.
LEMMA LeastPid ==
  ASSUME NEW S, S \subseteq Pid, S # {}
  PROVE  Least(S) \in S /\ Least(S) \in Pid
<1>1. \E p \in S : \A q \in S : p <= q
  BY LeastNatural, PidAssumption
<1>. QED
  BY <1>1 DEF Least

\* The process whose lineage record comes next has a snapshot.
LEMMA LeastRemaining ==
  ASSUME Remaining # {}
  PROVE  Least(Remaining) \in Remaining /\ Least(Remaining) \in Taken /\ Least(Remaining) \in Pid
<1>1. Remaining \subseteq Taken /\ Taken \subseteq Pid
  BY DEF Remaining, Taken
<1>. QED
  BY <1>1, LeastPid

LEMMA FieldNames ==
  /\ Len(Field) = 12 /\ \A k \in 1 .. 12 : Field[k] \in Fields
  /\ Field[1] = "stat"
  /\ Fields = {"stat", "cmdline", "environ", "exe", "cwd", "root", "maps", "fd", "fd_entry",
               "cgroup", "namespace", "namespace_entry"}
<1>1. Len(Field) = 12 /\ Field[1] = "stat"
  BY DEF Field
<1>2. \A k \in 1 .. 12 : Field[k] \in Fields
  BY <1>1 DEF Fields
<1>3. Fields = {"stat", "cmdline", "environ", "exe", "cwd", "root", "maps", "fd", "fd_entry",
                "cgroup", "namespace", "namespace_entry"}
  <2>1. 1 .. 12 = {1, 2, 3, 4, 5, 6, 7, 8, 9, 10, 11, 12}
    OBVIOUS
  <2>2. Fields = {Field[k] : k \in {1, 2, 3, 4, 5, 6, 7, 8, 9, 10, 11, 12}}
    BY <1>1, <2>1 DEF Fields
  <2>3. Fields = {Field[1], Field[2], Field[3], Field[4], Field[5], Field[6], Field[7], Field[8],
                  Field[9], Field[10], Field[11], Field[12]}
    BY <2>2
  <2>. QED
    BY <2>3 DEF Field
<1>. QED
  BY <1>1, <1>2, <1>3

----------------------------------------------------------------------------
(* Types.                                                                  *)

Issue == [pid : Pid \union {0}, field : Fields \union ExeFields \union {"status", "proc"},
          issue : {"race", "denied"}]

HostType == procs \in [Pid -> Process] /\ born \in 0 .. MaxBorn

ReadType ==
  /\ listed \in 0 .. MaxBorn
  /\ command \in 0 .. Len(Native)
  /\ todo \subseteq Pid
  /\ snap \in Snapshot
  /\ next \in 1 .. Len(Field) + 1
  /\ snaps \in [Pid -> Snapshot]
  /\ keys \in [Pid -> Key]
  /\ exeRead \in [ExeFields -> Outcome]

PlaceType ==
  /\ pc \in {"start", "native", "absent", "pick", "read", "entity", "exe_metadata",
             "exe_hash", "exe_report", "lineage", "legacy", "done"}
  /\ pc \in {"read", "entity"} => snap.pid \in Pid
  /\ pc \in {"exe_hash", "exe_report", "lineage"} => Remaining # {}
  /\ expired \in BOOLEAN
  /\ ret \in {"none", "ok", "err"}

OutType ==
  /\ entities \in Seq(Snapshot)
  /\ lineages \in Seq(Lineage)
  /\ legacy \in Seq(SUBSET Pid)

Marks == errors \subseteq Issue /\ faults \in 0 .. MaxFaults

\* The type invariant, part by part.
LEMMA TypeParts == TypeInv <=> HostType /\ ReadType /\ PlaceType /\ OutType /\ Marks
BY DEF TypeInv, TypeOK, HostType, ReadType, PlaceType, OutType, Marks, Issue

\* A read yields the process that has the PID, or an issue.
LEMMA OutcomeType ==
  ASSUME HostType, NEW p \in Pid, NEW f
  PROVE  /\ Outcomes(p, f) \subseteq Outcome
         /\ \A o \in Outcomes(p, f) : o.val \in {0, procs[p].id}
<1>1. procs[p].id \in 0 .. MaxBorn /\ 0 \in 0 .. MaxBorn
  BY BornAssumption DEF HostType, Process
<1>2. \A o \in Outcomes(p, f) : \/ o = Fails("denied") \/ o = Fails("race")
                               \/ o = Yields(0) \/ o = Yields(procs[p].id)
  BY DEF Outcomes
<1>. QED
  BY <1>1, <1>2 DEF Outcome, Fails, Yields

\* What is reported, and how often something failed.
LEMMA ReportKeeps ==
  ASSUME Marks, NEW es \in SUBSET Issue, Report(es)
  PROVE  Marks' /\ errors \subseteq errors' /\ faults <= faults'
BY ProcessFaultAssumption DEF Marks, Report, Fault

LEMMA FaultKeeps ==
  ASSUME Marks, Fault, NEW es \in SUBSET Issue, errors' = errors \/ errors' = errors \union es
  PROVE  Marks' /\ errors \subseteq errors' /\ faults <= faults'
BY ProcessFaultAssumption DEF Marks, Fault

\* The records and the snapshots from which the next one is taken.
LEMMA RemainingKept ==
  ASSUME UNCHANGED <<snaps, lineages>> PROVE Remaining' = Remaining /\ Taken' = Taken
BY DEF Remaining, Taken


LEMMA EmptySnapshot == NoSnap \in Snapshot /\ NoExe \in [ExeFields -> Outcome] /\ NoKey \in Key
BY BornAssumption DEF NoSnap, Snapshot, NoExe, Fails, Outcome, NoKey, Key

LEMMA TypeInit == Init => TypeInv
<1>. SUFFICES ASSUME Init PROVE TypeInv
  OBVIOUS
<1>1. HostType
  <2>1. NoProc \in Process
    BY BornAssumption DEF NoProc, Process
  <2>. QED
    BY <2>1, BornAssumption DEF Init, HostType
<1>2. ReadType
  BY EmptySnapshot, FieldNames, BornAssumption DEF Init, ReadType, Native
<1>3. PlaceType /\ OutType /\ Marks
  <2>1. <<>> \in Seq(Snapshot) /\ <<>> \in Seq(Lineage) /\ <<>> \in Seq(SUBSET Pid)
    BY EmptySeq
  <2>2. /\ entities = <<>> /\ lineages = <<>> /\ legacy = <<>> /\ errors = {} /\ faults = 0
        /\ pc = "start" /\ expired = FALSE /\ ret = "none"
    BY DEF Init
  <2>3. PlaceType
    BY <2>2 DEF PlaceType
  <2>4. OutType
    BY <2>1, <2>2, Zenon DEF OutType
  <2>5. Marks
    BY <2>2, ProcessFaultAssumption DEF Marks
  <2>. QED
    BY <2>3, <2>4, <2>5
<1>. QED
  BY <1>1, <1>2, <1>3, TypeParts

\* The host.
LEMMA TypeHost ==
  ASSUME TypeInv, HostStep \/ Expire PROVE TypeInv'
<1>0. HostType /\ ReadType /\ PlaceType /\ OutType /\ Marks
  BY TypeParts
<1>1. UNCHANGED <<pc, command, todo, listed, snap, next, snaps, keys, exeRead, entities, lineages,
                  legacy, errors, ret, faults>>
  BY DEF HostStep, Spawn, Exit, Reap, Expire, reading, written
<1>2. expired' \in BOOLEAN
  BY <1>0 DEF HostStep, Spawn, Exit, Reap, Expire, PlaceType
<1>3. HostType'
  <2>1. CASE Expire
    BY <1>0, <2>1 DEF Expire, host, HostType
  <2>2. ASSUME NEW p \in Pid, Spawn(p) PROVE HostType'
    <3>1. PICK n \in Nature, pp \in {0} \union {q \in Pid : procs[q].state = "alive"} :
            procs' = [procs EXCEPT ![p] = [id |-> born', state |-> "alive", kind |-> n.kind,
                                           ppid |-> pp, hidden |-> n.hidden]]
      BY <2>2 DEF Spawn
    <3>2. born' \in 0 .. MaxBorn
      BY <1>0, <2>2, BornAssumption DEF HostType, Spawn
    <3>3. n.kind \in {"user", "helper", "kernel"} /\ n.hidden \in BOOLEAN
      BY NatureAssumption
    <3>4. [id |-> born', state |-> "alive", kind |-> n.kind, ppid |-> pp, hidden |-> n.hidden]
            \in Process
      BY <3>2, <3>3 DEF Process
    <3>. QED
      BY <1>0, <3>1, <3>2, <3>4 DEF HostType
  <2>3. ASSUME NEW p \in Pid, Exit(p) PROVE HostType'
    <3>1. ASSUME NEW q \in Pid
          PROVE  (CASE q = p -> [procs[p] EXCEPT !.state = "zombie"]
                    [] q # p /\ procs[q].ppid = p -> [procs[q] EXCEPT !.ppid = 0]
                    [] OTHER -> procs[q]) \in Process
      <4>1. procs[q] \in Process /\ procs[p] \in Process
        BY <1>0 DEF HostType
      <4>2. [procs[p] EXCEPT !.state = "zombie"] \in Process
        BY <4>1 DEF Process
      <4>3. [procs[q] EXCEPT !.ppid = 0] \in Process
        BY <4>1 DEF Process
      <4>. QED
        BY <4>1, <4>2, <4>3
    <3>. QED
      BY <1>0, <2>3, <3>1 DEF Exit, HostType
  <2>4. ASSUME NEW p \in Pid, Reap(p) PROVE HostType'
    <3>1. NoProc \in Process
      BY BornAssumption DEF NoProc, Process
    <3>. QED
      BY <1>0, <2>4, <3>1 DEF Reap, HostType
  <2>. QED
    BY <2>1, <2>2, <2>3, <2>4 DEF HostStep
<1>4. ReadType' /\ OutType' /\ Marks'
  BY <1>0, <1>1 DEF ReadType, OutType, Marks
<1>5. PlaceType'
  BY <1>0, <1>1, <1>2, RemainingKept DEF PlaceType
<1>. QED
  BY <1>3, <1>4, <1>5, TypeParts, PTL

\* From the start to the list of PIDs, and every early end.
LEMMA TypeOpening ==
  ASSUME TypeInv, Start \/ RunNative \/ ListPIDs \/ WriteAbsent \/ GiveUp \/ WriteFails
  PROVE  TypeInv'
<1>0. HostType /\ ReadType /\ PlaceType /\ OutType /\ Marks
  BY TypeParts
<1>1. /\ UNCHANGED <<procs, born, snap, next, snaps, keys, exeRead, lineages, legacy, expired>>
      /\ pc' \in {"native", "pick", "absent", "legacy", "done"}
      /\ ret' \in {"none", "ok", "err"}
  BY <1>0 DEF Start, RunNative, ListPIDs, WriteAbsent, GiveUp, WriteFails, Return, host, reading,
              written, PlaceType
<1>2. HostType' /\ PlaceType'
  BY <1>0, <1>1 DEF HostType, PlaceType
<1>3. ReadType'
  <2>1. command' \in 0 .. Len(Native)
    BY <1>0 DEF ReadType, Start, RunNative, ListPIDs, WriteAbsent, GiveUp, WriteFails, reading, Native
  <2>2. todo' \subseteq Pid /\ listed' \in 0 .. MaxBorn
    BY <1>0 DEF ReadType, HostType, Start, RunNative, ListPIDs, WriteAbsent, GiveUp, WriteFails, reading
  <2>. QED
    BY <1>0, <1>1, <2>1, <2>2 DEF ReadType
<1>4. OutType'
  <2>1. <<NoSnap>> \in Seq(Snapshot)
    BY EmptySnapshot
  <2>. QED
    BY <1>0, <1>1, <2>1
    DEF OutType, Start, RunNative, ListPIDs, WriteAbsent, GiveUp, WriteFails, written
<1>5. Marks'
  <2>1. {Event(0, "proc", "denied")} \in SUBSET Issue
    BY DEF Event, Issue
  <2>2. CASE UNCHANGED <<errors, faults>>
    BY <1>0, <2>2 DEF Marks
  <2>3. CASE ~UNCHANGED <<errors, faults>>
    <3>1. Fault /\ (errors' = errors \/ errors' = errors \union {Event(0, "proc", "denied")})
      BY <2>3 DEF Start, RunNative, ListPIDs, WriteAbsent, GiveUp, WriteFails, written
    <3>. QED
      BY <1>0, <2>1, <3>1, FaultKeeps
  <2>. QED
    BY <2>2, <2>3
<1>. QED
  BY <1>2, <1>3, <1>4, <1>5, TypeParts, PTL

\* The status decides whether a process is read.
LEMMA TypeStatus ==
  ASSUME TypeInv, StatusGone \/ StatusDenied \/ ReadStatus PROVE TypeInv'
<1>0. HostType /\ ReadType /\ PlaceType /\ OutType /\ Marks
  BY TypeParts
<1>1. /\ UNCHANGED <<procs, born, command, listed, snaps, keys, exeRead, entities, lineages, legacy,
                     expired, ret>>
      /\ todo # {} /\ pc = "pick"
  BY DEF StatusGone, StatusDenied, ReadStatus, host, written
<1>2. PICK p \in Pid : p = Least(todo) /\ p \in todo
  BY <1>0, <1>1, LeastPid DEF ReadType
<1>3. todo' = todo \ {p}
  BY <1>2 DEF StatusGone, StatusDenied, ReadStatus
<1>4. CASE ReadStatus
  <2>1. /\ UNCHANGED <<errors, faults>> /\ pc' = "read" /\ next' = 1
        /\ snap' = [NoSnap EXCEPT !.pid = p, !.id = procs[p].id, !.kind = procs[p].kind,
                                  !.ppid = procs[p].ppid]
    BY <1>2, <1>4 DEF ReadStatus, written
  <2>2. procs[p] \in Process
    BY <1>0 DEF HostType
  <2>3. snap' \in Snapshot /\ snap'.pid = p
    BY <2>1, <2>2, EmptySnapshot DEF Snapshot, Process
  <2>4. 1 \in 1 .. Len(Field) + 1
    BY FieldNames
  <2>5. HostType' /\ OutType' /\ Marks'
    BY <1>0, <1>1, <2>1 DEF HostType, OutType, Marks
  <2>6. ReadType'
    BY <1>0, <1>1, <1>3, <2>1, <2>3, <2>4 DEF ReadType
  <2>7. PlaceType'
    BY <1>0, <1>1, <2>1, <2>3 DEF PlaceType
  <2>. QED
    BY <2>5, <2>6, <2>7, TypeParts, PTL
<1>5. CASE StatusGone \/ StatusDenied
  <2>1. /\ UNCHANGED <<snap, next, pc>>
        /\ \/ UNCHANGED <<errors, faults>>
           \/ Report({Event(p, "status", "race")}) \/ Report({Event(p, "status", "denied")})
    BY <1>2, <1>5 DEF StatusGone, StatusDenied
  <2>2. {Event(p, "status", "race")} \in SUBSET Issue /\ {Event(p, "status", "denied")} \in SUBSET Issue
    BY DEF Event, Issue
  <2>3. Marks'
    <3>1. CASE UNCHANGED <<errors, faults>>
      BY <1>0, <3>1 DEF Marks
    <3>2. CASE Report({Event(p, "status", "race")}) \/ Report({Event(p, "status", "denied")})
      BY <1>0, <2>2, <3>2, ReportKeeps
    <3>. QED
      BY <2>1, <3>1, <3>2
  <2>4. HostType' /\ OutType' /\ ReadType'
    BY <1>0, <1>1, <1>3, <2>1 DEF HostType, OutType, ReadType
  <2>5. PlaceType'
    BY <1>0, <1>1, <2>1 DEF PlaceType
  <2>. QED
    BY <2>3, <2>4, <2>5, TypeParts, PTL
<1>. QED
  BY <1>4, <1>5


\* An issue that is reported is no success.
LEMMA ReportedIssues ==
  ASSUME NEW s, s.issues \in [Fields -> {"none", "race", "denied"}], NEW p \in Pid \union {0}
  PROVE  {Event(p, f, s.issues[f]) : f \in Actionable(s)} \in SUBSET Issue
<1>1. ASSUME NEW f \in Actionable(s) PROVE Event(p, f, s.issues[f]) \in Issue
  <2>1. f \in Fields /\ s.issues[f] \in {"race", "denied"}
    BY DEF Actionable, Split
  <2>. QED
    BY <2>1 DEF Event, Issue
<1>. QED
  BY <1>1

\* Reading a process, and its entity.
LEMMA TypeRead ==
  ASSUME TypeInv, ReadField \/ SnapshotTaken \/ WriteEntity PROVE TypeInv'
<1>0. HostType /\ ReadType /\ PlaceType /\ OutType /\ Marks
  BY TypeParts
<1>1. /\ UNCHANGED <<procs, born, command, todo, listed, keys, exeRead, lineages, legacy, expired, ret>>
      /\ snap.pid \in Pid /\ snap \in Snapshot
  BY <1>0 DEF ReadField, SnapshotTaken, WriteEntity, host, written, PlaceType, ReadType
<1>2. HostType'
  BY <1>0, <1>1 DEF HostType
<1>3. CASE ReadField
  <2>1. PICK o \in IF Applies(snap, Field[next]) THEN Outcomes(snap.pid, Field[next])
                                                ELSE {Fails("none")} :
          snap' = [snap EXCEPT !.vals[Field[next]] = o.val, !.issues[Field[next]] = o.issue]
    BY <1>3 DEF ReadField
  <2>2. o \in Outcome
    <3>1. Fails("none") \in Outcome
      BY BornAssumption DEF Fails, Outcome
    <3>. QED
      BY <1>0, <1>1, <3>1, OutcomeType
  <2>3. snap' \in Snapshot /\ snap'.pid = snap.pid
    BY <1>1, <2>1, <2>2 DEF Snapshot, Outcome
  <2>4. next' \in 1 .. Len(Field) + 1
    <3>1. next' = next + 1 /\ next <= Len(Field)
      BY <1>3 DEF ReadField
    <3>2. next \in 1 .. Len(Field) + 1 /\ Len(Field) = 12
      BY <1>0, FieldNames DEF ReadType
    <3>. QED
      BY <3>1, <3>2
  <2>5. UNCHANGED <<pc, snaps, entities, errors, faults>>
    BY <1>3 DEF ReadField, written
  <2>6. ReadType'
    BY <1>0, <1>1, <2>3, <2>4, <2>5 DEF ReadType
  <2>7. PlaceType'
    BY <1>0, <1>1, <1>3, <2>3, <2>5 DEF PlaceType, ReadField
  <2>8. OutType' /\ Marks'
    BY <1>0, <1>1, <2>5 DEF OutType, Marks
  <2>. QED
    BY <1>2, <2>6, <2>7, <2>8, TypeParts, PTL
<1>4. CASE SnapshotTaken
  <2>1. /\ UNCHANGED <<snap, next, entities, errors, faults>> /\ pc' = "entity"
        /\ snaps' = [snaps EXCEPT ![snap.pid] = snap]
    BY <1>4 DEF SnapshotTaken, written
  <2>2. ReadType'
    BY <1>0, <1>1, <2>1 DEF ReadType
  <2>3. PlaceType' /\ OutType' /\ Marks'
    BY <1>0, <1>1, <2>1 DEF PlaceType, OutType, Marks
  <2>. QED
    BY <1>2, <2>2, <2>3, TypeParts, PTL
<1>5. CASE WriteEntity
  <2>1. /\ entities' = Append(entities, snap)
        /\ Report({Event(snap.pid, f, snap.issues[f]) : f \in Actionable(snap)})
        /\ snap' = NoSnap /\ next' = 1 /\ pc' = "pick" /\ snaps' = snaps
    BY <1>5 DEF WriteEntity
  <2>2. Marks'
    <3>1. snap.issues \in [Fields -> {"none", "race", "denied"}]
      BY <1>1 DEF Snapshot
    <3>. QED
      BY <1>0, <1>1, <2>1, <3>1, ReportedIssues, ReportKeeps
  <2>3. entities' \in Seq(Snapshot)
    BY <1>0, <1>1, <2>1, AppendProperties DEF OutType
  <2>4. 1 \in 1 .. Len(Field) + 1
    BY FieldNames
  <2>5. ReadType'
    BY <1>0, <1>1, <2>1, <2>4, EmptySnapshot DEF ReadType
  <2>6. PlaceType' /\ OutType'
    BY <1>0, <1>1, <2>1, <2>3 DEF PlaceType, OutType
  <2>. QED
    BY <1>2, <2>2, <2>5, <2>6, TypeParts, PTL
<1>. QED
  BY <1>3, <1>4, <1>5

\* The parts of a lineage record.
LEMMA LineageType ==
  ASSUME ReadType, Remaining # {}
  PROVE  LET s == snaps[Least(Remaining)] IN
           /\ s \in Snapshot /\ s.pid = Least(Remaining)
           /\ ParentKey(s) \in Key
           /\ [pid |-> s.pid, key |-> keys[s.pid], parent |-> ParentKey(s),
               exe |-> [f \in ExeFields |-> exeRead[f].val],
               filed |-> [f \in Fields \union ExeFields |-> Split(s, f, AllIssues(s)[f])],
               snap |-> s] \in Lineage
<1>. DEFINE p == Least(Remaining)
            s == snaps[p]
<1>1. p \in Pid /\ s \in Snapshot /\ s.pid = p
  BY LeastRemaining DEF ReadType, Taken
<1>. HIDE DEF p, s
<1>2. s.ppid \in Pid \union {0}
  BY <1>1 DEF Snapshot
<1>3. keys[s.pid] \in Key
  BY <1>1 DEF ReadType
<1>4. ParentKey(s) \in Key
  <2>1. ASSUME s.ppid # 0 PROVE keys[s.ppid] \in Key /\ [pid |-> s.ppid, start |-> 0] \in Key
    BY <1>2, <2>1, BornAssumption DEF ReadType, Key
  <2>. QED
    BY <2>1, EmptySnapshot DEF ParentKey
<1>5. [f \in ExeFields |-> exeRead[f].val] \in [ExeFields -> 0 .. MaxBorn]
  BY DEF ReadType, Outcome
<1>6. [f \in Fields \union ExeFields |-> Split(s, f, AllIssues(s)[f])]
        \in [Fields \union ExeFields -> Filed]
  <2>1. \A f, i : Split(s, f, i) \in Filed
    BY DEF Split, Filed
  <2>. QED
    BY <2>1
<1>7. [pid |-> s.pid, key |-> keys[s.pid], parent |-> ParentKey(s),
       exe |-> [f \in ExeFields |-> exeRead[f].val],
       filed |-> [f \in Fields \union ExeFields |-> Split(s, f, AllIssues(s)[f])],
       snap |-> s] \in Lineage
  BY <1>1, <1>3, <1>4, <1>5, <1>6 DEF Lineage
<1>. QED
  BY <1>1, <1>4, <1>7 DEF p, s

\* The lineage records and the legacy files.
LEMMA TypeLineage ==
  ASSUME TypeInv, \/ IndexKeys \/ StatExe \/ HashExe \/ ReportExe \/ WriteLineage \/ LineagesWritten
                  \/ WriteLegacy
  PROVE  TypeInv'
<1>0. HostType /\ ReadType /\ PlaceType /\ OutType /\ Marks
  BY TypeParts
<1>1. UNCHANGED <<procs, born, command, todo, listed, snap, next, snaps, entities, expired>>
  BY DEF IndexKeys, StatExe, HashExe, ReportExe, WriteLineage, LineagesWritten, WriteLegacy, host,
         reading, written
<1>2. HostType'
  BY <1>0, <1>1 DEF HostType
<1>3. CASE IndexKeys
  <2>1. keys' = [p \in Pid |-> IF p \in Taken THEN KeyOf(snaps[p]) ELSE NoKey]
    BY <1>3 DEF IndexKeys
  <2>2. \A p \in Pid : KeyOf(snaps[p]) \in Key
    <3>1. "stat" \in Fields
      BY FieldNames
    <3>2. \A p \in Pid : snaps[p] \in Snapshot
      BY <1>0 DEF ReadType
    <3>3. \A p \in Pid : snaps[p].pid \in Pid \union {0} /\ snaps[p].vals["stat"] \in 0 .. MaxBorn
      BY <3>1, <3>2 DEF Snapshot
    <3>. QED
      BY <3>3 DEF KeyOf, Key
  <2>3. keys' \in [Pid -> Key]
    BY <2>1, <2>2, EmptySnapshot
  <2>4. UNCHANGED <<exeRead, lineages, legacy, errors, ret, faults>> /\ pc' = "exe_metadata"
    BY <1>3 DEF IndexKeys, written
  <2>5. ReadType' /\ PlaceType'
    BY <1>0, <1>1, <2>3, <2>4 DEF ReadType, PlaceType
  <2>6. OutType' /\ Marks'
    BY <1>0, <1>1, <2>4 DEF OutType, Marks
  <2>. QED
    BY <1>2, <2>5, <2>6, TypeParts, PTL
<1>4. CASE StatExe \/ HashExe
  <2>1. /\ UNCHANGED <<keys, lineages, legacy, errors, ret, faults>> /\ Remaining # {}
        /\ pc' \in {"exe_hash", "exe_report"}
    BY <1>0, <1>4 DEF StatExe, HashExe, written, PlaceType
  <2>2. exeRead' \in [ExeFields -> Outcome]
    <3>1. PICK f \in ExeFields : \E o \in Outcomes(Least(Remaining), f) :
            \/ exeRead' = [NoExe EXCEPT ![f] = o] \/ exeRead' = [exeRead EXCEPT ![f] = o]
      BY <1>4 DEF StatExe, HashExe, ExeFields
    <3>2. Outcomes(Least(Remaining), f) \subseteq Outcome
      BY <1>0, <2>1, OutcomeType, LeastRemaining
    <3>. QED
      BY <1>0, <3>1, <3>2, EmptySnapshot DEF ReadType
  <2>3. ReadType' /\ OutType' /\ Marks'
    BY <1>0, <1>1, <2>1, <2>2 DEF ReadType, OutType, Marks
  <2>4. PlaceType'
    BY <1>0, <1>1, <2>1, RemainingKept DEF PlaceType
  <2>. QED
    BY <1>2, <2>3, <2>4, TypeParts, PTL
<1>5. CASE ReportExe
  <2>. DEFINE s == snaps[Least(Remaining)]
              es == {Event(s.pid, f, exeRead[f].issue) : f \in
                       {g \in ExeFields : Split(s, g, exeRead[g].issue) = "actionable"}}
  <2>1. /\ UNCHANGED <<keys, exeRead, lineages, legacy, ret>> /\ pc' = "lineage"
        /\ Report(es) /\ Remaining # {}
    BY <1>0, <1>5 DEF ReportExe, reading, PlaceType
  <2>2. es \in SUBSET Issue
    <3>1. s.pid \in Pid
      BY <1>0, <2>1, LeastRemaining DEF Taken
    <3>2. ASSUME NEW f \in ExeFields, Split(s, f, exeRead[f].issue) = "actionable"
          PROVE  Event(s.pid, f, exeRead[f].issue) \in Issue
      <4>1. exeRead[f].issue \in {"race", "denied"}
        BY <1>0, <3>2 DEF ReadType, Outcome, Split
      <4>. QED
        BY <3>1, <4>1 DEF Event, Issue
    <3>. QED
      BY <3>2
  <2>3. Marks'
    <3>. HIDE DEF es
    <3>. QED
      BY <1>0, <2>1, <2>2, ReportKeeps
  <2>4. ReadType' /\ OutType'
    BY <1>0, <1>1, <2>1 DEF ReadType, OutType
  <2>5. PlaceType'
    BY <1>0, <1>1, <2>1, RemainingKept DEF PlaceType
  <2>. QED
    BY <1>2, <2>3, <2>4, <2>5, TypeParts, PTL
<1>6. CASE WriteLineage
  <2>1. Remaining # {}
    BY <1>0, <1>6 DEF WriteLineage, PlaceType
  <2>2. PICK r \in Lineage : lineages' = Append(lineages, r)
    BY <1>0, <1>6, <2>1, LineageType DEF WriteLineage
  <2>3. lineages' \in Seq(Lineage)
    BY <1>0, <2>2, AppendProperties DEF OutType
  <2>4. /\ UNCHANGED <<keys, legacy, errors, ret, faults>>
        /\ exeRead' = NoExe /\ pc' = "exe_metadata"
    BY <1>6 DEF WriteLineage
  <2>5. ReadType' /\ OutType' /\ Marks'
    BY <1>0, <1>1, <2>3, <2>4, EmptySnapshot DEF ReadType, OutType, Marks
  <2>6. PlaceType'
    BY <1>0, <1>1, <2>4 DEF PlaceType
  <2>. QED
    BY <1>2, <2>5, <2>6, TypeParts, PTL
<1>7. CASE LineagesWritten \/ WriteLegacy
  <2>1. /\ UNCHANGED <<keys, exeRead, lineages, errors, faults>>
        /\ legacy' = legacy \/ legacy' = Append(legacy, Taken)
        /\ pc' \in {"legacy", "done"} /\ ret' \in {"none", "ok", "err"}
    BY <1>0, <1>7 DEF LineagesWritten, WriteLegacy, Return, reading, written, PlaceType
  <2>2. Taken \in SUBSET Pid
    BY DEF Taken
  <2>3. legacy' \in Seq(SUBSET Pid)
    <3>1. legacy \in Seq(SUBSET Pid)
      BY <1>0 DEF OutType
    <3>2. Append(legacy, Taken) \in Seq(SUBSET Pid)
      BY <2>2, <3>1, AppendProperties
    <3>. QED
      BY <2>1, <3>1, <3>2
  <2>4. ReadType' /\ OutType' /\ Marks' /\ PlaceType'
    BY <1>0, <1>1, <2>1, <2>3 DEF ReadType, OutType, Marks, PlaceType
  <2>. QED
    BY <1>2, <2>4, TypeParts, PTL
<1>. QED
  BY <1>3, <1>4, <1>5, <1>6, <1>7

LEMMA TypeStep == TypeInv /\ [Next]_vars => TypeInv'
<1>. SUFFICES ASSUME TypeInv, [Next]_vars PROVE TypeInv'
  OBVIOUS
<1>1. CASE Collect
  BY <1>1, TypeOpening, TypeStatus, TypeRead, TypeLineage DEF Collect
<1>2. CASE HostStep \/ Expire
  BY <1>2, TypeHost
<1>3. CASE UNCHANGED vars
  BY <1>3 DEF TypeInv, TypeOK, Remaining, Taken, vars, host, reading, written
<1>. QED
  BY <1>1, <1>2, <1>3 DEF Next

\* Whatever the host does between two reads, every variable stays in its range
\* (Collect, ReadProcess, writeProcessLineage): above all, the next PID and the
\* next record always exist when the code takes them.
THEOREM ProcessesTyped == Spec => []TypeOK
<1>1. TypeInv => TypeOK
  BY DEF TypeInv
<1>. QED
  BY TypeInit, TypeStep, <1>1, PTL DEF Spec

----------------------------------------------------------------------------
(* The streams.                                                            *)

LEMMA StreamInit == Init => StreamInv
<1>. SUFFICES ASSUME Init PROVE StreamInv
  OBVIOUS
<1>1. /\ entities = <<>> /\ lineages = <<>> /\ legacy = <<>> /\ pc = "start" /\ ret = "none"
      /\ snaps = [p \in Pid |-> NoSnap] /\ todo = {}
  BY DEF Init
<1>2. Taken = {}
  BY <1>1, PidAssumption DEF Taken, NoSnap
<1>3. EntitiesInv
  BY <1>1, <1>2 DEF EntitiesInv, Opening
<1>4. LineagesInv /\ LegacyInv
  BY <1>1 DEF LineagesInv, LegacyInv, Opening
<1>. QED
  BY <1>1, <1>3, <1>4 DEF StreamInv

\* Inside Collect the run has no result yet, and an error event is never unsaid.
LEMMA SoundBefore ==
  ASSUME TypeInv, StreamInv, Collect
  PROVE  ret = "none" /\ pc # "done" /\ errors \subseteq errors' /\ (Sound' => Sound)
<1>1. pc # "done"
  BY DEF Collect, Start, RunNative, ListPIDs, WriteAbsent, StatusGone, StatusDenied, ReadStatus,
         ReadField, SnapshotTaken, WriteEntity, GiveUp, IndexKeys, StatExe, HashExe, ReportExe,
         WriteLineage, LineagesWritten, WriteLegacy, WriteFails
<1>2. ret = "none"
  BY <1>1 DEF StreamInv
<1>3. errors \subseteq errors'
  BY DEF Collect, Start, RunNative, ListPIDs, WriteAbsent, StatusGone, StatusDenied, ReadStatus,
         ReadField, SnapshotTaken, WriteEntity, GiveUp, IndexKeys, StatExe, HashExe, ReportExe,
         WriteLineage, LineagesWritten, WriteLegacy, WriteFails, Report, written
<1>. QED
  BY <1>1, <1>2, <1>3 DEF Sound

\* A step that writes nothing and takes nothing.
LEMMA StreamKept ==
  ASSUME StreamInv, UNCHANGED <<ret, todo, snaps, entities, lineages, legacy>>, Sound' => Sound,
         \/ pc' = pc /\ snap'.pid = snap.pid /\ (pc = "entity" => snap' = snap)
         \/ Lineal /\ Lineal'
         \/ pc = "start" /\ pc' = "native"
  PROVE  StreamInv'
<1>1. Remaining' = Remaining /\ Taken' = Taken
  BY RemainingKept
<1>2. CASE pc' = pc /\ snap'.pid = snap.pid /\ (pc = "entity" => snap' = snap)
  BY <1>1, <1>2 DEF StreamInv, EntitiesInv, LineagesInv, LegacyInv, Opening
<1>3. CASE Lineal /\ Lineal'
  BY <1>1, <1>3 DEF StreamInv, EntitiesInv, LineagesInv, LegacyInv, Opening, Lineal
<1>4. CASE pc = "start" /\ pc' = "native"
  BY <1>1, <1>4 DEF StreamInv, EntitiesInv, LineagesInv, LegacyInv, Opening
<1>. QED
  BY <1>2, <1>3, <1>4

\* A run that has failed, or whose directory could not be listed, claims nothing.
LEMMA StreamLost ==
  ASSUME ~Sound', ret' # "none" <=> pc' = "done" PROVE StreamInv'
BY DEF StreamInv

\* Up to the first process.
LEMMA StreamOpening ==
  ASSUME TypeInv, StreamInv,
         Start \/ RunNative \/ ListPIDs \/ WriteAbsent \/ GiveUp \/ WriteFails
  PROVE  StreamInv'
<1>1. ret = "none" /\ (Sound' => Sound)
  BY SoundBefore DEF Collect
<1>2. CASE Start \/ GiveUp \/ WriteFails
  <2>1. CASE ret' = "err" /\ pc' = "done"
    BY <2>1, StreamLost DEF Sound
  <2>2. CASE ~(ret' = "err" /\ pc' = "done")
    <3>1. /\ UNCHANGED <<ret, todo, snap, snaps, entities, lineages, legacy>>
          /\ pc = "start" /\ pc' = "native"
      BY <1>2, <2>2 DEF Start, GiveUp, WriteFails, Return, reading, written
    <3>. QED
      BY <1>1, <3>1, StreamKept
  <2>. QED
    BY <2>1, <2>2
<1>3. CASE RunNative
  <2>1. UNCHANGED <<ret, pc, todo, snap, snaps, entities, lineages, legacy>>
    BY <1>3 DEF RunNative, written
  <2>. QED
    BY <1>1, <2>1, StreamKept
<1>4. CASE WriteAbsent
  <2>1. ret' = ret /\ pc' = "legacy" /\ pc = "absent"
    BY <1>4 DEF WriteAbsent
  <2>2. ~Sound'
    BY <1>1, <2>1 DEF StreamInv
  <2>. QED
    BY <1>1, <2>1, <2>2, StreamLost
<1>5. CASE ListPIDs
  <2>1. /\ UNCHANGED <<snap, snaps, entities, lineages, legacy, ret>> /\ pc = "native"
        /\ \/ pc' = "pick"
           \/ pc' = "absent" /\ Event(0, "proc", "denied") \in errors'
    BY <1>5 DEF ListPIDs
  <2>2. Remaining' = Remaining /\ Taken' = Taken
    BY <2>1, RemainingKept
  <2>3. CASE pc' = "pick"
    <3>1. ASSUME Sound' PROVE EntitiesInv' /\ LineagesInv' /\ LegacyInv'
      <4>1. EntitiesInv /\ LineagesInv /\ LegacyInv
        BY <1>1, <3>1 DEF StreamInv
      <4>2. entities = <<>> /\ Taken = {}
        BY <2>1, <4>1 DEF EntitiesInv, Opening
      <4>3. EntitiesInv'
        BY <2>1, <2>2, <2>3, <4>1, <4>2 DEF EntitiesInv, Opening
      <4>4. LineagesInv' /\ LegacyInv'
        BY <2>1, <2>2, <2>3, <4>1 DEF LineagesInv, LegacyInv, Opening
      <4>. QED
        BY <4>3, <4>4
    <3>. QED
      BY <1>1, <2>1, <2>3, <3>1 DEF StreamInv
  <2>4. CASE pc' = "absent" /\ Event(0, "proc", "denied") \in errors'
    <3>1. ~Sound'
      BY <2>4 DEF Sound, Event
    <3>. QED
      BY <1>1, <2>1, <2>4, <3>1, StreamLost
  <2>. QED
    BY <2>1, <2>3, <2>4
<1>. QED
  BY <1>2, <1>3, <1>4, <1>5

\* The PIDs are taken up one after the other.
LEMMA StreamStatus ==
  ASSUME TypeInv, StreamInv, StatusGone \/ StatusDenied \/ ReadStatus PROVE StreamInv'
<1>1. ret = "none" /\ (Sound' => Sound)
  BY SoundBefore DEF Collect
<1>2. /\ UNCHANGED <<snaps, entities, lineages, legacy, ret>> /\ pc = "pick" /\ todo # {}
      /\ todo' = todo \ {Least(todo)}
      /\ \/ pc' = pc /\ snap' = snap
         \/ pc' = "read" /\ snap'.pid = Least(todo)
  <2>1. snap' = [NoSnap EXCEPT !.pid = Least(todo), !.id = procs[Least(todo)].id,
                               !.kind = procs[Least(todo)].kind,
                               !.ppid = procs[Least(todo)].ppid]
          => snap'.pid = Least(todo)
    BY DEF NoSnap
  <2>. QED
    BY <2>1 DEF StatusGone, StatusDenied, ReadStatus, written
<1>3. Least(todo) \in todo
  BY <1>2, LeastPid, TypeParts DEF ReadType
<1>4. Remaining' = Remaining /\ Taken' = Taken
  BY <1>2, RemainingKept
<1>5. ASSUME Sound' PROVE pc' # "absent" /\ EntitiesInv' /\ LineagesInv' /\ LegacyInv'
  <2>1. EntitiesInv /\ LineagesInv /\ LegacyInv
    BY <1>1, <1>5 DEF StreamInv
  <2>2. EntitiesInv'
    BY <1>2, <1>3, <1>4, <2>1 DEF EntitiesInv, Opening
  <2>3. LineagesInv' /\ LegacyInv'
    BY <1>2, <1>4, <2>1 DEF LineagesInv, LegacyInv, Opening
  <2>. QED
    BY <1>2, <2>2, <2>3
<1>. QED
  BY <1>1, <1>2, <1>5 DEF StreamInv


\* A snapshot is kept under its PID, and then its entity is written.
LEMMA StreamRead ==
  ASSUME TypeInv, StreamInv, ReadField \/ SnapshotTaken \/ WriteEntity PROVE StreamInv'
<1>0. ReadType /\ PlaceType /\ OutType
  BY TypeParts
<1>1. ret = "none" /\ (Sound' => Sound)
  BY SoundBefore DEF Collect
<1>2. CASE ReadField
  <2>1. UNCHANGED <<ret, todo, snaps, entities, lineages, legacy, pc>> /\ pc = "read"
    BY <1>2 DEF ReadField, written
  <2>2. snap'.pid = snap.pid
    BY <1>0, <1>2 DEF ReadField, ReadType, Snapshot
  <2>. QED
    BY <1>1, <2>1, <2>2, StreamKept
<1>3. CASE SnapshotTaken
  <2>1. /\ UNCHANGED <<ret, todo, snap, entities, lineages, legacy>> /\ pc = "read" /\ pc' = "entity"
        /\ snaps' = [snaps EXCEPT ![snap.pid] = snap] /\ snap.pid \in Pid
    BY <1>0, <1>3 DEF SnapshotTaken, written, PlaceType
  <2>2. snaps'[snap.pid] = snap /\ \A p \in Pid : p # snap.pid => snaps'[p] = snaps[p]
    BY <1>0, <2>1 DEF ReadType
  <2>3. Taken' = Taken \union {snap.pid}
    BY <2>1, <2>2 DEF Taken
  <2>4. ASSUME Sound' PROVE EntitiesInv' /\ LineagesInv' /\ LegacyInv'
    <3>1. EntitiesInv /\ LineagesInv /\ LegacyInv
      BY <1>1, <2>4 DEF StreamInv
    <3>2. snap.pid \notin todo \union Taken
      BY <2>1, <3>1 DEF EntitiesInv
    <3>3. \A p \in Taken : p # snap.pid /\ p \in Pid /\ snaps'[p] = snaps[p]
      BY <2>2, <3>2 DEF Taken
    <3>4. EntitiesInv'
      BY <2>1, <2>2, <2>3, <3>1, <3>2, <3>3 DEF EntitiesInv, Opening
    <3>5. lineages = <<>> /\ legacy = <<>>
      BY <2>1, <3>1 DEF LineagesInv, LegacyInv
    <3>6. LineagesInv' /\ LegacyInv'
      BY <2>1, <3>5 DEF LineagesInv, LegacyInv, Opening
    <3>. QED
      BY <3>4, <3>6
  <2>. QED
    BY <1>1, <2>1, <2>4 DEF StreamInv
<1>4. CASE WriteEntity
  <2>1. /\ UNCHANGED <<ret, todo, snaps, lineages, legacy>> /\ pc = "entity" /\ pc' = "pick"
        /\ entities' = Append(entities, snap) /\ snap.pid \in Pid /\ snap \in Snapshot
    BY <1>0, <1>4 DEF WriteEntity, PlaceType, ReadType
  <2>2. /\ Len(entities') = Len(entities) + 1 /\ Len(entities) \in Nat
        /\ \A k \in 1 .. Len(entities) : entities'[k] = entities[k]
        /\ entities'[Len(entities) + 1] = snap
    BY <1>0, <2>1, AppendProperties DEF OutType
  <2>3. Remaining' = Remaining /\ Taken' = Taken
    BY <2>1, RemainingKept
  <2>4. ASSUME Sound' PROVE EntitiesInv' /\ LineagesInv' /\ LegacyInv'
    <3>1. EntitiesInv /\ LineagesInv /\ LegacyInv
      BY <1>1, <2>4 DEF StreamInv
    <3>2. /\ snap.pid \notin todo /\ snap.pid \in Taken /\ snap = snaps[snap.pid]
          /\ \A k \in 1 .. Len(entities) : /\ entities[k].pid \in Taken
                                           /\ entities[k] = snaps[entities[k].pid]
                                           /\ entities[k].pid # snap.pid
      BY <2>1, <3>1 DEF EntitiesInv
    <3>3. \A k \in 1 .. Len(entities') :
            \/ k \in 1 .. Len(entities) /\ entities'[k] = entities[k]
            \/ k = Len(entities) + 1 /\ entities'[k] = snap
      BY <2>2
    <3>4. \A k \in 1 .. Len(entities') : /\ entities'[k].pid \in Taken
                                         /\ entities'[k] = snaps[entities'[k].pid]
      BY <3>2, <3>3
    <3>5. ASSUME NEW p \in Taken PROVE \E k \in 1 .. Len(entities') : entities'[k].pid = p
      <4>1. CASE p = snap.pid
        BY <2>2, <4>1
      <4>2. CASE p # snap.pid
        <5>1. PICK k \in 1 .. Len(entities) : entities[k].pid = p
          BY <3>1, <4>2 DEF EntitiesInv
        <5>. QED
          BY <2>2, <5>1
      <4>. QED
        BY <4>1, <4>2
    <3>6. \A k, l \in 1 .. Len(entities') : entities'[k].pid = entities'[l].pid => k = l
      <4>1. \A k, l \in 1 .. Len(entities) : entities[k].pid = entities[l].pid => k = l
        BY <3>1 DEF EntitiesInv
      <4>. QED
        BY <3>2, <3>3, <4>1
    <3>7. EntitiesInv'
      BY <2>1, <2>3, <3>1, <3>4, <3>5, <3>6 DEF EntitiesInv, Opening
    <3>8. LineagesInv' /\ LegacyInv'
      BY <2>1, <2>3, <3>1 DEF LineagesInv, LegacyInv, Opening
    <3>. QED
      BY <3>7, <3>8
  <2>. QED
    BY <1>1, <2>1, <2>4 DEF StreamInv
<1>. QED
  BY <1>2, <1>3, <1>4

\* One lineage record for each snapshot.
LEMMA StreamLineage ==
  ASSUME TypeInv, StreamInv, IndexKeys \/ StatExe \/ HashExe \/ ReportExe \/ WriteLineage
  PROVE  StreamInv'
<1>0. ReadType /\ PlaceType /\ OutType
  BY TypeParts
<1>1. ret = "none" /\ (Sound' => Sound)
  BY SoundBefore DEF Collect
<1>2. CASE StatExe \/ HashExe \/ ReportExe
  <2>1. UNCHANGED <<ret, todo, snaps, entities, lineages, legacy>> /\ Lineal /\ Lineal'
    BY <1>2 DEF StatExe, HashExe, ReportExe, reading, written, Lineal
  <2>. QED
    BY <1>1, <2>1, StreamKept
<1>3. CASE IndexKeys
  <2>1. /\ UNCHANGED <<ret, todo, snap, snaps, entities, lineages, legacy>>
        /\ pc = "pick" /\ pc' = "exe_metadata"
    BY <1>3 DEF IndexKeys, written
  <2>2. Remaining' = Remaining /\ Taken' = Taken
    BY <2>1, RemainingKept
  <2>. QED
    BY <1>1, <2>1, <2>2 DEF StreamInv, EntitiesInv, LineagesInv, LegacyInv, Opening
<1>4. CASE WriteLineage
  <2>. DEFINE p == Least(Remaining)
  <2>1. Remaining # {} /\ UNCHANGED <<ret, todo, snap, snaps, entities, legacy>>
        /\ pc = "lineage" /\ pc' = "exe_metadata"
    BY <1>0, <1>4 DEF WriteLineage, PlaceType
  <2>2. p \in Remaining /\ p \in Taken /\ snaps[p].pid = p
    BY <2>1, LeastRemaining DEF Taken
  <2>3. PICK r \in Lineage : lineages' = Append(lineages, r) /\ r.pid = p /\ r.snap = snaps[p]
    BY <1>0, <1>4, <2>1, LineageType DEF WriteLineage
  <2>. HIDE DEF p
  <2>4. /\ Len(lineages') = Len(lineages) + 1 /\ Len(lineages) \in Nat
        /\ \A l \in 1 .. Len(lineages) : lineages'[l] = lineages[l]
        /\ lineages'[Len(lineages) + 1] = r
    BY <1>0, <2>3, AppendProperties DEF OutType
  <2>5. Taken' = Taken
    BY <2>1 DEF Taken
  <2>6. ASSUME Sound' PROVE EntitiesInv' /\ LineagesInv' /\ LegacyInv'
    <3>1. EntitiesInv /\ LineagesInv /\ LegacyInv
      BY <1>1, <2>6 DEF StreamInv
    <3>2. /\ \A l \in 1 .. Len(lineages) : /\ lineages[l].pid \in Taken
                                           /\ lineages[l].snap = snaps[lineages[l].pid]
                                           /\ lineages[l].pid # p
          /\ \A k, l \in 1 .. Len(lineages) : lineages[k].pid = lineages[l].pid => k = l
      BY <2>2, <3>1 DEF LineagesInv, Remaining
    <3>3. \A l \in 1 .. Len(lineages') :
            \/ l \in 1 .. Len(lineages) /\ lineages'[l] = lineages[l]
            \/ l = Len(lineages) + 1 /\ lineages'[l] = r
      BY <2>4
    <3>4. \A l \in 1 .. Len(lineages') : /\ lineages'[l].pid \in Taken
                                         /\ lineages'[l].snap = snaps[lineages'[l].pid]
      BY <2>2, <2>3, <3>2, <3>3
    <3>5. \A k, l \in 1 .. Len(lineages') : lineages'[k].pid = lineages'[l].pid => k = l
      BY <2>3, <3>2, <3>3
    <3>6. LineagesInv'
      BY <2>1, <2>5, <3>4, <3>5 DEF LineagesInv, Opening
    <3>7. EntitiesInv' /\ LegacyInv'
      BY <2>1, <2>5, <3>1 DEF EntitiesInv, LegacyInv, Opening
    <3>. QED
      BY <3>6, <3>7
  <2>. QED
    BY <1>1, <2>1, <2>6 DEF StreamInv
<1>. QED
  BY <1>2, <1>3, <1>4

\* Three files of the same set.
LEMMA StreamLegacy ==
  ASSUME TypeInv, StreamInv, LineagesWritten \/ WriteLegacy PROVE StreamInv'
<1>0. OutType
  BY TypeParts
<1>1. ret = "none" /\ (Sound' => Sound)
  BY SoundBefore DEF Collect
<1>2. CASE LineagesWritten
  <2>1. /\ UNCHANGED <<ret, todo, snap, snaps, entities, lineages, legacy>> /\ Remaining = {}
        /\ pc = "exe_metadata" /\ pc' = "legacy"
    BY <1>2 DEF LineagesWritten, reading, written
  <2>2. Remaining' = Remaining /\ Taken' = Taken
    BY <2>1, RemainingKept
  <2>. QED
    BY <1>1, <2>1, <2>2 DEF StreamInv, EntitiesInv, LineagesInv, LegacyInv, Opening
<1>3. CASE WriteLegacy
  <2>1. /\ UNCHANGED <<todo, snap, snaps, entities, lineages>> /\ pc = "legacy"
        /\ legacy' = Append(legacy, Taken)
        /\ \/ Len(legacy') = 3 /\ pc' = "done" /\ ret' = "ok"
           \/ Len(legacy') # 3 /\ pc' = pc /\ ret' = ret
    BY <1>3 DEF WriteLegacy, Return, reading
  <2>2. Taken \in SUBSET Pid
    BY DEF Taken
  <2>3. /\ Len(legacy') = Len(legacy) + 1 /\ Len(legacy) \in Nat
        /\ \A n \in 1 .. Len(legacy) : legacy'[n] = legacy[n]
        /\ legacy'[Len(legacy) + 1] = Taken
    BY <1>0, <2>1, <2>2, AppendProperties DEF OutType
  <2>4. Remaining' = Remaining /\ Taken' = Taken
    BY <2>1, RemainingKept
  <2>5. ASSUME Sound' PROVE EntitiesInv' /\ LineagesInv' /\ LegacyInv'
    <3>1. EntitiesInv /\ LineagesInv /\ LegacyInv
      BY <1>1, <2>5 DEF StreamInv
    <3>2. EntitiesInv' /\ LineagesInv'
      BY <2>1, <2>4, <3>1 DEF EntitiesInv, LineagesInv, Opening
    <3>3. \A n \in 1 .. Len(legacy') : legacy'[n] = Taken
      BY <2>3, <3>1 DEF LegacyInv
    <3>4. Len(legacy) < 3
      BY <2>1, <3>1 DEF LegacyInv
    <3>5. LegacyInv'
      BY <2>1, <2>3, <2>4, <3>3, <3>4 DEF LegacyInv
    <3>. QED
      BY <3>2, <3>5
  <2>. QED
    BY <1>1, <2>1, <2>5 DEF StreamInv
<1>. QED
  BY <1>2, <1>3

LEMMA StreamStep == TypeInv /\ StreamInv /\ [Next]_vars => StreamInv'
<1>. SUFFICES ASSUME TypeInv, StreamInv, [Next]_vars PROVE StreamInv'
  OBVIOUS
<1>1. CASE Collect
  BY <1>1, StreamOpening, StreamStatus, StreamRead, StreamLineage, StreamLegacy DEF Collect
<1>2. CASE HostStep \/ Expire \/ UNCHANGED vars
  <2>1. UNCHANGED <<pc, ret, todo, snap, snaps, entities, lineages, legacy, errors>>
    BY <1>2 DEF HostStep, Spawn, Exit, Reap, Expire, vars, reading, written
  <2>. QED
    BY <2>1, StreamKept DEF Sound
<1>. QED
  BY <1>1, <1>2 DEF Next

\* Entities, lineage records and the three legacy files show the same snapshots,
\* in every run that ends well over a /proc that could be listed (Collect,
\* writeProcessLineage, writeLegacy): /proc is read once, whatever happens
\* afterwards.
THEOREM StreamsShowTheSame == Spec => []StreamsAgree
<1>1. TypeInv /\ StreamInv => StreamsAgree
  <2>. SUFFICES ASSUME TypeInv, StreamInv, Succeeded
       PROVE /\ Len(legacy) = 3
             /\ \A k \in 1 .. Len(entities) :
                  \E l \in 1 .. Len(lineages) : lineages[l].snap = entities[k]
             /\ \A l \in 1 .. Len(lineages) :
                  \E k \in 1 .. Len(entities) : entities[k] = lineages[l].snap
             /\ \A n \in 1 .. 3 : legacy[n] = {entities[k].pid : k \in 1 .. Len(entities)}
    BY DEF StreamsAgree
  <2>1. pc = "done" /\ EntitiesInv /\ LineagesInv /\ LegacyInv
    BY DEF StreamInv, Succeeded, Sound
  <2>2. /\ \A k \in 1 .. Len(entities) : /\ entities[k].pid \in Taken
                                         /\ entities[k] = snaps[entities[k].pid]
        /\ \A p \in Taken : \E k \in 1 .. Len(entities) : entities[k].pid = p
    BY <2>1 DEF EntitiesInv
  <2>3. /\ \A l \in 1 .. Len(lineages) : /\ lineages[l].pid \in Taken
                                         /\ lineages[l].snap = snaps[lineages[l].pid]
        /\ \A p \in Taken : \E l \in 1 .. Len(lineages) : lineages[l].pid = p
    BY <2>1 DEF LineagesInv, Remaining
  <2>4. Taken = {entities[k].pid : k \in 1 .. Len(entities)}
    BY <2>2
  <2>5. Len(legacy) = 3 /\ \A n \in 1 .. 3 : legacy[n] = Taken
    BY <2>1 DEF LegacyInv
  <2>6. ASSUME NEW k \in 1 .. Len(entities)
        PROVE  \E l \in 1 .. Len(lineages) : lineages[l].snap = entities[k]
    <3>1. entities[k].pid \in Taken /\ entities[k] = snaps[entities[k].pid]
      BY <2>2
    <3>2. PICK l \in 1 .. Len(lineages) : lineages[l].pid = entities[k].pid
      BY <2>3, <3>1
    <3>. QED
      BY <2>3, <3>1, <3>2
  <2>7. ASSUME NEW l \in 1 .. Len(lineages)
        PROVE  \E k \in 1 .. Len(entities) : entities[k] = lineages[l].snap
    <3>1. lineages[l].pid \in Taken /\ lineages[l].snap = snaps[lineages[l].pid]
      BY <2>3
    <3>2. PICK k \in 1 .. Len(entities) : entities[k].pid = lineages[l].pid
      BY <2>2, <3>1
    <3>. QED
      BY <2>2, <3>1, <3>2
  <2>. QED
    BY <2>4, <2>5, <2>6, <2>7
<1>. QED
  BY TypeInit, TypeStep, StreamInit, StreamStep, <1>1, PTL DEF Spec

----------------------------------------------------------------------------
(* The processes that stay.                                                *)

LEMMA ProcInit == Init => ProcInv
<1>. SUFFICES ASSUME Init PROVE ProcInv
  OBVIOUS
<1>1. listed = 0 /\ born = 0 /\ lineages = <<>> /\ pc = "start" /\ procs = [p \in Pid |-> NoProc]
  BY DEF Init
<1>2. \A p \in Pid : procs[p].id = 0
  BY <1>1 DEF NoProc
<1>. QED
  BY <1>1, <1>2 DEF ProcInv, FollowedInv, LinkedInv, Opening, Lineal

\* A process that stays keeps its identity; at most it loses its parent.
Stays(p) == /\ procs'[p].id = procs[p].id /\ procs'[p].hidden = procs[p].hidden
            /\ procs'[p].ppid \in {0, procs[p].ppid}

\* What is known of a process that stays remains known, unless it was just being
\* read or waiting to be.
LEMMA FollowedKept ==
  ASSUME NEW p \in Pid, Followed(p), Stays(p), faults \in Nat, faults' \in Nat, faults <= faults',
         errors \subseteq errors', snaps' = snaps, p \in todo => p \in todo',
         \/ UNCHANGED <<pc, snap, next>>
         \/ pc # "read" /\ pc' # "read"
         \/ pc # "read" /\ pc' = "read" /\ snap'.pid # p
  PROVE  Followed(p)'
<1>1. Refused(p) => Refused(p)'
  BY DEF Refused, Stays, Event
<1>2. (p \in Taken)' <=> p \in Taken
  BY DEF Taken
<1>3. Describes(snaps[p], p) => Describes(snaps[p], p)'
  BY DEF Describes, Stays
<1>4. CASE p \in todo
  BY <1>4 DEF Followed
<1>5. CASE p \in Taken /\ Describes(snaps[p], p) /\ snaps[p].vals["stat"] = procs[p].id
  BY <1>2, <1>3, <1>5 DEF Followed, Stays
<1>6. CASE p \notin Taken /\ Refused(p) /\ ~(pc = "read" /\ snap.pid = p)
  BY <1>1, <1>2, <1>6 DEF Followed
<1>7. CASE /\ pc = "read" /\ snap.pid = p /\ Describes(snap, p)
           /\ next > 1 => snap.vals["stat"] = procs[p].id
  BY <1>7 DEF Followed, Describes, Stays
<1>. QED
  BY <1>4, <1>5, <1>6, <1>7 DEF Followed

\* Whoever is there after a step of the host and was there when /proc was listed
\* was there before it, the same.
LEMMA HostStays ==
  ASSUME TypeInv, ProcInv, HostStep
  PROVE  /\ listed' = listed /\ born <= born' /\ \A p \in Pid : procs'[p].id <= born'
         /\ \A p \in Pid : Stable(p)' => Stable(p) /\ Stays(p)
<1>0. HostType /\ listed \in Nat /\ born \in Nat /\ listed <= born
      /\ \A p \in Pid : procs[p].id <= born /\ procs[p].id \in Nat
  BY TypeParts, BornAssumption DEF HostType, ReadType, ProcInv, Process
<1>1. ASSUME NEW q \in Pid, Spawn(q)
      PROVE  /\ listed' = listed /\ born <= born' /\ \A p \in Pid : procs'[p].id <= born'
             /\ \A p \in Pid : Stable(p)' => Stable(p) /\ Stays(p)
  <2>1. /\ listed' = listed /\ born' = born + 1
        /\ procs'[q].id = born' /\ \A p \in Pid : p # q => procs'[p] = procs[p]
    BY <1>0, <1>1 DEF Spawn, HostType, reading
  <2>2. ~Stable(q)'
    BY <1>0, <2>1 DEF Stable
  <2>3. ASSUME NEW p \in Pid, p # q, Stable(p)' PROVE Stable(p) /\ Stays(p)
    BY <2>1, <2>3 DEF Stable, Stays
  <2>4. \A p \in Pid : procs'[p].id <= born'
    BY <1>0, <2>1
  <2>. QED
    BY <1>0, <2>1, <2>2, <2>3, <2>4
<1>2. ASSUME NEW q \in Pid, Exit(q)
      PROVE  /\ listed' = listed /\ born <= born' /\ \A p \in Pid : procs'[p].id <= born'
             /\ \A p \in Pid : Stable(p)' => Stable(p) /\ Stays(p)
  <2>1. listed' = listed /\ born' = born /\ procs[q].state = "alive"
    BY <1>2 DEF Exit, reading
  <2>2. ASSUME NEW p \in Pid
        PROVE  \/ p = q /\ procs'[p] = [procs[p] EXCEPT !.state = "zombie"]
               \/ p # q /\ procs'[p] = [procs[p] EXCEPT !.ppid = 0]
               \/ procs'[p] = procs[p]
    BY <1>2 DEF Exit
  <2>3. ASSUME NEW p \in Pid
        PROVE Stays(p) /\ (procs'[p].state # "none" => procs[p].state # "none")
    <3>1. procs[p] \in Process
      BY <1>0 DEF HostType
    <3>. QED
      BY <2>1, <2>2, <3>1 DEF Process, Stays
  <2>. QED
    BY <1>0, <2>1, <2>3 DEF Stable, Stays
<1>3. ASSUME NEW q \in Pid, Reap(q)
      PROVE  /\ listed' = listed /\ born <= born' /\ \A p \in Pid : procs'[p].id <= born'
             /\ \A p \in Pid : Stable(p)' => Stable(p) /\ Stays(p)
  <2>1. /\ listed' = listed /\ born' = born
        /\ procs'[q] = NoProc /\ \A p \in Pid : p # q => procs'[p] = procs[p]
    BY <1>0, <1>3 DEF Reap, HostType, reading
  <2>2. ~Stable(q)' /\ procs'[q].id = 0
    BY <2>1 DEF Stable, NoProc
  <2>3. ASSUME NEW p \in Pid, p # q, Stable(p)' PROVE Stable(p) /\ Stays(p)
    BY <2>1, <2>3 DEF Stable, Stays
  <2>. QED
    BY <1>0, <2>1, <2>2, <2>3
<1>. QED
  BY <1>1, <1>2, <1>3 DEF HostStep

LEMMA TypeInvLineages ==
  ASSUME TypeInv
  PROVE  \A l \in 1 .. Len(lineages) : lineages[l] \in Lineage /\ lineages[l].pid \in Pid
<1>1. lineages \in Seq(Lineage)
  BY TypeParts DEF OutType
<1>2. \A l \in 1 .. Len(lineages) : lineages[l] \in Lineage
  BY <1>1, ElementOfSeq
<1>. QED
  BY <1>2 DEF Lineage

\* The record of a process, with the host's steps.
LEMMA LinkedKept ==
  ASSUME TypeInv, StreamInv, Sound, LinkedInv, UNCHANGED <<todo, snaps, lineages, listed>>,
         \A p \in Pid : Stable(p)' => Stable(p) /\ Stays(p),
         \/ UNCHANGED <<pc, keys, exeRead>>
         \/ keys' = keys /\ exeRead' = exeRead /\ pc = "exe_report" /\ pc' = "lineage"
         \/ ~Lineal /\ ~Lineal' /\ pc # "done" /\ (pc' \notin {"legacy", "done"} \/ pc = "legacy")
         \/ Lineal /\ pc' = "legacy"
  PROVE  LinkedInv'
<1>1. Remaining' = Remaining /\ Taken' = Taken
  BY RemainingKept
<1>2. \A l \in 1 .. Len(lineages) : lineages[l].pid \in Pid
  BY TypeInvLineages
<1>3. ASSUME NEW l \in 1 .. Len(lineages) PROVE Linked(lineages[l])'
  <2>1. Linked(lineages[l]) /\ lineages'[l] = lineages[l] /\ lineages[l].pid \in Pid
    BY <1>2 DEF LinkedInv
  <2>2. Stable(lineages[l].pid)' => /\ Stable(lineages[l].pid)
                                    /\ procs'[lineages[l].pid].id = procs[lineages[l].pid].id
    BY <2>1 DEF Stays, Stable
  <2>. QED
    BY <1>1, <2>1, <2>2 DEF Linked, KeyOf, Stable
<1>4. pc' \in {"exe_hash", "exe_report", "lineage"} /\ Stable(Least(Remaining))' =>
        \A f \in ExeFields : exeRead'[f].val \in {0, procs'[Least(Remaining')].id}
  <2>. SUFFICES ASSUME pc' \in {"exe_hash", "exe_report", "lineage"}, Stable(Least(Remaining))'
                PROVE  \A f \in ExeFields : exeRead'[f].val \in {0, procs'[Least(Remaining')].id}
    OBVIOUS
  <2>1. pc \in {"exe_hash", "exe_report", "lineage"} /\ exeRead' = exeRead
    BY DEF Lineal
  <2>2. PICK p \in Pid : p = Least(Remaining)
    BY <2>1, TypeParts, LeastRemaining DEF PlaceType
  <2>3. Stable(p)'
    BY <1>1, <2>2 DEF Stable
  <2>4. Stable(p) /\ Stays(p)
    BY <2>3
  <2>5. \A f \in ExeFields : exeRead[f].val \in {0, procs[p].id}
    BY <2>1, <2>2, <2>4 DEF LinkedInv
  <2>. QED
    BY <1>1, <2>1, <2>2, <2>4, <2>5 DEF Stays
<1>5. /\ Lineal' \/ pc' \in {"legacy", "done"} => todo' = {}
      /\ Lineal' => \A p \in Taken' : keys'[p] = KeyOf(snaps[p])'
  BY <1>1 DEF LinkedInv, Lineal, KeyOf
<1>. QED
  BY <1>3, <1>4, <1>5 DEF LinkedInv


\* The host changes nothing that is known of those that stay.
LEMMA ProcHost ==
  ASSUME TypeInv, StreamInv, ProcInv, HostStep \/ Expire \/ UNCHANGED vars PROVE ProcInv'
<1>0. faults \in Nat
  BY TypeParts, ProcessFaultAssumption DEF Marks
<1>1. UNCHANGED <<pc, todo, snap, next, snaps, keys, exeRead, lineages, errors, ret, faults>>
  BY DEF HostStep, Spawn, Exit, Reap, Expire, vars, reading, written
<1>2. /\ listed' = listed /\ born <= born' /\ \A p \in Pid : procs'[p].id <= born'
      /\ \A p \in Pid : Stable(p)' => Stable(p) /\ Stays(p)
  <2>1. CASE HostStep
    BY <2>1, HostStays
  <2>2. CASE Expire \/ UNCHANGED vars
    <3>1. UNCHANGED <<procs, born, listed>>
      BY <2>2 DEF Expire, vars, host, reading
    <3>2. \A p \in Pid : Stays(p)
      BY <3>1 DEF Stays
    <3>3. born <= born
      BY TypeParts, BornAssumption DEF HostType
    <3>. QED
      BY <3>1, <3>2, <3>3 DEF ProcInv, Stable
  <2>. QED
    BY <2>1, <2>2
<1>3. listed' <= born'
  <2>1. listed \in Nat /\ born \in Nat /\ born' \in Int
    BY TypeParts, BornAssumption DEF HostType, ReadType, HostStep, Spawn, Exit, Reap, Expire, vars, host
  <2>. QED
    BY <1>2, <2>1 DEF ProcInv
<1>4. ASSUME Sound' PROVE FollowedInv' /\ LinkedInv'
  <2>1. Sound /\ FollowedInv /\ LinkedInv
    BY <1>1, <1>4 DEF ProcInv, Sound, Event
  <2>2. ASSUME ~Opening', NEW p \in Pid, Stable(p)' PROVE Followed(p)'
    <3>1. Followed(p) /\ Stays(p)
      BY <1>1, <1>2, <2>1, <2>2 DEF FollowedInv, Opening
    <3>. QED
      BY <1>0, <1>1, <3>1, FollowedKept
  <2>3. LinkedInv'
    BY <1>1, <1>2, <2>1, LinkedKept
  <2>. QED
    BY <2>2, <2>3 DEF FollowedInv
<1>. QED
  BY <1>2, <1>3, <1>4 DEF ProcInv


\* What every step of Collect after the listing leaves alone.
LEMMA CollectKeeps ==
  ASSUME TypeInv, StreamInv, ProcInv, Collect, ~ListPIDs
  PROVE  /\ UNCHANGED <<procs, born, listed>>
         /\ \A p \in Pid : (Stable(p)' => Stable(p)) /\ Stays(p)
         /\ faults \in Nat /\ faults' \in Nat /\ faults <= faults' /\ errors \subseteq errors'
         /\ Sound' => Sound /\ FollowedInv /\ LinkedInv /\ EntitiesInv /\ LineagesInv
<1>1. UNCHANGED <<procs, born, listed>>
  BY DEF Collect, Start, RunNative, WriteAbsent, StatusGone, StatusDenied, ReadStatus,
         ReadField, SnapshotTaken, WriteEntity, GiveUp, IndexKeys, StatExe, HashExe, ReportExe,
         WriteLineage, LineagesWritten, WriteLegacy, WriteFails, host, reading
<1>2. faults' = faults \/ faults' = faults + 1
  BY DEF Collect, Start, RunNative, WriteAbsent, StatusGone, StatusDenied, ReadStatus,
         ReadField, SnapshotTaken, WriteEntity, GiveUp, IndexKeys, StatExe, HashExe, ReportExe,
         WriteLineage, LineagesWritten, WriteLegacy, WriteFails, Report, Fault
<1>3. faults \in Nat
  BY TypeParts, ProcessFaultAssumption DEF Marks
<1>4. \A p \in Pid : (Stable(p)' => Stable(p)) /\ Stays(p)
  BY <1>1 DEF Stable, Stays
<1>. QED
  BY <1>1, <1>2, <1>3, <1>4, SoundBefore DEF ProcInv, StreamInv

\* The parts of ProcInv that a step of Collect has to keep.
LEMMA ProcParts ==
  ASSUME ProcInv, UNCHANGED <<procs, born, listed>>, Sound' => FollowedInv' /\ LinkedInv'
  PROVE  ProcInv'
BY DEF ProcInv

\* Before /proc is listed there is nobody to follow; then everybody who is there
\* is still to be read.
LEMMA ProcListed ==
  ASSUME TypeInv, StreamInv, ProcInv, ListPIDs PROVE ProcInv'
<1>1. /\ UNCHANGED <<procs, born, lineages, ret, snaps>> /\ listed' = born /\ pc = "native"
      /\ \/ pc' = "pick" /\ todo' = {p \in Pid : procs[p].state # "none"}
         \/ Event(0, "proc", "denied") \in errors'
  BY DEF ListPIDs, host
<1>2. born \in Nat
  BY TypeParts, BornAssumption DEF HostType
<1>3. ASSUME Sound' PROVE FollowedInv' /\ LinkedInv'
  <2>1. pc' = "pick" /\ todo' = {p \in Pid : procs[p].state # "none"}
    BY <1>1, <1>3 DEF Sound, Event
  <2>2. \A p \in Pid : Stable(p)' => p \in todo'
    BY <1>1, <2>1 DEF Stable
  <2>3. lineages = <<>>
    BY <1>1, <1>3, SoundBefore DEF Collect, StreamInv, LineagesInv, Opening
  <2>. QED
    BY <1>1, <2>1, <2>2, <2>3 DEF FollowedInv, Followed, LinkedInv, Lineal
<1>. QED
  BY <1>1, <1>2, <1>3 DEF ProcInv

\* The steps that end the run badly, and those around the listing.
LEMMA ProcOpening ==
  ASSUME TypeInv, StreamInv, ProcInv, Start \/ RunNative \/ WriteAbsent \/ GiveUp \/ WriteFails
  PROVE  ProcInv'
<1>0. Collect /\ ~ListPIDs
  <2>1. ~ListPIDs \/ ~(Start \/ WriteAbsent \/ GiveUp)
    BY DEF ListPIDs, Start, WriteAbsent, GiveUp
  <2>2. ~ListPIDs \/ ~RunNative
    BY DEF ListPIDs, RunNative
  <2>3. ~ListPIDs \/ ~WriteFails
    BY DEF ListPIDs, WriteFails, Return
  <2>. QED
    BY <2>1, <2>2, <2>3 DEF Collect
<1>1. UNCHANGED <<procs, born, listed>>
  BY <1>0, CollectKeeps
<1>2. ASSUME Sound' PROVE FollowedInv' /\ LinkedInv'
  <2>1. /\ Sound /\ LinkedInv /\ LineagesInv
        /\ \A p \in Pid : (Stable(p)' => Stable(p)) /\ Stays(p)
    BY <1>0, <1>2, CollectKeeps
  <2>2. ~WriteAbsent /\ ~GiveUp /\ ~WriteFails
    BY <1>2, <2>1 DEF WriteAbsent, GiveUp, WriteFails, Return, StreamInv, Sound
  <2>3. /\ UNCHANGED <<todo, snaps, keys, exeRead, lineages, listed>> /\ Opening /\ Opening'
    BY <1>2, <2>2 DEF Start, RunNative, Return, reading, written, Sound, Opening
  <2>4. LinkedInv'
    BY <2>1, <2>3, LinkedKept DEF Opening, Lineal
  <2>. QED
    BY <2>3, <2>4 DEF FollowedInv
<1>. QED
  BY <1>1, <1>2, ProcParts

\* A process whose status is gone did not stay; one whose status is barred is
\* reported; another one is taken up.
LEMMA ProcStatus ==
  ASSUME TypeInv, StreamInv, ProcInv, StatusGone \/ StatusDenied \/ ReadStatus PROVE ProcInv'
<1>0. Collect /\ ~ListPIDs
  BY DEF ListPIDs, Collect, StatusGone, StatusDenied, ReadStatus
<1>1. UNCHANGED <<procs, born, listed>>
  BY <1>0, CollectKeeps
<1>2. /\ UNCHANGED <<snaps, keys, exeRead, lineages, listed, ret>> /\ pc = "pick" /\ todo # {}
  BY DEF StatusGone, StatusDenied, ReadStatus, written
<1>3. PICK q \in Pid : q = Least(todo) /\ q \in todo
  BY <1>2, LeastPid, TypeParts DEF ReadType
<1>4. ASSUME Sound' PROVE FollowedInv' /\ LinkedInv'
  <2>1. /\ Sound /\ FollowedInv /\ LinkedInv /\ EntitiesInv
        /\ \A p \in Pid : (Stable(p)' => Stable(p)) /\ Stays(p)
        /\ faults \in Nat /\ faults' \in Nat /\ faults <= faults' /\ errors \subseteq errors'
    BY <1>0, <1>4, CollectKeeps
  <2>2. q \notin Taken
    BY <1>3, <2>1 DEF EntitiesInv
  <2>3. todo' = todo \ {q}
    BY <1>3 DEF StatusGone, StatusDenied, ReadStatus
  <2>4. \/ UNCHANGED <<pc, snap, next>>
        \/ pc' = "read" /\ snap'.pid = q
    <3>1. [NoSnap EXCEPT !.pid = q, !.id = procs[q].id, !.kind = procs[q].kind,
                         !.ppid = procs[q].ppid].pid = q
      BY DEF NoSnap
    <3>. QED
      BY <1>3, <3>1 DEF StatusGone, StatusDenied, ReadStatus
  <2>5. ASSUME NEW p \in Pid, p # q, Stable(p)' PROVE Followed(p)'
    <3>1. Followed(p) /\ Stays(p)
      BY <1>2, <2>1, <2>5 DEF FollowedInv, Opening
    <3>. QED
      BY <1>2, <2>1, <2>3, <2>4, <2>5, <3>1, FollowedKept
  <2>6. ASSUME Stable(q)' PROVE Followed(q)'
    <3>1. procs[q].state # "none"
      BY <1>1, <2>6 DEF Stable
    <3>2. CASE StatusDenied
      <4>1. procs[q].hidden /\ pc' = "pick" /\ Report({Event(q, "status", "denied")})
        BY <1>2, <1>3, <3>2 DEF StatusDenied
      <4>2. Refused(q)'
        BY <1>1, <2>1, <4>1 DEF Refused, Report, Fault, Event
      <4>. QED
        BY <1>2, <2>2, <4>1, <4>2 DEF Followed, Taken
    <3>3. CASE ReadStatus
      <4>1. /\ pc' = "read" /\ next' = 1
            /\ snap' = [NoSnap EXCEPT !.pid = q, !.id = procs[q].id, !.kind = procs[q].kind,
                                      !.ppid = procs[q].ppid]
        BY <1>3, <3>3 DEF ReadStatus
      <4>2. /\ snap'.pid = q /\ snap'.id = procs[q].id /\ snap'.ppid = procs[q].ppid
            /\ \A f \in Fields : snap'.vals[f] = 0
        BY <4>1 DEF NoSnap
      <4>3. Describes(snap, q)'
        BY <1>1, <4>2 DEF Describes
      <4>. QED
        BY <4>1, <4>2, <4>3 DEF Followed
    <3>4. CASE StatusGone
      BY <1>3, <3>1, <3>4 DEF StatusGone
    <3>. QED
      BY <3>2, <3>3, <3>4
  <2>7. LinkedInv'
    <3>1. pc' \in {"pick", "read"}
      BY <1>2, <2>4
    <3>2. lineages = <<>>
      BY <1>0, <1>2, <1>4, CollectKeeps DEF LineagesInv
    <3>. QED
      BY <1>2, <3>1, <3>2 DEF LinkedInv, Lineal
  <2>. QED
    BY <2>5, <2>6, <2>7 DEF FollowedInv
<1>. QED
  BY <1>1, <1>4, ProcParts


\* stat of a process that is there tells its start time.
LEMMA StatTells ==
  ASSUME NEW p \in Pid, procs[p].state # "none", NEW o \in Outcomes(p, "stat")
  PROVE  o.val = procs[p].id
BY DEF Outcomes, Barred, Guarded, Missing, Bodiless, OfImage, ExeFields, Blank, OfMemory, Yields

\* Every field that is read belongs to the process that is there.
LEMMA ProcRead ==
  ASSUME TypeInv, StreamInv, ProcInv, ReadField PROVE ProcInv'
<1>0. Collect /\ ~ListPIDs
  BY DEF ListPIDs, Collect, ReadField
<1>1. UNCHANGED <<procs, born, listed>>
  BY <1>0, CollectKeeps
<1>2. /\ UNCHANGED <<pc, todo, snaps, keys, exeRead, lineages, errors, ret, faults>> /\ pc = "read"
      /\ next' = next + 1 /\ next \in 1 .. 12 /\ snap \in Snapshot /\ HostType
  BY TypeParts, FieldNames DEF ReadField, written, ReadType
<1>3. PICK q \in Pid : q = snap.pid
  BY <1>2, TypeParts DEF PlaceType
<1>. DEFINE f == Field[next]
<1>4. f \in Fields
  BY <1>2, FieldNames
<1>5. PICK o : /\ snap' = [snap EXCEPT !.vals[f] = o.val, !.issues[f] = o.issue]
               /\ o = Fails("none") \/ o \in Outcomes(q, f)
               /\ f = "stat" => o \in Outcomes(q, "stat")
  <2>1. Applies(snap, "stat")
    BY DEF Applies, ListedIn
  <2>. QED
    BY <1>2, <1>3, <2>1 DEF ReadField
<1>6. o.val \in {0, procs[q].id}
  BY <1>2, <1>5, OutcomeType DEF Fails
<1>7. /\ snap'.pid = q /\ snap'.id = snap.id /\ snap'.ppid = snap.ppid
      /\ snap'.vals[f] = o.val
      /\ \A g \in Fields : g # f => snap'.vals[g] = snap.vals[g]
  BY <1>2, <1>3, <1>4, <1>5 DEF Snapshot
<1>8. ASSUME Sound' PROVE FollowedInv' /\ LinkedInv'
  <2>1. /\ Sound /\ FollowedInv /\ LinkedInv /\ EntitiesInv
        /\ \A p \in Pid : (Stable(p)' => Stable(p)) /\ Stays(p)
    BY <1>0, <1>8, CollectKeeps
  <2>2. ASSUME NEW p \in Pid, p # q, Stable(p)' PROVE Followed(p)'
    <3>1. Followed(p)
      BY <1>2, <2>1, <2>2 DEF FollowedInv, Opening
    <3>2. Taken' = Taken
      BY <1>2 DEF Taken
    <3>3. (Describes(snaps[p], p)' <=> Describes(snaps[p], p)) /\ (Refused(p)' <=> Refused(p))
      BY <1>1, <1>2 DEF Describes, Refused, Event
    <3>. QED
      BY <1>1, <1>2, <1>3, <1>7, <2>2, <3>1, <3>2, <3>3 DEF Followed
  <2>3. ASSUME Stable(q)' PROVE Followed(q)'
    <3>1. Followed(q) /\ q \notin todo \union Taken
      BY <1>2, <1>3, <2>1, <2>3 DEF FollowedInv, Opening, EntitiesInv
    <3>2. Describes(snap, q) /\ (next > 1 => snap.vals["stat"] = procs[q].id)
      BY <1>2, <1>3, <3>1 DEF Followed
    <3>3. Describes(snap, q)'
      BY <1>1, <1>6, <1>7, <3>2 DEF Describes
    <3>4. snap'.vals["stat"] = procs[q].id
      <4>1. CASE f = "stat"
        <5>1. procs[q].state # "none"
          BY <1>1, <2>3 DEF Stable
        <5>. QED
          BY <1>5, <1>7, <4>1, <5>1, StatTells
      <4>2. CASE f # "stat"
        <5>1. next > 1 /\ "stat" \in Fields
          BY <1>2, <4>2, FieldNames
        <5>. QED
          BY <1>7, <3>2, <4>2, <5>1
      <4>. QED
        BY <4>1, <4>2
    <3>. QED
      BY <1>1, <1>2, <1>7, <3>3, <3>4 DEF Followed
  <2>4. LinkedInv'
    <3>1. ~Lineal /\ ~Lineal' /\ pc # "done" /\ pc' \notin {"legacy", "done"}
      BY <1>2 DEF Lineal
    <3>. QED
      BY <1>1, <1>2, <2>1, <3>1, LinkedKept
  <2>. QED
    BY <2>2, <2>3, <2>4 DEF FollowedInv
<1>. QED
  BY <1>1, <1>8, ProcParts

\* A snapshot that is complete is kept.
LEMMA ProcTaken ==
  ASSUME TypeInv, StreamInv, ProcInv, SnapshotTaken \/ WriteEntity PROVE ProcInv'
<1>0. Collect /\ ~ListPIDs
  BY DEF ListPIDs, Collect, SnapshotTaken, WriteEntity
<1>1. UNCHANGED <<procs, born, listed>>
  BY <1>0, CollectKeeps
<1>2. /\ UNCHANGED <<todo, keys, exeRead, lineages, ret>>
      /\ pc \in {"read", "entity"} /\ pc' \in {"entity", "pick"}
  BY DEF SnapshotTaken, WriteEntity, written
<1>3. PICK q \in Pid : q = snap.pid
  BY <1>2, TypeParts DEF PlaceType
<1>4. ASSUME Sound' PROVE FollowedInv' /\ LinkedInv'
  <2>1. /\ Sound /\ FollowedInv /\ LinkedInv /\ EntitiesInv /\ LineagesInv
        /\ \A p \in Pid : (Stable(p)' => Stable(p)) /\ Stays(p)
        /\ faults \in Nat /\ faults' \in Nat /\ faults <= faults' /\ errors \subseteq errors'
    BY <1>0, <1>4, CollectKeeps
  <2>2. LinkedInv'
    <3>1. lineages = <<>>
      BY <1>2, <2>1 DEF LineagesInv
    <3>. QED
      BY <1>2, <3>1 DEF LinkedInv, Lineal
  <2>3. CASE WriteEntity
    <3>1. UNCHANGED <<snaps>> /\ pc = "entity" /\ pc' = "pick"
      BY <2>3 DEF WriteEntity
    <3>2. ASSUME NEW p \in Pid, Stable(p)' PROVE Followed(p)'
      <4>1. Followed(p) /\ Stays(p)
        BY <1>2, <2>1, <3>2 DEF FollowedInv, Opening
      <4>. QED
        BY <1>2, <2>1, <3>1, <4>1, FollowedKept
    <3>. QED
      BY <2>2, <3>2 DEF FollowedInv
  <2>4. CASE SnapshotTaken
    <3>1. /\ UNCHANGED <<snap, next, errors, faults>> /\ pc = "read" /\ pc' = "entity"
          /\ next > Len(Field) /\ next \in Nat
          /\ snaps' = [snaps EXCEPT ![q] = snap] /\ snaps \in [Pid -> Snapshot]
      BY <1>3, <2>4, TypeParts DEF SnapshotTaken, written, ReadType
    <3>2. snaps'[q] = snap /\ \A p \in Pid : p # q => snaps'[p] = snaps[p]
      BY <3>1
    <3>3. Taken' = Taken \union {q}
      BY <1>3, <3>1, <3>2 DEF Taken
    <3>4. ASSUME NEW p \in Pid, p # q, Stable(p)' PROVE Followed(p)'
      <4>1. Followed(p)
        BY <1>2, <2>1, <3>4 DEF FollowedInv, Opening
      <4>2. (Describes(snaps[p], p)' <=> Describes(snaps[p], p)) /\ (Refused(p)' <=> Refused(p))
        BY <1>1, <3>1, <3>2, <3>4 DEF Describes, Refused, Event
      <4>. QED
        BY <1>1, <1>2, <1>3, <3>1, <3>2, <3>3, <3>4, <4>1, <4>2 DEF Followed
    <3>5. ASSUME Stable(q)' PROVE Followed(q)'
      <4>1. Followed(q) /\ q \notin todo \union Taken
        BY <1>2, <1>3, <2>1, <3>1, <3>5 DEF FollowedInv, Opening, EntitiesInv
      <4>2. Describes(snap, q) /\ snap.vals["stat"] = procs[q].id
        BY <1>3, <3>1, <4>1, FieldNames DEF Followed
      <4>3. Describes(snaps[q], q)'
        BY <1>1, <3>2, <4>2 DEF Describes
      <4>. QED
        BY <1>1, <3>2, <3>3, <4>2, <4>3 DEF Followed
    <3>. QED
      BY <2>2, <3>4, <3>5 DEF FollowedInv
  <2>. QED
    BY <2>3, <2>4
<1>. QED
  BY <1>1, <1>4, ProcParts


\* Nobody's fate changes once every process has been read.
LEMMA FollowedLate ==
  ASSUME TypeInv, StreamInv, ProcInv, Sound',
         IndexKeys \/ StatExe \/ HashExe \/ ReportExe \/ WriteLineage \/ LineagesWritten \/ WriteLegacy
  PROVE  FollowedInv'
<1>0. Collect /\ ~ListPIDs
  BY DEF ListPIDs, Collect, IndexKeys, StatExe, HashExe, ReportExe, WriteLineage, LineagesWritten,
         WriteLegacy
<1>1. /\ UNCHANGED <<todo, snaps>> /\ pc # "read" /\ pc' # "read" /\ ~Opening
  BY DEF IndexKeys, StatExe, HashExe, ReportExe, WriteLineage, LineagesWritten, WriteLegacy, Return,
         reading, written, Opening
<1>2. ASSUME NEW p \in Pid, Stable(p)' PROVE Followed(p)'
  <2>1. /\ Followed(p) /\ Stays(p)
        /\ faults \in Nat /\ faults' \in Nat /\ faults <= faults' /\ errors \subseteq errors'
    BY <1>0, <1>1, <1>2, CollectKeeps DEF FollowedInv
  <2>. QED
    BY <1>1, <2>1, FollowedKept
<1>. QED
  BY <1>2 DEF FollowedInv

\* The keys of all come first; then one process after the other is looked at again.
LEMMA ProcLineage ==
  ASSUME TypeInv, StreamInv, ProcInv,
         IndexKeys \/ StatExe \/ HashExe \/ ReportExe \/ WriteLineage \/ LineagesWritten \/ WriteLegacy
  PROVE  ProcInv'
<1>0. Collect /\ ~ListPIDs
  BY DEF ListPIDs, Collect, IndexKeys, StatExe, HashExe, ReportExe, WriteLineage, LineagesWritten,
         WriteLegacy
<1>1. UNCHANGED <<procs, born, listed>> /\ HostType /\ ReadType /\ OutType /\ PlaceType
  BY <1>0, CollectKeeps, TypeParts
<1>2. ASSUME Sound' PROVE LinkedInv'
  <2>1. /\ Sound /\ LinkedInv /\ EntitiesInv /\ LineagesInv
        /\ \A p \in Pid : (Stable(p)' => Stable(p)) /\ Stays(p)
    BY <1>0, <1>2, CollectKeeps
  <2>2. CASE IndexKeys
    <3>1. /\ UNCHANGED <<todo, snaps, lineages>> /\ pc = "pick" /\ todo = {} /\ pc' = "exe_metadata"
          /\ keys' = [p \in Pid |-> IF p \in Taken THEN KeyOf(snaps[p]) ELSE NoKey]
      BY <2>2 DEF IndexKeys, written
    <3>2. lineages = <<>>
      BY <2>1, <3>1 DEF LineagesInv
    <3>3. \A p \in Taken : p \in Pid
      BY DEF Taken
    <3>4. Taken' = Taken
      BY <3>1 DEF Taken
    <3>5. \A p \in Taken' : keys'[p] = KeyOf(snaps[p])'
      BY <3>1, <3>3, <3>4 DEF KeyOf
    <3>. QED
      BY <3>1, <3>2, <3>5 DEF LinkedInv
  <2>3. CASE StatExe \/ HashExe
    <3>1. /\ UNCHANGED <<todo, snaps, keys, lineages>> /\ Remaining # {}
          /\ pc \in {"exe_metadata", "exe_hash"} /\ pc' \in {"exe_hash", "exe_report"}
      BY <1>1, <2>3 DEF StatExe, HashExe, written, PlaceType
    <3>2. PICK p \in Pid : p = Least(Remaining)
      BY <3>1, LeastRemaining
    <3>3. Remaining' = Remaining /\ Taken' = Taken
      BY <3>1, RemainingKept
    <3>4. ASSUME Stable(p) PROVE \A f \in ExeFields : exeRead'[f].val \in {0, procs[p].id}
      <4>1. CASE StatExe
        <5>1. PICK o \in Outcomes(p, "exe_metadata") : exeRead' = [NoExe EXCEPT !["exe_metadata"] = o]
          BY <3>2, <4>1 DEF StatExe
        <5>2. o.val \in {0, procs[p].id}
          BY <1>1, OutcomeType
        <5>. QED
          BY <5>1, <5>2 DEF NoExe, Fails, ExeFields
      <4>2. CASE HashExe
        <5>1. PICK o \in Outcomes(p, "exe_hash") : exeRead' = [exeRead EXCEPT !["exe_hash"] = o]
          BY <3>2, <4>2 DEF HashExe
        <5>2. o.val \in {0, procs[p].id}
          BY <1>1, OutcomeType
        <5>3. \A f \in ExeFields : exeRead[f].val \in {0, procs[p].id}
          BY <2>1, <3>2, <3>4, <4>2 DEF LinkedInv, HashExe
        <5>. QED
          BY <1>1, <5>1, <5>2, <5>3 DEF ReadType
      <4>. QED
        BY <2>3, <4>1, <4>2
    <3>5. \A l \in 1 .. Len(lineages') : Linked(lineages[l])'
      BY <1>1, <2>1, <3>1, <3>3 DEF LinkedInv, Linked, Stable, KeyOf
    <3>6. Lineal /\ Lineal'
      BY <3>1 DEF Lineal
    <3>7. Lineal' => \A r \in Taken' : keys'[r] = KeyOf(snaps[r])'
      BY <2>1, <3>1, <3>3, <3>6 DEF LinkedInv, KeyOf
    <3>8. pc' \in {"exe_hash", "exe_report", "lineage"} /\ Stable(Least(Remaining))' =>
            \A f \in ExeFields : exeRead'[f].val \in {0, procs'[Least(Remaining')].id}
      BY <1>1, <3>2, <3>3, <3>4 DEF Stable
    <3>. QED
      BY <2>1, <3>1, <3>5, <3>6, <3>7, <3>8 DEF LinkedInv
  <2>4. CASE ReportExe
    <3>1. /\ UNCHANGED <<todo, snaps, keys, exeRead, lineages>>
          /\ pc = "exe_report" /\ pc' = "lineage"
      BY <2>4 DEF ReportExe, reading
    <3>. QED
      BY <1>1, <2>1, <3>1, LinkedKept
  <2>5. CASE LineagesWritten
    <3>1. /\ UNCHANGED <<todo, snaps, keys, exeRead, lineages>> /\ Lineal /\ pc' = "legacy"
      BY <2>5 DEF LineagesWritten, reading, written, Lineal
    <3>. QED
      BY <1>1, <2>1, <3>1, LinkedKept
  <2>6. CASE WriteLegacy
    <3>1. /\ UNCHANGED <<todo, snaps, keys, exeRead, lineages>> /\ pc = "legacy"
          /\ pc' \in {"legacy", "done"}
      BY <2>6 DEF WriteLegacy, Return, reading
    <3>. QED
      BY <1>1, <2>1, <3>1, LinkedKept DEF Lineal
  <2>7. CASE WriteLineage
    <3>1. Remaining # {} /\ UNCHANGED <<todo, snaps, keys>> /\ pc = "lineage" /\ pc' = "exe_metadata"
      BY <1>1, <2>7 DEF WriteLineage, PlaceType
    <3>2. PICK p \in Pid : p = Least(Remaining) /\ p \in Taken
      BY <3>1, LeastRemaining
    <3>3. snaps[p] \in Snapshot /\ snaps[p].pid = p
      BY <1>1, <3>2 DEF ReadType, Taken
    <3>4. PICK r \in Lineage :
            /\ lineages' = Append(lineages, r)
            /\ r.pid = p /\ r.key = keys[p] /\ r.parent = ParentKey(snaps[p])
            /\ r.exe = [f \in ExeFields |-> exeRead[f].val]
      BY <1>1, <2>7, <3>1, <3>2, <3>3, LineageType DEF WriteLineage
    <3>5. /\ Len(lineages') = Len(lineages) + 1 /\ Len(lineages) \in Nat
          /\ \A l \in 1 .. Len(lineages) : lineages'[l] = lineages[l]
          /\ lineages'[Len(lineages) + 1] = r
      BY <1>1, <3>4, AppendProperties DEF OutType
    <3>6. Taken' = Taken
      BY <3>1 DEF Taken
    <3>7. \A t \in Taken : keys[t] = KeyOf(snaps[t])
      BY <2>1, <3>1 DEF LinkedInv, Lineal
    <3>8. Linked(r)'
      <4>1. r.key = KeyOf(snaps[p])
        BY <3>2, <3>4, <3>7
      <4>2. Stable(p) => \A f \in ExeFields : r.exe[f] \in {0, procs[p].id}
        BY <2>1, <3>1, <3>2, <3>4 DEF LinkedInv
      <4>3. ASSUME snaps[p].ppid \in Taken PROVE r.parent = KeyOf(snaps[snaps[p].ppid])
        <5>1. snaps[p].ppid # 0 /\ snaps[snaps[p].ppid].pid = snaps[p].ppid
          BY <4>3, PidAssumption DEF Taken
        <5>2. keys[snaps[p].ppid] = KeyOf(snaps[snaps[p].ppid])
          BY <3>7, <4>3
        <5>3. keys[snaps[p].ppid] # NoKey
          BY <5>1, <5>2 DEF KeyOf, NoKey
        <5>. QED
          BY <3>4, <5>1, <5>2, <5>3 DEF ParentKey
      <4>. QED
        BY <1>1, <3>1, <3>4, <3>6, <4>1, <4>2, <4>3 DEF Linked, Stable, KeyOf
    <3>9. ASSUME NEW l \in 1 .. Len(lineages) PROVE Linked(lineages[l])'
      <4>1. Linked(lineages[l]) /\ lineages'[l] = lineages[l]
        BY <2>1, <3>5 DEF LinkedInv
      <4>. QED
        BY <1>1, <3>1, <3>6, <4>1 DEF Linked, Stable, KeyOf
    <3>10. \A l \in 1 .. Len(lineages') : Linked(lineages[l])'
      <4>1. \A l \in 1 .. Len(lineages') :
              l \in 1 .. Len(lineages) \/ (l = Len(lineages) + 1 /\ lineages'[l] = r)
        BY <3>5
      <4>. QED
        BY <3>5, <3>8, <3>9, <4>1 DEF Linked
    <3>11. \A t \in Taken' : keys'[t] = KeyOf(snaps[t])'
      BY <3>1, <3>6, <3>7 DEF KeyOf
    <3>. QED
      BY <2>1, <3>1, <3>10, <3>11 DEF LinkedInv, Lineal
  <2>. QED
    BY <2>2, <2>3, <2>4, <2>5, <2>6, <2>7
<1>. QED
  BY <1>1, <1>2, FollowedLate, ProcParts

LEMMA ProcStep == TypeInv /\ StreamInv /\ ProcInv /\ [Next]_vars => ProcInv'
<1>. SUFFICES ASSUME TypeInv, StreamInv, ProcInv, [Next]_vars PROVE ProcInv'
  OBVIOUS
<1>1. CASE Collect
  BY <1>1, ProcListed, ProcOpening, ProcStatus, ProcRead, ProcTaken, ProcLineage DEF Collect
<1>2. CASE HostStep \/ Expire \/ UNCHANGED vars
  BY <1>2, ProcHost
<1>. QED
  BY <1>1, <1>2 DEF Next


----------------------------------------------------------------------------
(* What a reader of the package can rely on.                               *)

\* One element, when there is one and no two of them.
LEMMA OnlyOne ==
  ASSUME NEW S, NEW x \in S, \A y \in S : y = x PROVE OneOf(S)
<1>1. S = {x}
  OBVIOUS
<1>. QED
  BY <1>1, FS_Singleton DEF OneOf

\* The end of a run that went well.
LEMMA GoodEnd ==
  ASSUME TypeInv, StreamInv, ProcInv, Succeeded
  PROVE  /\ pc = "done" /\ EntitiesInv /\ LineagesInv /\ FollowedInv /\ LinkedInv
         /\ todo = {} /\ Remaining = {} /\ ~Opening
<1>1. Sound /\ pc = "done"
  BY DEF Succeeded, Sound, StreamInv
<1>. QED
  BY <1>1 DEF StreamInv, ProcInv, LinkedInv, LineagesInv, Opening

\* A process that was there from the listing to the end of a run that went well
\* has one entity and one lineage record with facts of that process only, or, if
\* its status may not be read, an error event or a failure to write one (Collect,
\* ReadProcess, writeProcessLineage). PIDs may be reused as often as they will.
THEOREM ProcessThatStaysIsReported == Spec => []StableProcessReported
<1>1. TypeInv /\ StreamInv /\ ProcInv => StableProcessReported
  <2>. SUFFICES ASSUME TypeInv, StreamInv, ProcInv, Succeeded, NEW p \in Pid, Stable(p)
       PROVE  \/ /\ OneOf({k \in 1 .. Len(entities) : entities[k].pid = p})
                 /\ OneOf({k \in 1 .. Len(lineages) : lineages[k].pid = p})
                 /\ \A k \in 1 .. Len(lineages) : lineages[k].pid = p =>
                      /\ lineages[k].snap.id = procs[p].id
                      /\ lineages[k].key = [pid |-> p, start |-> procs[p].id]
                      /\ \A f \in Fields : lineages[k].snap.vals[f] \in {0, procs[p].id}
                      /\ \A f \in ExeFields : lineages[k].exe[f] \in {0, procs[p].id}
              \/ /\ procs[p].hidden
                 /\ faults > 0 \/ Event(p, "status", "denied") \in errors
                 /\ \A k \in 1 .. Len(entities) : entities[k].pid # p
    BY DEF StableProcessReported
  <2>1. /\ pc = "done" /\ EntitiesInv /\ LineagesInv /\ LinkedInv /\ Followed(p)
        /\ todo = {} /\ Remaining = {}
    BY GoodEnd DEF FollowedInv
  <2>2. CASE p \notin Taken
    <3>1. Refused(p)
      BY <2>1, <2>2 DEF Followed
    <3>2. \A k \in 1 .. Len(entities) : entities[k].pid # p
      BY <2>1, <2>2 DEF EntitiesInv
    <3>. QED
      BY <3>1, <3>2 DEF Refused
  <2>3. CASE p \in Taken
    <3>1. Describes(snaps[p], p) /\ snaps[p].vals["stat"] = procs[p].id /\ snaps[p].pid = p
      BY <2>1, <2>3 DEF Followed, Taken
    <3>2. OneOf({k \in 1 .. Len(entities) : entities[k].pid = p})
      <4>1. PICK k \in 1 .. Len(entities) : entities[k].pid = p
        BY <2>1, <2>3 DEF EntitiesInv
      <4>2. \A l \in {m \in 1 .. Len(entities) : entities[m].pid = p} : l = k
        BY <2>1, <4>1 DEF EntitiesInv
      <4>. QED
        BY <4>1, <4>2, OnlyOne
    <3>3. OneOf({k \in 1 .. Len(lineages) : lineages[k].pid = p})
      <4>1. PICK k \in 1 .. Len(lineages) : lineages[k].pid = p
        BY <2>1, <2>3 DEF Remaining
      <4>2. \A l \in {m \in 1 .. Len(lineages) : lineages[m].pid = p} : l = k
        BY <2>1, <4>1 DEF LineagesInv
      <4>. QED
        BY <4>1, <4>2, OnlyOne
    <3>4. ASSUME NEW k \in 1 .. Len(lineages), lineages[k].pid = p
          PROVE  /\ lineages[k].snap.id = procs[p].id
                 /\ lineages[k].key = [pid |-> p, start |-> procs[p].id]
                 /\ \A f \in Fields : lineages[k].snap.vals[f] \in {0, procs[p].id}
                 /\ \A f \in ExeFields : lineages[k].exe[f] \in {0, procs[p].id}
      <4>1. lineages[k].snap = snaps[p]
        BY <2>1, <3>4 DEF LineagesInv
      <4>2. Linked(lineages[k])
        BY <2>1 DEF LinkedInv
      <4>. QED
        BY <3>1, <3>4, <4>1, <4>2 DEF Linked, Describes, KeyOf
    <3>. QED
      BY <3>2, <3>3, <3>4
  <2>. QED
    BY <2>2, <2>3
<1>. QED
  BY TypeInit, TypeStep, StreamInit, StreamStep, ProcInit, ProcStep, <1>1, PTL DEF Spec

\* Between two processes that stayed, the child's parent_key is the parent's
\* lineage_key, whichever has the higher PID (writeProcessLineage's two loops).
THEOREM ParentThatStaysIsLinked == Spec => []StableParentLinked
<1>1. TypeInv /\ StreamInv /\ ProcInv => StableParentLinked
  <2>. SUFFICES ASSUME TypeInv, StreamInv, ProcInv, Succeeded,
                       NEW k \in 1 .. Len(lineages), NEW l \in 1 .. Len(lineages),
                       Stable(lineages[k].pid), Stable(lineages[l].pid),
                       procs[lineages[k].pid].ppid = lineages[l].pid
                PROVE  lineages[k].parent = lineages[l].key
    BY DEF StableParentLinked
  <2>. DEFINE c == lineages[k].pid
              p == lineages[l].pid
  <2>1. LineagesInv /\ LinkedInv /\ FollowedInv /\ todo = {} /\ pc = "done" /\ ~Opening
    BY GoodEnd
  <2>2. c \in Taken /\ p \in Taken /\ c \in Pid /\ p \in Pid
    BY <2>1 DEF LineagesInv, Taken
  <2>3. Linked(lineages[k]) /\ Linked(lineages[l])
    BY <2>1 DEF LinkedInv
  <2>4. Describes(snaps[c], c)
    <3>1. Followed(c)
      BY <2>1, <2>2 DEF FollowedInv
    <3>. QED
      BY <2>1, <2>2, <3>1 DEF Followed
  <2>5. snaps[c].ppid = p
    BY <2>2, <2>4, PidAssumption DEF Describes
  <2>. QED
    BY <2>2, <2>3, <2>5 DEF Linked
<1>. QED
  BY TypeInit, TypeStep, StreamInit, StreamStep, ProcInit, ProcStep, <1>1, PTL DEF Spec
=============================================================================
