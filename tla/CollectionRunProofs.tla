------------------------- MODULE CollectionRunProofs -------------------------
(***************************************************************************)
(* Proofs about CollectionRun for every profile, path set, bound and mode. *)
(* The first half is about types, provenance and the seal; the second is   *)
(* about what a run delivers: the manifest lists all that the session      *)
(* changed, every collector is accounted for before the seal, the tarball  *)
(* holds what was sealed, success means that all of it is there, and no    *)
(* temporary file is left by anything but the death of the process.  By    *)
(* the same invariants the run implements EvidencePackage in every mode    *)
(* that writes a manifest.                                                 *)
(***************************************************************************)
EXTENDS CollectionRefinement, SequenceTheorems, TLAPS

MT == ManagerTypeOK(Record)

\* Who names a unit in the states where a unit is at work.
UnitAtWork == pc \in {"starting", "body", "hung", "closing", "abandon"} => units # <<>>

----------------------------------------------------------------------------
(* Types of the manager's operators.                                       *)

\* The merge of two provenances is a provenance.
LEMMA MergeType ==
  ASSUME NEW old \in Artifact, NEW prov \in Claim, NEW v \in Nat
  PROVE  Merge(old, prov, v) \in Artifact
BY DEF Artifact, Claim, Merge, Source, Type, Trust

\* Re-hashing keeps the table a table.
LEMMA RefreshType ==
  ASSUME NEW R \in [Path -> Artifact], NEW S, NEW D \in [Path -> Nat]
  PROVE  Refresh(R, S, D) \in [Path -> Artifact]
BY DEF Refresh, Artifact

\* A snapshot of the table lists a number for every path.
LEMMA EntriesType ==
  ASSUME NEW R \in [Path -> Artifact]
  PROVE  Entries(R) \in [Path -> Nat]
BY DEF Entries, Artifact

\* What the manager says of its own files is a provenance.
LEMMA GeneratedType ==
  /\ \A p \in Path : Generated(p) \in Claim
  /\ Generated("generated") \in Claim
  /\ Generated("artifact_index.json") \in Claim
  /\ Generated("manifest.json") \in Claim
BY DEF Generated, Claim, Source, Type, Trust

\* The job of an idle manager is a job.
LEMMA NoJobType == NoJob \in Job
BY GeneratedType DEF NoJob, Job, NoEntries, Path, Control, Stream

\* Touching keeps versions numbers.
LEMMA TouchedType == MT => Touched \in [Path -> Nat]
BY DEF Touched, MT, ManagerTypeOK
----------------------------------------------------------------------------
(* Type correctness: the manager.                                          *)

\* Creating the temporary sibling of a file keeps the manager's types.
LEMMA CreateTempType ==
  ASSUME MT, NEW p \in Path, NEW prov \in Claim, NEW e \in [Path -> Nat],
         CreateTemp(p, prov, e)
  PROVE  MT'
<1>1. temps' \subseteq Nat \X Path
  BY DEF CreateTemp, MT, ManagerTypeOK
<1>2. job' \in Job
  BY DEF CreateTemp, Job
<1>. QED
  BY <1>1, <1>2 DEF CreateTemp, MT, ManagerTypeOK, history

\* A call that fails before it changes anything keeps the manager's types.
LEMMA RefuseCallType == MT /\ RefuseCall => MT'
BY NoJobType, FaultAssumption
   DEF RefuseCall, Fault, Done, MT, ManagerTypeOK, storage, history

\* The start of WriteLegacy, WriteLegacyFromSource or WriteAIFromSource keeps them.
LEMMA WriteType ==
  ASSUME MT, NEW p \in Path, NEW prov \in Claim, Write(p, prov)
  PROVE  MT'
<1>1. CASE Suppressed(p)
  BY <1>1, NoJobType DEF Write, Done, MT, ManagerTypeOK, storage, history
<1>2. CASE ~Suppressed(p)
  <2>1. NoEntries \in [Path -> Nat]
    BY DEF NoEntries
  <2>. QED
    BY <1>2, <2>1, CreateTempType, RefuseCallType DEF Write
<1>. QED
  BY <1>1, <1>2

\* The rename of writeArtifact keeps them.
LEMMA PublishTempType == MT /\ PublishTemp => MT'
<1>. SUFFICES ASSUME MT, PublishTemp PROVE MT'
  OBVIOUS
<1>1. job.path \in Path /\ job.entries \in [Path -> Nat]
  BY DEF MT, ManagerTypeOK, Job
<1>2. disk' \in [Path -> Nat] /\ origin' \in [Path -> Nat]
  BY <1>1 DEF PublishTemp, MT, ManagerTypeOK
<1>3. index' \in Document /\ manifest' \in Document
  BY <1>1 DEF PublishTemp, MT, ManagerTypeOK, Document
<1>4. temps' \subseteq Nat \X Path /\ unregistered' \subseteq Path
  BY <1>1 DEF PublishTemp, MT, ManagerTypeOK
<1>. QED
  BY <1>2, <1>3, <1>4 DEF PublishTemp, MT, ManagerTypeOK

\* A write that fails after its temporary file was made keeps them.
LEMMA DiscardTempType == MT /\ DiscardTemp => MT'
<1>. SUFFICES ASSUME MT, DiscardTemp PROVE MT'
  OBVIOUS
<1>1. temps' \subseteq Nat \X Path
  BY DEF DiscardTemp, MT, ManagerTypeOK
<1>2. faults' \in 0 .. MaxFaults
  BY FaultAssumption DEF DiscardTemp, Fault, MT, ManagerTypeOK
<1>. QED
  BY <1>1, <1>2, NoJobType DEF DiscardTemp, Done, MT, ManagerTypeOK, history

\* registerArtifact keeps them.
LEMMA RegisterArtifactType == MT /\ RegisterArtifact => MT'
<1>. SUFFICES ASSUME MT, RegisterArtifact PROVE MT'
  OBVIOUS
<1>1. job.path \in Path /\ job.prov \in Claim /\ disk[job.path] \in Nat
  BY DEF MT, ManagerTypeOK, Job
<1>2. Merge(regs[job.path], job.prov, disk[job.path]) \in Artifact
  BY <1>1, MergeType DEF MT, ManagerTypeOK
<1>3. regs' \in [Path -> Artifact]
  BY <1>1, <1>2 DEF RegisterArtifact, MT, ManagerTypeOK
<1>4. writers' \in [Path -> SUBSET Claim] /\ unregistered' \subseteq Path
  BY <1>1 DEF RegisterArtifact, MT, ManagerTypeOK
<1>5. job' \in Job /\ ret' \in {"ok", "err"}
      /\ step' \in {"idle", "temp", "renamed", "create", "seal"}
  BY NoJobType DEF RegisterArtifact, Done, MT, ManagerTypeOK
<1>. QED
  BY <1>3, <1>4, <1>5 DEF RegisterArtifact, MT, ManagerTypeOK, storage

\* One more line of the stream is a line, and touches nothing but the stream.
LEMMA GrowType ==
  ASSUME MT, NEW rec \in Record, NEW text \in Text, Grow(rec, text)
  PROVE  /\ run' \in Nat /\ disk' \in [Path -> Nat] /\ origin' \in [Path -> Nat]
         /\ lines' \in Seq(Line(Record))
         /\ UNCHANGED <<index, manifest, temps, regs, writers, unregistered>>
<1>1. Stream \in Path
  BY DEF Path, Control
<1>2. [sess |-> run, rec |-> rec, text |-> text] \in Line(Record)
  BY DEF Line, MT, ManagerTypeOK
<1>3. lines' \in Seq(Line(Record))
  BY <1>2, AppendProperties DEF Grow, MT, ManagerTypeOK
<1>. QED
  BY <1>1, <1>3 DEF Grow, MT, ManagerTypeOK, history

\* appendEvidenceRecord keeps them, whole, torn or refused.
LEMMA AppendRecordType ==
  ASSUME MT, NEW rec \in Record, AppendRecord(rec)
  PROVE  MT'
<1>1. CASE Suppressed(Stream)
  BY <1>1, NoJobType DEF AppendRecord, Done, MT, ManagerTypeOK, storage, history
<1>2. CASE Grow(rec, TextOf(lines)) /\ Done("ok") /\ UNCHANGED faults
  <2>1. TextOf(lines) \in Text
    BY DEF TextOf, Text
  <2>2. /\ run' \in Nat /\ disk' \in [Path -> Nat] /\ origin' \in [Path -> Nat]
        /\ lines' \in Seq(Line(Record))
        /\ UNCHANGED <<index, manifest, temps, regs, writers, unregistered>>
    BY <1>2, <2>1, GrowType
  <2>. QED
    BY <1>2, <2>2, NoJobType DEF Done, MT, ManagerTypeOK
<1>3. CASE Fault /\ Grow(rec, "torn") /\ Done("err")
  <2>1. "torn" \in Text
    BY DEF Text
  <2>2. /\ run' \in Nat /\ disk' \in [Path -> Nat] /\ origin' \in [Path -> Nat]
        /\ lines' \in Seq(Line(Record))
        /\ UNCHANGED <<index, manifest, temps, regs, writers, unregistered>>
    BY <1>3, <2>1, GrowType
  <2>3. faults' \in 0 .. MaxFaults
    BY <1>3, FaultAssumption DEF Fault, MT, ManagerTypeOK
  <2>. QED
    BY <1>3, <2>2, <2>3, NoJobType DEF Done, MT, ManagerTypeOK
<1>4. CASE RefuseCall
  BY <1>4, RefuseCallType
<1>. QED
  BY <1>1, <1>2, <1>3, <1>4 DEF AppendRecord

\* The table stays a table when Finalize registers the stream.
LEMMA StreamRegisteredType ==
  MT => StreamRegistered \in [Path -> Artifact]
<1>. SUFFICES ASSUME MT PROVE StreamRegistered \in [Path -> Artifact]
  OBVIOUS
<1>1. Stream \in Path
  BY DEF Path, Control
<1>2. Merge(regs[Stream], Generated("generated"), Touched[Stream]) \in Artifact
  BY <1>1, TouchedType, MergeType, GeneratedType DEF MT, ManagerTypeOK
<1>. QED
  BY <1>1, <1>2 DEF StreamRegistered, MT, ManagerTypeOK

\* touch keeps the types of the files.
LEMMA TouchStreamType ==
  MT /\ TouchStream => /\ disk' = Touched /\ disk' \in [Path -> Nat]
                       /\ origin' \in [Path -> Nat]
BY TouchedType DEF TouchStream, MT, ManagerTypeOK

\* A re-hash that stops anywhere leaves the table a table.
LEMMA RefreshFailsType ==
  ASSUME NEW R \in [Path -> Artifact], disk' \in [Path -> Nat], RefreshFails(R)
  PROVE  regs' \in [Path -> Artifact]
<1>1. PICK S : regs' = Refresh(R, S, disk')
  BY DEF RefreshFails
<1>. QED
  BY <1>1, RefreshType

\* Finalize up to its first snapshot keeps the manager's types.
LEMMA FinalizeType == MT /\ Finalize => MT'
<1>1. ASSUME MT, BeginFinalize PROVE MT'
  <2>1. TouchStream
    BY <1>1 DEF BeginFinalize
  <2>2. regs' \in [Path -> Artifact]
    BY <1>1, StreamRegisteredType, TouchedType, RefreshType DEF BeginFinalize
  <2>3. writers' \in [Path -> SUBSET Claim]
    BY <1>1, GeneratedType DEF BeginFinalize, MT, ManagerTypeOK
  <2>4. job' \in Job
    <3>1. IndexFile \in Path
      BY DEF Path, Control
    <3>2. Entries(regs') \in [Path -> Nat]
      BY <2>2, EntriesType
    <3>. QED
      BY <1>1, <3>1, <3>2, NoJobType, GeneratedType DEF BeginFinalize, Done, Job
  <2>5. ret' \in {"ok", "err"} /\ step' \in {"idle", "temp", "renamed", "create", "seal"}
    BY <1>1 DEF BeginFinalize, Done, MT, ManagerTypeOK
  <2>. QED
    BY <1>1, <2>1, <2>2, <2>3, <2>4, <2>5, TouchStreamType
       DEF BeginFinalize, TouchStream, MT, ManagerTypeOK
<1>2. ASSUME MT, FinalizeFails PROVE MT'
  <2>1. /\ disk' \in [Path -> Nat] /\ origin' \in [Path -> Nat]
        /\ UNCHANGED <<lines, index, manifest, temps>>
    BY <1>2, TouchStreamType DEF FinalizeFails, TouchStream, storage, MT, ManagerTypeOK
  <2>2. regs' \in [Path -> Artifact]
    <3>1. CASE UNCHANGED regs
      BY <1>2, <3>1 DEF MT, ManagerTypeOK
    <3>2. CASE RefreshFails(StreamRegistered)
      BY <1>2, <2>1, <3>2, StreamRegisteredType, RefreshFailsType
    <3>. QED
      BY <1>2, <3>1, <3>2 DEF FinalizeFails
  <2>3. writers' \in [Path -> SUBSET Claim]
    BY <1>2, GeneratedType DEF FinalizeFails, MT, ManagerTypeOK
  <2>4. faults' \in 0 .. MaxFaults
    BY <1>2, FaultAssumption DEF FinalizeFails, Fault, MT, ManagerTypeOK
  <2>. QED
    BY <1>2, <2>1, <2>2, <2>3, <2>4, NoJobType DEF FinalizeFails, Done, MT, ManagerTypeOK
<1>. QED
  BY <1>1, <1>2 DEF Finalize

\* Finalize's second re-hash, whole or stopped half-way, keeps them.
LEMMA SealType == MT /\ (SealManifest \/ SealFails) => MT'
<1>1. ASSUME MT, SealManifest PROVE MT'
  <2>1. regs' \in [Path -> Artifact]
    BY <1>1, RefreshType DEF SealManifest, MT, ManagerTypeOK
  <2>2. job' \in Job
    <3>1. ManifestFile \in Path
      BY DEF Path, Control
    <3>. QED
      BY <1>1, <2>1, <3>1, EntriesType, GeneratedType DEF SealManifest, Job
  <2>. QED
    BY <1>1, <2>1, <2>2 DEF SealManifest, MT, ManagerTypeOK, storage, history
<1>2. ASSUME MT, SealFails PROVE MT'
  <2>1. disk' \in [Path -> Nat]
    BY <1>2 DEF SealFails, storage, MT, ManagerTypeOK
  <2>2. regs' \in [Path -> Artifact]
    <3>1. regs \in [Path -> Artifact] /\ RefreshFails(regs)
      BY <1>2 DEF SealFails, MT, ManagerTypeOK
    <3>. QED
      BY <2>1, <3>1, RefreshFailsType
  <2>3. faults' \in 0 .. MaxFaults
    BY <1>2, FaultAssumption DEF SealFails, Fault, MT, ManagerTypeOK
  <2>. QED
    BY <1>2, <2>2, <2>3, NoJobType DEF SealFails, Done, MT, ManagerTypeOK, storage, history
<1>. QED
  BY <1>1, <1>2

\* The start of WriteAIJSON for the index or the manifest keeps them.
LEMMA WriteControlType == MT /\ WriteControl => MT'
<1>. SUFFICES ASSUME MT, WriteControl PROVE MT'
  OBVIOUS
<1>1. job.path \in Path /\ job.prov \in Claim /\ job.entries \in [Path -> Nat]
  BY DEF MT, ManagerTypeOK, Job
<1>. QED
  BY <1>1, CreateTempType, RefuseCallType DEF WriteControl

\* Every step the manager takes inside a call keeps its types.
LEMMA ManagerStepType == MT /\ ManagerStep => MT'
BY PublishTempType, DiscardTempType, RegisterArtifactType, RefuseCallType, SealType,
   WriteControlType DEF ManagerStep, RegisterFails

\* New keeps the manager's types in a root that was used before.
LEMMA NewManagerType == MT /\ NewManager /\ faults' \in 0 .. MaxFaults => MT'
<1>. SUFFICES ASSUME MT, NewManager, faults' \in 0 .. MaxFaults PROVE MT'
  OBVIOUS
<1>1. regs' \in [Path -> Artifact]
  BY DEF NewManager, NoArtifact, Artifact, Source, Type, Trust
<1>. QED
  BY <1>1, NoJobType DEF NewManager, MT, ManagerTypeOK, storage

\* A step of the run that leaves the manager alone keeps its types.
LEMMA MvarsType == MT /\ UNCHANGED mvars => MT'
BY DEF mvars, storage, memory, history, MT, ManagerTypeOK
----------------------------------------------------------------------------
(* Type correctness: the run.                                              *)

Program ==
  /\ pc \in {"down", "prologue", "loop", "starting", "body", "hung", "closing",
             "abandon", "epilogue", "finalizing", "archive", "packed", "summary",
             "exited"}
  /\ todo \in Seq(Call)
  /\ units \in Seq(Unit)
  /\ cfg \in Configs
  /\ expired \in BOOLEAN
  /\ exit \in {"none", "ok", "err", "crash"}
  /\ ops \in 0 .. MaxOps
  /\ UnitAtWork

Package ==
  /\ archive \in [sess : Nat, holds : [Path -> Nat], manifest : Document,
                  skipped : SUBSET Path, summary : Nat]
  /\ summary \in [sess : Nat, temps : SUBSET Nat]

\* The values a counter and a list start from are in their ranges.
LEMMA Neutral == /\ <<>> \in Seq(Call)
                 /\ <<>> \in Seq(Unit)
                 /\ 0 \in 0 .. MaxOps
BY BoundAssumption

\* The type invariant falls into a part for the manager, the run and the package.
LEMMA TypeParts == TypeOK /\ UnitAtWork <=> MT /\ Program /\ Package
BY DEF TypeOK, MT, Program, Package

\* The calls of the script are calls.
LEMMA LogCallType ==
  ASSUME NEW kind \in {"session_start", "session_end", "timeline", "start", "end",
                       "skipped", "error", "record"},
         NEW who \in Unit \union {"session"}
  PROVE  LogCall(kind, who) \in Call /\ Event(kind, who) \in Record
BY DEF LogCall, Event, Call, Record

\* A write of a file below legacy/ is a call of the script.
LEMMA LegacyCallType == \A p \in LegacyPath : LegacyCall(p) \in Call
BY DEF LegacyCall, Call

\* What Run does before the first collector and after the last one are calls.
LEMMA ScriptType == Prologue \in Seq(Call) /\ Epilogue \in Seq(Call)
BY LogCallType, LegacyCallType, UnitAssumption DEF Prologue, Epilogue

\* The agenda of a command line lists collectors and the scanner phase only.
LEMMA UnitsType ==
  ASSUME NEW c \in Configs
  PROVE  Agenda(c) \in Seq(Unit)
<1>1. c.profile \in Seq(Unit)
  BY ConfigAssumption DEF Unit
<1>2. <<ScannerPhase>> \in Seq(Unit) /\ <<>> \in Seq(Unit)
  BY DEF Unit
<1>. QED
  BY <1>1, <1>2, ConcatProperties, Zenon DEF Agenda

\* The unit at work has a status file, and what follows it are units.
LEMMA WhoType ==
  ASSUME Program, units # <<>>
  PROVE  /\ Who \in Unit /\ StatusPath[Who] \in LegacyPath
         /\ Tail(units) \in Seq(Unit)
<1>1. units \in Seq(Unit) /\ units # <<>>
  BY DEF Program
<1>2. Who \in Unit /\ Tail(units) \in Seq(Unit)
  BY <1>1, HeadTailProperties DEF Who
<1>. QED
  BY <1>2, UnitAssumption

\* The end of the process, by itself or not, keeps the types of the run.
LEMMA StopType ==
  ASSUME Program, NEW r \in {"ok", "err", "crash"}, Stop(r)
  PROVE  Program'
BY BoundAssumption DEF Program, Stop, UnitAtWork

\* A move of the program that makes a list of calls its next work.
LEMMA GotoType ==
  ASSUME Program, NEW next, NEW calls \in Seq(Call), Goto(next, calls),
         next \in {"loop", "starting", "body", "hung", "closing", "abandon",
                   "epilogue", "finalizing", "archive", "packed", "summary"},
         units' \in Seq(Unit), ops' \in 0 .. MaxOps,
         next \in {"starting", "body", "hung", "closing", "abandon"} => units' # <<>>
  PROVE  Program'
BY DEF Program, Goto, UnitAtWork

\* A new run in the same root starts with every variable in its range.
LEMMA LaunchType ==
  ASSUME MT, Program, Package, Launch PROVE MT' /\ Program' /\ Package'
<1>1. faults' \in 0 .. MaxFaults
  BY FaultAssumption DEF Launch, Fault, MT, ManagerTypeOK
<1>2. MT'
  BY <1>1, NewManagerType DEF Launch
<1>3. Agenda(cfg') \in Seq(Unit)
  BY UnitsType DEF Launch
<1>4. Program'
  <2>1. todo' \in Seq(Call) /\ units' \in Seq(Unit)
    BY <1>3, ScriptType, Neutral DEF Launch
  <2>2. expired' \in BOOLEAN /\ ops' \in 0 .. MaxOps /\ cfg' \in Configs
    BY Neutral, Zenon DEF Launch
  <2>3. pc' \in {"prologue", "exited"} /\ exit' \in {"none", "err"}
    BY DEF Launch
  <2>. QED
    BY <2>1, <2>2, <2>3 DEF Program, UnitAtWork
<1>. QED
  BY <1>2, <1>4 DEF Launch, Package, package

\* The deadline and the death of the process keep every type.
LEMMA EnvironmentType ==
  ASSUME MT, Program, Package, Expire \/ Crash PROVE MT' /\ Program' /\ Package'
<1>1. CASE Expire
  BY <1>1, MvarsType DEF Expire, Program, Package, package, UnitAtWork
<1>2. CASE Crash
  <2>1. MT'
    BY <1>2, NoJobType DEF Crash, MT, ManagerTypeOK, storage, history
  <2>2. Program'
    BY <1>2, StopType DEF Crash
  <2>. QED
    BY <1>2, <2>1, <2>2 DEF Crash, Package, package
<1>. QED
  BY <1>1, <1>2

\* A call that Run makes itself keeps the manager's types.
LEMMA MakeType ==
  ASSUME MT, NEW c \in Call, Make(c) PROVE MT'
<1>1. CASE c.call = "append" /\ AppendRecord(c.rec)
  <2>1. c.rec \in Record
    BY <1>1 DEF Call
  <2>. QED
    BY <1>1, <2>1, AppendRecordType
<1>2. CASE c.call = "write" /\ Write(c.path, Generated(c.path))
  <2>1. c.path \in Path
    BY <1>2 DEF Call, Path, ClientPath
  <2>. QED
    BY <1>2, <2>1, WriteType, GeneratedType
<1>. QED
  BY <1>1, <1>2 DEF Make

\* Calls of the script and of bodies, and the manager's steps in them, keep every type.
LEMMA CallType ==
  ASSUME MT, Program, Package, ScriptCall \/ ManagerWorks \/ BodyCall
  PROVE  MT' /\ Program' /\ Package'
<1>1. CASE ScriptCall
  <2>1. Head(todo) \in Call /\ Tail(todo) \in Seq(Call)
    BY <1>1, HeadTailProperties DEF ScriptCall, Program
  <2>2. MT'
    BY <1>1, <2>1, MakeType DEF ScriptCall
  <2>. QED
    BY <1>1, <2>1, <2>2 DEF ScriptCall, Program, Package, package, UnitAtWork
<1>2. CASE ManagerWorks
  BY <1>2, ManagerStepType
     DEF ManagerWorks, program, Program, Package, package, UnitAtWork
<1>3. CASE BodyCall
  <2>1. Event("record", Who) \in Record
    BY <1>3, WhoType, LogCallType DEF BodyCall, Program, UnitAtWork
  <2>2. BodyPath \subseteq Path /\ Prov \subseteq Claim
    BY ProvAssumption DEF BodyPath, Path
  <2>3. MT'
    BY <1>3, <2>1, <2>2, AppendRecordType, WriteType DEF BodyCall
  <2>4. ops' \in 0 .. MaxOps
    BY <1>3, BoundAssumption DEF BodyCall, Program
  <2>. QED
    BY <1>3, <2>3, <2>4 DEF BodyCall, Program, Package, package, UnitAtWork
<1>. QED
  BY <1>1, <1>2, <1>3

\* The moves of Run's loop keep every type.
LEMMA MoveType ==
  ASSUME MT, Program, Package,
         BeginLoop \/ SkipUnit \/ NextUnit \/ EnterBody \/ CloseUnit \/ EndLoop
  PROVE  MT' /\ Program' /\ Package'
<1>0. <<>> \in Seq(Call)
  OBVIOUS
<1>1. MT' /\ Package'
  BY MvarsType DEF BeginLoop, SkipUnit, NextUnit, EnterBody, CloseUnit, EndLoop,
                   Package, package
<1>2. CASE BeginLoop \/ EndLoop
  <2>1. units' \in Seq(Unit) /\ ops' \in 0 .. MaxOps
    BY <1>2 DEF BeginLoop, EndLoop, Program
  <2>2. Goto("loop", <<>>) \/ Goto("epilogue", Epilogue)
    BY <1>2 DEF BeginLoop, EndLoop
  <2>3. CASE Goto("loop", <<>>)
    BY <1>0, <1>1, <2>1, <2>3, GotoType
  <2>4. CASE Goto("epilogue", Epilogue)
    BY <1>1, <2>1, <2>4, ScriptType, GotoType
  <2>. QED
    BY <2>2, <2>3, <2>4
<1>3. CASE SkipUnit
  <2>1. Tail(units) \in Seq(Unit)
    BY <1>3, WhoType DEF SkipUnit
  <2>. QED
    BY <1>1, <1>3, <2>1 DEF SkipUnit, Program, UnitAtWork
<1>4. CASE NextUnit
  <2>1. units # <<>> /\ Who \in Unit /\ StatusPath[Who] \in LegacyPath
    BY <1>4, WhoType DEF NextUnit
  <2>2. /\ <<LogCall("start", Who)>> \in Seq(Call)
        /\ <<LogCall("skipped", Who), LegacyCall(StatusPath[Who])>> \in Seq(Call)
    BY <2>1, LogCallType, LegacyCallType
  <2>3. units' \in Seq(Unit) /\ ops' \in 0 .. MaxOps /\ units' # <<>>
    BY <1>4 DEF NextUnit, Program
  <2>4. CASE Goto("starting", <<LogCall("start", Who)>>)
    BY <1>1, <2>2, <2>3, <2>4, GotoType
  <2>5. CASE Goto("closing", <<LogCall("skipped", Who), LegacyCall(StatusPath[Who])>>)
    BY <1>1, <2>2, <2>3, <2>5, GotoType
  <2>. QED
    BY <1>4, <2>4, <2>5 DEF NextUnit
<1>5. CASE EnterBody
  <2>1. units # <<>> /\ Who \in Unit
    BY <1>5, WhoType DEF EnterBody, Ready, Program, UnitAtWork
  <2>2. <<LogCall("error", Who)>> \in Seq(Call)
    BY <2>1, LogCallType
  <2>3. units' \in Seq(Unit) /\ ops' \in 0 .. MaxOps /\ units' # <<>>
    BY <1>5, <2>1, Neutral DEF EnterBody, Program
  <2>4. CASE Goto("abandon", <<LogCall("error", Who)>>)
    BY <1>1, <2>2, <2>3, <2>4, GotoType
  <2>5. CASE Goto("body", <<>>)
    BY <1>0, <1>1, <2>3, <2>5, GotoType
  <2>. QED
    BY <1>5, <2>4, <2>5 DEF EnterBody
<1>6. CASE CloseUnit
  <2>1. units # <<>>
    BY <1>6 DEF CloseUnit, Ready, Program, UnitAtWork
  <2>2. units' \in Seq(Unit) /\ ops' \in 0 .. MaxOps
    BY <1>6, <2>1, WhoType DEF CloseUnit, Program
  <2>. QED
    BY <1>0, <1>1, <1>6, <2>2, GotoType DEF CloseUnit
<1>. QED
  BY <1>1, <1>2, <1>3, <1>4, <1>5, <1>6

\* The returns of a body, and its native commands, keep every type.
LEMMA BodyType ==
  ASSUME MT, Program, Package,
         BodyReturnsNil \/ BodyReturnsError \/ BodyBlocks \/ DeadlineUnblocks
  PROVE  MT' /\ Program' /\ Package'
<1>0. <<>> \in Seq(Call)
  OBVIOUS
<1>1. units # <<>> /\ Who \in Unit /\ StatusPath[Who] \in LegacyPath
  BY WhoType DEF BodyReturnsNil, BodyReturnsError, BodyBlocks, DeadlineUnblocks,
                 Program, UnitAtWork
<1>2. /\ <<LogCall("end", Who), LegacyCall(StatusPath[Who])>> \in Seq(Call)
      /\ <<LogCall("error", Who), LegacyCall(StatusPath[Who])>> \in Seq(Call)
  BY <1>1, LogCallType, LegacyCallType
<1>3. CASE BodyReturnsNil
  <2>1. MT' /\ Package'
    BY <1>3 DEF BodyReturnsNil, MT, ManagerTypeOK, Package, package, storage, history
  <2>2. units' \in Seq(Unit) /\ ops' \in 0 .. MaxOps /\ units' # <<>>
    BY <1>1, <1>3, Neutral DEF BodyReturnsNil, Program
  <2>3. Goto("closing", <<LogCall("end", Who), LegacyCall(StatusPath[Who])>>)
    BY <1>3 DEF BodyReturnsNil
  <2>. QED
    BY <1>2, <2>1, <2>2, <2>3, GotoType
<1>4. CASE BodyReturnsError
  <2>1. MT' /\ Package'
    BY <1>4, MvarsType DEF BodyReturnsError, Package, package
  <2>2. units' \in Seq(Unit) /\ ops' \in 0 .. MaxOps /\ units' # <<>>
    BY <1>1, <1>4, Neutral DEF BodyReturnsError, Program
  <2>3. Goto("abandon", <<LogCall("error", Who), LegacyCall(StatusPath[Who])>>)
    BY <1>4 DEF BodyReturnsError
  <2>. QED
    BY <1>2, <2>1, <2>2, <2>3, GotoType
<1>5. CASE BodyBlocks
  <2>1. MT' /\ Package'
    BY <1>5, MvarsType DEF BodyBlocks, Package, package
  <2>2. ops' \in 0 .. MaxOps
    BY <1>5, BoundAssumption DEF BodyBlocks, Program
  <2>. QED
    BY <1>0, <1>1, <1>5, <2>1, <2>2, GotoType DEF BodyBlocks, Program
<1>6. CASE DeadlineUnblocks
  <2>1. MT' /\ Package'
    BY <1>6, MvarsType DEF DeadlineUnblocks, Package, package
  <2>. QED
    BY <1>0, <1>1, <1>6, <2>1, GotoType DEF DeadlineUnblocks, Program
<1>. QED
  BY <1>3, <1>4, <1>5, <1>6

\* Run's error returns keep every type.
LEMMA ReturnType ==
  ASSUME MT, Program, Package, ReturnError \/ Abandon
  PROVE  MT' /\ Program' /\ Package'
BY StopType, MvarsType DEF ReturnError, Abandon, Package, package

\* Sealing, packing and the summary keep every type, whether they succeed or not.
LEMMA DeliveryType ==
  ASSUME MT, Program, Package,
         \/ StartFinalize \/ StartArchive \/ PackTree
         \/ StartSummary \/ PublishSummary \/ PackingFails
  PROVE  MT' /\ Program' /\ Package'
<1>0. <<>> \in Seq(Call)
  OBVIOUS
<1>1. CASE StartFinalize
  BY <1>0, <1>1, FinalizeType, GotoType DEF StartFinalize, Program, Package, package
<1>2. CASE StartArchive
  BY <1>0, <1>2, MvarsType, GotoType DEF StartArchive, Program, Package, package
<1>3. CASE PackTree
  <2>1. faults' \in 0 .. MaxFaults
    BY <1>3, FaultAssumption DEF PackTree, Fault, MT, ManagerTypeOK
  <2>2. MT'
    BY <1>3, <2>1 DEF PackTree, MT, ManagerTypeOK, storage, memory, history
  <2>3. NoDocument \in Document
    BY DEF NoDocument, Document, NoEntries
  <2>4. Package'
    BY <1>3, <2>3 DEF PackTree, Package, MT, ManagerTypeOK
  <2>. QED
    BY <1>0, <1>3, <2>2, <2>4, GotoType DEF PackTree, Program
<1>4. CASE StartSummary
  <2>1. Package'
    BY <1>4 DEF StartSummary, Package, MT, ManagerTypeOK
  <2>. QED
    BY <1>0, <1>4, <2>1, MvarsType, GotoType DEF StartSummary, Program
<1>5. CASE PublishSummary
  <2>1. Package'
    BY <1>5 DEF PublishSummary, Package, MT, ManagerTypeOK
  <2>. QED
    BY <1>5, <2>1, MvarsType, StopType DEF PublishSummary
<1>6. CASE PackingFails
  <2>1. Package'
    BY <1>6 DEF PackingFails, Package, MT, ManagerTypeOK
  <2>2. MT'
    BY <1>6, FaultAssumption
       DEF PackingFails, Fault, MT, ManagerTypeOK, storage, memory, history
  <2>. QED
    BY <1>6, <2>1, <2>2, StopType DEF PackingFails
<1>. QED
  BY <1>1, <1>2, <1>3, <1>4, <1>5, <1>6

\* Every step keeps the types, and a unit at work where one is needed.
LEMMA TypeStep == TypeOK /\ UnitAtWork /\ [Next]_vars => TypeOK' /\ UnitAtWork'
<1>. SUFFICES ASSUME MT, Program, Package, [Next]_vars PROVE MT' /\ Program' /\ Package'
  BY TypeParts DEF TypeOK, MT, Program, Package
<1>1. CASE UNCHANGED vars
  BY <1>1, MvarsType DEF vars, program, package, Program, Package, UnitAtWork
<1>2. CASE Next
  BY <1>2, LaunchType, EnvironmentType, CallType, MoveType, BodyType, ReturnType,
     DeliveryType DEF Next, Progress
<1>. QED
  BY <1>1, <1>2

\* The initial states are of the right types.
LEMMA TypeInit == Init => TypeOK /\ UnitAtWork
<1>. SUFFICES ASSUME Init PROVE MT /\ Program /\ Package
  BY TypeParts
<1>1. NoEntries \in [Path -> Nat] /\ NoDocument \in Document
  BY DEF NoEntries, NoDocument, Document
<1>2. NoArtifact \in Artifact
  BY DEF NoArtifact, Artifact, Source, Type, Trust
<1>3. MT
  BY <1>1, <1>2, NoJobType, FaultAssumption DEF Init, ManagerInit, MT, ManagerTypeOK
<1>4. Program
  <2>1. todo \in Seq(Call) /\ units \in Seq(Unit) /\ ops \in 0 .. MaxOps
    BY Neutral, Zenon DEF Init
  <2>2. expired \in BOOLEAN /\ cfg \in Configs
    BY Zenon DEF Init
  <2>3. pc = "down" /\ exit = "none"
    BY DEF Init
  <2>. QED
    BY <2>1, <2>2, <2>3 DEF Program, UnitAtWork
<1>5. Package
  BY <1>1 DEF Init, Package, NoArchive
<1>. QED
  BY <1>3, <1>4, <1>5

\* Type correctness of the whole model, for every value of the constants.
THEOREM TypeCorrect == Spec => [](TypeOK /\ UnitAtWork)
BY TypeInit, TypeStep, PTL DEF Spec
----------------------------------------------------------------------------
(* Seal accuracy.  SealedManifestMatches says nothing about the way to the *)
(* seal; the invariant does: while evidence is gathered the manifest is an *)
(* older session's and the control files have no entry, and from the first *)
(* snapshot on nothing but the control files themselves changes.           *)

\* Every file E lists is on disk as E lists it.
Matches(E) == \A p \in Path : E[p] > 0 => disk[p] = E[p]

Gathers == {"prologue", "loop", "starting", "body", "hung", "closing", "abandon",
            "epilogue"}

Unsealed == manifest.sess < run

Gathering ==
  pc \in Gathers =>
    /\ Unsealed
    /\ step = "idle" \/ (step \in {"temp", "renamed"} /\ job.path \in ClientPath)
    /\ regs[IndexFile].ver = 0 /\ regs[ManifestFile].ver = 0

WritingIndex ==
  /\ step \in {"create", "temp"} /\ job.path = IndexFile
  /\ Unsealed
  /\ Matches(job.entries)
  /\ job.entries[IndexFile] = 0 /\ job.entries[ManifestFile] = 0
  /\ regs[ManifestFile].ver = 0

IndexWritten ==
  /\ step = "seal" \/ (step = "renamed" /\ job.path = IndexFile)
  /\ Unsealed
  /\ Matches(index.entries)
  /\ index.entries[ManifestFile] = 0
  /\ regs[ManifestFile].ver = 0

WritingManifest ==
  /\ step \in {"create", "temp"} /\ job.path = ManifestFile
  /\ Unsealed
  /\ Matches(index.entries) /\ Matches(job.entries)
  /\ index.entries[ManifestFile] = 0 /\ job.entries[ManifestFile] = 0

ManifestWritten ==
  /\ step = "renamed" /\ job.path = ManifestFile
  /\ Matches(index.entries) /\ Matches(manifest.entries)

Sealed == manifest.sess = run => Matches(index.entries) /\ Matches(manifest.entries)

Finalizing ==
  pc = "finalizing" => \/ step = "idle" /\ Sealed
                       \/ WritingIndex \/ IndexWritten
                       \/ WritingManifest \/ ManifestWritten

Settled ==
  pc \notin Gathers \union {"finalizing"} => step = "idle" /\ Sealed

SealInv == manifest.sess <= run /\ Gathering /\ Finalizing /\ Settled

\* Every phase keeps the promise that SealedManifestMatches makes.
LEMMA SealInvPromise == MT /\ Program /\ SealInv => Sealed
BY DEF MT, ManagerTypeOK, Document, Program, SealInv, Gathering, Finalizing, Settled,
       Sealed, Unsealed, WritingIndex, IndexWritten, WritingManifest, ManifestWritten

\* The three control files are paths, differ, and no caller writes them.
LEMMA ControlDistinct ==
  /\ Stream \in Path /\ IndexFile \in Path /\ ManifestFile \in Path
  /\ IndexFile # ManifestFile /\ Stream # IndexFile /\ Stream # ManifestFile
  /\ IndexFile \notin ClientPath /\ ManifestFile \notin ClientPath
  /\ Stream \notin ClientPath
  /\ ClientPath \subseteq Path
BY PathAssumption DEF Path, Control, Stream, IndexFile, ManifestFile

----------------------------------------------------------------------------
\* Calls while evidence is gathered, and the steps the manager takes in them.
LEMMA SealGather ==
  ASSUME MT, SealInv, pc \in Gathers, pc' = pc,
         \/ \E p \in ClientPath, v \in Claim : Write(p, v)
         \/ \E r \in Record : AppendRecord(r)
         \/ ManagerStep
  PROVE  SealInv'
<1>1. Unsealed /\ regs[IndexFile].ver = 0 /\ regs[ManifestFile].ver = 0
  BY DEF SealInv, Gathering
<1>2. step = "idle" \/ (step \in {"temp", "renamed"} /\ job.path \in ClientPath)
  BY DEF SealInv, Gathering
<1>0. manifest.sess <= run /\ manifest.sess < run
  BY <1>1 DEF SealInv, Unsealed
<1>3. SUFFICES /\ manifest'.sess < run' /\ manifest'.sess <= run'
               /\ step' = "idle" \/ (step' \in {"temp", "renamed"} /\ job'.path \in ClientPath)
               /\ regs'[IndexFile].ver = 0 /\ regs'[ManifestFile].ver = 0
  BY DEF SealInv, Gathering, Finalizing, Settled, Gathers, Unsealed
<1>4. ASSUME NEW p \in ClientPath, NEW v \in Claim, Write(p, v)
      PROVE  /\ UNCHANGED <<run, manifest, regs>>
             /\ step' = "idle" \/ (step' \in {"temp", "renamed"} /\ job'.path \in ClientPath)
  BY <1>4 DEF Write, CreateTemp, RefuseCall, Done, storage
<1>5. ASSUME NEW r \in Record, AppendRecord(r)
      PROVE  UNCHANGED <<run, manifest, regs>> /\ step' = "idle"
  BY <1>5 DEF AppendRecord, Grow, RefuseCall, Done, storage
<1>6. ASSUME PublishTemp
      PROVE  /\ UNCHANGED <<run, manifest, regs>>
             /\ step' = "renamed" /\ job'.path \in ClientPath
  BY <1>2, <1>6, ControlDistinct DEF PublishTemp
<1>7. ASSUME DiscardTemp \/ RegisterFails
      PROVE  UNCHANGED <<run, manifest, regs>> /\ step' = "idle"
  BY <1>7 DEF DiscardTemp, RegisterFails, RefuseCall, Done, storage
<1>8. ASSUME RegisterArtifact
      PROVE  /\ UNCHANGED <<run, manifest>> /\ step' = "idle"
             /\ regs'[IndexFile] = regs[IndexFile]
             /\ regs'[ManifestFile] = regs[ManifestFile]
  <2>1. job.path \in ClientPath
    BY <1>2, <1>8 DEF RegisterArtifact
  <2>. QED
    BY <1>8, <2>1, ControlDistinct
       DEF RegisterArtifact, Done, storage, MT, ManagerTypeOK
<1>9. ~SealManifest /\ ~SealFails /\ ~WriteControl
  BY <1>2 DEF SealManifest, SealFails, WriteControl
<1>10. CASE \E p \in ClientPath, v \in Claim : Write(p, v)
  BY <1>0, <1>1, <1>4, <1>10
<1>11. CASE \E r \in Record : AppendRecord(r)
  BY <1>0, <1>1, <1>5, <1>11
<1>12. CASE ManagerStep
  BY <1>0, <1>1, <1>6, <1>7, <1>8, <1>9, <1>12 DEF ManagerStep
<1>. QED
  BY <1>10, <1>11, <1>12

\* A snapshot of a table that has just been refreshed matches the disk.
LEMMA SnapshotMatches ==
  ASSUME NEW R \in [Path -> Artifact], NEW D \in [Path -> Nat]
  PROVE  \A p \in Path : /\ Entries(Refresh(R, Path, D))[p] > 0
                              => Entries(Refresh(R, Path, D))[p] = D[p]
                         /\ R[p].ver = 0 => /\ Entries(Refresh(R, Path, D))[p] = 0
                                            /\ Refresh(R, Path, D)[p].ver = 0
BY DEF Entries, Refresh, Artifact

\* Finalize takes its first snapshot.
LEMMA SealStart ==
  ASSUME MT, SealInv, StartFinalize PROVE SealInv'
<1>1. pc = "epilogue" /\ pc' = "finalizing" /\ Finalize /\ run' = run
  BY DEF StartFinalize, Ready, Goto, Finalize, BeginFinalize, FinalizeFails
<1>2. Unsealed /\ regs[IndexFile].ver = 0 /\ regs[ManifestFile].ver = 0
  BY <1>1 DEF SealInv, Gathering, Gathers
<1>3. UNCHANGED <<manifest, index>>
  BY <1>1 DEF Finalize, BeginFinalize, FinalizeFails, TouchStream, storage
<1>4. Unsealed' /\ manifest'.sess <= run' /\ manifest'.sess # run'
  BY <1>1, <1>2, <1>3 DEF Unsealed, MT, ManagerTypeOK, Document
<1>5. SUFFICES (step = "idle" /\ Sealed)' \/ WritingIndex'
  BY <1>1, <1>4 DEF SealInv, Gathering, Finalizing, Settled, Gathers
<1>6. CASE step' = "idle"
  BY <1>4, <1>6 DEF Sealed
<1>7. CASE step' # "idle"
  <2>1. BeginFinalize /\ Mode # "legacy"
    BY <1>1, <1>7 DEF Finalize, BeginFinalize, FinalizeFails, Done
  <2>2. disk' = Touched /\ Touched \in [Path -> Nat]
    BY <2>1, TouchedType DEF BeginFinalize, TouchStream
  <2>3. StreamRegistered \in [Path -> Artifact]
    BY StreamRegisteredType
  <2>4. /\ StreamRegistered[IndexFile].ver = 0
        /\ StreamRegistered[ManifestFile].ver = 0
    BY <1>2, ControlDistinct DEF StreamRegistered, MT, ManagerTypeOK
  <2>5. regs' = Refresh(StreamRegistered, Path, Touched)
    BY <2>1 DEF BeginFinalize
  <2>6. step' = "create" /\ job'.path = IndexFile /\ job'.entries = Entries(regs')
    BY <2>1 DEF BeginFinalize
  <2>7. \A p \in Path : job'.entries[p] > 0 => disk'[p] = job'.entries[p]
    BY <2>2, <2>3, <2>5, <2>6, SnapshotMatches
  <2>8. /\ job'.entries[IndexFile] = 0 /\ job'.entries[ManifestFile] = 0
        /\ regs'[ManifestFile].ver = 0
    BY <2>2, <2>3, <2>4, <2>5, <2>6, SnapshotMatches, ControlDistinct
  <2>. QED
    BY <1>4, <2>6, <2>7, <2>8 DEF WritingIndex, Matches
<1>. QED
  BY <1>6, <1>7

\* The manager's own steps from the first snapshot to the manifest.
LEMMA SealWork ==
  ASSUME MT, SealInv, pc = "finalizing", pc' = pc, ManagerStep
  PROVE  SealInv'
<1>0. run' = run
  BY DEF ManagerStep, PublishTemp, DiscardTemp, RegisterArtifact, RegisterFails, RefuseCall,
         SealManifest, SealFails, WriteControl, CreateTemp
<1>1. step # "idle"
  BY DEF ManagerStep, PublishTemp, DiscardTemp, RegisterArtifact, RegisterFails,
         SealManifest, SealFails, WriteControl
<1>2. WritingIndex \/ IndexWritten \/ WritingManifest \/ ManifestWritten
  BY <1>1 DEF SealInv, Finalizing
<1>3. Sealed /\ manifest.sess <= run
  BY <1>2 DEF SealInv, Sealed, Unsealed, WritingIndex, IndexWritten, WritingManifest,
              ManifestWritten, MT, ManagerTypeOK, Document
<1>4. SUFFICES /\ manifest'.sess <= run'
               /\ \/ (step = "idle" /\ Sealed)' \/ WritingIndex' \/ IndexWritten'
                  \/ WritingManifest' \/ ManifestWritten'
  BY DEF SealInv, Gathering, Finalizing, Settled, Gathers
<1>5. ASSUME step' = "idle", UNCHANGED <<disk, index, manifest>>
      PROVE  manifest'.sess <= run' /\ (step = "idle" /\ Sealed)'
  BY <1>0, <1>3, <1>5 DEF Sealed, Matches
<1>6. CASE DiscardTemp \/ RegisterFails \/ SealFails
  BY <1>5, <1>6 DEF DiscardTemp, RegisterFails, SealFails, RefuseCall, Done, storage
<1>7. CASE WriteControl
  <2>1. CASE RefuseCall
    BY <1>5, <2>1 DEF RefuseCall, Done, storage
  <2>2. CASE CreateTemp(job.path, job.prov, job.entries)
    <3>1. /\ UNCHANGED <<disk, index, manifest, regs>> /\ step' = "temp"
          /\ job'.path = job.path /\ job'.entries = job.entries
      BY <2>2 DEF CreateTemp
    <3>2. step = "create"
      BY <1>7 DEF WriteControl
    <3>3. CASE WritingIndex
      BY <1>0, <1>3, <3>1, <3>3 DEF WritingIndex, Unsealed, Matches
    <3>4. CASE WritingManifest
      BY <1>0, <1>3, <3>1, <3>4 DEF WritingManifest, Unsealed, Matches
    <3>. QED
      BY <1>2, <3>2, <3>3, <3>4 DEF IndexWritten, ManifestWritten
  <2>. QED
    BY <1>7, <2>1, <2>2 DEF WriteControl
<1>8. CASE PublishTemp
  <2>1. step = "temp" /\ step' = "renamed" /\ UNCHANGED <<regs, job>>
        /\ disk' = [disk EXCEPT ![job.path] = @ + 1]
    BY <1>8 DEF PublishTemp
  <2>2. CASE WritingIndex
    <3>1. job.path = IndexFile /\ index'.entries = job.entries /\ manifest' = manifest
      BY <1>8, <2>2, ControlDistinct DEF PublishTemp, WritingIndex
    <3>2. \A p \in Path : index'.entries[p] > 0 => disk'[p] = index'.entries[p]
      BY <2>1, <2>2, <3>1, ControlDistinct
         DEF WritingIndex, Matches, MT, ManagerTypeOK
    <3>. QED
      BY <1>0, <1>3, <2>1, <2>2, <3>1, <3>2
         DEF WritingIndex, IndexWritten, Unsealed, Matches
  <2>3. CASE WritingManifest
    <3>1. /\ job.path = ManifestFile /\ index' = index
          /\ manifest' = [sess |-> run, entries |-> job.entries]
      BY <1>8, <2>3, ControlDistinct DEF PublishTemp, WritingManifest
    <3>2. manifest'.sess = run /\ manifest'.entries = job.entries
      BY <3>1
    <3>3. \A p \in Path : job.entries[p] > 0 => disk'[p] = job.entries[p]
      BY <2>1, <2>3, <3>1, ControlDistinct
         DEF WritingManifest, Matches, MT, ManagerTypeOK
    <3>4. \A p \in Path : index.entries[p] > 0 => disk'[p] = index.entries[p]
      BY <2>1, <2>3, <3>1, ControlDistinct
         DEF WritingManifest, Matches, MT, ManagerTypeOK
    <3>5. manifest'.sess <= run'
      BY <1>0, <3>2 DEF MT, ManagerTypeOK
    <3>6. ManifestWritten'
      BY <2>1, <3>1, <3>2, <3>3, <3>4 DEF ManifestWritten, Matches
    <3>. QED
      BY <3>5, <3>6
  <2>. QED
    BY <1>2, <2>1, <2>2, <2>3 DEF IndexWritten, ManifestWritten
<1>9. CASE RegisterArtifact
  <2>1. step = "renamed" /\ UNCHANGED <<disk, index, manifest>>
    BY <1>9 DEF RegisterArtifact, storage
  <2>2. CASE job.path = IndexFile
    <3>1. IndexWritten /\ step' = "seal"
      BY <1>2, <1>9, <2>1, <2>2, ControlDistinct
         DEF RegisterArtifact, WritingIndex, WritingManifest, ManifestWritten
    <3>2. regs'[ManifestFile] = regs[ManifestFile]
      BY <1>9, <2>2, ControlDistinct DEF RegisterArtifact, MT, ManagerTypeOK
    <3>. QED
      BY <1>0, <1>3, <2>1, <3>1, <3>2 DEF IndexWritten, Unsealed, Matches
  <2>3. CASE job.path # IndexFile
    BY <1>5, <1>9, <2>1, <2>3 DEF RegisterArtifact, Done
  <2>. QED
    BY <2>2, <2>3
<1>10. CASE SealManifest
  <2>1. IndexWritten
    BY <1>2, <1>10 DEF SealManifest, WritingIndex, WritingManifest, ManifestWritten
  <2>2. /\ UNCHANGED <<disk, index, manifest>>
        /\ regs' = Refresh(regs, Path, disk)
        /\ step' = "create" /\ job'.path = ManifestFile /\ job'.entries = Entries(regs')
    BY <1>10 DEF SealManifest, storage
  <2>3. regs \in [Path -> Artifact] /\ disk \in [Path -> Nat]
    BY DEF MT, ManagerTypeOK
  <2>4. \A p \in Path : job'.entries[p] > 0 => disk'[p] = job'.entries[p]
    BY <2>2, <2>3, SnapshotMatches
  <2>5. job'.entries[ManifestFile] = 0
    BY <2>1, <2>2, <2>3, SnapshotMatches, ControlDistinct DEF IndexWritten
  <2>. QED
    BY <1>0, <1>3, <2>1, <2>2, <2>4, <2>5
       DEF IndexWritten, WritingManifest, Unsealed, Matches
<1>. QED
  BY <1>6, <1>7, <1>8, <1>9, <1>10 DEF ManagerStep

\* Moves that leave the manager's files and table alone.
LEMMA SealMove ==
  ASSUME MT, Program, SealInv, UNCHANGED <<run, disk, index, manifest, regs>>,
         \/ pc \in Gathers /\ pc' \in Gathers /\ UNCHANGED <<step, job>>
         \/ pc' \notin Gathers \union {"finalizing"} /\ step' = "idle"
         \/ pc' = pc /\ UNCHANGED <<step, job>>
  PROVE  SealInv'
<1>1. Sealed'
  BY SealInvPromise DEF Sealed, Matches
<1>2. manifest'.sess <= run'
  BY DEF SealInv
<1>3. CASE pc' \notin Gathers \union {"finalizing"} /\ step' = "idle"
  BY <1>1, <1>2, <1>3 DEF SealInv, Gathering, Finalizing, Settled, Gathers
<1>4. CASE pc \in Gathers /\ pc' \in Gathers /\ UNCHANGED <<step, job>>
  BY <1>2, <1>4 DEF SealInv, Gathering, Finalizing, Settled, Gathers, Unsealed
<1>5. CASE pc' = pc /\ UNCHANGED <<step, job>>
  BY <1>5 DEF SealInv, Gathering, Finalizing, Settled, Sealed, Unsealed, Matches,
              WritingIndex, IndexWritten, WritingManifest, ManifestWritten
<1>. QED
  BY <1>3, <1>4, <1>5

\* Every step keeps the seal invariant.
LEMMA SealStep == TypeOK /\ UnitAtWork /\ SealInv /\ [Next]_vars => SealInv'
<1>. SUFFICES ASSUME MT, Program, SealInv, [Next]_vars PROVE SealInv'
  BY TypeParts
<1>1. CASE Launch
  <2>1. /\ run' = run + 1 /\ UNCHANGED <<disk, index, manifest>> /\ step' = "idle"
        /\ \A p \in Path : regs'[p].ver = 0
        /\ pc' \in {"prologue", "exited"}
    BY <1>1 DEF Launch, NewManager, NoArtifact, storage
  <2>2. manifest'.sess < run' /\ manifest'.sess <= run'
    BY <2>1 DEF SealInv, MT, ManagerTypeOK, Document
  <2>3. Unsealed' /\ Sealed'
    BY <2>1, <2>2 DEF Unsealed, Sealed, MT, ManagerTypeOK, Document
  <2>4. Gathering'
    BY <2>1, <2>3, ControlDistinct DEF Gathering
  <2>5. Finalizing' /\ Settled'
    BY <2>1, <2>3 DEF Finalizing, Settled
  <2>. QED
    BY <2>2, <2>4, <2>5 DEF SealInv
<1>2. CASE Expire \/ UNCHANGED vars
  BY <1>2, SealMove DEF Expire, vars, mvars, storage, memory, program
<1>3. CASE Crash
  BY <1>3, SealMove DEF Crash, Stop, storage, Gathers
<1>4. CASE ScriptCall
  <2>1. pc \in Gathers /\ pc' = pc
    BY <1>4 DEF ScriptCall, Checked, Ignored, Gathers
  <2>2. Head(todo) \in Call
    BY <1>4, HeadTailProperties DEF ScriptCall, Program
  <2>3. Make(Head(todo))
    BY <1>4 DEF ScriptCall
  <2>4. CASE Head(todo).call = "append" /\ AppendRecord(Head(todo).rec)
    <3>1. Head(todo).rec \in Record
      BY <2>2, <2>4 DEF Call
    <3>. QED
      BY <2>1, <2>4, <3>1, SealGather
  <2>5. CASE Head(todo).call = "write"
             /\ Write(Head(todo).path, Generated(Head(todo).path))
    <3>1. Head(todo).path \in ClientPath
      BY <2>2, <2>5 DEF Call, ClientPath
    <3>2. Generated(Head(todo).path) \in Claim
      BY <3>1, GeneratedType, ControlDistinct
    <3>. QED
      BY <2>1, <2>5, <3>1, <3>2, SealGather
  <2>. QED
    BY <2>3, <2>4, <2>5 DEF Make
<1>5. CASE BodyCall
  <2>1. pc \in Gathers /\ pc' = pc
    BY <1>5 DEF BodyCall, Gathers
  <2>2. Event("record", Who) \in Record
    BY <1>5, WhoType, LogCallType DEF BodyCall, Program, UnitAtWork
  <2>3. BodyPath \subseteq ClientPath /\ Prov \subseteq Claim
    BY ProvAssumption DEF BodyPath
  <2>. QED
    BY <1>5, <2>1, <2>2, <2>3, SealGather DEF BodyCall
<1>6. CASE ManagerWorks
  <2>1. ManagerStep /\ pc' = pc
    BY <1>6 DEF ManagerWorks, program
  <2>2. step # "idle"
    BY <2>1 DEF ManagerStep, PublishTemp, DiscardTemp, RegisterArtifact, RegisterFails,
                SealManifest, SealFails, WriteControl
  <2>3. pc \in Gathers \/ pc = "finalizing"
    BY <2>2 DEF SealInv, Settled
  <2>. QED
    BY <2>1, <2>3, SealGather, SealWork
<1>7. CASE ReturnError \/ Abandon \/ StartArchive \/ StartSummary \/ PublishSummary
  BY <1>7, SealMove
     DEF ReturnError, Abandon, StartArchive, StartSummary, PublishSummary, Stop, Goto,
         Ready, Gathers, mvars, storage, memory, SealInv, Settled
<1>8. CASE PackTree \/ PackingFails
  BY <1>8, SealMove
     DEF PackTree, PackingFails, Stop, Goto, Gathers, storage, memory, SealInv, Settled
<1>9. CASE \/ BeginLoop \/ SkipUnit \/ NextUnit \/ EnterBody \/ CloseUnit \/ EndLoop
           \/ BodyReturnsError \/ BodyBlocks \/ DeadlineUnblocks
  <2>1. pc \in Gathers /\ pc' \in Gathers
    BY <1>9 DEF BeginLoop, SkipUnit, NextUnit, EnterBody, CloseUnit, EndLoop,
                BodyReturnsError, BodyBlocks, DeadlineUnblocks, Ready, Goto, Gathers
  <2>2. UNCHANGED mvars
    BY <1>9 DEF BeginLoop, SkipUnit, NextUnit, EnterBody, CloseUnit, EndLoop,
                BodyReturnsError, BodyBlocks, DeadlineUnblocks
  <2>. QED
    BY <2>1, <2>2, SealMove DEF mvars, storage, memory
<1>10. CASE BodyReturnsNil
  BY <1>10, SealMove DEF BodyReturnsNil, Goto, Gathers, storage
<1>11. CASE StartFinalize
  BY <1>11, SealStart
<1>. QED
  BY <1>1, <1>2, <1>3, <1>4, <1>5, <1>6, <1>7, <1>8, <1>9, <1>10, <1>11
     DEF Next, Progress

\* The seal invariant holds before the first run.
LEMMA SealInit == Init => SealInv
BY DEF Init, ManagerInit, NoDocument, NoEntries, SealInv, Gathering, Finalizing, Settled,
       Gathers, Sealed, Matches

\* Seal accuracy: from the rename of its manifest on, whatever calls failed
\* before or fail after, the files a session's manifest and index list are on
\* disk with the hashes they list, until another run takes over the root.
THEOREM SealAccurate == Spec => []SealedManifestMatches
<1>1. TypeOK /\ UnitAtWork /\ SealInv => SealedManifestMatches
  BY TypeParts, SealInvPromise DEF Sealed, Matches, SealedManifestMatches
<1>. QED
  BY <1>1, TypeCorrect, SealInit, SealStep, PTL DEF Spec
----------------------------------------------------------------------------
(* Provenance.  The merge compares a new claim with the entry, not with    *)
(* the claims before it: that the entry still stands for all of them needs *)
(* every entry to have a writer and every writer an entry, hence every     *)
(* re-hash of an entry to find its file.                                   *)

\* The entry e stands for the claims in W.
StandsFor(e, W) ==
  /\ e.ver = 0 <=> W = {}
  /\ \A w \in W : /\ e.source = w.source \/ e.source = "multiple"
                  /\ e.type = w.type \/ e.type = "generated"
                  /\ e.trust = w.trust \/ e.trust = "medium"

ProvInv ==
  /\ \A p \in Path : /\ StandsFor(regs[p], writers[p])
                     /\ regs[p].ver > 0 => disk[p] > 0
  /\ step = "renamed" => disk[job.path] > 0

\* One more registration: the merged entry stands for the new claim as well.
LEMMA MergeStandsFor ==
  ASSUME NEW e \in Artifact, NEW W \in SUBSET Claim, NEW v \in Nat, v > 0,
         NEW prov \in Claim, StandsFor(e, W)
  PROVE  StandsFor(Merge(e, prov, v), W \union {prov}) /\ Merge(e, prov, v).ver = v
BY DEF StandsFor, Merge, Claim, Artifact

\* Re-hashing files that exist changes no claim and removes no entry.
LEMMA RefreshKeeps ==
  ASSUME NEW R \in [Path -> Artifact], NEW W \in [Path -> SUBSET Claim],
         NEW D \in [Path -> Nat], NEW S,
         \A p \in Path : StandsFor(R[p], W[p]) /\ (R[p].ver > 0 => D[p] > 0)
  PROVE  \A p \in Path : /\ StandsFor(Refresh(R, S, D)[p], W[p])
                         /\ Refresh(R, S, D)[p].ver > 0 => D[p] > 0
<1>. SUFFICES ASSUME NEW p \in Path
              PROVE  /\ StandsFor(Refresh(R, S, D)[p], W[p])
                     /\ Refresh(R, S, D)[p].ver > 0 => D[p] > 0
  OBVIOUS
<1>1. CASE p \in S /\ R[p].ver > 0
  <2>1. Refresh(R, S, D)[p] = [R[p] EXCEPT !.ver = D[p]]
    BY <1>1 DEF Refresh
  <2>2. R[p] \in Artifact /\ D[p] \in Nat /\ D[p] > 0
    BY <1>1
  <2>. QED
    BY <1>1, <2>1, <2>2 DEF StandsFor, Artifact
<1>2. CASE ~(p \in S /\ R[p].ver > 0)
  <2>1. Refresh(R, S, D)[p] = R[p]
    BY <1>2 DEF Refresh
  <2>. QED
    BY <2>1
<1>. QED
  BY <1>1, <1>2

\* Steps that touch neither the table nor the history, and lose no file.
LEMMA ProvQuiet ==
  ASSUME MT, MT', ProvInv, UNCHANGED <<regs, writers>>,
         \A p \in Path : disk[p] > 0 => disk'[p] > 0,
         step' # "renamed"
  PROVE  ProvInv'
BY DEF ProvInv, MT, ManagerTypeOK

\* Touching and registering the stream, as far as Finalize got.
LEMMA ProvTouch ==
  ASSUME MT, ProvInv
  PROVE  /\ \A p \in Path : disk[p] > 0 => Touched[p] > 0
         /\ \A p \in Path :
              /\ StandsFor(StreamRegistered[p],
                           [writers EXCEPT ![Stream] = @ \union {Generated("generated")}][p])
              /\ StreamRegistered[p].ver > 0 => Touched[p] > 0
<1>1. Stream \in Path /\ disk \in [Path -> Nat] /\ regs \in [Path -> Artifact]
      /\ writers \in [Path -> SUBSET Claim]
  BY ControlDistinct DEF MT, ManagerTypeOK
<1>2. \A p \in Path : disk[p] > 0 => Touched[p] > 0
  BY <1>1 DEF Touched
<1>3. Touched[Stream] \in Nat /\ Touched[Stream] > 0
  BY <1>1 DEF Touched
<1>4. Generated("generated") \in Claim
  BY GeneratedType
<1>5. StandsFor(Merge(regs[Stream], Generated("generated"), Touched[Stream]),
                writers[Stream] \union {Generated("generated")})
  BY <1>1, <1>3, <1>4, MergeStandsFor DEF ProvInv
<1>6. ASSUME NEW p \in Path
      PROVE  /\ StandsFor(StreamRegistered[p],
                          [writers EXCEPT ![Stream] = @ \union {Generated("generated")}][p])
             /\ StreamRegistered[p].ver > 0 => Touched[p] > 0
  <2>1. CASE p = Stream
    BY <1>1, <1>3, <1>5, <2>1 DEF StreamRegistered
  <2>2. CASE p # Stream
    BY <1>1, <1>2, <2>2 DEF StreamRegistered, ProvInv
  <2>. QED
    BY <2>1, <2>2
<1>. QED
  BY <1>2, <1>6

\* Finalize adds the stream's claim and re-hashes: every entry still stands for its claims.
LEMMA ProvFinalize ==
  ASSUME MT, MT', ProvInv, Finalize PROVE ProvInv'
<1>1. step' # "renamed"
  BY DEF Finalize, BeginFinalize, FinalizeFails, Done
<1>2. CASE UNCHANGED <<regs, writers>>
  <2>1. UNCHANGED disk \/ disk' = Touched
    BY DEF Finalize, BeginFinalize, FinalizeFails, TouchStream, storage
  <2>. QED
    BY <1>1, <1>2, <2>1, ProvTouch, ProvQuiet
<1>3. CASE ~UNCHANGED <<regs, writers>>
  <2>1. /\ disk' = Touched
        /\ writers' = [writers EXCEPT ![Stream] = @ \union {Generated("generated")}]
    BY <1>3 DEF Finalize, BeginFinalize, FinalizeFails, TouchStream
  <2>2. PICK S : regs' = Refresh(StreamRegistered, S, disk')
    BY <1>3, <2>1 DEF Finalize, BeginFinalize, FinalizeFails, RefreshFails
  <2>3. disk' \in [Path -> Nat] /\ writers' \in [Path -> SUBSET Claim]
    BY DEF MT, ManagerTypeOK
  <2>4. \A p \in Path : StandsFor(regs'[p], writers'[p]) /\ (regs'[p].ver > 0 => disk'[p] > 0)
    BY <2>1, <2>2, <2>3, ProvTouch, StreamRegisteredType, RefreshKeeps
  <2>. QED
    BY <1>1, <2>4 DEF ProvInv
<1>. QED
  BY <1>2, <1>3

\* The manager's steps inside a call keep entries and claims together.
LEMMA ProvWork ==
  ASSUME MT, MT', ProvInv, ManagerStep PROVE ProvInv'
<1>1. CASE PublishTemp
  <2>1. job.path \in Path /\ disk \in [Path -> Nat]
    BY DEF MT, ManagerTypeOK, Job
  <2>2. \A p \in Path : disk[p] > 0 => disk'[p] > 0
    BY <1>1, <2>1 DEF PublishTemp
  <2>3. disk'[job'.path] > 0
    BY <1>1, <2>1 DEF PublishTemp
  <2>. QED
    BY <1>1, <2>2, <2>3 DEF PublishTemp, ProvInv
<1>2. CASE RegisterArtifact
  <2>1. /\ job.path \in Path /\ job.prov \in Claim /\ disk \in [Path -> Nat]
        /\ regs \in [Path -> Artifact] /\ writers \in [Path -> SUBSET Claim]
    BY DEF MT, ManagerTypeOK, Job
  <2>2. disk[job.path] > 0
    BY <1>2 DEF RegisterArtifact, ProvInv
  <2>3. /\ StandsFor(Merge(regs[job.path], job.prov, disk[job.path]),
                     writers[job.path] \union {job.prov})
        /\ Merge(regs[job.path], job.prov, disk[job.path]).ver > 0
    <3>. DEFINE e == regs[job.path]
                W == writers[job.path]
                c == job.prov
                v == disk[job.path]
    <3>1. /\ e \in Artifact /\ W \in SUBSET Claim /\ c \in Claim
          /\ v \in Nat /\ v > 0
      BY <2>1, <2>2
    <3>2. StandsFor(e, W)
      BY <2>1 DEF ProvInv
    <3>. HIDE DEF e, W, c, v
    <3>3. StandsFor(Merge(e, c, v), W \union {c}) /\ Merge(e, c, v).ver = v
      BY <3>1, <3>2, MergeStandsFor
    <3>. QED
      BY <3>1, <3>3 DEF e, W, c, v
  <2>4. /\ regs' = [regs EXCEPT ![job.path] = Merge(@, job.prov, disk[job.path])]
        /\ writers' = [writers EXCEPT ![job.path] = @ \union {job.prov}]
        /\ disk' = disk
    BY <1>2 DEF RegisterArtifact, storage
  <2>5. ASSUME NEW p \in Path
        PROVE  StandsFor(regs'[p], writers'[p]) /\ (regs'[p].ver > 0 => disk'[p] > 0)
    <3>1. CASE p = job.path
      BY <2>1, <2>2, <2>3, <2>4, <3>1
    <3>2. CASE p # job.path
      BY <2>1, <2>4, <3>2 DEF ProvInv
    <3>. QED
      BY <3>1, <3>2
  <2>6. step' # "renamed"
    BY <1>2 DEF RegisterArtifact, Done
  <2>. QED
    BY <2>5, <2>6 DEF ProvInv
<1>3. CASE SealManifest \/ SealFails
  <2>1. PICK S : regs' = Refresh(regs, S, disk)
    BY <1>3 DEF SealManifest, SealFails, RefreshFails, storage
  <2>2. UNCHANGED <<disk, writers>> /\ step' # "renamed"
    BY <1>3 DEF SealManifest, SealFails, Done, storage, history
  <2>3. /\ disk \in [Path -> Nat] /\ regs \in [Path -> Artifact]
        /\ writers \in [Path -> SUBSET Claim]
    BY DEF MT, ManagerTypeOK
  <2>4. \A p \in Path : StandsFor(regs'[p], writers[p]) /\ (regs'[p].ver > 0 => disk[p] > 0)
    BY <2>1, <2>3, RefreshKeeps DEF ProvInv
  <2>. QED
    BY <2>2, <2>4 DEF ProvInv
<1>4. CASE DiscardTemp \/ RegisterFails \/ WriteControl
  BY <1>4, ProvQuiet
     DEF DiscardTemp, RegisterFails, WriteControl, CreateTemp, RefuseCall, Done, storage,
         history
<1>. QED
  BY <1>1, <1>2, <1>3, <1>4 DEF ManagerStep

\* The start of a call changes no entry and no claim.
LEMMA ProvCall ==
  ASSUME MT, MT', ProvInv,
         \/ \E p \in Path, v \in Claim : Write(p, v)
         \/ \E r \in Record : AppendRecord(r)
  PROVE  ProvInv'
<1>1. CASE \E p \in Path, v \in Claim : Write(p, v)
  BY <1>1, ProvQuiet DEF Write, CreateTemp, RefuseCall, Done, storage, history
<1>2. CASE \E r \in Record : AppendRecord(r)
  <2>1. UNCHANGED <<regs, writers>> /\ step' # "renamed"
    BY <1>2 DEF AppendRecord, Grow, RefuseCall, Done, history
  <2>2. UNCHANGED disk \/ disk' = [disk EXCEPT ![Stream] = @ + 1]
    BY <1>2 DEF AppendRecord, Grow, RefuseCall, storage
  <2>3. \A p \in Path : disk[p] > 0 => disk'[p] > 0
    <3>1. Stream \in Path /\ disk \in [Path -> Nat]
      BY ControlDistinct DEF MT, ManagerTypeOK
    <3>2. CASE disk' = [disk EXCEPT ![Stream] = @ + 1]
      BY <3>1, <3>2
    <3>. QED
      BY <2>2, <3>2
  <2>. QED
    BY <2>1, <2>3, ProvQuiet
<1>. QED
  BY <1>1, <1>2

\* Every step keeps entries and claims together.
LEMMA ProvStep ==
  TypeOK /\ UnitAtWork /\ TypeOK' /\ ProvInv /\ [Next]_vars => ProvInv'
<1>. SUFFICES ASSUME MT, MT', Program, ProvInv, [Next]_vars PROVE ProvInv'
  BY TypeParts DEF TypeOK, MT
<1>1. CASE Launch
  BY <1>1 DEF Launch, NewManager, NoArtifact, ProvInv, StandsFor, MT, ManagerTypeOK
<1>2. CASE ScriptCall
  <2>1. Head(todo) \in Call /\ Make(Head(todo))
    BY <1>2, HeadTailProperties DEF ScriptCall, Program
  <2>2. CASE Head(todo).call = "append" /\ AppendRecord(Head(todo).rec)
    BY <2>1, <2>2, ProvCall DEF Call
  <2>3. CASE Head(todo).call = "write"
             /\ Write(Head(todo).path, Generated(Head(todo).path))
    <3>1. Head(todo).path \in Path
      BY <2>1, <2>3 DEF Call, Path, ClientPath
    <3>. QED
      BY <2>3, <3>1, GeneratedType, ProvCall
  <2>. QED
    BY <2>1, <2>2, <2>3 DEF Make
<1>3. CASE BodyCall
  <2>1. Event("record", Who) \in Record
    BY <1>3, WhoType, LogCallType DEF BodyCall, Program, UnitAtWork
  <2>2. BodyPath \subseteq Path /\ Prov \subseteq Claim
    BY ProvAssumption DEF BodyPath, Path
  <2>. QED
    BY <1>3, <2>1, <2>2, ProvCall DEF BodyCall
<1>4. CASE ManagerWorks
  BY <1>4, ProvWork DEF ManagerWorks
<1>5. CASE StartFinalize
  BY <1>5, ProvFinalize DEF StartFinalize
<1>6. CASE \/ Expire \/ UNCHANGED vars \/ ReturnError \/ Abandon
           \/ BeginLoop \/ SkipUnit \/ NextUnit \/ EnterBody \/ CloseUnit \/ EndLoop
           \/ BodyReturnsError \/ BodyBlocks \/ DeadlineUnblocks
           \/ StartArchive \/ StartSummary \/ PublishSummary
  <2>1. UNCHANGED mvars
    BY <1>6 DEF Expire, vars, ReturnError, Abandon, BeginLoop, SkipUnit, NextUnit,
                EnterBody, CloseUnit, EndLoop, BodyReturnsError, BodyBlocks,
                DeadlineUnblocks, StartArchive, StartSummary, PublishSummary
  <2>. QED
    BY <2>1 DEF mvars, storage, memory, history, ProvInv
<1>7. CASE Crash
  BY <1>7, ProvQuiet DEF Crash, storage, history
<1>8. CASE BodyReturnsNil \/ PackTree \/ PackingFails
  BY <1>8 DEF BodyReturnsNil, PackTree, PackingFails, storage, memory, history, ProvInv
<1>. QED
  BY <1>1, <1>2, <1>3, <1>4, <1>5, <1>6, <1>7, <1>8 DEF Next, Progress

\* Before the first run there is neither an entry nor a claim.
LEMMA ProvInit == Init => ProvInv
BY DEF Init, ManagerInit, NoArtifact, NoEntries, ProvInv, StandsFor

\* Provenance: however many writers a path has and whichever of their calls
\* fail, the table never attributes it to fewer than registered it.
THEOREM ProvenanceIsHonest == Spec => []ProvenanceHonest
<1>1. ProvInv => ProvenanceHonest
  BY DEF ProvInv, StandsFor, ProvenanceHonest
<1>. QED
  BY <1>1, TypeCorrect, TypeStep, ProvInit, ProvStep, PTL DEF Spec

----------------------------------------------------------------------------
(* The inductive invariants.                                               *)

\* Temporary files are those of sessions so far; this one's are being written.
TempInv ==
  /\ \A t \in temps : t[1] <= run
  /\ \A n \in summary.temps : n <= run
  /\ Running => exit = "none"
  /\ TempsAccountedFor

\* A run that gets past Finalize has written its manifest.
ManifestInPlace ==
  /\ pc = "finalizing" /\ step = "renamed" /\ job.path = ManifestFile => manifest.sess = run
  /\ pc = "finalizing" /\ step = "idle" /\ ret = "ok" => manifest.sess = run
  /\ pc \in {"archive", "packed", "summary"} => manifest.sess = run

\* The tarball is this run's from its rename on.
TarballInPlace ==
  /\ archive.sess <= run
  /\ pc \in Gathers \union {"finalizing", "archive"} => archive.sess < run
  /\ pc \in {"packed", "summary"} => archive.sess = run

DeliverInv ==
  /\ ManifestInPlace
  /\ TarballInPlace
  /\ exit = "ok" => pc = "exited"
  /\ SuccessMeansDelivered
  /\ ArchiveHoldsSealedPackage

\* Whatever this session changed has an entry, the stream once it is touched.
Tracked ==
  /\ \A p \in Path : origin[p] <= run
  /\ run > 0 => \A p \in Path \ (unregistered \union {Stream}) :
                  origin[p] = run => regs[p].ver > 0
  /\ step = "renamed" => job.path \in unregistered
  /\ pc = "finalizing" /\ step # "idle" => regs[Stream].ver > 0

\* A list of files leaves out nothing that this session changed.
Lists(E) == \A p \in Path \ (unregistered \union {ManifestFile}) : origin[p] = run => E[p] > 0

CompleteInv ==
  /\ Tracked
  /\ pc = "finalizing" /\ step \in {"create", "temp"} /\ job.path = ManifestFile =>
       Lists(job.entries)
  /\ SealedManifestComplete

\* How the stream names the end of a unit, and what it takes to account for it.
Outcome(u) == IF u \in Registered \union {ScannerPhase} THEN Event("end", u)
                                                       ELSE Event("skipped", u)
OnRecord(u) == \E k \in 1 .. Len(lines) : lines[k].sess = run /\ lines[k].rec = Outcome(u)
Filed(u) == regs[StatusPath[u]].ver > 0
Left(u) == \E k \in 1 .. Len(units) : units[k] = u

\* The unit that is closed gets its line, then its status file.
Closing ==
  pc = "closing" =>
    \/ /\ todo = <<[call |-> "append", rec |-> Outcome(Who)], LegacyCall(StatusPath[Who])>>
       /\ step = "idle"
    \/ /\ todo = <<LegacyCall(StatusPath[Who])>>
       /\ step = "idle"
       /\ ret = "ok" => OnRecord(Who)
    \/ /\ todo = <<>>
       /\ ret # "ok" => step = "idle"
       /\ ret = "ok" => /\ OnRecord(Who)
                        /\ \/ step = "idle" /\ Filed(Who)
                           \/ step \in {"temp", "renamed"} /\ job.path = StatusPath[Who]

\* Where the loop is: between two units nothing is being written, and only a
\* unit that is there to run is started.
Looping ==
  /\ pc = "loop" => step = "idle"
  /\ pc \in {"starting", "body", "hung"} => Who \in Registered \union {ScannerPhase}
  /\ pc = "epilogue" => units = <<>>
  /\ Closing

\* The units that are not left to do are accounted for, in the table until it is
\* sealed and in the manifest afterwards.
AccountInv ==
  /\ Looping
  /\ pc \in Gathers => \A u \in Wanted : ~Left(u) => OnRecord(u) /\ Filed(u)
  /\ pc = "finalizing" => \A u \in Wanted : OnRecord(u) /\ Filed(u)
  /\ pc = "finalizing" /\ step \in {"create", "temp"} /\ job.path = ManifestFile =>
       \A u \in Wanted : job.entries[StatusPath[u]] > 0
  /\ SealedRunIsComplete

----------------------------------------------------------------------------
(* The shapes of a step.                                                   *)

\* A call of the script or of a body, while evidence is gathered.
Calls ==
  /\ pc \in Gathers /\ pc' = pc
  /\ \/ \E p \in ClientPath, v \in Claim : Write(p, v)
     \/ \E r \in Record : AppendRecord(r)
  /\ UNCHANGED <<units, cfg, exit, package>>

\* A move of the loop that leaves the root and the manager's table alone.
Moves ==
  /\ pc \in Gathers /\ pc' \in Gathers
  /\ UNCHANGED <<run, storage, regs, step, job, faults, history, cfg, exit, package>>

\* The run is given up by itself, before or after its seal.
GivesUp == ReturnError \/ Abandon

\* Every step of the program is a start, an end, a call, a manager's step, a
\* move of the loop, or one of the steps from the seal to the delivery.
LEMMA Shapes ==
  ASSUME MT, Program, Next
  PROVE  \/ Launch \/ Crash \/ Expire
         \/ Calls \/ ManagerWorks \/ Moves \/ GivesUp
         \/ StartFinalize \/ StartArchive \/ PackTree \/ StartSummary
         \/ PublishSummary \/ PackingFails
<1>1. CASE ScriptCall
  <2>1. /\ pc \in Gathers /\ pc' = pc /\ Head(todo) \in Call /\ Make(Head(todo))
        /\ UNCHANGED <<units, cfg, exit, package>>
    BY <1>1, HeadTailProperties DEF ScriptCall, Checked, Ignored, Gathers, Program
  <2>2. CASE Head(todo).call = "append" /\ AppendRecord(Head(todo).rec)
    <3>1. Head(todo).rec \in Record
      BY <2>1, <2>2 DEF Call
    <3>. QED
      BY <2>1, <2>2, <3>1 DEF Calls
  <2>3. CASE Head(todo).call = "write" /\ Write(Head(todo).path, Generated(Head(todo).path))
    <3>1. Head(todo).path \in ClientPath
      BY <2>1, <2>3 DEF Call, ClientPath
    <3>2. Generated(Head(todo).path) \in Claim
      BY <3>1, GeneratedType, ControlDistinct
    <3>. QED
      BY <2>1, <2>3, <3>1, <3>2 DEF Calls
  <2>. QED
    BY <2>1, <2>2, <2>3 DEF Make
<1>2. CASE BodyCall
  <2>1. Event("record", Who) \in Record
    BY <1>2, WhoType, LogCallType DEF BodyCall, Program, UnitAtWork
  <2>2. BodyPath \subseteq ClientPath /\ Prov \subseteq Claim
    BY ProvAssumption DEF BodyPath
  <2>3. \/ \E p \in ClientPath, v \in Claim : Write(p, v)
        \/ \E r \in Record : AppendRecord(r)
    BY <1>2, <2>1, <2>2 DEF BodyCall
  <2>. QED
    BY <1>2, <2>3 DEF BodyCall, Calls, Gathers
<1>3. CASE \/ BeginLoop \/ SkipUnit \/ NextUnit \/ EnterBody \/ CloseUnit \/ EndLoop
           \/ BodyReturnsError \/ BodyBlocks \/ DeadlineUnblocks
  <2>1. pc \in Gathers /\ pc' \in Gathers /\ UNCHANGED <<cfg, exit>>
    BY <1>3 DEF BeginLoop, SkipUnit, NextUnit, EnterBody, CloseUnit, EndLoop,
                BodyReturnsError, BodyBlocks, DeadlineUnblocks, Ready, Goto, Gathers
  <2>2. UNCHANGED mvars /\ UNCHANGED package
    BY <1>3 DEF BeginLoop, SkipUnit, NextUnit, EnterBody, CloseUnit, EndLoop,
                BodyReturnsError, BodyBlocks, DeadlineUnblocks
  <2>. QED
    BY <2>1, <2>2 DEF Moves, mvars, memory
<1>4. CASE BodyReturnsNil
  BY <1>4 DEF BodyReturnsNil, Goto, Gathers, Moves
<1>. QED
  BY <1>1, <1>2, <1>3, <1>4 DEF Next, Progress, GivesUp

----------------------------------------------------------------------------
(* Temporary files.                                                        *)

\* A temporary file of a manager that is about to create one would be its only one.
LEMMA TempCreated ==
  ASSUME MT, TempInv, Running, Running', step # "temp", exit' = exit, summary' = summary,
         UNCHANGED pc, NEW p \in Path, NEW v, NEW e, CreateTemp(p, v, e)
  PROVE  TempInv'
<1>1. \A t \in temps : t[1] # run
  BY DEF TempInv, TempsAccountedFor
<1>2. /\ temps' = temps \union {<<run, p>>} /\ step' = "temp" /\ job'.path = p /\ run' = run
  BY DEF CreateTemp
<1>3. run \in Nat
  BY DEF MT, ManagerTypeOK
<1>. QED
  BY <1>1, <1>2, <1>3 DEF TempInv, TempsAccountedFor, Running

\* A step that creates no temporary file, in a manager that has none or keeps it.
LEMMA TempKept ==
  ASSUME TempInv, UNCHANGED <<run, temps, summary, pc, exit>>,
         step # "temp" \/ UNCHANGED <<step, job>>
  PROVE  TempInv'
<1>1. TempsAccountedFor'
  BY DEF TempInv, TempsAccountedFor
<1>. QED
  BY <1>1 DEF TempInv, Running

\* The manager's own steps take its temporary file away, or need none.
LEMMA TempWork ==
  ASSUME MT, TempInv, ManagerWorks PROVE TempInv'
<1>1. UNCHANGED <<pc, exit, summary>> /\ Running /\ Running'
  BY DEF ManagerWorks, program, package, Running
<1>2. CASE PublishTemp \/ DiscardTemp
  <2>1. /\ temps' = temps \ {<<run, job.path>>} /\ run' = run
    BY <1>2 DEF PublishTemp, DiscardTemp
  <2>2. \A t \in temps : t[1] = run => t[2] = job.path
    BY <1>1 DEF TempInv, TempsAccountedFor
  <2>3. \A t \in temps : t = <<t[1], t[2]>>
    BY DEF MT, ManagerTypeOK
  <2>4. \A t \in temps' : t \in temps /\ t[1] # run
    BY <2>1, <2>2, <2>3
  <2>. QED
    BY <1>1, <2>1, <2>4 DEF TempInv, TempsAccountedFor
<1>3. CASE RegisterArtifact \/ RegisterFails \/ SealManifest \/ SealFails
  BY <1>1, <1>3, TempKept
     DEF RegisterArtifact, RegisterFails, RefuseCall, SealManifest, SealFails, storage
<1>4. CASE WriteControl
  <2>1. CASE RefuseCall
    BY <1>1, <1>4, <2>1, TempKept DEF WriteControl, RefuseCall, storage
  <2>2. CASE CreateTemp(job.path, job.prov, job.entries)
    <3>1. job.path \in Path /\ step # "temp"
      BY <1>4 DEF WriteControl, MT, ManagerTypeOK, Job
    <3>. QED
      BY <1>1, <2>2, <3>1, TempCreated
  <2>. QED
    BY <1>4, <2>1, <2>2 DEF WriteControl
<1>. QED
  BY <1>2, <1>3, <1>4 DEF ManagerWorks, ManagerStep

\* Every step keeps account of the temporary files.
LEMMA TempStep == TypeOK /\ UnitAtWork /\ TempInv /\ [Next]_vars => TempInv'
<1>. SUFFICES ASSUME MT, Program, Package, TempInv, [Next]_vars PROVE TempInv'
  BY TypeParts
<1>1. CASE Launch
  <2>1. /\ UNCHANGED <<temps, summary>> /\ run' = run + 1 /\ run \in Nat
        /\ pc' \in {"prologue", "exited"} /\ exit' \in {"none", "err"}
        /\ pc' = "prologue" => exit' = "none"
    BY <1>1 DEF Launch, NewManager, storage, package, MT, ManagerTypeOK
  <2>2. \A t \in temps : t[1] \in Nat /\ t[1] <= run
    BY DEF TempInv, MT, ManagerTypeOK
  <2>3. \A n \in summary.temps : n \in Nat /\ n <= run
    BY DEF TempInv, Package
  <2>4. \A t \in temps : t[1] <= run + 1 /\ t[1] # run + 1
    BY <2>1, <2>2
  <2>5. \A n \in summary.temps : n <= run + 1 /\ n # run + 1
    BY <2>1, <2>3
  <2>. QED
    BY <2>1, <2>4, <2>5 DEF TempInv, TempsAccountedFor, Running
<1>2. CASE Crash
  BY <1>2 DEF Crash, Stop, storage, package, TempInv, TempsAccountedFor, Running
<1>3. CASE Calls
  <2>1. pc' = pc /\ Running /\ Running' /\ UNCHANGED <<exit, summary>>
    BY <1>3 DEF Calls, Gathers, Running, package
  <2>2. ASSUME NEW p \in ClientPath, NEW v \in Claim, Write(p, v) PROVE TempInv'
    <3>1. CASE Suppressed(p) \/ RefuseCall
      BY <2>1, <2>2, <3>1, TempKept DEF Write, RefuseCall, storage, CreateTemp
    <3>2. CASE CreateTemp(p, v, NoEntries)
      BY <2>1, <2>2, <3>2, TempCreated, ControlDistinct DEF Write
    <3>. QED
      BY <2>2, <3>1, <3>2 DEF Write
  <2>3. ASSUME NEW r \in Record, AppendRecord(r) PROVE TempInv'
    BY <2>1, <2>3, TempKept DEF AppendRecord, Grow, RefuseCall, storage
  <2>. QED
    BY <1>3, <2>2, <2>3 DEF Calls
<1>4. CASE ManagerWorks
  BY <1>4, TempWork
<1>5. CASE Moves
  BY <1>5 DEF Moves, storage, package, Gathers, TempInv, TempsAccountedFor, Running
<1>6. CASE GivesUp
  BY <1>6 DEF GivesUp, ReturnError, Abandon, Stop, mvars, storage, memory, package, Checked,
              TempInv, TempsAccountedFor, Running
<1>7. CASE StartFinalize
  <2>1. /\ UNCHANGED <<run, temps, summary, exit>> /\ step = "idle" /\ pc = "epilogue"
        /\ pc' = "finalizing"
    BY <1>7 DEF StartFinalize, Ready, Goto, Finalize, BeginFinalize, FinalizeFails,
                TouchStream, storage, package
  <2>. QED
    BY <2>1 DEF TempInv, TempsAccountedFor, Running
<1>8. CASE StartArchive \/ PackTree
  BY <1>8 DEF StartArchive, PackTree, Ready, Goto, mvars, storage, memory, package,
              TempInv, TempsAccountedFor, Running
<1>9. CASE StartSummary
  BY <1>9 DEF StartSummary, Goto, mvars, storage, memory, MT, ManagerTypeOK, Package,
              TempInv, TempsAccountedFor, Running
<1>10. CASE PublishSummary \/ PackingFails
  BY <1>10 DEF PublishSummary, PackingFails, Stop, mvars, storage, memory, Package,
               TempInv, TempsAccountedFor, Running
<1>11. CASE Expire \/ UNCHANGED vars
  BY <1>11, TempKept DEF Expire, vars, mvars, storage, memory, program, package
<1>. QED
  BY <1>1, <1>2, <1>3, <1>4, <1>5, <1>6, <1>7, <1>8, <1>9, <1>10, <1>11, Shapes

\* Before the first run there is no temporary file.
LEMMA TempInit == Init => TempInv
BY DEF Init, ManagerInit, TempInv, TempsAccountedFor, Running

\* Temporary files (writeArtifact, WriteSummary): unless the process was killed,
\* only the write in progress has one.
THEOREM TempsAreAccountedFor == Spec => []TempsAccountedFor
<1>1. TempInv => TempsAccountedFor
  BY DEF TempInv
<1>. QED
  BY <1>1, TypeCorrect, TempInit, TempStep, PTL DEF Spec

----------------------------------------------------------------------------
(* Delivery.                                                               *)

\* What the steps before the seal leave alone.
LEMMA DeliverFrame ==
  ASSUME DeliverInv, pc \in Gathers, pc' \in Gathers,
         UNCHANGED <<run, exit, package>>
  PROVE  DeliverInv'
BY DEF DeliverInv, ManifestInPlace, TarballInPlace, SuccessMeansDelivered,
       ArchiveHoldsSealedPackage, Gathers, package

\* A step that ends the run without success keeps what earlier runs delivered.
LEMMA DeliverFails ==
  ASSUME DeliverInv, pc' = "exited", exit' # "ok", archive' = archive,
         run' = run \/ (run \in Nat /\ archive.sess \in Nat /\ run' = run + 1)
  PROVE  DeliverInv'
BY DEF DeliverInv, ManifestInPlace, TarballInPlace, SuccessMeansDelivered,
       ArchiveHoldsSealedPackage, Gathers

\* While Finalize works, the manifest is renamed before Finalize returns nil.
LEMMA DeliverFinalize ==
  ASSUME MT, SealInv, DeliverInv, pc = "finalizing", ManagerWorks
  PROVE  DeliverInv'
<1>1. UNCHANGED <<run, pc, exit, package>> /\ ManagerStep
  BY DEF ManagerWorks, ManagerStep, PublishTemp, DiscardTemp, RegisterArtifact,
         RegisterFails, RefuseCall, SealManifest, SealFails, WriteControl, CreateTemp,
         program
<1>2. exit # "ok"
  BY DEF DeliverInv
<1>3. SUFFICES ManifestInPlace'
  BY <1>1, <1>2 DEF DeliverInv, TarballInPlace, SuccessMeansDelivered,
                    ArchiveHoldsSealedPackage, package
<1>4. CASE DiscardTemp \/ RegisterFails \/ SealFails
  BY <1>1, <1>4
     DEF DiscardTemp, RegisterFails, RefuseCall, SealFails, Done, ManifestInPlace
<1>5. CASE WriteControl \/ SealManifest
  BY <1>1, <1>5
     DEF WriteControl, CreateTemp, RefuseCall, Done, SealManifest, ManifestInPlace
<1>6. CASE PublishTemp
  <2>1. step' = "renamed" /\ job' = job
    BY <1>6 DEF PublishTemp
  <2>2. job.path = ManifestFile => manifest'.sess = run
    BY <1>6 DEF PublishTemp
  <2>. QED
    BY <1>1, <2>1, <2>2 DEF ManifestInPlace
<1>7. CASE RegisterArtifact
  <2>1. step = "renamed" /\ manifest' = manifest /\ step' \in {"seal", "idle"}
    BY <1>7 DEF RegisterArtifact, Done, storage
  <2>2. CASE job.path = IndexFile
    BY <1>1, <1>7, <2>2 DEF RegisterArtifact, ManifestInPlace
  <2>3. CASE job.path # IndexFile
    <3>1. job.path = ManifestFile
      BY <2>1, <2>3 DEF SealInv, Finalizing, WritingIndex, IndexWritten, WritingManifest,
                        ManifestWritten
    <3>2. manifest.sess = run
      BY <2>1, <3>1 DEF DeliverInv, ManifestInPlace
    <3>. QED
      BY <1>1, <2>1, <3>2 DEF ManifestInPlace
  <2>. QED
    BY <2>2, <2>3
<1>. QED
  BY <1>1, <1>4, <1>5, <1>6, <1>7 DEF ManagerStep

\* The tarball is made of the tree as it was sealed.
LEMMA DeliverPack ==
  ASSUME MT, Package, SealInv, DeliverInv, PackTree
  PROVE  DeliverInv'
<1>1. PICK s \in {{}} \union {{p} : p \in {q \in Path : disk[q] > 0}} :
        archive' = [sess |-> run,
                    holds |-> [p \in Path |-> IF p \in s THEN 0 ELSE disk[p]],
                    manifest |-> IF ManifestFile \in s THEN NoDocument ELSE manifest,
                    skipped |-> s,
                    summary |-> summary.sess]
  BY DEF PackTree
<1>2. pc = "archive" /\ pc' = "packed" /\ UNCHANGED <<run, exit, manifest>> /\ run \in Nat
  BY DEF PackTree, Goto, storage, MT, ManagerTypeOK
<1>3. manifest.sess = run /\ exit # "ok"
  BY <1>2 DEF DeliverInv, ManifestInPlace
<1>4. \A p \in Path : manifest.entries[p] > 0 => disk[p] = manifest.entries[p]
  BY <1>2, <1>3 DEF SealInv, Settled, Gathers, Sealed, Matches
<1>5. archive'.sess = run /\ archive'.skipped = s
  BY <1>1
<1>6. ManifestFile \notin s =>
        /\ archive'.manifest = manifest
        /\ \A p \in Path \ s : archive'.holds[p] = disk[p]
  BY <1>1
<1>7. ArchiveHoldsSealedPackage'
  BY <1>3, <1>4, <1>5, <1>6 DEF ArchiveHoldsSealedPackage
<1>8. ManifestInPlace' /\ TarballInPlace' /\ SuccessMeansDelivered'
  BY <1>2, <1>3, <1>5
     DEF ManifestInPlace, TarballInPlace, SuccessMeansDelivered, Gathers
<1>. QED
  BY <1>2, <1>3, <1>7, <1>8 DEF DeliverInv

\* Every step keeps the delivery honest.
LEMMA DeliverStep ==
  ASSUME Mode # "legacy"
  PROVE  TypeOK /\ UnitAtWork /\ SealInv /\ DeliverInv /\ [Next]_vars => DeliverInv'
<1>. SUFFICES ASSUME MT, Program, Package, SealInv, DeliverInv, [Next]_vars
              PROVE  DeliverInv'
  BY TypeParts
<1>1. CASE Launch
  <2>1. /\ UNCHANGED archive /\ run' = run + 1 /\ run \in Nat /\ archive.sess \in Nat
        /\ archive.sess <= run /\ exit' # "ok" /\ pc' \in {"prologue", "exited"}
    BY <1>1 DEF Launch, NewManager, package, MT, ManagerTypeOK, Package, DeliverInv,
                TarballInPlace
  <2>2. archive'.sess < run' /\ archive'.sess <= run'
    BY <2>1
  <2>3. ArchiveHoldsSealedPackage'
    BY <2>1 DEF DeliverInv, ArchiveHoldsSealedPackage
  <2>. QED
    BY <2>1, <2>2, <2>3 DEF DeliverInv, ManifestInPlace, TarballInPlace,
                            SuccessMeansDelivered
<1>2. CASE Crash \/ GivesUp \/ PackingFails
  BY <1>2, DeliverFails
     DEF Crash, GivesUp, ReturnError, Abandon, PackingFails, Stop, package, mvars
<1>3. CASE Calls
  <2>1. UNCHANGED run
    BY <1>3 DEF Calls, Write, AppendRecord, CreateTemp, RefuseCall, Grow
  <2>. QED
    BY <1>3, <2>1, DeliverFrame DEF Calls
<1>4. CASE Moves
  BY <1>4, DeliverFrame DEF Moves
<1>5. CASE ManagerWorks
  <2>1. pc \in Gathers \union {"finalizing"}
    BY <1>5 DEF ManagerWorks, ManagerStep, PublishTemp, DiscardTemp, RegisterArtifact,
                RegisterFails, SealManifest, SealFails, WriteControl, SealInv, Settled
  <2>2. UNCHANGED <<run, pc, exit, package>>
    BY <1>5 DEF ManagerWorks, ManagerStep, PublishTemp, DiscardTemp, RegisterArtifact,
                RegisterFails, RefuseCall, SealManifest, SealFails, WriteControl,
                CreateTemp, program
  <2>. QED
    BY <1>5, <2>1, <2>2, DeliverFinalize, DeliverFrame
<1>6. CASE StartFinalize
  <2>1. /\ pc = "epilogue" /\ pc' = "finalizing" /\ UNCHANGED <<run, exit, package>>
        /\ step' = "create" \/ (step' = "idle" /\ ret' = "err")
    BY <1>6 DEF StartFinalize, Ready, Goto, Finalize, BeginFinalize, FinalizeFails, Done
  <2>. QED
    BY <2>1 DEF DeliverInv, ManifestInPlace, TarballInPlace, SuccessMeansDelivered,
                ArchiveHoldsSealedPackage, Gathers, package
<1>7. CASE StartArchive
  BY <1>7 DEF StartArchive, Ready, Goto, mvars, storage, memory, package, DeliverInv,
              ManifestInPlace, TarballInPlace, SuccessMeansDelivered,
              ArchiveHoldsSealedPackage, Gathers
<1>8. CASE PackTree
  BY <1>8, DeliverPack
<1>9. CASE StartSummary
  BY <1>9 DEF StartSummary, Goto, mvars, storage, memory, DeliverInv, ManifestInPlace,
              TarballInPlace, SuccessMeansDelivered, ArchiveHoldsSealedPackage, Gathers
<1>10. CASE PublishSummary
  <2>1. /\ pc = "summary" /\ pc' = "exited" /\ summary'.sess = archive.sess
        /\ UNCHANGED <<run, manifest, archive>>
    BY <1>10 DEF PublishSummary, Stop, mvars, storage
  <2>. QED
    BY <2>1 DEF DeliverInv, ManifestInPlace, TarballInPlace, SuccessMeansDelivered,
                ArchiveHoldsSealedPackage, Gathers
<1>11. CASE Expire \/ UNCHANGED vars
  BY <1>11 DEF Expire, vars, mvars, storage, memory, program, package, DeliverInv,
               ManifestInPlace, TarballInPlace, SuccessMeansDelivered,
               ArchiveHoldsSealedPackage
<1>. QED
  BY <1>1, <1>2, <1>3, <1>4, <1>5, <1>6, <1>7, <1>8, <1>9, <1>10, <1>11, Shapes

\* Before the first run nothing is delivered.
LEMMA DeliverInit == Init => DeliverInv
BY DEF Init, NoArchive, ManagerInit, DeliverInv, ManifestInPlace, TarballInPlace,
       SuccessMeansDelivered, ArchiveHoldsSealedPackage, Gathers

\* The invariants that the rest of the module builds on.
LEMMA Delivered ==
  ASSUME Mode # "legacy"
  PROVE  Spec => [](TypeOK /\ UnitAtWork /\ SealInv /\ DeliverInv)
<1>1. TypeOK /\ UnitAtWork /\ SealInv /\ DeliverInv /\ [Next]_vars => DeliverInv'
  BY DeliverStep
<1>. QED
  BY <1>1, TypeCorrect, SealInit, SealStep, DeliverInit, PTL DEF Spec

\* Delivery (writeArchive after Finalize): in a mode that writes a manifest, and
\* Run's mode does, the tarball in place holds the manifest of the run that made
\* it and every file that manifest lists, apart from those it reports as skipped.
THEOREM TarballIsSealed ==
  ASSUME Mode # "legacy"
  PROVE  Spec => []ArchiveHoldsSealedPackage
<1>1. DeliverInv => ArchiveHoldsSealedPackage
  BY DEF DeliverInv
<1>. QED
  BY <1>1, Delivered, PTL

\* Success (writeArchive's order of rename, hash and WriteSummary): a run that
\* reports it leaves its own manifest, tarball and summary.
THEOREM SuccessIsDelivery ==
  ASSUME Mode # "legacy"
  PROVE  Spec => []SuccessMeansDelivered
<1>1. DeliverInv => SuccessMeansDelivered
  BY DEF DeliverInv
<1>. QED
  BY <1>1, Delivered, PTL

\* Replacement (CreateTarGz after Finalize): a tarball is only ever replaced by
\* one of a later run, which has written its manifest.
THEOREM TarballIsReplacedBySealed ==
  ASSUME Mode # "legacy"
  PROVE  Spec => ArchiveReplacedOnlyBySealed
<1>1. TypeOK /\ UnitAtWork /\ SealInv /\ DeliverInv /\ [Next]_vars =>
        [archive' # archive => archive'.sess > archive.sess /\ manifest.sess = run]_vars
  <2>. SUFFICES ASSUME MT, Program, Package, DeliverInv, Next, archive' # archive
                PROVE  archive'.sess > archive.sess /\ manifest.sess = run
    BY TypeParts
  <2>1. PackTree
    BY Shapes DEF Launch, Crash, Expire, Calls, ManagerWorks, Moves, GivesUp, ReturnError,
                  Abandon, StartFinalize, StartArchive, StartSummary, PublishSummary,
                  PackingFails, package
  <2>2. pc = "archive" /\ archive'.sess = run
    BY <2>1 DEF PackTree
  <2>. QED
    BY <2>2 DEF DeliverInv, ManifestInPlace, TarballInPlace, MT, ManagerTypeOK, Package
<1>. QED
  BY <1>1, Delivered, PTL DEF Spec, ArchiveReplacedOnlyBySealed

----------------------------------------------------------------------------
(* Completeness of the seal.                                               *)

\* Re-hashing a file that exists removes no entry.
LEMMA RefreshKeepsEntry ==
  ASSUME NEW R \in [Path -> Artifact], NEW S, NEW D \in [Path -> Nat], NEW p \in Path,
         R[p].ver > 0, D[p] > 0
  PROVE  Refresh(R, S, D)[p].ver > 0
<1>1. CASE p \in S
  <2>1. Refresh(R, S, D)[p] = [R[p] EXCEPT !.ver = D[p]]
    BY <1>1 DEF Refresh
  <2>. QED
    BY <2>1 DEF Artifact
<1>2. CASE p \notin S
  BY <1>2 DEF Refresh
<1>. QED
  BY <1>1, <1>2

\* Registering a file that exists makes an entry, and keeps the others.
LEMMA RegisterMakesEntry ==
  ASSUME MT, ProvInv, RegisterArtifact
  PROVE  /\ job.path \in Path /\ regs'[job.path].ver > 0
         /\ \A p \in Path : p # job.path => regs'[p] = regs[p]
<1>1. job.path \in Path /\ regs \in [Path -> Artifact] /\ disk[job.path] > 0
  BY DEF RegisterArtifact, ProvInv, MT, ManagerTypeOK, Job
<1>2. regs' = [regs EXCEPT ![job.path] = Merge(@, job.prov, disk[job.path])]
  BY DEF RegisterArtifact
<1>3. Merge(regs[job.path], job.prov, disk[job.path]).ver = disk[job.path]
  BY DEF Merge
<1>. QED
  BY <1>1, <1>2, <1>3

\* A step that changes no file and removes no entry leaves nothing untracked.
LEMMA TrackedKept ==
  ASSUME Tracked, UNCHANGED <<run, origin, unregistered>>,
         \A p \in Path : regs[p].ver > 0 => regs'[p].ver > 0,
         step' # "renamed" \/ UNCHANGED <<step, job>>,
         pc' = "finalizing" /\ step' # "idle" => pc = "finalizing" /\ step # "idle"
  PROVE  Tracked'
BY ControlDistinct DEF Tracked

\* Before the seal only the table counts.
LEMMA CompleteUnsealed ==
  ASSUME Tracked', manifest'.sess # run',
         pc' = "finalizing" /\ step' \in {"create", "temp"} /\ job'.path = ManifestFile =>
           Lists(job.entries)'
  PROVE  CompleteInv'
BY DEF CompleteInv, SealedManifestComplete

\* A call puts a file of this session on disk or begins to; neither needs an entry yet.
LEMMA TrackedCall ==
  ASSUME MT, Tracked, Calls
  PROVE  Tracked' /\ UNCHANGED <<run, manifest>>
<1>1. /\ pc' # "finalizing" /\ run \in Nat /\ Stream \in Path /\ origin \in [Path -> Nat]
  BY ControlDistinct DEF Calls, Gathers, MT, ManagerTypeOK
<1>2. ASSUME NEW p \in ClientPath, NEW v \in Claim, Write(p, v)
      PROVE  Tracked' /\ UNCHANGED <<run, manifest>>
  <2>1. UNCHANGED <<run, manifest, origin, regs, unregistered>> /\ step' # "renamed"
    BY <1>2 DEF Write, CreateTemp, RefuseCall, Done, storage, history
  <2>. QED
    BY <1>1, <2>1, TrackedKept
<1>3. ASSUME NEW r \in Record, AppendRecord(r)
      PROVE  Tracked' /\ UNCHANGED <<run, manifest>>
  <2>1. /\ UNCHANGED <<run, manifest, regs, unregistered>> /\ step' # "renamed"
        /\ origin' = origin \/ origin' = [origin EXCEPT ![Stream] = run]
    BY <1>3 DEF AppendRecord, Grow, RefuseCall, Done, storage, history
  <2>2. CASE origin' = origin
    BY <1>1, <2>1, <2>2, TrackedKept
  <2>3. CASE origin' = [origin EXCEPT ![Stream] = run]
    <3>1. \A p \in Path : p # Stream => origin'[p] = origin[p]
      BY <1>1, <2>3
    <3>2. \A p \in Path : origin'[p] <= run
      BY <1>1, <2>3 DEF Tracked
    <3>. QED
      BY <1>1, <2>1, <3>1, <3>2 DEF Tracked
  <2>. QED
    BY <2>1, <2>2, <2>3
<1>. QED
  BY <1>2, <1>3 DEF Calls

\* The manager's own steps: a file that is put in place is unregistered until it
\* has its entry.
LEMMA TrackedWork ==
  ASSUME MT, ProvInv, Tracked, ManagerStep, pc' = pc
  PROVE  Tracked'
<1>1. /\ run \in Nat /\ origin \in [Path -> Nat] /\ regs \in [Path -> Artifact]
      /\ disk \in [Path -> Nat] /\ job.path \in Path
  BY DEF MT, ManagerTypeOK, Job
<1>2. step # "idle"
  BY DEF ManagerStep, PublishTemp, DiscardTemp, RegisterArtifact, RegisterFails,
         SealManifest, SealFails, WriteControl
<1>3. CASE PublishTemp
  <2>1. /\ UNCHANGED <<run, regs, job>> /\ step' = "renamed"
        /\ origin' = [origin EXCEPT ![job.path] = run]
        /\ unregistered' = unregistered \union {job.path}
    BY <1>3 DEF PublishTemp
  <2>2. \A p \in Path : p # job.path => origin'[p] = origin[p]
    BY <1>1, <2>1
  <2>3. \A p \in Path : origin'[p] <= run
    BY <1>1, <2>1 DEF Tracked
  <2>. QED
    BY <1>2, <2>1, <2>2, <2>3 DEF Tracked
<1>4. CASE RegisterArtifact
  <2>1. /\ UNCHANGED <<run, origin>> /\ step' # "renamed"
        /\ unregistered' = unregistered \ {job.path}
    BY <1>4 DEF RegisterArtifact, Done, storage
  <2>2. \A p \in Path : regs[p].ver > 0 => regs'[p].ver > 0
    BY <1>4, RegisterMakesEntry
  <2>3. run > 0 => \A p \in Path \ (unregistered' \union {Stream}) :
                     origin[p] = run => regs'[p].ver > 0
    BY <1>4, <2>1, <2>2, RegisterMakesEntry DEF Tracked
  <2>. QED
    BY <1>2, <2>1, <2>2, <2>3, ControlDistinct DEF Tracked
<1>5. CASE SealManifest \/ SealFails
  <2>1. PICK S : regs' = Refresh(regs, S, disk)
    BY <1>5 DEF SealManifest, SealFails, RefreshFails, storage
  <2>2. UNCHANGED <<run, origin, unregistered>> /\ step' # "renamed"
    BY <1>5 DEF SealManifest, SealFails, Done, storage, history
  <2>3. \A p \in Path : regs[p].ver > 0 => regs'[p].ver > 0
    BY <1>1, <2>1, RefreshKeepsEntry DEF ProvInv
  <2>. QED
    BY <1>2, <2>2, <2>3, TrackedKept
<1>6. CASE DiscardTemp \/ RegisterFails \/ WriteControl
  <2>1. UNCHANGED <<run, origin, unregistered, regs>> /\ step' # "renamed"
    BY <1>6 DEF DiscardTemp, RegisterFails, WriteControl, CreateTemp, RefuseCall, Done,
                storage, history
  <2>. QED
    BY <1>2, <2>1, TrackedKept
<1>. QED
  BY <1>3, <1>4, <1>5, <1>6 DEF ManagerStep

\* Finalize touches the stream and gives it an entry before it goes on; it loses none.
LEMMA FinalizeKeepsEntries ==
  ASSUME MT, ProvInv, StartFinalize
  PROVE  /\ \A p \in Path : regs[p].ver > 0 => regs'[p].ver > 0
         /\ step' # "idle" => regs'[Stream].ver > 0
<1>1. /\ regs \in [Path -> Artifact] /\ disk \in [Path -> Nat] /\ Stream \in Path
  BY ControlDistinct DEF MT, ManagerTypeOK
<1>2. Finalize
  BY DEF StartFinalize
<1>3. Touched \in [Path -> Nat] /\ Touched[Stream] > 0
  BY <1>1, TouchedType DEF Touched
<1>4. StreamRegistered \in [Path -> Artifact] /\ StreamRegistered[Stream].ver > 0
  <2>1. Merge(regs[Stream], Generated("generated"), Touched[Stream]).ver = Touched[Stream]
    BY DEF Merge
  <2>. QED
    BY <1>1, <1>3, <2>1, StreamRegisteredType DEF StreamRegistered
<1>5. \A p \in Path : regs[p].ver > 0 => StreamRegistered[p].ver > 0 /\ Touched[p] > 0
  <2>1. \A p \in Path : p # Stream => StreamRegistered[p] = regs[p] /\ Touched[p] = disk[p]
    BY <1>1 DEF StreamRegistered, Touched
  <2>. QED
    BY <1>3, <1>4, <2>1 DEF ProvInv
<1>6. \A p \in Path : regs[p].ver > 0 => regs'[p].ver > 0
  <2>1. CASE regs' = regs
    BY <2>1
  <2>2. CASE regs' # regs
    <3>1. PICK S : regs' = Refresh(StreamRegistered, S, Touched)
      BY <1>2, <2>2 DEF Finalize, BeginFinalize, FinalizeFails, RefreshFails, TouchStream
    <3>. QED
      BY <1>3, <1>4, <1>5, <3>1, RefreshKeepsEntry
  <2>. QED
    BY <2>1, <2>2
<1>7. ASSUME step' # "idle" PROVE regs'[Stream].ver > 0
  <2>1. regs' = Refresh(StreamRegistered, Path, Touched)
    BY <1>2, <1>7 DEF Finalize, BeginFinalize, FinalizeFails, Done
  <2>. QED
    BY <1>1, <1>3, <1>4, <2>1, RefreshKeepsEntry
<1>. QED
  BY <1>6, <1>7

\* The stream that Finalize makes counts as changed, and has its entry.
LEMMA TrackedFinalize ==
  ASSUME MT, ProvInv, Tracked, StartFinalize
  PROVE  Tracked' /\ UNCHANGED <<run, manifest>>
<1>1. run \in Nat /\ origin \in [Path -> Nat]
  BY DEF MT, ManagerTypeOK
<1>2. /\ UNCHANGED <<run, manifest, unregistered>> /\ pc' = "finalizing" /\ Finalize
      /\ step' \in {"idle", "create"}
  BY DEF StartFinalize, Goto, Finalize, BeginFinalize, FinalizeFails, Done, TouchStream,
         storage
<1>3. origin' = origin \/
      origin' = [origin EXCEPT ![Stream] = IF disk[Stream] = 0 THEN run ELSE @]
  BY <1>2 DEF Finalize, BeginFinalize, FinalizeFails, TouchStream, storage
<1>4. \A p \in Path : p # Stream => origin'[p] = origin[p]
  BY <1>1, <1>3
<1>5. \A p \in Path : origin'[p] <= run
  BY <1>1, <1>3 DEF Tracked
<1>. QED
  BY <1>2, <1>4, <1>5, FinalizeKeepsEntries DEF Tracked

\* From the first snapshot to the rename of the manifest, and to its entry.
LEMMA CompleteWork ==
  ASSUME MT, SealInv, ProvInv, CompleteInv, ManagerWorks, pc = "finalizing", Tracked'
  PROVE  CompleteInv'
<1>1. UNCHANGED <<run, pc>> /\ ManagerStep
  BY DEF ManagerWorks, ManagerStep, PublishTemp, DiscardTemp, RegisterArtifact,
         RegisterFails, RefuseCall, SealManifest, SealFails, WriteControl, CreateTemp,
         program
<1>2. WritingIndex \/ IndexWritten \/ WritingManifest \/ ManifestWritten
  BY <1>1 DEF SealInv, Finalizing, ManagerStep, PublishTemp, DiscardTemp, RegisterArtifact,
              RegisterFails, SealManifest, SealFails, WriteControl
<1>3. run \in Nat /\ manifest.sess \in Nat
  BY DEF MT, ManagerTypeOK, Document
<1>4. CASE DiscardTemp \/ RegisterFails \/ SealFails
  <2>1. UNCHANGED <<run, manifest, origin, unregistered>> /\ step' = "idle"
    BY <1>4 DEF DiscardTemp, RegisterFails, RefuseCall, SealFails, Done, storage, history
  <2>. QED
    BY <2>1 DEF CompleteInv, SealedManifestComplete
<1>5. CASE WriteControl
  <2>1. /\ UNCHANGED <<run, manifest, origin, unregistered>>
        /\ step' = "idle" \/ (step = "create" /\ job'.path = job.path
                                              /\ job'.entries = job.entries)
    BY <1>5 DEF WriteControl, CreateTemp, RefuseCall, Done, storage, history
  <2>. QED
    BY <1>1, <2>1 DEF CompleteInv, SealedManifestComplete, Lists
<1>6. CASE PublishTemp
  <2>1. /\ origin' = [origin EXCEPT ![job.path] = run] /\ step = "temp" /\ step' = "renamed"
        /\ unregistered' = unregistered \union {job.path} /\ job' = job
    BY <1>6 DEF PublishTemp
  <2>2. CASE job.path = IndexFile
    <3>1. manifest' = manifest /\ manifest.sess < run
      BY <1>2, <1>6, <2>1, <2>2, ControlDistinct
         DEF PublishTemp, WritingIndex, WritingManifest, IndexWritten, ManifestWritten,
             Unsealed
    <3>. QED
      BY <1>1, <1>3, <2>1, <3>1, CompleteUnsealed
  <2>3. CASE job.path = ManifestFile
    <3>1. Lists(job.entries) /\ manifest'.entries = job.entries
      BY <1>6, <2>1, <2>3 DEF PublishTemp, CompleteInv
    <3>2. \A p \in Path : p # ManifestFile => origin'[p] = origin[p]
      BY <2>1, <2>3, ControlDistinct DEF MT, ManagerTypeOK
    <3>3. SealedManifestComplete'
      BY <1>1, <2>1, <2>3, <3>1, <3>2 DEF SealedManifestComplete, Lists
    <3>. QED
      BY <2>1, <3>3 DEF CompleteInv
  <2>. QED
    BY <1>2, <2>1, <2>2, <2>3 DEF WritingIndex, WritingManifest, IndexWritten, ManifestWritten
<1>7. CASE RegisterArtifact
  <2>1. /\ UNCHANGED <<manifest, origin>> /\ step = "renamed" /\ step' \in {"seal", "idle"}
        /\ unregistered' = unregistered \ {job.path}
    BY <1>7 DEF RegisterArtifact, Done, storage
  <2>2. CASE job.path = IndexFile
    <3>1. manifest.sess < run
      BY <1>2, <2>1, <2>2, ControlDistinct
         DEF WritingIndex, WritingManifest, IndexWritten, ManifestWritten, Unsealed
    <3>. QED
      BY <1>1, <1>3, <2>1, <3>1, CompleteUnsealed
  <2>3. CASE job.path = ManifestFile
    BY <1>1, <2>1, <2>3 DEF CompleteInv, SealedManifestComplete
  <2>. QED
    BY <1>2, <2>1, <2>2, <2>3 DEF WritingIndex, WritingManifest, IndexWritten, ManifestWritten
<1>8. CASE SealManifest
  <2>1. /\ UNCHANGED <<manifest, origin, unregistered, disk>> /\ step = "seal"
        /\ regs' = Refresh(regs, Path, disk) /\ job'.entries = Entries(regs')
    BY <1>8 DEF SealManifest, storage, history
  <2>2. manifest.sess < run
    BY <1>2, <2>1 DEF WritingIndex, WritingManifest, IndexWritten, ManifestWritten, Unsealed
  <2>3. \A p \in Path \ unregistered : origin[p] = run => regs[p].ver > 0
    BY <1>3, <2>1, <2>2 DEF CompleteInv, Tracked, SealInv
  <2>4. \A p \in Path : regs[p].ver > 0 => regs'[p].ver > 0
    BY <2>1, RefreshKeepsEntry DEF ProvInv, MT, ManagerTypeOK
  <2>5. Lists(job.entries)'
    BY <1>1, <2>1, <2>3, <2>4 DEF Lists, Entries
  <2>. QED
    BY <1>1, <1>3, <2>1, <2>2, <2>5, CompleteUnsealed
<1>. QED
  BY <1>1, <1>4, <1>5, <1>6, <1>7, <1>8 DEF ManagerStep

\* Every step keeps the account of what the session changed.
LEMMA CompleteStep ==
  TypeOK /\ UnitAtWork /\ SealInv /\ ProvInv /\ CompleteInv /\ [Next]_vars => CompleteInv'
<1>. SUFFICES ASSUME MT, Program, Package, SealInv, ProvInv, CompleteInv, [Next]_vars
              PROVE  CompleteInv'
  BY TypeParts
<1>0. run \in Nat /\ manifest.sess \in Nat /\ Tracked /\ manifest.sess <= run
  BY DEF MT, ManagerTypeOK, Document, CompleteInv, SealInv
<1>1. CASE Launch
  <2>1. /\ UNCHANGED <<origin, manifest>> /\ run' = run + 1 /\ step' = "idle"
        /\ unregistered' = {} /\ pc' \in {"prologue", "exited"}
    BY <1>1 DEF Launch, NewManager, storage
  <2>2. \A p \in Path : origin[p] \in Nat /\ origin[p] <= run
    BY <1>0 DEF Tracked, MT, ManagerTypeOK
  <2>3. \A p \in Path : origin'[p] <= run' /\ origin'[p] # run'
    BY <1>0, <2>1, <2>2
  <2>4. Tracked'
    BY <2>1, <2>3 DEF Tracked
  <2>. QED
    BY <1>0, <2>1, <2>4, CompleteUnsealed
<1>2. CASE Calls
  <2>1. Unsealed /\ pc' # "finalizing"
    BY <1>2 DEF Calls, SealInv, Gathering, Gathers
  <2>. QED
    BY <1>0, <1>2, <2>1, TrackedCall, CompleteUnsealed DEF Unsealed
<1>3. CASE ManagerWorks
  <2>1. pc \in Gathers \union {"finalizing"} /\ UNCHANGED pc /\ ManagerStep
    BY <1>3 DEF ManagerWorks, ManagerStep, PublishTemp, DiscardTemp, RegisterArtifact,
                RegisterFails, SealManifest, SealFails, WriteControl, SealInv, Settled, program
  <2>2. Tracked'
    BY <1>0, <2>1, TrackedWork
  <2>3. CASE pc \in Gathers
    <3>1. Unsealed /\ (step = "idle" \/ (step \in {"temp", "renamed"} /\ job.path \in ClientPath))
      BY <2>3 DEF SealInv, Gathering
    <3>2. UNCHANGED <<run, manifest>>
      BY <2>1, <3>1, ControlDistinct
         DEF ManagerStep, PublishTemp, DiscardTemp, RegisterArtifact, RegisterFails,
             RefuseCall, SealManifest, SealFails, WriteControl, storage
    <3>. QED
      BY <1>0, <2>1, <2>2, <2>3, <3>1, <3>2, CompleteUnsealed DEF Unsealed, Gathers
  <2>4. CASE pc = "finalizing"
    BY <1>3, <2>2, <2>4, CompleteWork
  <2>. QED
    BY <2>1, <2>3, <2>4
<1>4. CASE StartFinalize
  <2>1. Unsealed /\ Tracked' /\ UNCHANGED <<run, manifest>>
    BY <1>0, <1>4, TrackedFinalize DEF StartFinalize, Ready, SealInv, Gathering, Gathers
  <2>2. step' # "idle" => job'.path = IndexFile
    BY <1>4 DEF StartFinalize, Finalize, BeginFinalize, FinalizeFails, Done
  <2>. QED
    BY <1>0, <2>1, <2>2, ControlDistinct, CompleteUnsealed DEF Unsealed
<1>5. CASE \/ Crash \/ Expire \/ Moves \/ GivesUp \/ StartArchive \/ PackTree
           \/ StartSummary \/ PublishSummary \/ PackingFails \/ UNCHANGED vars
  <2>1. UNCHANGED <<run, origin, manifest, regs, unregistered>>
    BY <1>5 DEF Crash, Expire, Moves, GivesUp, ReturnError, Abandon, StartArchive, PackTree,
                StartSummary, PublishSummary, PackingFails, vars, mvars, storage, memory,
                history
  <2>2. \/ UNCHANGED <<step, job, pc>>
        \/ pc' # "finalizing" /\ (step' = "idle" \/ UNCHANGED <<step, job>>)
    BY <1>5 DEF Crash, Expire, Moves, GivesUp, ReturnError, Abandon, StartArchive, PackTree,
                StartSummary, PublishSummary, PackingFails, vars, mvars, storage, memory,
                program, Stop, Goto, Gathers
  <2>3. Tracked'
    BY <1>0, <2>1, <2>2, TrackedKept
  <2>. QED
    BY <2>1, <2>2, <2>3 DEF CompleteInv, SealedManifestComplete, Lists
<1>. QED
  BY <1>1, <1>2, <1>3, <1>4, <1>5, Shapes

\* Before the first run there is nothing to list.
LEMMA CompleteInit == Init => CompleteInv
BY DEF Init, ManagerInit, NoEntries, CompleteInv, Tracked, SealedManifestComplete

\* Seal completeness (Finalize): the manifest lists every file that its session
\* changed, itself and files whose registration failed apart.
THEOREM SealIsComplete == Spec => []SealedManifestComplete
<1>1. CompleteInv => SealedManifestComplete
  BY DEF CompleteInv
<1>. QED
  BY <1>1, TypeCorrect, TypeStep, SealInit, SealStep, ProvInit, ProvStep, CompleteInit,
     CompleteStep, PTL DEF Spec

----------------------------------------------------------------------------
(* The account of every unit.                                              *)

\* What a session has put on record and filed stays there.
Keeps ==
  /\ UNCHANGED <<run, cfg>>
  /\ Len(lines) <= Len(lines)'
  /\ \A k \in 1 .. Len(lines) : lines'[k] = lines[k]
  /\ \A p \in Path : regs[p].ver > 0 => regs'[p].ver > 0

\* No step but the start of another run takes anything back.
LEMMA KeepsAll ==
  ASSUME MT, Program, Package, ProvInv, Next, ~Launch
  PROVE  Keeps
<1>1. /\ regs \in [Path -> Artifact] /\ disk \in [Path -> Nat] /\ Len(lines) \in Nat
  BY LenProperties DEF MT, ManagerTypeOK
<1>2. CASE Calls
  <2>1. UNCHANGED <<run, cfg, regs>>
    BY <1>2 DEF Calls, Write, AppendRecord, CreateTemp, RefuseCall, Grow
  <2>2. CASE lines' = lines
    BY <1>1, <2>1, <2>2 DEF Keeps
  <2>3. CASE lines' # lines
    <3>1. PICK r \in Record, t \in Text : lines' = Append(lines, [sess |-> run, rec |-> r, text |-> t])
      <4>1. PICK r \in Record : AppendRecord(r)
        BY <1>2, <2>3 DEF Calls, Write, CreateTemp, RefuseCall, storage
      <4>2. TextOf(lines) \in Text /\ "torn" \in Text
        BY DEF TextOf, Text
      <4>. QED
        BY <2>3, <4>1, <4>2 DEF AppendRecord, Grow, RefuseCall, storage
    <3>2. lines \in Seq(Line(Record)) /\ [sess |-> run, rec |-> r, text |-> t] \in Line(Record)
      BY <3>1 DEF Line, MT, ManagerTypeOK
    <3>3. Len(lines') = Len(lines) + 1 /\ \A k \in 1 .. Len(lines) : lines'[k] = lines[k]
      BY <3>1, <3>2, AppendProperties
    <3>. QED
      BY <1>1, <2>1, <3>3 DEF Keeps
  <2>. QED
    BY <2>2, <2>3
<1>3. CASE ManagerWorks
  <2>1. UNCHANGED <<run, cfg, lines>> /\ ManagerStep
    BY <1>3 DEF ManagerWorks, ManagerStep, PublishTemp, DiscardTemp, RegisterArtifact,
                RegisterFails, RefuseCall, SealManifest, SealFails, WriteControl, CreateTemp,
                storage, program
  <2>2. \A p \in Path : regs[p].ver > 0 => regs'[p].ver > 0
    <3>1. CASE RegisterArtifact
      BY <3>1, RegisterMakesEntry
    <3>2. CASE SealManifest \/ SealFails
      <4>1. PICK S : regs' = Refresh(regs, S, disk)
        BY <3>2 DEF SealManifest, SealFails, RefreshFails, storage
      <4>. QED
        BY <1>1, <4>1, RefreshKeepsEntry DEF ProvInv
    <3>3. CASE PublishTemp \/ DiscardTemp \/ RegisterFails \/ WriteControl
      BY <3>3 DEF PublishTemp, DiscardTemp, RegisterFails, RefuseCall, WriteControl, CreateTemp
    <3>. QED
      BY <2>1, <3>1, <3>2, <3>3 DEF ManagerStep
  <2>. QED
    BY <1>1, <2>1, <2>2 DEF Keeps
<1>4. CASE StartFinalize
  <2>1. UNCHANGED <<run, cfg, lines>>
    BY <1>4 DEF StartFinalize, Goto, Finalize, BeginFinalize, FinalizeFails, TouchStream, storage
  <2>. QED
    BY <1>1, <1>4, <2>1, FinalizeKeepsEntries DEF Keeps
<1>5. CASE \/ Crash \/ Expire \/ Moves \/ GivesUp \/ StartArchive \/ PackTree
           \/ StartSummary \/ PublishSummary \/ PackingFails
  <2>1. UNCHANGED <<run, cfg, lines, regs>>
    BY <1>5 DEF Crash, Expire, Moves, GivesUp, ReturnError, Abandon, StartArchive, PackTree,
                StartSummary, PublishSummary, PackingFails, mvars, storage, memory, Stop, Goto
  <2>. QED
    BY <1>1, <2>1 DEF Keeps
<1>. QED
  BY <1>2, <1>3, <1>4, <1>5, Shapes

\* What is kept is still on record and filed.
LEMMA AccountKept ==
  ASSUME MT, Keeps
  PROVE  /\ \A u \in Unit : OnRecord(u) => OnRecord(u)'
         /\ \A u \in Unit : Filed(u) => Filed(u)'
         /\ Wanted' = Wanted /\ Wanted \subseteq Unit
<1>1. Len(lines) \in Nat
  BY LenProperties DEF MT, ManagerTypeOK
<1>2. ASSUME NEW u \in Unit, OnRecord(u) PROVE OnRecord(u)'
  <2>1. PICK k \in 1 .. Len(lines) : lines[k].sess = run /\ lines[k].rec = Outcome(u)
    BY <1>2 DEF OnRecord
  <2>2. /\ Len(lines') \in Nat
        /\ k \in 1 .. Len(lines') /\ lines'[k] = lines[k] /\ run' = run
    BY <1>1, <2>1 DEF Keeps
  <2>. QED
    BY <2>1, <2>2 DEF OnRecord, Outcome, Event
<1>3. ASSUME NEW u \in Unit, Filed(u) PROVE Filed(u)'
  <2>1. StatusPath[u] \in Path
    BY UnitAssumption DEF Path, ClientPath
  <2>. QED
    BY <1>3, <2>1 DEF Filed, Keeps
<1>4. Wanted' = Wanted /\ Wanted \subseteq Unit
  BY DEF Wanted, Keeps, Unit
<1>. QED
  BY <1>2, <1>3, <1>4

\* In Run's mode no call is suppressed.
LEMMA NothingSuppressed == Mode = "dual" => \A p \in Path : ~Suppressed(p)
BY DEF Suppressed

\* What is sealed as complete stays complete while the manifest is the same.
LEMMA SealedKept ==
  ASSUME MT, Keeps, SealedRunIsComplete, UNCHANGED manifest
  PROVE  SealedRunIsComplete'
<1>1. /\ \A u \in Unit : OnRecord(u) => OnRecord(u)'
      /\ Wanted' = Wanted /\ Wanted \subseteq Unit
  BY AccountKept
<1>2. run' = run
  BY DEF Keeps
<1>3. SUFFICES ASSUME manifest.sess = run, run > 0, NEW u \in Wanted
               PROVE  manifest.entries[StatusPath[u]] > 0 /\ OnRecord(u)'
  BY <1>1, <1>2 DEF SealedRunIsComplete, OnRecord, Outcome
<1>4. manifest.entries[StatusPath[u]] > 0 /\ OnRecord(u)
  BY <1>3 DEF SealedRunIsComplete, OnRecord, Outcome
<1>. QED
  BY <1>1, <1>3, <1>4

\* While evidence is gathered, a step that keeps the account of the units that
\* are not left to do keeps the invariant.
LEMMA AccountGather ==
  ASSUME MT, SealInv, AccountInv, Keeps, UNCHANGED manifest,
         pc \in Gathers, pc' \in Gathers, Looping',
         \A u \in Wanted : Left(u) => Left(u)' \/ (OnRecord(u) /\ Filed(u))
  PROVE  AccountInv'
<1>1. /\ \A u \in Unit : OnRecord(u) => OnRecord(u)'
      /\ \A u \in Unit : Filed(u) => Filed(u)'
      /\ Wanted' = Wanted /\ Wanted \subseteq Unit
  BY AccountKept
<1>2. \A u \in Wanted' : ~Left(u)' => OnRecord(u)' /\ Filed(u)'
  <2>. SUFFICES ASSUME NEW u \in Wanted, ~Left(u)' PROVE OnRecord(u)' /\ Filed(u)'
    BY <1>1
  <2>1. OnRecord(u) /\ Filed(u)
    BY DEF AccountInv
  <2>. QED
    BY <1>1, <2>1
<1>3. SealedRunIsComplete'
  BY SealedKept DEF AccountInv
<1>. QED
  BY <1>2, <1>3 DEF AccountInv, Gathers

\* The units of a command line are all on its agenda.
LEMMA AgendaIsComplete ==
  ASSUME NEW c \in Configs
  PROVE  /\ \A k \in 1 .. Len(c.profile) :
              \E j \in 1 .. Len(Agenda(c)) : Agenda(c)[j] = c.profile[k]
         /\ c.scan => \E j \in 1 .. Len(Agenda(c)) : Agenda(c)[j] = ScannerPhase
<1>1. c.profile \in Seq(Unit)
  <2>1. c.profile \in Seq(Collector)
    BY ConfigAssumption
  <2>. QED
    BY <2>1 DEF Unit
<1>2. CASE c.scan
  <2>1. <<ScannerPhase>> \in Seq(Unit) /\ Len(<<ScannerPhase>>) = 1 /\ <<ScannerPhase>>[1] = ScannerPhase
    BY DEF Unit
  <2>2. Agenda(c) = c.profile \o <<ScannerPhase>>
    BY <1>2 DEF Agenda
  <2>3. /\ Len(Agenda(c)) = Len(c.profile) + 1
        /\ \A k \in 1 .. Len(c.profile) : Agenda(c)[k] = c.profile[k]
        /\ Agenda(c)[Len(c.profile) + 1] = ScannerPhase
    BY <1>1, <2>1, <2>2, ConcatProperties, LenProperties
  <2>4. Len(c.profile) \in Nat
    BY <1>1, LenProperties
  <2>5. /\ \A k \in 1 .. Len(c.profile) : k \in 1 .. Len(Agenda(c))
        /\ Len(c.profile) + 1 \in 1 .. Len(Agenda(c))
    BY <2>3, <2>4
  <2>. QED
    BY <2>3, <2>5
<1>3. CASE ~c.scan
  <2>1. Agenda(c) = c.profile
    BY <1>1, <1>3, ConcatEmptySeq DEF Agenda
  <2>. QED
    BY <1>3, <2>1
<1>. QED
  BY <1>2, <1>3

\* A run starts with everything left to do.
LEMMA AccountLaunch ==
  ASSUME MT, Program, SealInv, Launch
  PROVE  AccountInv'
<1>1. /\ run' = run + 1 /\ run \in Nat /\ manifest' = manifest /\ manifest.sess \in Nat
      /\ manifest.sess <= run /\ cfg' \in Configs /\ pc' \in {"prologue", "exited"}
      /\ pc' = "prologue" => units' = Agenda(cfg')
  BY DEF Launch, NewManager, storage, MT, ManagerTypeOK, Document, SealInv
<1>2. SealedRunIsComplete'
  BY <1>1 DEF SealedRunIsComplete
<1>3. ASSUME pc' = "prologue", NEW u \in Wanted' PROVE Left(u)'
  <2>1. CASE u = ScannerPhase /\ cfg'.scan
    BY <1>1, <1>3, <2>1, AgendaIsComplete DEF Left
  <2>2. CASE \E k \in 1 .. Len(cfg'.profile) : cfg'.profile[k] = u
    BY <1>1, <1>3, <2>2, AgendaIsComplete DEF Left
  <2>. QED
    BY <1>3, <2>1, <2>2 DEF Wanted
<1>. QED
  BY <1>1, <1>2, <1>3 DEF AccountInv, Looping, Closing, Gathers

\* What the loop does next is left to do, or what it did is done.
LEMMA TailLeaves ==
  ASSUME Program, units # <<>>, units' = Tail(units), NEW u, u # Who, Left(u)
  PROVE  Left(u)'
<1>1. PICK k \in 1 .. Len(units) : units[k] = u
  BY DEF Left
<1>2. units \in Seq(Unit) /\ Len(units) \in Nat /\ Who = units[1]
  BY LenProperties, HeadTailProperties DEF Program, Who
<1>3. k # 1 /\ k - 1 \in 1 .. Len(units')
  BY <1>1, <1>2, HeadTailProperties
<1>4. units'[k - 1] = units[(k - 1) + 1]
  BY <1>2, <1>3, HeadTailProperties
<1>5. (k - 1) + 1 = k
  OBVIOUS
<1>6. units'[k - 1] = u
  BY <1>1, <1>4, <1>5
<1>. QED
  BY <1>3, <1>6 DEF Left

\* A call of Run while it closes a unit: the line, then the status file.
LEMMA ClosingCall ==
  ASSUME Mode = "dual", MT, Program, UnitAtWork, Keeps, Closing, ScriptCall, pc = "closing"
  PROVE  Closing'
<1>0. /\ ret = "ok" /\ Make(Head(todo)) /\ todo' = Tail(todo) /\ UNCHANGED <<pc, units>>
      /\ Who' = Who /\ Who \in Unit /\ todo # <<>>
  BY WhoType DEF ScriptCall, Checked, UnitAtWork, Program, Who
<1>1. CASE todo = <<[call |-> "append", rec |-> Outcome(Who)], LegacyCall(StatusPath[Who])>>
  <2>1. Head(todo) = [call |-> "append", rec |-> Outcome(Who)]
        /\ todo' = <<LegacyCall(StatusPath[Who])>>
    BY <1>0, <1>1
  <2>2. AppendRecord(Outcome(Who))
    BY <1>0, <2>1 DEF Make
  <2>3. step' = "idle"
    BY <2>2 DEF AppendRecord, Done, RefuseCall
  <2>4. ret' = "ok" => OnRecord(Who)'
    <3>. SUFFICES ASSUME ret' = "ok" PROVE OnRecord(Who)'
      OBVIOUS
    <3>1. Grow(Outcome(Who), TextOf(lines))
      BY <2>2, NothingSuppressed, ControlDistinct DEF AppendRecord, Done, RefuseCall
    <3>2. lines \in Seq(Line(Record)) /\ TextOf(lines) \in Text /\ Outcome(Who) \in Record
          /\ run \in Nat
      BY <1>0, LogCallType DEF MT, ManagerTypeOK, TextOf, Text, Outcome, Record, Event
    <3>3. [sess |-> run, rec |-> Outcome(Who), text |-> TextOf(lines)] \in Line(Record)
      BY <3>2 DEF Line
    <3>4. /\ lines'[Len(lines) + 1] = [sess |-> run, rec |-> Outcome(Who), text |-> TextOf(lines)]
          /\ Len(lines') = Len(lines) + 1 /\ Len(lines) \in Nat /\ run' = run
      BY <3>1, <3>2, <3>3, AppendProperties, LenProperties DEF Grow
    <3>5. Len(lines) + 1 \in 1 .. Len(lines')
      BY <3>4
    <3>6. Outcome(Who)' = Outcome(Who)
      BY <1>0 DEF Outcome, Event
    <3>. QED
      BY <1>0, <3>4, <3>5, <3>6 DEF OnRecord
  <2>. QED
    BY <1>0, <2>1, <2>3, <2>4 DEF Closing, LegacyCall
<1>2. CASE /\ todo = <<LegacyCall(StatusPath[Who])>>
           /\ ret = "ok" => OnRecord(Who)
  <2>1. Head(todo) = LegacyCall(StatusPath[Who]) /\ todo' = <<>>
    BY <1>0, <1>2
  <2>2. Write(StatusPath[Who], Generated(StatusPath[Who]))
    BY <1>0, <2>1 DEF Make, LegacyCall
  <2>3. StatusPath[Who] \in Path
    BY <1>0, UnitAssumption DEF Path, ClientPath
  <2>4. OnRecord(Who)'
    BY <1>0, <1>2, AccountKept
  <2>5. \/ step' = "temp" /\ job'.path = StatusPath[Who] /\ ret' = ret
        \/ step' = "idle" /\ ret' = "err"
    BY <2>2, <2>3, NothingSuppressed DEF Write, CreateTemp, RefuseCall, Done
  <2>. QED
    BY <1>0, <2>1, <2>4, <2>5 DEF Closing
<1>. QED
  BY <1>0, <1>1, <1>2 DEF Closing

\* The manager's part of closing a unit.
LEMMA ClosingWork ==
  ASSUME MT, Program, UnitAtWork, ProvInv, Keeps, Closing, ManagerWorks, pc = "closing"
  PROVE  Closing'
<1>0. /\ ManagerStep /\ UNCHANGED <<pc, todo, units>> /\ Who' = Who /\ Who \in Unit
      /\ step # "idle" /\ StatusPath[Who] \in Path /\ StatusPath[Who] # IndexFile
  BY WhoType, UnitAssumption, ControlDistinct
     DEF ManagerWorks, program, ManagerStep, PublishTemp, DiscardTemp, RegisterArtifact,
         RegisterFails, SealManifest, SealFails, WriteControl, UnitAtWork, Program, Who,
         Path, ClientPath
<1>1. /\ todo = <<>> /\ ret = "ok" /\ OnRecord(Who) /\ step \in {"temp", "renamed"}
      /\ job.path = StatusPath[Who]
  BY <1>0 DEF Closing
<1>2. OnRecord(Who)'
  BY <1>0, <1>1, AccountKept
<1>3. CASE PublishTemp
  BY <1>0, <1>1, <1>2, <1>3 DEF PublishTemp, Closing
<1>4. CASE DiscardTemp \/ RegisterFails
  <2>1. step' = "idle" /\ ret' = "err"
    BY <1>4 DEF DiscardTemp, RegisterFails, RefuseCall, Done
  <2>. QED
    BY <1>0, <1>1, <2>1 DEF Closing
<1>5. CASE RegisterArtifact
  <2>1. step' = "idle" /\ ret' = "ok"
    BY <1>0, <1>1, <1>5 DEF RegisterArtifact, Done
  <2>2. Filed(Who)'
    BY <1>0, <1>1, <1>5, RegisterMakesEntry DEF Filed
  <2>. QED
    BY <1>0, <1>1, <1>2, <2>1, <2>2 DEF Closing
<1>. QED
  BY <1>0, <1>1, <1>3, <1>4, <1>5
     DEF ManagerStep, SealManifest, SealFails, WriteControl

\* The moves of the loop.
LEMMA LoopingMove ==
  ASSUME MT, Program, UnitAtWork, Looping,
         \/ BeginLoop \/ SkipUnit \/ NextUnit \/ EnterBody \/ CloseUnit \/ EndLoop
         \/ BodyReturnsNil \/ BodyReturnsError \/ BodyBlocks \/ DeadlineUnblocks
  PROVE  Looping'
<1>1. CASE BeginLoop \/ SkipUnit \/ CloseUnit
  <2>1. pc' = "loop" /\ step' = "idle"
    BY <1>1 DEF BeginLoop, SkipUnit, CloseUnit, Ready, Goto, mvars, memory, Looping
  <2>. QED
    BY <2>1 DEF Looping, Closing
<1>2. CASE NextUnit
  <2>1. /\ pc = "loop" /\ step' = "idle" /\ units' = units /\ Who' = Who
    BY <1>2 DEF NextUnit, mvars, memory, Looping, Who
  <2>2. CASE Who \in Registered \union {ScannerPhase}
    BY <1>2, <2>1, <2>2 DEF NextUnit, Goto, Looping, Closing
  <2>3. CASE Who \notin Registered \union {ScannerPhase}
    <3>1. pc' = "closing" /\ todo' = <<LogCall("skipped", Who), LegacyCall(StatusPath[Who])>>
      BY <1>2, <2>3 DEF NextUnit, Goto
    <3>2. Outcome(Who)' = Event("skipped", Who)
      BY <2>1, <2>3 DEF Outcome, Event
    <3>3. todo' = <<[call |-> "append", rec |-> Outcome(Who)'], LegacyCall(StatusPath[Who])'>>
      BY <2>1, <3>1, <3>2 DEF LogCall, LegacyCall
    <3>. QED
      BY <2>1, <3>1, <3>3 DEF Looping, Closing
  <2>. QED
    BY <2>2, <2>3
<1>3. CASE BodyReturnsNil
  <2>1. /\ pc = "body" /\ pc' = "closing" /\ step' = "idle" /\ units' = units /\ Who' = Who
        /\ todo' = <<LogCall("end", Who), LegacyCall(StatusPath[Who])>>
        /\ Who \in Registered \union {ScannerPhase}
    BY <1>3 DEF BodyReturnsNil, Goto, Looping, Who
  <2>2. Outcome(Who)' = Event("end", Who)
    BY <2>1 DEF Outcome, Event
  <2>3. todo' = <<[call |-> "append", rec |-> Outcome(Who)'], LegacyCall(StatusPath[Who])'>>
    BY <2>1, <2>2 DEF LogCall, LegacyCall
  <2>. QED
    BY <2>1, <2>3 DEF Looping, Closing
<1>4. CASE EnterBody \/ BodyReturnsError \/ BodyBlocks \/ DeadlineUnblocks
  <2>1. /\ pc \in {"starting", "body", "hung"} /\ pc' \in {"abandon", "body", "hung"}
        /\ units' = units /\ Who' = Who
    BY <1>4 DEF EnterBody, BodyReturnsError, BodyBlocks, DeadlineUnblocks, Ready, Goto, Who
  <2>. QED
    BY <2>1 DEF Looping, Closing
<1>5. CASE EndLoop
  BY <1>5 DEF EndLoop, Goto, Looping, Closing
<1>. QED
  BY <1>1, <1>2, <1>3, <1>4, <1>5

\* A move of the loop takes a unit off the list only when it is not wanted or done.
LEMMA MoveLeaves ==
  ASSUME MT, Program, Looping,
         \/ BeginLoop \/ SkipUnit \/ NextUnit \/ EnterBody \/ CloseUnit \/ EndLoop
         \/ BodyReturnsNil \/ BodyReturnsError \/ BodyBlocks \/ DeadlineUnblocks,
         NEW u \in Wanted, Left(u)
  PROVE  Left(u)' \/ (OnRecord(u) /\ Filed(u))
<1>1. CASE SkipUnit
  <2>1. units # <<>> /\ units' = Tail(units) /\ Who \in {"session", "scanner"}
    BY <1>1 DEF SkipUnit
  <2>2. u # Who
    BY <2>1 DEF Wanted, ScannerPhase
  <2>. QED
    BY <2>1, <2>2, TailLeaves
<1>2. CASE CloseUnit
  <2>1. pc = "closing" /\ todo = <<>> /\ step = "idle" /\ ret = "ok" /\ units' = Tail(units)
    BY <1>2 DEF CloseUnit, Ready
  <2>2. OnRecord(Who) /\ Filed(Who)
    BY <2>1 DEF Looping, Closing
  <2>3. units # <<>>
    <3>1. PICK k \in 1 .. Len(units) : units[k] = u
      BY DEF Left
    <3>. QED
      BY <3>1, LenProperties, EmptySeq DEF Program
  <2>4. CASE u = Who
    BY <2>2, <2>4
  <2>5. CASE u # Who
    BY <2>1, <2>3, <2>5, TailLeaves
  <2>. QED
    BY <2>4, <2>5
<1>3. CASE \/ BeginLoop \/ NextUnit \/ EnterBody \/ EndLoop
           \/ BodyReturnsNil \/ BodyReturnsError \/ BodyBlocks \/ DeadlineUnblocks
  BY <1>3 DEF BeginLoop, NextUnit, EnterBody, EndLoop, BodyReturnsNil, BodyReturnsError,
              BodyBlocks, DeadlineUnblocks, Left
<1>. QED
  BY <1>1, <1>2, <1>3

\* While Finalize works, the account goes from the table into the manifest.
LEMMA AccountFinalizing ==
  ASSUME MT, Program, ProvInv, SealInv, AccountInv, Keeps, ManagerWorks, pc = "finalizing"
  PROVE  AccountInv'
<1>0. /\ ManagerStep /\ pc' = "finalizing" /\ UNCHANGED cfg /\ run' = run
      /\ \A u \in Unit : StatusPath[u] \in Path
  BY UnitAssumption DEF ManagerWorks, program, Keeps, Path, ClientPath
<1>1. /\ Wanted' = Wanted /\ Wanted \subseteq Unit
      /\ \A u \in Wanted : OnRecord(u) /\ Filed(u)
      /\ \A u \in Wanted : OnRecord(u)' /\ Filed(u)'
  BY <1>0, AccountKept DEF AccountInv
<1>2. Looping'
  BY <1>0 DEF Looping, Closing
<1>3. SUFFICES
        /\ step' \in {"create", "temp"} /\ job'.path = ManifestFile =>
             \A u \in Wanted : job'.entries[StatusPath[u]] > 0
        /\ SealedRunIsComplete'
  BY <1>0, <1>1, <1>2 DEF AccountInv, Gathers
<1>4. CASE PublishTemp
  <2>1. step' = "renamed"
    BY <1>4 DEF PublishTemp
  <2>2. CASE job.path = ManifestFile
    <3>1. manifest' = [sess |-> run, entries |-> job.entries] /\ step = "temp"
      BY <1>4, <2>2 DEF PublishTemp
    <3>2. \A u \in Wanted : job.entries[StatusPath[u]] > 0
      BY <1>0, <2>2, <3>1 DEF AccountInv
    <3>3. \A u \in Wanted : manifest'.entries[StatusPath[u]] > 0
      BY <3>1, <3>2
    <3>4. SealedRunIsComplete'
      BY <1>1, <3>3 DEF SealedRunIsComplete, OnRecord, Outcome
    <3>. QED
      BY <2>1, <3>4
  <2>3. CASE job.path # ManifestFile
    BY <1>4, <2>1, <2>3, SealedKept DEF PublishTemp, AccountInv
  <2>. QED
    BY <2>2, <2>3
<1>5. CASE ~PublishTemp
  <2>1. manifest' = manifest
    BY <1>0, <1>5 DEF ManagerStep, DiscardTemp, RegisterArtifact, RegisterFails, RefuseCall,
                      SealManifest, SealFails, WriteControl, CreateTemp, storage
  <2>2. SealedRunIsComplete'
    BY <2>1, SealedKept DEF AccountInv
  <2>3. CASE DiscardTemp \/ RegisterFails \/ SealFails \/ RegisterArtifact
    <3>1. step' \in {"idle", "seal"}
      BY <2>3 DEF DiscardTemp, RegisterFails, RefuseCall, SealFails, RegisterArtifact, Done
    <3>. QED
      BY <2>2, <3>1
  <2>4. CASE SealManifest
    <3>1. job'.entries = Entries(regs')
      BY <2>4 DEF SealManifest
    <3>2. \A u \in Wanted : job'.entries[StatusPath[u]] = regs'[StatusPath[u]].ver
      BY <1>0, <1>1, <3>1 DEF Entries
    <3>3. \A u \in Wanted : regs'[StatusPath[u]].ver > 0
      BY <1>1 DEF Filed
    <3>. QED
      BY <2>2, <3>2, <3>3
  <2>5. CASE WriteControl
    <3>1. CASE RefuseCall
      BY <2>2, <3>1 DEF RefuseCall, Done
    <3>2. CASE CreateTemp(job.path, job.prov, job.entries)
      <4>1. step = "create" /\ job'.path = job.path /\ job'.entries = job.entries
        BY <2>5, <3>2 DEF WriteControl, CreateTemp
      <4>. QED
        BY <1>0, <2>2, <4>1 DEF AccountInv
    <3>. QED
      BY <2>5, <3>1, <3>2 DEF WriteControl
  <2>. QED
    BY <1>0, <1>5, <2>3, <2>4, <2>5 DEF ManagerStep
<1>. QED
  BY <1>4, <1>5

\* Finalize starts when every unit is accounted for.
LEMMA AccountFinalize ==
  ASSUME MT, SealInv, AccountInv, Keeps, StartFinalize
  PROVE  AccountInv'
<1>1. /\ pc = "epilogue" /\ pc' = "finalizing" /\ manifest' = manifest
      /\ step' # "idle" => job'.path = IndexFile
  BY DEF StartFinalize, Ready, Goto, Finalize, BeginFinalize, FinalizeFails, TouchStream,
         storage, Done
<1>2. \A u \in Wanted : OnRecord(u) /\ Filed(u)
  BY <1>1 DEF AccountInv, Gathers, Looping, Left
<1>3. \A u \in Wanted' : OnRecord(u)' /\ Filed(u)'
  BY <1>2, AccountKept
<1>4. SealedRunIsComplete'
  BY <1>1, SealedKept DEF AccountInv
<1>. QED
  BY <1>1, <1>3, <1>4, ControlDistinct DEF AccountInv, Gathers, Looping, Closing

\* Every step keeps the account of the units of the command line.
LEMMA AccountStep ==
  ASSUME Mode = "dual"
  PROVE  TypeOK /\ UnitAtWork /\ SealInv /\ ProvInv /\ AccountInv /\ [Next]_vars => AccountInv'
<1>. SUFFICES ASSUME MT, Program, Package, UnitAtWork, SealInv, ProvInv, AccountInv, [Next]_vars
              PROVE  AccountInv'
  BY TypeParts
<1>1. CASE Launch
  BY <1>1, AccountLaunch
<1>2. CASE UNCHANGED vars
  BY <1>2 DEF vars, mvars, storage, memory, program, AccountInv, Looping, Closing, OnRecord,
              Filed, Left, Outcome, Wanted, SealedRunIsComplete, Who, Gathers
<1>3. CASE Next /\ ~Launch
  <2>0. Keeps /\ Looping
    BY <1>3, KeepsAll DEF AccountInv
  <2>1. CASE ScriptCall
    <3>1. /\ pc \in Gathers /\ pc' = pc /\ pc # "loop" /\ UNCHANGED <<units, manifest>>
      <4>1. PICK c : Make(c)
        BY <2>1 DEF ScriptCall
      <4>. QED
        BY <2>1, <4>1 DEF ScriptCall, Checked, Ignored, Gathers, Make, AppendRecord, Write,
                          Grow, RefuseCall, CreateTemp, storage
    <3>2. Closing'
      BY <2>0, <2>1, <3>1, ClosingCall DEF Looping, Closing
    <3>3. Looping'
      BY <2>0, <3>1, <3>2 DEF Looping, Who
    <3>. QED
      BY <2>0, <3>1, <3>3, AccountGather DEF Left
  <2>2. CASE BodyCall
    <3>1. /\ pc = "body" /\ pc' = pc /\ UNCHANGED <<units, manifest>>
      BY <2>2 DEF BodyCall, AppendRecord, Write, Grow, RefuseCall, CreateTemp, storage
    <3>2. Looping'
      BY <2>0, <3>1 DEF Looping, Closing, Who
    <3>. QED
      BY <2>0, <3>1, <3>2, AccountGather DEF Left, Gathers
  <2>3. CASE ManagerWorks
    <3>1. pc \in Gathers \union {"finalizing"} /\ UNCHANGED <<pc, units>> /\ step # "idle"
      BY <2>3 DEF ManagerWorks, ManagerStep, PublishTemp, DiscardTemp, RegisterArtifact,
                  RegisterFails, SealManifest, SealFails, WriteControl, SealInv, Settled, program
    <3>2. CASE pc \in Gathers
      <4>1. job.path # ManifestFile
        BY <3>1, <3>2, ControlDistinct DEF SealInv, Gathering
      <4>2. manifest' = manifest
        BY <2>3, <4>1 DEF ManagerWorks, ManagerStep, PublishTemp, DiscardTemp, RegisterArtifact,
                          RegisterFails, RefuseCall, SealManifest, SealFails, WriteControl,
                          CreateTemp, storage
      <4>3. Closing'
        BY <2>0, <2>3, <3>1, ClosingWork DEF Looping, Closing
      <4>4. Looping'
        BY <2>0, <3>1, <4>3 DEF Looping, Who
      <4>. QED
        BY <2>0, <3>1, <3>2, <4>2, <4>4, AccountGather DEF Left
    <3>3. CASE pc = "finalizing"
      BY <2>0, <2>3, <3>3, AccountFinalizing
    <3>. QED
      BY <3>1, <3>2, <3>3
  <2>4. CASE \/ BeginLoop \/ SkipUnit \/ NextUnit \/ EnterBody \/ CloseUnit \/ EndLoop
             \/ BodyReturnsNil \/ BodyReturnsError \/ BodyBlocks \/ DeadlineUnblocks
    <3>1. pc \in Gathers /\ pc' \in Gathers /\ UNCHANGED manifest
      BY <2>4 DEF BeginLoop, SkipUnit, NextUnit, EnterBody, CloseUnit, EndLoop,
                  BodyReturnsNil, BodyReturnsError, BodyBlocks, DeadlineUnblocks, Ready, Goto,
                  Gathers, mvars, storage
    <3>2. Looping'
      BY <2>0, <2>4, LoopingMove
    <3>3. \A u \in Wanted : Left(u) => Left(u)' \/ (OnRecord(u) /\ Filed(u))
      BY <2>0, <2>4, MoveLeaves
    <3>. QED
      BY <2>0, <3>1, <3>2, <3>3, AccountGather
  <2>5. CASE StartFinalize
    BY <2>0, <2>5, AccountFinalize
  <2>6. CASE Crash \/ GivesUp \/ StartArchive \/ PackTree \/ StartSummary \/ PublishSummary
             \/ PackingFails
    <3>1. /\ UNCHANGED manifest /\ pc' \in {"exited", "archive", "packed", "summary"}
      BY <2>6 DEF Crash, GivesUp, ReturnError, Abandon, StartArchive, PackTree, StartSummary,
                  PublishSummary, PackingFails, Stop, Goto, mvars, storage
    <3>2. SealedRunIsComplete'
      BY <2>0, <3>1, SealedKept DEF AccountInv
    <3>. QED
      BY <3>1, <3>2 DEF AccountInv, Looping, Closing, Gathers
  <2>7. CASE Expire
    BY <2>7 DEF Expire, mvars, storage, memory, program, AccountInv, Looping, Closing, OnRecord,
                Filed, Left, Outcome, Wanted, SealedRunIsComplete, Who, Gathers
  <2>. QED
    BY <1>3, <2>1, <2>2, <2>3, <2>4, <2>5, <2>6, <2>7 DEF Next, Progress, GivesUp
<1>. QED
  BY <1>1, <1>2, <1>3

\* Before the first run nobody is owed an account.
LEMMA AccountInit == Init => AccountInv
BY DEF Init, ManagerInit, AccountInv, Looping, Closing, Gathers, SealedRunIsComplete

\* Nothing skipped silently (Run's loop): in the mode in which Run opens its
\* manager, a sealed session has accounted for every unit of its command line,
\* by a line in its stream and by a status file that its manifest lists.
THEOREM SealedRunAccountsForAll ==
  ASSUME Mode = "dual"
  PROVE  Spec => []SealedRunIsComplete
<1>1. AccountInv => SealedRunIsComplete
  BY DEF AccountInv
<1>2. TypeOK /\ UnitAtWork /\ SealInv /\ ProvInv /\ AccountInv /\ [Next]_vars => AccountInv'
  BY AccountStep
<1>. QED
  BY <1>1, <1>2, TypeCorrect, SealInit, SealStep, ProvInit, ProvStep, AccountInit, PTL DEF Spec

----------------------------------------------------------------------------
(* The run implements the abstract package.                                *)

\* What the refinement mapping needs to know of a state.
MappedInv == TypeOK /\ UnitAtWork /\ SealInv /\ DeliverInv

----------------------------------------------------------------------------
(* The mapping.                                                            *)

\* Where the run is says where its package is, except while Finalize works.
MappedState ==
  /\ pc = "down" => PackageState = "empty"
  /\ pc = "exited" /\ exit = "ok" => PackageState = "delivered"
  /\ pc = "exited" /\ exit # "ok" => PackageState = "abandoned"
  /\ pc \in Gathers => PackageState = "gathering"
  /\ pc = "finalizing" /\ manifest.sess # run => PackageState = "gathering"
  /\ pc = "finalizing" /\ manifest.sess = run => PackageState = "sealed"
  /\ pc = "archive" => PackageState = "sealed"
  /\ pc \in {"packed", "summary"} => PackageState = "packed"

\* The phases of the program map to the states of the package one by one.
LEMMA StateOf == MappedInv => MappedState
<1>. SUFFICES ASSUME MT, Program, Package, SealInv, DeliverInv PROVE MappedState
  BY TypeParts DEF MappedInv
<1>1. /\ run \in Nat /\ manifest.sess \in Nat /\ archive.sess \in Nat
      /\ pc \in Gathers => manifest.sess < run
      /\ pc \in Gathers \union {"finalizing", "archive"} => archive.sess < run
      /\ pc \in {"archive", "packed", "summary"} => manifest.sess = run
      /\ pc \in {"packed", "summary"} => archive.sess = run
  BY DEF MT, ManagerTypeOK, Document, Package, SealInv, Gathering, Unsealed, DeliverInv,
         ManifestInPlace, TarballInPlace
<1>. QED
  BY <1>1 DEF MappedState, PackageState, Running, Gathers

\* The same of the state a step leads to.
LEMMA StateOfNext == MappedInv' => MappedState'
BY StateOf, PTL

\* The package changes with the root and the tarball only.
Quiet == UNCHANGED <<disk, manifest, archive>>

\* A step that leaves the root and the tarball alone leaves the package's files alone.
LEMMA QuietFiles ==
  ASSUME Quiet
  PROVE  UNCHANGED <<Restrict2File(disk), Restrict2File(manifest.entries),
                     Restrict2File(archive.holds)>>
BY DEF Quiet, Restrict2File

\* A step that writes one file, the manifest apart, gathers evidence.
LEMMA GatherFile ==
  ASSUME MT, NEW f \in File, disk' = [disk EXCEPT ![f] = @ + 1],
         UNCHANGED <<manifest, archive>>,
         PackageState = "gathering", PackageState' = "gathering"
  PROVE  EP!Gather
<1>1. Restrict2File(disk)' = [Restrict2File(disk) EXCEPT ![f] = @ + 1]
  BY DEF Restrict2File, File, MT, ManagerTypeOK
<1>. QED
  BY <1>1 DEF EP!Gather, Restrict2File

\* The files the manager writes are those of the package, its manifest apart.
LEMMA FileParts ==
  /\ Stream \in File /\ IndexFile \in File /\ ClientPath \subseteq File /\ ManifestFile \notin File
  /\ \A p \in Path : p # ManifestFile => p \in File
BY ControlDistinct DEF File

----------------------------------------------------------------------------
(* The steps.                                                              *)

\* Two mapped states with the same files and the same phase are the same package.
LEMMA Stutters ==
  ASSUME Quiet, PackageState' = PackageState
  PROVE  UNCHANGED EP!evars
BY QuietFiles DEF EP!evars

\* A call that gathers evidence changes at most the stream.
LEMMA MappedCall ==
  ASSUME MT, Calls, PackageState = "gathering", PackageState' = "gathering"
  PROVE  [EP!Next]_(EP!evars)
<1>1. UNCHANGED archive
  BY DEF Calls, package
<1>2. CASE \E p \in ClientPath, v \in Claim : Write(p, v)
  <2>1. Quiet
    BY <1>1, <1>2 DEF Write, CreateTemp, RefuseCall, storage, Quiet
  <2>. QED
    BY <2>1, Stutters
<1>3. CASE \E r \in Record : AppendRecord(r)
  <2>1. PICK r \in Record : AppendRecord(r)
    BY <1>3
  <2>2. CASE Quiet
    BY <2>2, Stutters
  <2>3. CASE ~Quiet
    <3>1. disk' = [disk EXCEPT ![Stream] = @ + 1] /\ manifest' = manifest
      BY <1>1, <2>1, <2>3 DEF AppendRecord, Grow, RefuseCall, storage, Quiet
    <3>. QED
      BY <1>1, <3>1, GatherFile, FileParts DEF EP!Next
  <2>. QED
    BY <2>2, <2>3
<1>. QED
  BY <1>2, <1>3 DEF Calls

\* The manager's rename gathers a file or seals the package; its other steps
\* change no file.
LEMMA MappedWork ==
  ASSUME MappedInv, MappedInv', ManagerWorks
  PROVE  [EP!Next]_(EP!evars)
<1>0. MT /\ Program /\ Package /\ SealInv /\ MappedState /\ MappedState'
  BY TypeParts, StateOf, StateOfNext DEF MappedInv
<1>1. /\ ManagerStep /\ UNCHANGED <<pc, archive>> /\ run' = run
      /\ pc \in Gathers \union {"finalizing"}
      /\ run \in Nat /\ manifest.sess \in Nat /\ manifest.sess <= run
  BY <1>0 DEF ManagerWorks, ManagerStep, PublishTemp, DiscardTemp, RegisterArtifact,
              RegisterFails, RefuseCall, SealManifest, SealFails, WriteControl, CreateTemp,
              SealInv, Settled, program, package, MT, ManagerTypeOK, Document
<1>2. CASE PublishTemp
  <2>1. job.path \in Path /\ disk' = [disk EXCEPT ![job.path] = @ + 1] /\ step = "temp"
    BY <1>0, <1>2 DEF PublishTemp, MT, ManagerTypeOK, Job
  <2>2. /\ pc = "finalizing" => Unsealed
        /\ pc = "finalizing" /\ job.path = ManifestFile => Matches(job.entries)
        /\ pc \in Gathers => job.path \in ClientPath
        /\ pc \in Gathers => Unsealed
    BY <1>0, <2>1, ControlDistinct
       DEF SealInv, Gathering, Finalizing, WritingIndex, IndexWritten, WritingManifest,
           ManifestWritten
  <2>3. PackageState = "gathering"
    BY <1>0, <1>1, <2>2 DEF MappedState, Unsealed
  <2>4. CASE job.path # ManifestFile
    <3>1. manifest' = manifest
      BY <1>2, <2>4 DEF PublishTemp
    <3>2. PackageState' = "gathering"
      BY <1>0, <1>1, <2>2, <3>1 DEF MappedState, Unsealed
    <3>. QED
      BY <1>0, <1>1, <2>1, <2>3, <2>4, <3>1, <3>2, GatherFile, FileParts DEF EP!Next
  <2>5. CASE job.path = ManifestFile
    <3>1. manifest' = [sess |-> run, entries |-> job.entries] /\ pc = "finalizing"
      BY <1>1, <1>2, <2>2, <2>5, ControlDistinct DEF PublishTemp
    <3>2. PackageState' = "sealed"
      BY <1>0, <1>1, <3>1 DEF MappedState
    <3>3. Restrict2File(disk)' = Restrict2File(disk)
      BY <1>0, <2>1, <2>5 DEF Restrict2File, File, MT, ManagerTypeOK
    <3>4. \A f \in File : job.entries[f] \in {0, disk[f]}
      BY <1>0, <2>2, <2>5, <3>1 DEF Matches, File, MT, ManagerTypeOK, Job
    <3>5. /\ \A f \in File : Restrict2File(manifest.entries)'[f] = job.entries[f]
          /\ \A f \in File : Restrict2File(disk)[f] = disk[f]
          /\ DOMAIN Restrict2File(manifest.entries)' = File
      BY <3>1 DEF Restrict2File, File
    <3>6. UNCHANGED Restrict2File(archive.holds)
      BY <1>1 DEF Restrict2File
    <3>7. EP!Seal
      BY <2>3, <3>2, <3>3, <3>4, <3>5, <3>6 DEF EP!Seal
    <3>. QED
      BY <3>7 DEF EP!Next
  <2>. QED
    BY <2>4, <2>5
<1>3. CASE ~PublishTemp
  <2>1. Quiet
    BY <1>1, <1>3 DEF ManagerStep, DiscardTemp, RegisterArtifact, RegisterFails, RefuseCall,
                      SealManifest, SealFails, WriteControl, CreateTemp, storage, Quiet
  <2>2. PackageState' = PackageState
    BY <1>0, <1>1, <2>1 DEF MappedState, Quiet
  <2>. QED
    BY <2>1, <2>2, Stutters
<1>. QED
  BY <1>2, <1>3

\* The packing takes each file as it was sealed or leaves it out.
LEMMA MappedPack ==
  ASSUME MappedInv, MappedInv', PackTree
  PROVE  EP!Pack
<1>0. MT /\ MappedState /\ MappedState'
  BY TypeParts, StateOf, StateOfNext DEF MappedInv
<1>1. pc = "archive" /\ pc' = "packed" /\ UNCHANGED <<disk, manifest>>
  BY DEF PackTree, Goto, storage
<1>2. PackageState = "sealed" /\ PackageState' = "packed"
  BY <1>0, <1>1 DEF MappedState
<1>3. PICK s : archive'.holds = [p \in Path |-> IF p \in s THEN 0 ELSE disk[p]]
  BY DEF PackTree
<1>4. /\ \A f \in File : Restrict2File(archive.holds)'[f] \in {0, Restrict2File(disk)[f]}
      /\ DOMAIN Restrict2File(archive.holds)' = File
  BY <1>3 DEF Restrict2File, File
<1>5. UNCHANGED <<Restrict2File(disk), Restrict2File(manifest.entries)>>
  BY <1>1 DEF Restrict2File
<1>. QED
  BY <1>2, <1>4, <1>5 DEF EP!Pack

\* Finalize touches the stream before it seals anything.
LEMMA MappedFinalize ==
  ASSUME MappedInv, MappedInv', StartFinalize
  PROVE  [EP!Next]_(EP!evars)
<1>0. MT /\ SealInv /\ MappedState /\ MappedState'
  BY TypeParts, StateOf, StateOfNext DEF MappedInv
<1>1. /\ pc = "epilogue" /\ pc' = "finalizing" /\ UNCHANGED <<run, manifest, archive>>
      /\ disk' \in {disk, Touched}
  BY DEF StartFinalize, Ready, Goto, Finalize, BeginFinalize, FinalizeFails, TouchStream,
         storage, package
<1>2. manifest.sess # run
  BY <1>0, <1>1 DEF SealInv, Gathering, Gathers, Unsealed, MT, ManagerTypeOK, Document
<1>3. PackageState = "gathering" /\ PackageState' = "gathering"
  BY <1>0, <1>1, <1>2 DEF MappedState, Gathers
<1>4. CASE disk' = disk
  BY <1>1, <1>3, <1>4, Stutters DEF Quiet
<1>5. CASE disk' = Touched /\ disk' # disk
  <2>1. disk[Stream] = 0
    BY <1>0, <1>5, ControlDistinct DEF Touched, MT, ManagerTypeOK
  <2>2. disk' = [disk EXCEPT ![Stream] = @ + 1]
    BY <1>0, <1>5, <2>1, ControlDistinct DEF Touched, MT, ManagerTypeOK
  <2>. QED
    BY <1>0, <1>1, <1>3, <2>2, GatherFile, FileParts DEF EP!Next
<1>. QED
  BY <1>1, <1>4, <1>5

\* Every step of the program is a step of its package or no step of it.
LEMMA MappedStep ==
  MappedInv /\ MappedInv' /\ [Next]_vars => [EP!Next]_(EP!evars)
<1>. SUFFICES ASSUME MappedInv, MappedInv', [Next]_vars PROVE [EP!Next]_(EP!evars)
  OBVIOUS
<1>0. MT /\ Program /\ Package /\ SealInv /\ DeliverInv /\ MappedState /\ MappedState'
  BY TypeParts, StateOf, StateOfNext DEF MappedInv
<1>1. CASE Launch
  <2>1. /\ pc \in {"down", "exited"} /\ Quiet /\ pc' \in {"prologue", "exited"}
        /\ pc' = "exited" => exit' # "ok"
    BY <1>1 DEF Launch, NewManager, storage, package, Quiet, Running
  <2>2. /\ PackageState \in {"empty", "delivered", "abandoned"}
        /\ PackageState' \in {"gathering", "abandoned"}
    BY <1>0, <2>1 DEF MappedState, Gathers
  <2>. QED
    BY <2>1, <2>2, QuietFiles DEF EP!Next, EP!Begin
<1>2. CASE Crash \/ GivesUp \/ PackingFails
  <2>1. /\ pc \notin {"down", "exited"} /\ pc' = "exited" /\ exit' # "ok" /\ Quiet
    BY <1>2 DEF Crash, GivesUp, ReturnError, Abandon, PackingFails, Stop, Running, Checked, mvars,
                storage, package, Quiet
  <2>2. pc \in Gathers \union {"finalizing", "archive", "packed", "summary"}
    BY <1>0, <2>1 DEF Program, Gathers
  <2>3. PackageState \in {"gathering", "sealed", "packed"} /\ PackageState' = "abandoned"
    BY <1>0, <2>1, <2>2 DEF MappedState
  <2>. QED
    BY <2>1, <2>3, QuietFiles DEF EP!Next, EP!Abandon
<1>3. CASE Calls
  <2>1. PackageState = "gathering" /\ PackageState' = "gathering"
    BY <1>0, <1>3 DEF Calls, MappedState
  <2>. QED
    BY <1>0, <1>3, <2>1, MappedCall
<1>4. CASE ManagerWorks
  BY <1>4, MappedWork
<1>5. CASE Moves
  <2>1. PackageState' = PackageState /\ Quiet
    BY <1>0, <1>5 DEF Moves, MappedState, Quiet, storage, package
  <2>. QED
    BY <2>1, Stutters
<1>6. CASE StartFinalize
  BY <1>6, MappedFinalize
<1>7. CASE StartArchive
  <2>1. /\ pc = "finalizing" /\ pc' = "archive" /\ step = "idle" /\ ret = "ok"
        /\ Quiet
    BY <1>7 DEF StartArchive, Ready, Goto, mvars, storage, package, Quiet
  <2>2. PackageState' = PackageState
    BY <1>0, <2>1 DEF MappedState, DeliverInv, ManifestInPlace
  <2>. QED
    BY <2>1, <2>2, Stutters
<1>8. CASE PackTree
  BY <1>8, MappedPack DEF EP!Next
<1>9. CASE StartSummary
  <2>1. PackageState' = PackageState /\ Quiet
    BY <1>0, <1>9 DEF StartSummary, Goto, mvars, storage, MappedState, Quiet
  <2>. QED
    BY <2>1, Stutters
<1>10. CASE PublishSummary
  <2>1. pc = "summary" /\ pc' = "exited" /\ exit' = "ok" /\ Quiet
    BY <1>10 DEF PublishSummary, Stop, mvars, storage, Quiet
  <2>2. PackageState = "packed" /\ PackageState' = "delivered"
    BY <1>0, <2>1 DEF MappedState
  <2>. QED
    BY <2>1, <2>2, QuietFiles DEF EP!Next, EP!Deliver
<1>11. CASE Expire \/ UNCHANGED vars
  <2>1. UNCHANGED <<pc, exit, run, disk, manifest, archive>>
    BY <1>11 DEF Expire, vars, mvars, storage, program, package
  <2>2. PackageState' = PackageState
    BY <2>1 DEF PackageState, Running
  <2>. QED
    BY <2>1, <2>2, Stutters DEF Quiet
<1>. QED
  BY <1>0, <1>1, <1>2, <1>3, <1>4, <1>5, <1>6, <1>7, <1>8, <1>9, <1>10, <1>11, Shapes

\* Before the first run there is no package.
LEMMA MappedInit == Init => EP!Init
<1>. SUFFICES ASSUME Init PROVE EP!Init
  OBVIOUS
<1>1. /\ disk = NoEntries /\ manifest.entries = NoEntries /\ archive.holds = NoEntries
      /\ pc = "down"
  BY DEF Init, ManagerInit, NoDocument, NoArchive
<1>2. Restrict2File(NoEntries) = EP!Nothing
  BY DEF Restrict2File, NoEntries, EP!Nothing, File
<1>3. PackageState = "empty"
  BY <1>1 DEF PackageState, Running
<1>. QED
  BY <1>1, <1>2, <1>3 DEF EP!Init

\* Refinement (Run): in a mode that writes a manifest, whatever calls fail and
\* wherever the process is killed, the package of a run is gathered one file at
\* a time, sealed once with the files it then has, packed as it was sealed, and
\* delivered or abandoned; nothing changes a sealed package but another run.
THEOREM PackageIsImplemented ==
  ASSUME Mode # "legacy"
  PROVE  Spec => ImplementsPackage
<1>1. Spec => []MappedInv
  BY Delivered DEF MappedInv
<1>. QED
  BY <1>1, MappedStep, MappedInit, PTL DEF Spec, ImplementsPackage, EP!Spec
=============================================================================
