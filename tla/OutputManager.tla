--------------------------- MODULE OutputManager ---------------------------
(***************************************************************************)
(* The output manager (internal/output): the only writer of an output      *)
(* root.  It publishes files by writing a temporary sibling and renaming   *)
(* it, registers what it published in an in-memory artifact table, appends *)
(* records to one evidence stream, and finally seals the session with an   *)
(* artifact index and a manifest that carry the hash of every artifact.    *)
(*                                                                         *)
(* The content of a file is a version number: equal versions stand for     *)
(* equal bytes, hence for equal hashes, and 0 for a file that is absent.   *)
(* Every system call that can fail may do so while faults < MaxFaults.     *)
(* The caller sees the outcome of its last call in ret and may ignore it.  *)
(***************************************************************************)
EXTENDS Integers, Sequences, FiniteSets

CONSTANTS
  Mode,        \* "dual", "ai" or "legacy" (manager.go Mode)
  LegacyPath,  \* the files below legacy/ that callers write
  RawPath,     \* the files below ai/raw/ that callers write
  Prov,        \* the provenances callers give: [source, type, trust]
  MaxFaults    \* bound on the number of failing system calls

Stream       == "ai/evidence.jsonl"
IndexFile    == "ai/artifact_index.json"
ManifestFile == "ai/manifest.json"
Control      == {Stream, IndexFile, ManifestFile}
ClientPath   == LegacyPath \union RawPath
Path         == ClientPath \union Control

\* What a caller can say of the origin of a file.
Source == {v.source : v \in Prov} \union Path
          \union {"none", "generated", "multiple", "artifact_index.json", "manifest.json"}
Type   == {v.type : v \in Prov} \union {"none", "generated"}
Trust  == {v.trust : v \in Prov} \union {"none", "high", "medium"}
Claim  == [source : Source, type : Type, trust : Trust]

ASSUME ModeAssumption == Mode \in {"dual", "ai", "legacy"}
ASSUME PathAssumption == /\ LegacyPath \intersect RawPath = {}
                         /\ ClientPath \intersect Control = {}
ASSUME ProvAssumption == Prov \subseteq Claim
ASSUME FaultAssumption == MaxFaults \in Nat

VARIABLES
  run,          \* number of the session that owns the root, 0 before the first
  disk,         \* Path -> version of the published file, 0 when absent
  origin,       \* Path -> the session that last changed it (history)
  lines,        \* the records of the evidence stream, in file order
  index,        \* the decoded artifact_index.json: [sess, entries]
  manifest,     \* the decoded manifest.json: [sess, entries]
  temps,        \* temporary files present: <<session, path they stand for>>
  regs,         \* m.artifacts: Path -> [ver, source, type, trust], ver 0 = no entry
  step,         \* where the manager is inside a call, "idle" between calls
  job,          \* the argument of the call in progress
  ret,          \* the result of the last call, "ok" or "err"
  faults,       \* system calls that failed so far
  writers,      \* Path -> provenances registered for it in this session (history)
  unregistered  \* paths published but not registered in this session (history)

storage    == <<disk, origin, lines, index, manifest, temps>>
memory     == <<regs, step, job, ret>>
history    == <<writers, unregistered>>
mvars      == <<run, storage, memory, faults, history>>

----------------------------------------------------------------------------
NoEntries  == [p \in Path |-> 0]
NoDocument == [sess |-> 0, entries |-> NoEntries]
NoArtifact == [ver |-> 0, source |-> "none", type |-> "none", trust |-> "none"]
Generated(s) == [source |-> s, type |-> "generated", trust |-> "high"]
NoJob      == [path |-> Stream, prov |-> Generated("generated"), entries |-> NoEntries]

\* A call for the half of the tree the mode does not produce returns nil at once.
Suppressed(p) == \/ Mode = "ai" /\ p \in LegacyPath
                 \/ Mode = "legacy" /\ p \notin LegacyPath

\* Bug: the entry is overwritten by the latest claim.
MergeForgets(old, prov, v) ==
  [ver |-> v, source |-> prov.source, type |-> prov.type, trust |-> prov.trust]

\* registerArtifact: a second writer of a path degrades what the entry claims.
Merge(old, prov, v) ==
  IF old.ver = 0
  THEN [ver |-> v, source |-> prov.source, type |-> prov.type, trust |-> prov.trust]
  ELSE [ver    |-> v,
        source |-> IF old.source = prov.source THEN prov.source ELSE "multiple",
        type   |-> IF old.type = prov.type THEN prov.type ELSE "generated",
        trust  |-> IF old.trust = prov.trust THEN prov.trust ELSE "medium"]

\* refreshArtifactHashes: re-read the files of S that have an entry in R.
Refresh(R, S, D) ==
  [p \in Path |-> IF p \in S /\ R[p].ver > 0 THEN [R[p] EXCEPT !.ver = D[p]] ELSE R[p]]

\* sortedArtifacts: the snapshot a control document carries, 0 = not listed.
Entries(R) == [p \in Path |-> R[p].ver]

Text == {"whole", "torn", "glued"}

\* A line written after an unterminated one continues it and cannot be parsed.
TextOf(q) == IF q # <<>> /\ q[Len(q)].text = "torn" THEN "glued" ELSE "whole"

----------------------------------------------------------------------------
ManagerInit ==
  /\ run = 0
  /\ disk = NoEntries
  /\ origin = NoEntries
  /\ lines = <<>>
  /\ index = NoDocument
  /\ manifest = NoDocument
  /\ temps = {}
  /\ regs = [p \in Path |-> NoArtifact]
  /\ step = "idle"
  /\ job = NoJob
  /\ ret = "ok"
  /\ faults = 0
  /\ writers = [p \in Path |-> {}]
  /\ unregistered = {}

\* Bug: the table of the previous session is carried over.
NewManagerKeepsTable ==
  /\ run' = run + 1
  /\ step' = "idle" /\ job' = NoJob /\ ret' = "ok"
  /\ writers' = [p \in Path |-> {}]
  /\ unregistered' = {}
  /\ UNCHANGED <<storage, regs>>

\* New: the root is reused as it is, the artifact table starts empty.
NewManager ==
  /\ run' = run + 1
  /\ regs' = [p \in Path |-> NoArtifact]
  /\ step' = "idle"
  /\ job' = NoJob
  /\ ret' = "ok"
  /\ writers' = [p \in Path |-> {}]
  /\ unregistered' = {}
  /\ UNCHANGED storage

Fault == faults < MaxFaults /\ faults' = faults + 1

\* The call in progress returns.
Done(result) == step' = "idle" /\ job' = NoJob /\ ret' = result

----------------------------------------------------------------------------
(* writeArtifact: mkdir, lstat, create the temporary file, write, rename,  *)
(* hash and register.                                                      *)

CreateTemp(p, prov, entries) ==
  /\ temps' = temps \union {<<run, p>>}
  /\ step' = "temp"
  /\ job' = [path |-> p, prov |-> prov, entries |-> entries]
  /\ UNCHANGED <<run, disk, origin, lines, index, manifest, regs, ret, faults, history>>

RefuseCall ==
  /\ Fault
  /\ Done("err")
  /\ UNCHANGED <<run, storage, regs, history>>

\* WriteLegacy, WriteLegacyFromSource and WriteAIFromSource.
Write(p, prov) ==
  /\ step = "idle"
  /\ IF Suppressed(p)
     THEN Done("ok") /\ UNCHANGED <<run, storage, regs, faults, history>>
     ELSE CreateTemp(p, prov, NoEntries) \/ RefuseCall

\* The rename makes the new content visible in one step.
PublishTemp ==
  /\ step = "temp"
  /\ temps' = temps \ {<<run, job.path>>}
  /\ disk' = [disk EXCEPT ![job.path] = @ + 1]
  /\ origin' = [origin EXCEPT ![job.path] = run]
  /\ index' = IF job.path = IndexFile THEN [sess |-> run, entries |-> job.entries] ELSE index
  /\ manifest' = IF job.path = ManifestFile THEN [sess |-> run, entries |-> job.entries]
                                            ELSE manifest
  /\ unregistered' = unregistered \union {job.path}
  /\ step' = "renamed"
  /\ UNCHANGED <<run, lines, regs, job, ret, faults, writers>>

\* Bug: a failed write leaves its temporary file behind.
DiscardNothing ==
  /\ step = "temp"
  /\ Fault
  /\ Done("err")
  /\ UNCHANGED <<run, storage, regs, history>>

\* Write, chmod, close or rename fails: the temporary file is removed.
DiscardTemp ==
  /\ step = "temp"
  /\ Fault
  /\ temps' = temps \ {<<run, job.path>>}
  /\ Done("err")
  /\ UNCHANGED <<run, disk, origin, lines, index, manifest, regs, history>>

\* Finalize goes on after its index; every other write returns here.
RegisterArtifact ==
  /\ step = "renamed"
  /\ regs' = [regs EXCEPT ![job.path] = Merge(@, job.prov, disk[job.path])]
  /\ writers' = [writers EXCEPT ![job.path] = @ \union {job.prov}]
  /\ unregistered' = unregistered \ {job.path}
  /\ IF job.path = IndexFile
     THEN step' = "seal" /\ job' = NoJob /\ UNCHANGED ret
     ELSE Done("ok")
  /\ UNCHANGED <<run, storage, faults>>

\* The file is in place but hashing it fails: it stays out of the table.
RegisterFails == step = "renamed" /\ RefuseCall

----------------------------------------------------------------------------
(* appendEvidenceRecord and appendJSONL: open with O_APPEND and one write. *)

Grow(rec, text) ==
  /\ lines' = Append(lines, [sess |-> run, rec |-> rec, text |-> text])
  /\ disk' = [disk EXCEPT ![Stream] = @ + 1]
  /\ origin' = [origin EXCEPT ![Stream] = run]
  /\ UNCHANGED <<run, index, manifest, temps, regs, history>>

AppendRecord(rec) ==
  /\ step = "idle"
  /\ IF Suppressed(Stream)
     THEN Done("ok") /\ UNCHANGED <<run, storage, regs, faults, history>>
     ELSE \/ Grow(rec, TextOf(lines)) /\ Done("ok") /\ UNCHANGED faults
          \/ Fault /\ Grow(rec, "torn") /\ Done("err")  \* a short write
          \/ RefuseCall

----------------------------------------------------------------------------
(* Finalize: touch and register the stream, refresh every hash, write the  *)
(* index, refresh again, write the manifest.                               *)

Touched == [disk EXCEPT ![Stream] = IF @ = 0 THEN 1 ELSE @]

TouchStream ==
  /\ disk' = Touched
  /\ origin' = [origin EXCEPT ![Stream] = IF disk[Stream] = 0 THEN run ELSE @]
  /\ UNCHANGED <<lines, index, manifest, temps>>

\* Bug: the stream is left out of the table.
StreamForgotten == regs

StreamRegistered ==
  [regs EXCEPT ![Stream] = Merge(@, Generated("generated"), Touched[Stream])]

BeginFinalize ==
  /\ step = "idle"
  /\ TouchStream
  /\ regs' = Refresh(StreamRegistered, Path, Touched)
  /\ writers' = [writers EXCEPT ![Stream] = @ \union {Generated("generated")}]
  /\ IF Mode = "legacy"
     THEN Done("ok")
     ELSE /\ step' = "create"
          /\ job' = [path |-> IndexFile, prov |-> Generated("artifact_index.json"),
                     entries |-> Entries(regs')]
          /\ UNCHANGED ret
  /\ UNCHANGED <<run, faults, unregistered>>

\* The table is a Go map: an error leaves an arbitrary part of it refreshed.
RefreshFails(R) ==
  \E S \in SUBSET {p \in Path : R[p].ver > 0} : regs' = Refresh(R, S, disk')

FinalizeFails ==
  /\ step = "idle"
  /\ Fault
  /\ Done("err")
  /\ \/ UNCHANGED <<storage, regs, writers>>
     \/ TouchStream /\ UNCHANGED <<regs, writers>>
     \/ /\ TouchStream
        /\ RefreshFails(StreamRegistered)
        /\ writers' = [writers EXCEPT ![Stream] = @ \union {Generated("generated")}]
  /\ UNCHANGED <<run, unregistered>>

Finalize == BeginFinalize \/ FinalizeFails

SealFails ==
  /\ step = "seal"
  /\ Fault
  /\ Done("err")
  /\ UNCHANGED <<run, storage, history>>
  /\ RefreshFails(regs)

SealManifest ==
  /\ step = "seal"
  /\ regs' = Refresh(regs, Path, disk)
  /\ step' = "create"
  /\ job' = [path |-> ManifestFile, prov |-> Generated("manifest.json"),
             entries |-> Entries(regs')]
  /\ UNCHANGED <<run, storage, ret, faults, history>>

\* WriteAIJSON of the index or of the manifest.
WriteControl ==
  /\ step = "create"
  /\ CreateTemp(job.path, job.prov, job.entries) \/ RefuseCall

\* The steps the manager takes by itself once a call has begun.
ManagerStep == \/ PublishTemp
               \/ DiscardTemp
               \/ RegisterArtifact
               \/ RegisterFails
               \/ SealManifest
               \/ SealFails
               \/ WriteControl

----------------------------------------------------------------------------
Document == [sess : Nat, entries : [Path -> Nat]]
Artifact == [ver : Nat, source : Source, type : Type, trust : Trust]
Job      == [path : Path, prov : Claim, entries : [Path -> Nat]]
Line(Rec) == [sess : Nat, rec : Rec, text : Text]

ManagerTypeOK(Rec) ==
  /\ run \in Nat
  /\ disk \in [Path -> Nat]
  /\ origin \in [Path -> Nat]
  /\ lines \in Seq(Line(Rec))
  /\ index \in Document
  /\ manifest \in Document
  /\ temps \subseteq Nat \X Path
  /\ regs \in [Path -> Artifact]
  /\ step \in {"idle", "temp", "renamed", "create", "seal"}
  /\ job \in Job
  /\ ret \in {"ok", "err"}
  /\ faults \in 0 .. MaxFaults
  /\ writers \in [Path -> SUBSET Claim]
  /\ unregistered \subseteq Path

\* Provenance honesty (registerArtifact's merge): an entry names one source,
\* a type other than "generated", or a trust other than "medium" only when
\* every registration of the path in this session named exactly that.
ProvenanceHonest ==
  \A p \in Path : regs[p].ver > 0 =>
    \A w \in writers[p] : /\ regs[p].source \in {w.source, "multiple"}
                          /\ regs[p].type \in {w.type, "generated"}
                          /\ regs[p].trust \in {w.trust, "medium"}

\* Seal accuracy (Finalize): as long as the session that wrote the manifest
\* owns the root, the hash of every file the manifest and the index list is
\* the hash of the file on disk, whatever calls failed before the seal.
SealedManifestMatches ==
  manifest.sess = run =>
    \A p \in Path : /\ manifest.entries[p] > 0 => disk[p] = manifest.entries[p]
                    /\ index.entries[p] > 0 => disk[p] = index.entries[p]

\* Seal completeness (Finalize): every file this session changed is listed,
\* except the manifest itself and files whose registration failed.
SealedManifestComplete ==
  (manifest.sess = run /\ run > 0) =>
    \A p \in Path \ (unregistered \union {ManifestFile}) :
      origin[p] = run => manifest.entries[p] > 0
=============================================================================
