--------------------------- MODULE CollectionRun ---------------------------
(***************************************************************************)
(* One run of the collector (internal/app Run) on top of the output        *)
(* manager, and the runs that follow it in the same output root.           *)
(*                                                                         *)
(* A run is a fixed script of manager calls around the bodies of its       *)
(* collectors.  A body may make any manager call, may ignore the result of *)
(* a call, may return nil or an error at any point, and may block inside a *)
(* native command.  The script returns on the first error.  The process    *)
(* may be killed at any point.                                             *)
(***************************************************************************)
EXTENDS OutputManager

CONSTANTS
  Collector,    \* the names a profile may list
  Registered,   \* those collectors.Registry knows
  Undying,      \* those whose native commands do not take the run's context
  StatusPath,   \* collector or scanner -> its collector_status/<name>.out
  MissingPath,  \* command_not_found.out
  SummaryPath,  \* SUMMARY
  Configs,      \* the command lines: [profile, scan, timeout]
  MaxOps,       \* bound on the manager calls one body makes
  MaxRuns       \* bound on the runs in one root

\* The scanner phase that --scan asks for; the collector name "scanner" of a
\* profile is passed over.
ScannerPhase == "--scan"
Unit == Collector \union {ScannerPhase}

ASSUME UnitAssumption == /\ Registered \subseteq Collector
                         /\ ScannerPhase \notin Collector
                         /\ {"session", "scanner"} \intersect Registered = {}
                         /\ StatusPath \in [Unit -> LegacyPath]
                         /\ {MissingPath, SummaryPath} \subseteq LegacyPath
ASSUME ConfigAssumption ==
  Configs \subseteq [profile : Seq(Collector), scan : BOOLEAN, timeout : BOOLEAN]
ASSUME BoundAssumption == MaxOps \in Nat /\ MaxRuns \in Nat

VARIABLES
  pc,       \* where Run is
  todo,     \* manager calls it still makes before it looks at pc again
  units,    \* collectors and scanner still to run, the current one first
  cfg,      \* the command line of this run
  expired,  \* the deadline of --timeout has passed
  exit,     \* how the last run ended: "none", "ok", "err" or "crash"
  ops,      \* manager calls the current body has made
  archive,  \* <output>.tar.gz
  summary   \* ai/archive_summary.json, which the manager does not know

program == <<pc, todo, units, cfg, expired, exit, ops>>
package == <<archive, summary>>
vars    == <<mvars, program, package>>

----------------------------------------------------------------------------
(* The script: the calls Run makes itself.                                 *)

Event(kind, who) == [kind |-> kind, who |-> who]
LogCall(kind, who) == [call |-> "append", rec |-> Event(kind, who)]
LegacyCall(p) == [call |-> "write", path |-> p]

Prologue == << LogCall("session_start", "session"), LogCall("timeline", "session"),
               LegacyCall(MissingPath), LegacyCall(SummaryPath) >>
Epilogue == << LogCall("session_end", "session"), LogCall("timeline", "session") >>

\* Bug: the scanner's name is added to the list that the loop walks.
AgendaWithName(c) == c.profile \o <<"scanner">>

Agenda(c) == c.profile \o (IF c.scan THEN <<ScannerPhase>> ELSE <<>>)

\* Bodies write below their own names, never over a file of the script.
ScriptPath == {MissingPath, SummaryPath} \union {StatusPath[u] : u \in Unit}
BodyPath   == ClientPath \ ScriptPath

Running  == pc \notin {"down", "exited"}
\* Where Run returns as soon as a call fails, and where it ignores failures.
Checked  == {"prologue", "starting", "closing", "epilogue"}
Ignored  == {"abandon"}
Who      == Head(units)

NoArchive == [sess |-> 0, holds |-> NoEntries, manifest |-> NoDocument,
              skipped |-> {}, summary |-> 0]

Init ==
  /\ ManagerInit
  /\ pc = "down"
  /\ todo = <<>>
  /\ units = <<>>
  /\ cfg \in Configs
  /\ expired = FALSE
  /\ exit = "none"
  /\ ops = 0
  /\ archive = NoArchive
  /\ summary = [sess |-> 0, temps |-> {}]

\* Only the session that owns the root differs from one run to the next.
Stop(result) ==
  /\ pc' = "exited"
  /\ exit' = result
  /\ todo' = <<>>
  /\ units' = <<>>
  /\ ops' = 0
  /\ UNCHANGED <<cfg, expired>>

Goto(next, calls) ==
  /\ pc' = next
  /\ todo' = calls
  /\ UNCHANGED <<cfg, expired, exit>>

----------------------------------------------------------------------------
(* Start, deadline and death of the process.                               *)

Launch ==
  /\ ~Running
  /\ run < MaxRuns
  /\ NewManager
  /\ cfg' \in Configs
  /\ expired' = FALSE
  /\ ops' = 0
  /\ \/ /\ pc' = "prologue"
        /\ todo' = Prologue
        /\ units' = Agenda(cfg')
        /\ exit' = "none"
        /\ UNCHANGED faults
     \/ \* output.New cannot prepare the layout
        /\ Fault
        /\ pc' = "exited"
        /\ todo' = <<>>
        /\ units' = <<>>
        /\ exit' = "err"
  /\ UNCHANGED package

Expire ==
  /\ Running
  /\ cfg.timeout /\ ~expired
  /\ expired' = TRUE
  /\ UNCHANGED <<mvars, pc, todo, units, cfg, exit, ops, package>>

Crash ==
  /\ Running
  /\ Stop("crash")
  /\ step' = "idle" /\ job' = NoJob /\ ret' = "ok"
  /\ UNCHANGED <<run, storage, regs, faults, history, package>>

----------------------------------------------------------------------------
(* Manager calls of the script.                                            *)

Make(c) == \/ c.call = "append" /\ AppendRecord(c.rec)
           \/ c.call = "write" /\ Write(c.path, Generated(c.path))

ScriptCall ==
  /\ pc \in Checked \union Ignored
  /\ todo # <<>>
  /\ pc \in Checked => ret = "ok"
  /\ Make(Head(todo))
  /\ todo' = Tail(todo)
  /\ UNCHANGED <<pc, units, cfg, expired, exit, ops, package>>

ManagerWorks ==
  /\ Running
  /\ ManagerStep
  /\ UNCHANGED <<program, package>>

\* Run returns the error of a checked call; the session is not finalized.
ReturnError ==
  /\ pc \in Checked \union {"finalizing"}
  /\ step = "idle" /\ ret = "err"
  /\ Stop("err")
  /\ UNCHANGED <<mvars, package>>

\* Everything the script had to do at pc is done.
Ready(at) == pc = at /\ todo = <<>> /\ step = "idle" /\ ret = "ok"

SkipUnit ==
  /\ pc = "loop"
  /\ units # <<>>
  /\ Who \in {"session", "scanner"}
  /\ units' = Tail(units)
  /\ UNCHANGED <<mvars, pc, todo, cfg, expired, exit, ops, package>>

\* Bug: a collector nobody implements gets no status file.
NextUnitNoStatus ==
  /\ pc = "loop"
  /\ units # <<>>
  /\ Who \notin {"session", "scanner"}
  /\ IF Who \in Registered \union {ScannerPhase}
     THEN Goto("starting", <<LogCall("start", Who)>>)
     ELSE Goto("closing", <<LogCall("skipped", Who)>>)
  /\ UNCHANGED <<mvars, units, ops, package>>

NextUnit ==
  /\ pc = "loop"
  /\ units # <<>>
  /\ Who \notin {"session", "scanner"}
  /\ IF Who \in Registered \union {ScannerPhase}
     THEN Goto("starting", <<LogCall("start", Who)>>)
     ELSE Goto("closing", <<LogCall("skipped", Who), LegacyCall(StatusPath[Who])>>)
  /\ UNCHANGED <<mvars, units, ops, package>>

BeginLoop ==
  /\ Ready("prologue")
  /\ Goto("loop", <<>>)
  /\ UNCHANGED <<mvars, units, ops, package>>

\* runCtx.Err() is looked at before a collector, not before the scanner.
EnterBody ==
  /\ Ready("starting")
  /\ IF expired /\ Who # ScannerPhase
     THEN Goto("abandon", <<LogCall("error", Who)>>)
     ELSE Goto("body", <<>>)
  /\ ops' = 0
  /\ UNCHANGED <<mvars, units, package>>

CloseUnit ==
  /\ Ready("closing")
  /\ Goto("loop", <<>>)
  /\ units' = Tail(units)
  /\ UNCHANGED <<mvars, ops, package>>

EndLoop ==
  /\ pc = "loop"
  /\ units = <<>>
  /\ Goto("epilogue", Epilogue)
  /\ UNCHANGED <<mvars, units, ops, package>>

----------------------------------------------------------------------------
(* The body of a collector or of the scanner.                              *)

\* The next call may come after a failed one: bodies ignore some errors.
BodyCall ==
  /\ pc = "body"
  /\ ops < MaxOps
  /\ \/ AppendRecord(Event("record", Who))
     \/ \E p \in BodyPath, v \in Prov : Write(p, v)
  /\ ops' = ops + 1
  /\ UNCHANGED <<pc, todo, units, cfg, expired, exit, package>>

BodyReturnsNil ==
  /\ pc = "body"
  /\ step = "idle"
  /\ ret' = "ok"
  /\ Goto("closing", <<LogCall("end", Who), LegacyCall(StatusPath[Who])>>)
  /\ ops' = 0
  /\ UNCHANGED <<run, storage, regs, step, job, faults, history, units, package>>

BodyReturnsError ==
  /\ pc = "body"
  /\ step = "idle"
  /\ Goto("abandon", <<LogCall("error", Who), LegacyCall(StatusPath[Who])>>)
  /\ ops' = 0
  /\ UNCHANGED <<mvars, units, package>>

BodyBlocks ==
  /\ pc = "body"
  /\ step = "idle"
  /\ ops < MaxOps
  /\ ops' = ops + 1
  /\ Goto("hung", <<>>)
  /\ UNCHANGED <<mvars, units, package>>

\* Bug: only the scanner's command is started with the run's context.
DeadlineForScannerOnly ==
  /\ pc = "hung"
  /\ expired
  /\ Who = ScannerPhase
  /\ Goto("body", <<>>)
  /\ UNCHANGED <<mvars, units, ops, package>>

\* exec.CommandContext kills the command; exec.Command knows no deadline.
DeadlineUnblocks ==
  /\ pc = "hung"
  /\ expired
  /\ Who \notin Undying
  /\ Goto("body", <<>>)
  /\ UNCHANGED <<mvars, units, ops, package>>

Abandon ==
  /\ pc = "abandon"
  /\ todo = <<>> /\ step = "idle"
  /\ Stop("err")
  /\ UNCHANGED <<mvars, package>>

----------------------------------------------------------------------------
(* Sealing and packing.                                                    *)

\* Bug: the tree is packed without a manifest of this session.
StartWithoutManifest ==
  /\ Ready("epilogue")
  /\ Goto("archive", <<>>)
  /\ UNCHANGED <<mvars, units, ops, package>>

StartFinalize ==
  /\ Ready("epilogue")
  /\ Finalize
  /\ Goto("finalizing", <<>>)
  /\ UNCHANGED <<units, ops, package>>

\* Bug: the result of Finalize is not looked at.
StartArchiveUnchecked ==
  /\ pc = "finalizing" /\ todo = <<>> /\ step = "idle"
  /\ ret' = "ok"
  /\ Goto("archive", <<>>)
  /\ UNCHANGED <<run, storage, regs, step, job, faults, history, units, ops, package>>

StartArchive ==
  /\ Ready("finalizing")
  /\ Goto("archive", <<>>)
  /\ UNCHANGED <<mvars, units, ops, package>>

\* CreateTarGz walks the root and renames the finished tarball into place.
\* A file that cannot be read is left out and named in the summary.
PackTree ==
  /\ pc = "archive"
  /\ \E s \in {{}} \union {{p} : p \in {q \in Path : disk[q] > 0}} :
       /\ IF s = {} THEN UNCHANGED faults ELSE Fault
       /\ archive' = [sess |-> run,
                      holds |-> [p \in Path |-> IF p \in s THEN 0 ELSE disk[p]],
                      manifest |-> IF ManifestFile \in s THEN NoDocument ELSE manifest,
                      skipped |-> s,
                      summary |-> summary.sess]
  /\ Goto("packed", <<>>)
  /\ UNCHANGED <<run, storage, memory, history, units, ops, summary>>

\* The tarball is hashed, and its summary goes to a temporary file below ai/.
StartSummary ==
  /\ pc = "packed"
  /\ summary' = [summary EXCEPT !.temps = @ \union {run}]
  /\ Goto("summary", <<>>)
  /\ UNCHANGED <<mvars, units, ops, archive>>

PublishSummary ==
  /\ pc = "summary"
  /\ summary' = [sess |-> archive.sess, temps |-> summary.temps \ {run}]
  /\ Stop("ok")
  /\ UNCHANGED <<mvars, archive>>

\* Bug: an error of the packing is swallowed.
PackingFailsQuietly ==
  /\ pc \in {"archive", "packed", "summary"}
  /\ Fault
  /\ summary' = [summary EXCEPT !.temps = @ \ {run}]
  /\ Stop("ok")
  /\ UNCHANGED <<run, storage, memory, history, archive>>

\* No temporary file outlives a failed write, of the tarball or the summary.
PackingFails ==
  /\ pc \in {"archive", "packed", "summary"}
  /\ Fault
  /\ summary' = [summary EXCEPT !.temps = @ \ {run}]
  /\ Stop("err")
  /\ UNCHANGED <<run, storage, memory, history, archive>>

----------------------------------------------------------------------------
\* What the program does by itself, whatever its calls return.
Progress ==
  \/ ScriptCall \/ ManagerWorks \/ ReturnError
  \/ BeginLoop \/ SkipUnit \/ NextUnit \/ EnterBody \/ CloseUnit \/ EndLoop
  \/ BodyCall \/ BodyReturnsNil \/ BodyReturnsError \/ DeadlineUnblocks
  \/ Abandon
  \/ StartFinalize \/ StartArchive \/ PackTree \/ StartSummary
  \/ PublishSummary \/ PackingFails

Next == Launch \/ Expire \/ Crash \/ BodyBlocks \/ Progress

Spec == Init /\ [][Next]_vars

\* The process is scheduled and time passes; nothing makes a command end, a
\* process die or an operator start another run.
FairSpec == Spec /\ WF_vars(Progress) /\ WF_vars(Expire)

----------------------------------------------------------------------------
(* Properties.                                                             *)

Record == [kind : {"session_start", "session_end", "timeline", "start", "end",
                   "skipped", "error", "record"},
           who : Unit \union {"session"}]
Call   == [call : {"append"}, rec : Record] \union [call : {"write"}, path : LegacyPath]

\* Every variable stays in its range, in the manager, the run and the package.
TypeOK ==
  /\ ManagerTypeOK(Record)
  /\ pc \in {"down", "prologue", "loop", "starting", "body", "hung", "closing",
             "abandon", "epilogue", "finalizing", "archive", "packed", "summary",
             "exited"}
  /\ todo \in Seq(Call)
  /\ units \in Seq(Unit)
  /\ cfg \in Configs
  /\ expired \in BOOLEAN
  /\ exit \in {"none", "ok", "err", "crash"}
  /\ ops \in 0 .. MaxOps
  /\ archive \in [sess : Nat, holds : [Path -> Nat], manifest : Document,
                  skipped : SUBSET Path, summary : Nat]
  /\ summary \in [sess : Nat, temps : SUBSET Nat]

\* The units of the command line that the loop does not pass over.
Wanted == {u \in Collector : /\ u \notin {"session", "scanner"}
                             /\ \E k \in 1 .. Len(cfg.profile) : cfg.profile[k] = u}
          \union (IF cfg.scan THEN {ScannerPhase} ELSE {})

\* Nothing skipped silently (Run's loop): a session that reaches its manifest
\* has accounted for every collector of its profile, and for the scanner when
\* one was asked for: its status file is listed, and the stream says that it
\* ended, or that it was skipped because it is not registered.
SealedRunIsComplete ==
  (manifest.sess = run /\ run > 0) =>
    \A u \in Wanted :
      /\ manifest.entries[StatusPath[u]] > 0
      /\ \E k \in 1 .. Len(lines) :
           /\ lines[k].sess = run
           /\ lines[k].rec = IF u \in Registered \union {ScannerPhase}
                             THEN Event("end", u) ELSE Event("skipped", u)

\* Delivery (writeArchive after Finalize): the tarball in place always holds a
\* manifest of the run that made it, and, byte for byte, every file that
\* manifest lists, apart from the files it reports as skipped.
ArchiveHoldsSealedPackage ==
  archive.sess > 0 /\ ManifestFile \notin archive.skipped =>
    /\ archive.manifest.sess = archive.sess
    /\ \A p \in Path \ archive.skipped :
         archive.manifest.entries[p] > 0 => archive.holds[p] = archive.manifest.entries[p]

\* A run that reports success leaves a summary, a tarball and a manifest that
\* all belong to it (writeArchive's order of rename, hash and WriteSummary).
SuccessMeansDelivered ==
  exit = "ok" => summary.sess = run /\ archive.sess = run /\ manifest.sess = run

\* A delivered tarball is only ever replaced by that of a later run whose
\* manifest is complete; a failed or killed run leaves it alone.
ArchiveReplacedOnlyBySealed ==
  [][archive' # archive => archive'.sess > archive.sess /\ manifest.sess = run]_vars

\* Temporary files (writeArtifact and WriteSummary): only the write in progress
\* has one; any other was left by a session that was killed while it wrote.
TempsAccountedFor ==
  exit # "crash" =>
    /\ \A t \in temps : t[1] = run => step = "temp" /\ t[2] = job.path
    /\ run \in summary.temps => pc = "summary"

\* Every run ends, whatever its calls return, unless a native command blocks
\* it and no deadline can kill that command.
BlockedForGood == pc = "hung" /\ (~cfg.timeout \/ Who \in Undying)
EveryRunEnds == (pc = "prologue") ~> (pc = "exited" \/ BlockedForGood)

----------------------------------------------------------------------------
(* What the documents say that the program does not do.                    *)

\* doc/PHASE14_E2E_CHECKLIST_CN.md:42, every line of the stream parses; asked
\* only of a run that reports success.
EveryLineParses ==
  exit = "ok" => \A k \in 1 .. Len(lines) : lines[k].text = "whole"
=============================================================================
