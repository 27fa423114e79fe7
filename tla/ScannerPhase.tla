---------------------------- MODULE ScannerPhase ----------------------------
(***************************************************************************)
(* The scanner phase (internal/scanners, started by internal/app): the     *)
(* executable is looked at three times, then started with a timeout; its   *)
(* output is written four times, and one run record and the findings       *)
(* follow.  Meanwhile the file may be replaced, the command prints, cleans,*)
(* exits or leaves a child behind that still holds its output, and the     *)
(* deadline passes.                                                        *)
(*                                                                         *)
(* The command's output is the number of lines on it that parseFindings    *)
(* takes for a finding.  An executable is its kind and a version.          *)
(***************************************************************************)
EXTENDS Integers, FiniteSets

CONSTANTS
  Mode,         \* the values of --scan
  Clean,        \* the values of --clean
  Runs32,       \* whether this build of the program runs i386 payloads
  MayFork,      \* whether a scanner may leave a child behind
  MaxVersions,  \* bound on the versions of the executable
  MaxLines,     \* bound on the findings a command prints
  MaxFaults     \* bound on failing writes

ASSUME ModeAssumption == Mode \subseteq {"none", "tmbrfix", "yara", "osquery"}
ASSUME CleanAssumption == Clean \subseteq {"disabled", "confirm", "force"}
ASSUME ScanFlagAssumption == Runs32 \in BOOLEAN /\ MayFork \in BOOLEAN
ASSUME ScanBoundAssumption == MaxVersions \in Nat \ {0} /\ MaxLines \in Nat /\ MaxFaults \in Nat

VARIABLES
  mode,     \* --scan of this run
  clean,    \* --clean of this run
  exe,      \* the file at the scanner's path: [kind, ver]
  pc,       \* where Run is
  run,      \* the run record being filled
  cmd,      \* the command: [state, ver, clean, code]
  child,    \* a child of the command holds its output open
  lines,    \* findings printed so far
  cleaned,  \* the command has changed the host
  expired,  \* the deadline of the command has passed
  files,    \* output files written
  records,  \* the run records in the stream
  finds,    \* finding records written: number of findings and of absences
  ret,      \* "none" while the phase runs, then "ok" or "err"
  faults    \* failing writes so far

outside == <<exe, cmd, child, lines, cleaned, expired>>
output == <<files, records, finds>>
vars == <<mode, clean, pc, run, outside, output, ret, faults>>

----------------------------------------------------------------------------
Kind == {"absent", "dir", "i386", "other"}
Status == {"absent", "skipped", "timeout", "failed", "completed"}
NoRun == [status |-> "none", scanOnly |-> TRUE, hash |-> 0, findings |-> 0]
NoCmd == [state |-> "none", ver |-> 0, clean |-> FALSE, code |-> 0]
Output == <<"ai stdout", "ai stderr", "legacy stdout", "legacy stderr">>
OutputFiles == {Output[k] : k \in 1 .. 4}
Readable == exe.kind \in {"i386", "other"}

\* compatibility: only the payload of tmbrfix is tied to an architecture.
Supported(type) == mode = "tmbrfix" => type = "i386" /\ Runs32

\* Bug: a request to clean is passed on unless it is to be confirmed.
CleansUnconfirmed == mode = "tmbrfix" /\ clean # "confirm"

\* buildArgs: -clean is given to tmbrfix, and only when it was asked for.
Cleans == mode = "tmbrfix" /\ clean \in {"confirm", "force"}

\* scanOnly: what the record says of it.
ScanOnly == ~(mode = "tmbrfix" /\ clean \in {"confirm", "force"})

Init ==
  /\ mode \in Mode /\ clean \in Clean
  /\ exe \in [kind : Kind, ver : {1}]
  /\ pc = "enter"
  /\ run = NoRun /\ cmd = NoCmd
  /\ child = FALSE /\ lines = 0 /\ cleaned = FALSE /\ expired = FALSE
  /\ files = {} /\ records = {} /\ finds = [found |-> 0, absent |-> 0]
  /\ ret = "none"
  /\ faults = 0

----------------------------------------------------------------------------
(* What happens outside.                                                   *)

Replace ==
  /\ exe.ver < MaxVersions
  /\ \E k \in Kind : exe' = [kind |-> k, ver |-> exe.ver + 1]
  /\ UNCHANGED <<mode, clean, pc, run, cmd, child, lines, cleaned, expired, output, ret, faults>>

Running == cmd.state = "running"

PrintLine ==
  /\ Running \/ child
  /\ lines < MaxLines
  /\ lines' = lines + 1
  /\ UNCHANGED <<mode, clean, exe, pc, run, cmd, child, cleaned, expired, output, ret, faults>>

CleanHost ==
  /\ Running /\ cmd.clean /\ ~cleaned
  /\ cleaned' = TRUE
  /\ UNCHANGED <<mode, clean, exe, pc, run, cmd, child, lines, expired, output, ret, faults>>

Fork ==
  /\ Running /\ MayFork /\ ~child
  /\ child' = TRUE
  /\ UNCHANGED <<mode, clean, exe, pc, run, cmd, lines, cleaned, expired, output, ret, faults>>

ChildEnds ==
  /\ child
  /\ child' = FALSE
  /\ UNCHANGED <<mode, clean, exe, pc, run, cmd, lines, cleaned, expired, output, ret, faults>>

CommandExits ==
  /\ Running
  /\ \E c \in {0, 1} : cmd' = [cmd EXCEPT !.state = "exited", !.code = c]
  /\ UNCHANGED <<mode, clean, exe, pc, run, child, lines, cleaned, expired, output, ret, faults>>

Outside == \/ Replace \/ PrintLine \/ CleanHost \/ Fork \/ ChildEnds \/ CommandExits

\* The context of the command has a deadline, --timeout or 30 seconds.
Expire ==
  /\ pc \in {"start", "wait"} /\ ~expired
  /\ expired' = TRUE
  /\ UNCHANGED <<mode, clean, exe, pc, run, cmd, child, lines, cleaned, output, ret, faults>>

\* Bug: the command is started without the context.
KillNever == FALSE /\ UNCHANGED vars

\* exec.CommandContext kills the command itself, not what it has started.
Kill ==
  /\ expired /\ Running
  /\ cmd' = [cmd EXCEPT !.state = "killed"]
  /\ UNCHANGED <<mode, clean, exe, pc, run, child, lines, cleaned, expired, output, ret, faults>>

----------------------------------------------------------------------------
(* Run.                                                                    *)

Fault == faults < MaxFaults /\ faults' = faults + 1
Return(result) == pc' = "done" /\ ret' = result

\* app.go starts the phase only when a scanner is asked for.
Enter ==
  /\ pc = "enter"
  /\ IF mode = "none" THEN Return("ok") /\ UNCHANGED run
     ELSE /\ pc' = "stat"
          /\ run' = [NoRun EXCEPT !.scanOnly = ScanOnly]
          /\ UNCHANGED ret
  /\ UNCHANGED <<mode, clean, outside, output, faults>>

\* enrichExecutable looks at the file three times: stat, hash, type.
Stat ==
  /\ pc = "stat"
  /\ IF Readable THEN pc' = "hash" /\ UNCHANGED run
     ELSE pc' = "record" /\ run' = [run EXCEPT !.status = "absent"]
  /\ UNCHANGED <<mode, clean, outside, output, ret, faults>>

Hash ==
  /\ pc = "hash"
  /\ IF Readable THEN pc' = "type" /\ run' = [run EXCEPT !.hash = exe.ver]
     ELSE pc' = "record" /\ run' = [run EXCEPT !.status = "absent"]
  /\ UNCHANGED <<mode, clean, outside, output, ret, faults>>

ReadType ==
  /\ pc = "type"
  /\ IF Supported(IF Readable THEN exe.kind ELSE "unknown")
     THEN pc' = "start" /\ UNCHANGED run
     ELSE pc' = "record" /\ run' = [run EXCEPT !.status = "skipped"]
  /\ UNCHANGED <<mode, clean, outside, output, ret, faults>>

StartCommand ==
  /\ pc = "start" /\ ~expired /\ Readable
  /\ cmd' = [NoCmd EXCEPT !.state = "running", !.ver = exe.ver, !.clean = Cleans]
  /\ pc' = "wait"
  /\ UNCHANGED <<mode, clean, exe, child, lines, cleaned, expired, run, output, ret, faults>>

\* Bug: a command that cannot be started leaves the status open.
StartFailsUnmarked ==
  /\ pc = "start"
  /\ pc' = "output"
  /\ UNCHANGED <<mode, clean, outside, run, output, ret, faults>>

\* The deadline has passed, or the file cannot be executed.
StartFails ==
  /\ pc = "start"
  /\ run' = [run EXCEPT !.status = IF expired THEN "timeout" ELSE "failed"]
  /\ pc' = "output"
  /\ UNCHANGED <<mode, clean, outside, output, ret, faults>>

Ended == cmd.state \in {"exited", "killed"}
Failed == cmd.state = "killed" \/ cmd.code # 0

\* Bug: the exit code is not looked at.
WaitedBlindly ==
  /\ pc = "wait" /\ Ended /\ ~child
  /\ pc' = "output"
  /\ run' = [run EXCEPT !.status = IF expired THEN "timeout" ELSE "completed",
                        !.findings = lines]
  /\ UNCHANGED <<mode, clean, outside, output, ret, faults>>

\* Wait returns when the command has ended and nobody can write to its output.
Waited ==
  /\ pc = "wait" /\ Ended /\ ~child
  /\ pc' = "output"
  /\ run' = [run EXCEPT !.status = IF expired THEN "timeout"
                                   ELSE IF Failed THEN "failed" ELSE "completed",
                        !.findings = lines]
  /\ UNCHANGED <<mode, clean, outside, output, ret, faults>>

\* The four copies of the output, in their order.
WriteOutput ==
  /\ pc = "output"
  /\ LET n == Cardinality(files) + 1 IN
       /\ files' = files \union {Output[n]}
       /\ pc' = IF n = 4 THEN "record" ELSE "output"
  /\ UNCHANGED <<mode, clean, outside, run, records, finds, ret, faults>>

WriteRun ==
  /\ pc = "record"
  /\ records' = records \union {run}
  /\ pc' = "status"
  /\ UNCHANGED <<mode, clean, outside, run, files, finds, ret, faults>>

\* legacy/filescan/scanner_status.out
WriteStatus ==
  /\ pc = "status"
  /\ pc' = "findings"
  /\ UNCHANGED <<mode, clean, outside, run, output, ret, faults>>

\* Bug: one finding record per run.
WriteOneFinding ==
  /\ pc = "findings"
  /\ finds' = IF run.findings = 0 THEN [finds EXCEPT !.absent = @ + 1]
                                  ELSE [finds EXCEPT !.found = @ + 1]
  /\ Return("ok")
  /\ UNCHANGED <<mode, clean, outside, run, files, records, faults>>

\* One record for each finding, or one that there is none.
WriteFinding ==
  /\ pc = "findings"
  /\ finds' = IF run.findings = 0 THEN [finds EXCEPT !.absent = @ + 1]
                                  ELSE [finds EXCEPT !.found = @ + 1]
  /\ IF finds'.found = run.findings THEN Return("ok") ELSE UNCHANGED <<pc, ret>>
  /\ UNCHANGED <<mode, clean, outside, run, files, records, faults>>

\* Every write of the phase is checked.
WriteFails ==
  /\ pc \in {"output", "record", "status", "findings"}
  /\ Fault
  /\ Return("err")
  /\ UNCHANGED <<mode, clean, outside, run, output>>

----------------------------------------------------------------------------
Run == \/ Enter \/ Stat \/ Hash \/ ReadType \/ StartCommand \/ StartFails \/ Waited
       \/ WriteOutput \/ WriteRun \/ WriteStatus \/ WriteFinding \/ WriteFails

\* What is outside matters only while the phase runs.
Next == Run \/ (ret = "none" /\ (Outside \/ Expire \/ Kill))

\* The program goes on, time passes, and the runtime kills; no command has to end.
Fairness == WF_vars(Run) /\ WF_vars(Expire) /\ WF_vars(Kill)

Spec == Init /\ [][Next]_vars
FairSpec == Spec /\ Fairness

----------------------------------------------------------------------------
(* Properties.                                                             *)

Record == [status : Status \union {"none"}, scanOnly : BOOLEAN, hash : 0 .. MaxVersions,
           findings : 0 .. MaxLines]

\* Every variable stays in its range.
TypeOK ==
  /\ mode \in Mode /\ clean \in Clean
  /\ exe \in [kind : Kind, ver : 1 .. MaxVersions]
  /\ pc \in {"enter", "stat", "hash", "type", "start", "wait", "output", "record", "status",
             "findings", "done"}
  /\ run \in Record
  /\ cmd \in [state : {"none", "running", "exited", "killed"}, ver : 0 .. MaxVersions,
              clean : BOOLEAN, code : {0, 1}]
  /\ child \in BOOLEAN /\ lines \in 0 .. MaxLines /\ cleaned \in BOOLEAN /\ expired \in BOOLEAN
  /\ files \subseteq OutputFiles
  /\ records \subseteq [status : Status, scanOnly : BOOLEAN, hash : 0 .. MaxVersions,
                        findings : 0 .. MaxLines]
  /\ finds \in [found : 0 .. MaxLines, absent : {0, 1}]
  /\ ret \in {"none", "ok", "err"}
  /\ faults \in 0 .. MaxFaults

\* Whole account (Run): a scanner that was asked for and whose phase succeeds
\* leaves one run record; it has a finding record for each finding of the whole
\* output, or exactly one that there is none; and the output of a command
\* that was started is there four times.
ScanAccounted ==
  ret = "ok" /\ mode # "none" =>
    \E r \in records :
      /\ records = {r}
      /\ r.findings = lines
      /\ finds = [found |-> lines, absent |-> IF lines = 0 THEN 1 ELSE 0]
      /\ cmd.state # "none" => files = OutputFiles
      /\ r.status \in {"absent", "skipped"} => cmd.state = "none"

\* Clean on record (buildArgs and scanOnly): the host is changed only by a
\* scanner that was told to, and then the record of a phase that succeeds says
\* that it was not a mere scan.
CleaningOnRecord ==
  cleaned => /\ mode = "tmbrfix" /\ clean \in {"confirm", "force"}
             /\ ret = "ok" => \A r \in records : ~r.scanOnly

\* Completed means completed (osExecRunner.Run): a record says so only of a
\* command that ended by itself with exit code 0 before its deadline.
CompletedIsHonest ==
  \A r \in records : r.status = "completed" =>
    cmd.state = "exited" /\ cmd.code = 0 /\ ~expired

\* Termination (the timeout of the command): a scanner that leaves no child
\* behind cannot keep the phase from ending, although nothing makes it exit.
PhaseEnds == []~child => <>(ret # "none")

----------------------------------------------------------------------------
(* What the documents say that the program does not do.                    *)

\* doc/IMPLEMENTATION_PHASE_ROADMAP_CN.md:1193, a scanner's failure does not
\* keep the package from being made: past the deadline the phase ends, whatever
\* the scanner does.
ScannerCannotHoldTheRun == expired ~> (ret # "none")
=============================================================================
