------------------------- MODULE ScannerPhaseProofs -------------------------
(***************************************************************************)
(* What ScannerPhase promises for every scanner, every number of findings, *)
(* replacements of the executable and failing writes: its safety           *)
(* invariants, as theorems.                                                *)
(***************************************************************************)
EXTENDS ScannerPhase, FiniteSetTheorems, TLAPS

\* How far the phase is: before the command, at it, and after it.
Before == {"enter", "stat", "hash", "type", "start"}
After  == {"output", "record", "status", "findings"}

\* The phase runs until it returns, and nobody prints without a command.
Course ==
  /\ ret = "none" <=> pc # "done"
  /\ pc \in Before => cmd = NoCmd
  /\ pc = "wait" => cmd.state # "none"
  /\ cmd.state = "none" => lines = 0 /\ ~child
  /\ pc \in After \union {"done"} => cmd.state # "running" /\ ~child

\* The status that the run record will have, and what it stands for.
Judged ==
  /\ pc \in Before \union {"wait"} => run.status = "none" /\ run.findings = 0
  /\ pc \in After => run.status # "none" /\ run.findings = lines
  /\ run.status \in {"absent", "skipped"} => cmd.state = "none"
  /\ run.status = "completed" => /\ pc \in After \union {"done"}
                                 /\ cmd.state = "exited" /\ cmd.code = 0 /\ ~expired

\* Only a command that was told to changes the host.
Told ==
  /\ cmd.clean => Cleans
  /\ cleaned => Cleans
  /\ pc \notin {"enter", "done"} => run.scanOnly = ScanOnly

\* The record in the stream is the one that was filled.
Recorded ==
  /\ records \subseteq {run}
  /\ pc \in Before \union {"wait", "output", "record"} => records = {}
  /\ pc \in {"status", "findings"} => records = {run}
  /\ ret = "ok" /\ mode # "none" =>
       records = {run} /\ run.scanOnly = ScanOnly /\ run.findings = lines
  /\ mode = "none" => pc \in {"enter", "done"}

\* The findings that were written, and those that are still to come.
NoFinds == [found |-> 0, absent |-> 0]
Counted ==
  /\ pc \in (Before \union After \union {"wait"}) \ {"findings"} => finds = NoFinds
  /\ pc = "findings" => /\ finds.absent = 0
                        /\ finds.found < run.findings \/ (finds = NoFinds /\ run.findings = 0)
  /\ ret = "ok" /\ mode # "none" =>
       finds = [found |-> lines, absent |-> IF lines = 0 THEN 1 ELSE 0]

\* The copies of the output, in their order.
Copies(n) == {Output[k] : k \in 1 .. n}
Stored ==
  /\ pc \in Before \union {"wait"} => files = {}
  /\ pc = "output" => \E n \in 0 .. 3 : files = Copies(n)
  /\ (pc \in {"record", "status", "findings"} \/ ret = "ok") /\ cmd.state # "none" =>
       files = OutputFiles

\* The inductive invariant.
ScanInv ==
  TypeOK /\ Course /\ Judged /\ Told /\ Recorded /\ Counted /\ Stored

----------------------------------------------------------------------------
\* WriteOutput counts the copies that are there to know which one is next.
LEMMA CopiesCounted ==
  ASSUME NEW n \in 0 .. 3
  PROVE  /\ Cardinality(Copies(n)) = n
         /\ Copies(n) \union {Output[n + 1]} = Copies(n + 1)
         /\ Copies(n + 1) \subseteq OutputFiles
<1>1. Copies(0) = {} /\ Copies(1) = {Output[1]}
  BY DEF Copies
<1>2. Copies(2) = {Output[1], Output[2]} /\ Copies(3) = {Output[1], Output[2], Output[3]}
  BY DEF Copies
<1>3. Copies(n + 1) = Copies(n) \union {Output[n + 1]}
  BY DEF Copies
<1>4. Copies(n + 1) \subseteq OutputFiles
  BY DEF Copies, OutputFiles
<1>5. /\ IsFiniteSet({}) /\ Cardinality({}) = 0
  BY FS_EmptySet
<1>6. /\ Output[1] # Output[2] /\ Output[1] # Output[3] /\ Output[2] # Output[3]
  BY DEF Output
<1>7. IsFiniteSet(Copies(1)) /\ Cardinality(Copies(1)) = 1
  <2>1. Copies(1) = {} \union {Output[1]}
    BY <1>1
  <2> QED
    BY <2>1, <1>5, FS_AddElement
<1>8. IsFiniteSet(Copies(2)) /\ Cardinality(Copies(2)) = 2
  <2>1. Copies(2) = Copies(1) \union {Output[2]} /\ Output[2] \notin Copies(1)
    BY <1>1, <1>2, <1>6
  <2> QED
    BY <2>1, <1>7, FS_AddElement
<1>9. Cardinality(Copies(3)) = 3
  <2>1. Copies(3) = Copies(2) \union {Output[3]} /\ Output[3] \notin Copies(2)
    BY <1>2, <1>6
  <2> QED
    BY <2>1, <1>8, FS_AddElement
<1> QED
  BY <1>1, <1>3, <1>4, <1>5, <1>7, <1>8, <1>9

\* Initially nothing has happened (Run's first lines).
LEMMA ScanInit == Init => ScanInv
<1> SUFFICES ASSUME Init PROVE ScanInv
  OBVIOUS
<1>1. TypeOK
  <2>1. run \in Record
    BY ScanBoundAssumption DEF Init, Record, NoRun
  <2>2. cmd \in [state : {"none", "running", "exited", "killed"}, ver : 0 .. MaxVersions,
               clean : BOOLEAN, code : {0, 1}]
    BY ScanBoundAssumption DEF Init, NoCmd
  <2>3. exe \in [kind : Kind, ver : 1 .. MaxVersions]
    BY ScanBoundAssumption DEF Init
  <2>4. finds \in [found : 0 .. MaxLines, absent : {0, 1}]
    BY ScanBoundAssumption DEF Init
  <2>5. 0 \in 0 .. MaxLines /\ 0 \in 0 .. MaxFaults
    BY ScanBoundAssumption
  <2> QED
    BY <2>1, <2>2, <2>3, <2>4, <2>5, ScanBoundAssumption DEF Init, TypeOK
<1>2. Course /\ Judged /\ Told
  BY DEF Init, Course, Judged, Told, Before, After, NoRun, NoCmd
<1>3. Recorded /\ Counted
  BY DEF Init, Recorded, Counted, NoFinds, Before, After
<1>4. Stored
  BY DEF Init, Stored, Before
<1> QED
  BY <1>1, <1>2, <1>3, <1>4 DEF ScanInv

\* The phase goes through its course; what is outside can only move a command that
\* runs (Run and osExecRunner.Run).
LEMMA CourseStep ==
  ASSUME ScanInv, Next
  PROVE  Course'
<1> USE DEF ScanInv, TypeOK, Course, Before, After, NoCmd
<1>1. CASE StartCommand
  BY <1>1 DEF StartCommand, outside, output
<1>2. CASE Waited
  BY <1>2 DEF Waited, Ended, Failed, outside, output
<1>3. CASE CommandExits
  BY <1>3 DEF CommandExits, Running, outside, output
<1>4. CASE Kill
  BY <1>4 DEF Kill, Running, outside, output
<1>5. CASE PrintLine \/ Fork \/ ChildEnds
  BY <1>5 DEF PrintLine, Fork, ChildEnds, Running, outside, output
<1>6. CASE Enter \/ WriteFinding \/ WriteFails
  BY <1>6 DEF Enter, WriteFinding, WriteFails, Return, Fault, outside, output
<1>7. CASE Stat \/ Hash \/ ReadType \/ StartFails \/ WriteOutput \/ WriteRun 
          \/ WriteStatus \/ Replace \/ CleanHost \/ Expire
  BY <1>7 DEF Stat, Hash, ReadType, StartFails, WriteOutput, WriteRun, WriteStatus,
     Replace, CleanHost, Expire, Running, outside, output
<1> QED
  BY <1>1, <1>2, <1>3, <1>4, <1>5, <1>6, <1>7 DEF Next, Run, Outside

\* The status is set once, from what the command did (enrichExecutable, Run).
LEMMA JudgedStep ==
  ASSUME ScanInv, Next
  PROVE  Judged'
<1> USE DEF ScanInv, TypeOK, Record, Course, Judged, Before, After, NoCmd, NoRun
<1>1. CASE Enter
  BY <1>1 DEF Enter, Return, outside, output
<1>2. CASE Stat
  BY <1>2 DEF Stat, outside, output
<1>3. CASE Hash
  BY <1>3 DEF Hash, outside, output
<1>4. CASE ReadType
  BY <1>4 DEF ReadType, outside, output
<1>5. CASE StartFails
  BY <1>5 DEF StartFails, outside, output
<1>6. CASE Waited
  BY <1>6 DEF Waited, Ended, Failed, outside, output
<1>7. CASE StartCommand
  BY <1>7 DEF StartCommand, outside, output
<1>8. CASE PrintLine
  BY <1>8 DEF PrintLine, Running, outside, output
<1>9. CASE CommandExits
  BY <1>9 DEF CommandExits, Running, outside, output
<1>10. CASE Kill
  BY <1>10 DEF Kill, Running, outside, output
<1>11. CASE Expire
  BY <1>11 DEF Expire, outside, output
<1>12. CASE WriteOutput \/ WriteRun \/ WriteStatus \/ WriteFinding \/ WriteFails 
          \/ Replace \/ CleanHost \/ Fork \/ ChildEnds
  BY <1>12 DEF WriteOutput, WriteRun, WriteStatus, WriteFinding, WriteFails, Replace,
     CleanHost, Fork, ChildEnds, Return, Fault, Running, outside, output
<1> QED
  BY <1>1, <1>2, <1>3, <1>4, <1>5, <1>6, <1>7, <1>8, <1>9, <1>10, <1>11, <1>12 DEF Next, Run, Outside

\* The request to clean and the record of it are computed from the same two flags
\* (buildArgs, scanOnly).
LEMMA ToldStep ==
  ASSUME ScanInv, Next
  PROVE  Told'
<1> USE DEF ScanInv, TypeOK, Record, Course, Told, Before, After, NoCmd, NoRun,
       Cleans, ScanOnly
<1>1. CASE Enter
  BY <1>1 DEF Enter, Return, outside, output
<1>2. CASE Stat
  BY <1>2 DEF Stat, outside, output
<1>3. CASE Hash
  BY <1>3 DEF Hash, outside, output
<1>4. CASE ReadType
  BY <1>4 DEF ReadType, outside, output
<1>5. CASE StartFails
  BY <1>5 DEF StartFails, outside, output
<1>6. CASE Waited
  BY <1>6 DEF Waited, Ended, Failed, outside, output
<1>7. CASE StartCommand
  BY <1>7 DEF StartCommand, outside, output
<1>8. CASE CleanHost
  BY <1>8 DEF CleanHost, Running, outside, output
<1>9. CASE CommandExits
  BY <1>9 DEF CommandExits, Running, outside, output
<1>10. CASE Kill
  BY <1>10 DEF Kill, Running, outside, output
<1>11. CASE WriteOutput \/ WriteRun \/ WriteStatus \/ WriteFinding \/ WriteFails 
          \/ Replace \/ PrintLine \/ Fork \/ ChildEnds \/ Expire
  BY <1>11 DEF WriteOutput, WriteRun, WriteStatus, WriteFinding, WriteFails, Replace,
     PrintLine, Fork, ChildEnds, Expire, Return, Fault, Running, outside, output
<1> QED
  BY <1>1, <1>2, <1>3, <1>4, <1>5, <1>6, <1>7, <1>8, <1>9, <1>10, <1>11 DEF Next, Run, Outside

\* A run record is written when it is complete, and never changed (Run).
LEMMA RecordedStep ==
  ASSUME ScanInv, Next
  PROVE  Recorded'
<1> USE DEF ScanInv, TypeOK, Course, Judged, Told, Recorded, Before, After, NoRun,
       ScanOnly
<1>1. CASE Enter
  BY <1>1 DEF Enter, Return, outside, output
<1>2. CASE Stat
  BY <1>2 DEF Stat, outside, output
<1>3. CASE Hash
  BY <1>3 DEF Hash, outside, output
<1>4. CASE ReadType
  BY <1>4 DEF ReadType, outside, output
<1>5. CASE StartFails
  BY <1>5 DEF StartFails, outside, output
<1>6. CASE Waited
  BY <1>6 DEF Waited, Ended, Failed, outside, output
<1>7. CASE WriteRun
  BY <1>7 DEF WriteRun, outside, output
<1>8. CASE PrintLine
  BY <1>8 DEF PrintLine, Running, outside, output
<1>9. CASE WriteFinding \/ WriteFails
  BY <1>9 DEF WriteFinding, WriteFails, Return, Fault, outside, output
<1>10. CASE StartCommand \/ WriteOutput \/ WriteStatus \/ Replace \/ CleanHost 
          \/ Fork \/ ChildEnds \/ CommandExits \/ Expire \/ Kill
  BY <1>10 DEF StartCommand, WriteOutput, WriteStatus, Replace, CleanHost, Fork,
     ChildEnds, CommandExits, Expire, Kill, Running, outside, output
<1> QED
  BY <1>1, <1>2, <1>3, <1>4, <1>5, <1>6, <1>7, <1>8, <1>9, <1>10 DEF Next, Run, Outside

\* The findings are written one by one, until there are as many as the record says
\* (writeFindings).
LEMMA CountedStep ==
  ASSUME ScanInv, Next
  PROVE  Counted'
<1> USE DEF ScanInv, TypeOK, Course, Judged, Recorded, Counted, NoFinds, Before,
       After, NoRun
<1>1. CASE Enter
  BY <1>1 DEF Enter, Return, outside, output
<1>2. CASE Stat
  BY <1>2 DEF Stat, outside, output
<1>3. CASE Hash
  BY <1>3 DEF Hash, outside, output
<1>4. CASE ReadType
  BY <1>4 DEF ReadType, outside, output
<1>5. CASE StartFails
  BY <1>5 DEF StartFails, outside, output
<1>6. CASE Waited
  BY <1>6 DEF Waited, Ended, Failed, outside, output
<1>7. CASE WriteFinding
  BY <1>7 DEF WriteFinding, Return, outside, output
<1>8. CASE PrintLine
  BY <1>8 DEF PrintLine, Running, outside, output
<1>9. CASE WriteFails
  BY <1>9 DEF WriteFails, Fault, Return, outside, output
<1>10. CASE StartCommand \/ WriteOutput \/ WriteRun \/ WriteStatus \/ Replace 
          \/ CleanHost \/ Fork \/ ChildEnds \/ CommandExits \/ Expire \/ Kill
  BY <1>10 DEF StartCommand, WriteOutput, WriteRun, WriteStatus, Replace, CleanHost,
     Fork, ChildEnds, CommandExits, Expire, Kill, Running, outside, output
<1> QED
  BY <1>1, <1>2, <1>3, <1>4, <1>5, <1>6, <1>7, <1>8, <1>9, <1>10 DEF Next, Run, Outside

\* The copies of the output are complete before anything that refers to them is
\* written (writeOutputs).
LEMMA StoredStep ==
  ASSUME ScanInv, Next
  PROVE  Stored'
<1> USE DEF ScanInv, TypeOK, Course, Judged, Stored, Before, After, NoCmd
<1>1. CASE StartFails
  <2>1. files' = Copies(0)
    BY <1>1 DEF StartFails, Copies, outside, output
  <2>2. \E n \in 0 .. 3 : files' = Copies(n)
    BY <2>1
  <2>3. pc' = "output" /\ ret' = "none"
    BY <1>1 DEF StartFails, output
  <2> QED
    BY <2>2, <2>3
<1>2. CASE Waited
  <2>1. files' = Copies(0)
    BY <1>2 DEF Waited, Copies, outside, output
  <2>2. \E n \in 0 .. 3 : files' = Copies(n)
    BY <2>1
  <2>3. pc' = "output" /\ ret' = "none"
    BY <1>2 DEF Waited, output
  <2> QED
    BY <2>2, <2>3
<1>3. CASE WriteOutput
  <2>1. PICK n \in 0 .. 3 : files = Copies(n)
    BY <1>3 DEF WriteOutput
  <2>2. files' = Copies(n + 1) /\ pc' = (IF n = 3 THEN "record" ELSE "output")
    BY <1>3, <2>1, CopiesCounted DEF WriteOutput
  <2>3. Copies(4) = OutputFiles
    BY DEF Copies, OutputFiles
  <2>4. CASE n = 3
    BY <1>3, <2>2, <2>3, <2>4 DEF WriteOutput, outside
  <2>5. CASE n # 3
    BY <1>3, <2>2, <2>5 DEF WriteOutput, outside
  <2> QED
    BY <2>4, <2>5
<1>4. CASE Stat
  BY <1>4 DEF Stat, outside, output
<1>5. CASE Hash
  BY <1>5 DEF Hash, outside, output
<1>6. CASE ReadType
  BY <1>6 DEF ReadType, outside, output
<1>7. CASE StartCommand
  BY <1>7 DEF StartCommand, outside, output
<1>8. CASE CommandExits
  BY <1>8 DEF CommandExits, Running, outside, output
<1>9. CASE Kill
  BY <1>9 DEF Kill, Running, outside, output
<1>10. CASE Enter \/ WriteFinding \/ WriteFails
  BY <1>10 DEF Enter, WriteFinding, WriteFails, Return, Fault, outside, output
<1>11. CASE WriteRun \/ WriteStatus \/ Replace \/ PrintLine \/ CleanHost \/ Fork 
          \/ ChildEnds \/ Expire
  BY <1>11 DEF WriteRun, WriteStatus, Replace, PrintLine, CleanHost, Fork, ChildEnds,
     Expire, Running, outside, output
<1> QED
  BY <1>1, <1>2, <1>3, <1>4, <1>5, <1>6, <1>7, <1>8, <1>9, <1>10, <1>11 DEF Next, Run, Outside

\* Every variable stays in its range: a record is written with a status, and the
\* counts stop at what they count.
LEMMA TypeStep ==
  ASSUME ScanInv, Next
  PROVE  TypeOK'
<1> USE DEF ScanInv, TypeOK
<1>1. CASE Enter
  <2>1. run' \in Record
    <3>1. NoRun \in Record /\ ScanOnly \in BOOLEAN
      BY ScanBoundAssumption DEF Record, NoRun, ScanOnly
    <3>2. [NoRun EXCEPT !.scanOnly = ScanOnly] \in Record
      BY <3>1 DEF Record
    <3> QED
      BY <1>1, <3>2 DEF Enter
  <2> QED
    BY <1>1, <2>1 DEF Enter, Return, outside, output
<1>2. CASE Stat
  BY <1>2 DEF Stat, Record, Status, outside, output
<1>3. CASE Hash
  BY <1>3 DEF Hash, Record, Status, outside, output
<1>4. CASE ReadType
  BY <1>4 DEF ReadType, Record, Status, outside, output
<1>5. CASE StartCommand
  <2>1. cmd' \in [state : {"none", "running", "exited", "killed"}, ver : 0 .. MaxVersions,
                clean : BOOLEAN, code : {0, 1}]
    <3>1. exe.ver \in 0 .. MaxVersions
      BY ScanBoundAssumption
    <3> QED
      BY <1>5, <3>1 DEF StartCommand, NoCmd, Cleans
  <2> QED
    BY <1>5, <2>1 DEF StartCommand, output
<1>6. CASE StartFails
  BY <1>6 DEF StartFails, Record, Status, outside, output
<1>7. CASE Waited
  BY <1>7 DEF Waited, Ended, Failed, Record, Status, outside, output
<1>8. CASE WriteOutput
  <2>1. PICK n \in 0 .. 3 : files = Copies(n)
    BY <1>8 DEF WriteOutput, Stored
  <2>2. files' \subseteq OutputFiles
    BY <1>8, <2>1, CopiesCounted DEF WriteOutput
  <2> QED
    BY <1>8, <2>2 DEF WriteOutput, outside
<1>9. CASE WriteRun
  <2>1. run.status \in Status
    BY <1>9 DEF WriteRun, Judged, After, Record
  <2>2. records' \subseteq [status : Status, scanOnly : BOOLEAN, hash : 0 .. MaxVersions,
                           findings : 0 .. MaxLines]
    BY <1>9, <2>1 DEF WriteRun, Record
  <2> QED
    BY <1>9, <2>2 DEF WriteRun, outside
<1>10. CASE WriteFinding
  <2>1. finds.absent = 0 /\ (run.findings = 0 \/ finds.found < run.findings)
    BY <1>10 DEF WriteFinding, Counted, NoFinds
  <2>2. run.findings \in 0 .. MaxLines
    BY DEF Record
  <2>3. finds' \in [found : 0 .. MaxLines, absent : {0, 1}]
    BY <1>10, <2>1, <2>2, ScanBoundAssumption DEF WriteFinding
  <2> QED
    BY <1>10, <2>3 DEF WriteFinding, Return, outside
<1>11. CASE WriteFails
  BY <1>11, ScanBoundAssumption DEF WriteFails, Fault, Return, outside, output
<1>12. CASE Replace
  BY <1>12, ScanBoundAssumption DEF Replace, outside, output
<1>13. CASE PrintLine
  BY <1>13, ScanBoundAssumption DEF PrintLine, Running, outside, output
<1>14. CASE CommandExits
  <2>1. PICK c \in {0, 1} : cmd' = [cmd EXCEPT !.state = "exited", !.code = c]
    BY <1>14 DEF CommandExits
  <2>2. cmd' \in [state : {"none", "running", "exited", "killed"}, ver : 0 .. MaxVersions,
                clean : BOOLEAN, code : {0, 1}]
    BY <2>1
  <2> QED
    BY <1>14, <2>2 DEF CommandExits, output
<1>15. CASE Kill
  BY <1>15 DEF Kill, Running, outside, output
<1>16. CASE WriteStatus
  BY <1>16 DEF WriteStatus, outside, output
<1>17. CASE CleanHost
  BY <1>17 DEF CleanHost, output
<1>18. CASE Fork
  BY <1>18 DEF Fork, output
<1>19. CASE ChildEnds \/ Expire
  BY <1>19 DEF ChildEnds, Expire, output
<1> QED
  BY <1>1, <1>2, <1>3, <1>4, <1>5, <1>6, <1>7, <1>8, <1>9, <1>10, <1>11, <1>12, <1>13,
     <1>14, <1>15, <1>16, <1>17, <1>18, <1>19 DEF Next, Run, Outside

\* The invariant is inductive.
THEOREM ScanInvariant == Spec => []ScanInv
<1>1. ScanInv /\ [Next]_vars => ScanInv'
  <2> SUFFICES ASSUME ScanInv, [Next]_vars PROVE ScanInv'
    OBVIOUS
  <2>1. CASE Next
    BY <2>1, TypeStep, CourseStep, JudgedStep, ToldStep, RecordedStep, CountedStep, StoredStep
       DEF ScanInv
  <2>2. CASE UNCHANGED vars
    <3> USE <2>2 DEF ScanInv, vars, outside, output
    <3>1. TypeOK'
      BY DEF TypeOK
    <3>2. Course' /\ Judged'
      BY DEF Course, Judged
    <3>3. Told'
      BY DEF Told, Cleans, ScanOnly
    <3>4. Recorded'
      BY DEF Recorded, ScanOnly
    <3>5. Counted' /\ Stored'
      BY DEF Counted, Stored
    <3> QED
      BY <3>1, <3>2, <3>3, <3>4, <3>5
  <2> QED
    BY <2>1, <2>2
<1> QED
  BY <1>1, ScanInit, PTL DEF Spec

----------------------------------------------------------------------------
\* Every variable of the phase stays in its range, for every bound and whatever
\* the executable, the command and the writes do (Run).
THEOREM ScanTypeCorrect == Spec => []TypeOK
<1>1. ScanInv => TypeOK
  BY DEF ScanInv
<1> QED
  BY <1>1, ScanInvariant, PTL

\* A phase that succeeds leaves one run record, a finding record for each finding
\* or one that there is none, and the output four times (Run, writeFindings,
\* writeOutputs).
THEOREM ScansAreAccounted == Spec => []ScanAccounted
<1>1. ScanInv => ScanAccounted
  <2> SUFFICES ASSUME ScanInv, ret = "ok", mode # "none" PROVE ScanAccounted
    BY DEF ScanAccounted
  <2>1. records = {run} /\ run.findings = lines
    BY DEF ScanInv, Recorded
  <2>2. finds = [found |-> lines, absent |-> IF lines = 0 THEN 1 ELSE 0]
    BY DEF ScanInv, Counted
  <2>3. cmd.state # "none" => files = OutputFiles
    BY DEF ScanInv, Stored
  <2>4. run.status \in {"absent", "skipped"} => cmd.state = "none"
    BY DEF ScanInv, Judged
  <2> QED
    BY <2>1, <2>2, <2>3, <2>4 DEF ScanAccounted
<1> QED
  BY <1>1, ScanInvariant, PTL

\* A host that was changed was changed on request, and the record of a phase that
\* succeeds says so (buildArgs, scanOnly).
THEOREM CleaningIsOnRecord == Spec => []CleaningOnRecord
<1>1. ScanInv => CleaningOnRecord
  <2> SUFFICES ASSUME ScanInv, cleaned PROVE CleaningOnRecord
    BY DEF CleaningOnRecord
  <2>1. mode = "tmbrfix" /\ clean \in {"confirm", "force"}
    BY DEF ScanInv, Told, Cleans
  <2>2. ret = "ok" => \A r \in records : ~r.scanOnly
    BY <2>1 DEF ScanInv, Recorded, ScanOnly
  <2> QED
    BY <2>1, <2>2 DEF CleaningOnRecord
<1> QED
  BY <1>1, ScanInvariant, PTL

\* A record says completed only of a command that ended by itself, with exit code
\* 0, before its deadline (osExecRunner.Run).
THEOREM CompletedRecordsAreHonest == Spec => []CompletedIsHonest
<1>1. ScanInv => CompletedIsHonest
  BY DEF ScanInv, Recorded, Judged, CompletedIsHonest
<1> QED
  BY <1>1, ScanInvariant, PTL
=============================================================================
