-------------------------- MODULE SocketInventory --------------------------
(***************************************************************************)
(* The sockets of the network collector (internal/collectors/network) and  *)
(* their owners (internal/netproc).  The owners are found first, by a walk *)
(* over the file descriptors of every process; the tables of /proc/net are *)
(* read afterwards, one after the other, and joined to the owners by       *)
(* inode; socket records are merged by identity, and a flow is written for *)
(* every line that was read.  Meanwhile processes start and exit, PIDs are *)
(* reused, and sockets are opened, passed on and closed.                   *)
(*                                                                         *)
(* A socket stands for its endpoints; its inode is its own name while a    *)
(* process holds it, and "0" while it only waits (TIME_WAIT).  A process   *)
(* has an identity that is never reused, which is also its start time.     *)
(***************************************************************************)
EXTENDS Integers, Sequences, FiniteSets

CONSTANTS
  Pid,        \* process identifiers, positive
  Sock,       \* the sockets that may ever exist
  Table,      \* the tables of /proc/net in the order they are read
  TableOf,    \* socket -> the table that lists it
  MaxBorn,    \* bound on the processes that ever live
  MaxFaults   \* bound on failing reads and writes of the collector

ASSUME PidAssumption == Pid \subseteq Nat \ {0}
ASSUME SockAssumption == {"0", "none"} \intersect Sock = {}
ASSUME TableAssumption == /\ Table \in Seq({"tcp", "tcp6", "udp", "udp6", "unix"})
                          /\ TableOf \in [Sock -> {Table[k] : k \in 1 .. Len(Table)}]
ASSUME SocketBoundAssumption == MaxBorn \in Nat /\ MaxFaults \in Nat

VARIABLES
  procs,    \* the host: Pid -> [id, hidden], id 0 when the PID is free
  born,     \* processes born so far
  socks,    \* Sock -> "unused", "open", "waiting" or "gone"
  holds,    \* the descriptors: pairs <<pid, socket>>
  kept,     \* descriptors held since the owner scan began (history)
  early,    \* sockets open since before the first table was read (history)
  pc,       \* where the collector is
  todo,     \* PIDs still to be scanned
  scan,     \* the process being scanned
  next,     \* position of the next read of that process, or of the next table
  owners,   \* the owner index: records with the inode they belong to
  lines,    \* the lines read from the tables, with the owners joined to them
  absent,   \* tables that could not be read
  records,  \* merged socket records: identity -> record
  sockets,  \* records of entities/socket that were written
  flows,    \* records of facts/network_flows that were written
  errors,   \* error events: [pid, field, issue]
  ret,      \* "none" while the collector runs, then "ok" or "err"
  faults    \* failures so far

host == <<procs, born, socks, holds, kept, early>>
reading == <<todo, scan, next, owners, lines, absent, records>>
written == <<sockets, flows, errors>>
vars == <<host, pc, reading, written, ret, faults>>

----------------------------------------------------------------------------
(* The host.                                                               *)

Free == [id |-> 0, hidden |-> FALSE]
Alive(p) == procs[p].id # 0

Spawn(p) ==
  /\ ~Alive(p) /\ born < MaxBorn
  /\ born' = born + 1
  /\ \E h \in BOOLEAN : procs' = [procs EXCEPT ![p] = [id |-> born', hidden |-> h]]
  /\ UNCHANGED <<socks, holds, kept, early, pc, reading, written, ret, faults>>

\* A socket nobody holds any more goes at once, or waits if it is a TCP one.
Release(D) ==
  /\ holds' = holds \ D
  /\ kept' = kept \ D
  /\ LET left == {s \in Sock : socks[s] = "open" /\ ~\E p \in Pid : <<p, s>> \in holds'} IN
       \E W \in SUBSET {s \in left : TableOf[s] \in {"tcp", "tcp6"}} :
         socks' = [s \in Sock |-> IF s \in W THEN "waiting"
                                  ELSE IF s \in left THEN "gone" ELSE socks[s]]
  /\ early' = {s \in early : socks'[s] = "open"}

Exit(p) ==
  /\ Alive(p)
  /\ procs' = [procs EXCEPT ![p] = Free]
  /\ Release({d \in holds : d[1] = p})
  /\ UNCHANGED <<born, pc, reading, written, ret, faults>>

Open(p, s) ==
  /\ Alive(p) /\ socks[s] = "unused"
  /\ socks' = [socks EXCEPT ![s] = "open"]
  /\ holds' = holds \union {<<p, s>>}
  /\ UNCHANGED <<procs, born, kept, early, pc, reading, written, ret, faults>>

Share(p, q, s) ==
  /\ <<p, s>> \in holds /\ Alive(q) /\ <<q, s>> \notin holds
  /\ holds' = holds \union {<<q, s>>}
  /\ UNCHANGED <<procs, born, socks, kept, early, pc, reading, written, ret, faults>>

Close(p, s) ==
  /\ <<p, s>> \in holds
  /\ Release({<<p, s>>})
  /\ UNCHANGED <<procs, born, pc, reading, written, ret, faults>>

WaitEnds(s) ==
  /\ socks[s] = "waiting"
  /\ socks' = [socks EXCEPT ![s] = "gone"]
  /\ UNCHANGED <<procs, born, holds, kept, early, pc, reading, written, ret, faults>>

HostStep == \/ \E p \in Pid : Spawn(p) \/ Exit(p)
            \/ \E p \in Pid, s \in Sock : Open(p, s) \/ Close(p, s)
            \/ \E p, q \in Pid, s \in Sock : Share(p, q, s)
            \/ \E s \in Sock : WaitEnds(s)

\* What one read of /proc/p yields: the identity it describes, or an issue.
Guarded == {"fd", "exe", "cwd", "root"}
Outcome(p, f) ==
  IF ~Alive(p) THEN [val |-> 0, issue |-> "race"]
  ELSE IF procs[p].hidden /\ f \in Guarded THEN [val |-> 0, issue |-> "denied"]
  ELSE [val |-> procs[p].id, issue |-> "none"]

----------------------------------------------------------------------------
Inode  == Sock \union {"0"}
Detail == <<"cmdline", "exe", "cwd", "root", "stat", "cgroup">>
Details == {Detail[k] : k \in 1 .. Len(Detail)}
NoScan == [pid |-> 0, id |-> 0, facts |-> [f \in Details |-> 0], fds |-> {}]
NoRecord == [conn |-> "none", tables |-> {}, owners |-> {}]
NoFlow  == [sock |-> "none", id |-> "none", owners |-> {}]

Init ==
  /\ procs = [p \in Pid |-> Free]
  /\ born = 0
  /\ socks = [s \in Sock |-> "unused"]
  /\ holds = {} /\ kept = {} /\ early = {}
  /\ pc = "list"
  /\ todo = {}
  /\ scan = NoScan
  /\ next = 1
  /\ owners = {}
  /\ lines = {}
  /\ absent = {}
  /\ records = [i \in Inode |-> NoRecord]
  /\ sockets = {} /\ flows = {} /\ errors = {}
  /\ ret = "none"
  /\ faults = 0

Fault == faults < MaxFaults /\ faults' = faults + 1
Least(S) == CHOOSE p \in S : \A q \in S : p <= q
Return(result) == pc' = "done" /\ ret' = result
Event(p, f, issue) == [pid |-> p, field |-> f, issue |-> issue]

\* An issue of the scan becomes an error event unless it is a race.
Notice(p, f, issue) == IF issue = "denied" THEN {Event(p, f, issue)} ELSE {}

----------------------------------------------------------------------------
(* ScanSocketOwners.                                                       *)

ListPIDs ==
  /\ pc = "list"
  /\ kept' = holds
  /\ \/ /\ todo' = {p \in Pid : Alive(p)}
        /\ UNCHANGED <<errors, faults>>
     \/ /\ Fault
        /\ todo' = {}
        /\ errors' = errors \union {Event(0, "proc", "denied")}
  /\ pc' = "pick"
  /\ UNCHANGED <<procs, born, socks, holds, early, scan, next, owners, lines, absent,
                 records, sockets, flows, ret>>

\* Bug: a process whose status cannot be read is scanned all the same.
ReadStatusUnchecked ==
  /\ pc = "pick" /\ todo # {}
  /\ LET p == Least(todo) IN
       /\ todo' = todo \ {p}
       /\ scan' = [NoScan EXCEPT !.pid = p, !.id = Outcome(p, "status").val]
  /\ pc' = "fd"
  /\ UNCHANGED <<host, next, owners, lines, absent, records, written, ret, faults>>

\* status and the list of descriptors decide whether the process is scanned.
ReadStatus ==
  /\ pc = "pick" /\ todo # {}
  /\ LET p == Least(todo)
         o == Outcome(p, "status") IN
       /\ todo' = todo \ {p}
       /\ errors' = errors \union Notice(p, "status", o.issue)
       /\ IF o.val = 0 THEN pc' = "pick" /\ UNCHANGED scan
                       ELSE pc' = "fd" /\ scan' = [NoScan EXCEPT !.pid = p, !.id = o.val]
  /\ UNCHANGED <<host, next, owners, lines, absent, records, sockets, flows, ret, faults>>

ListDescriptors ==
  /\ pc = "fd"
  /\ LET o == Outcome(scan.pid, "fd") IN
       /\ errors' = errors \union Notice(scan.pid, "fd", o.issue)
       /\ IF o.val = 0 THEN pc' = "pick" /\ scan' = NoScan
                       ELSE /\ pc' = "detail"
                            /\ scan' = [scan EXCEPT !.fds = {s \in Sock : <<scan.pid, s>> \in holds}]
  /\ UNCHANGED <<host, todo, next, owners, lines, absent, records, sockets, flows, ret, faults>>

ReadDetail ==
  /\ pc = "detail" /\ next <= Len(Detail)
  /\ LET f == Detail[next]
         o == Outcome(scan.pid, f) IN
       /\ scan' = [scan EXCEPT !.facts[f] = o.val]
       /\ errors' = errors \union Notice(scan.pid, f, o.issue)
  /\ next' = next + 1
  /\ UNCHANGED <<host, pc, todo, owners, lines, absent, records, sockets, flows, ret, faults>>

\* The link of a listed descriptor is read: it is still the same socket, or
\* it is gone, or its number now stands for another socket of that PID.
ReadDescriptor ==
  /\ pc = "detail" /\ next > Len(Detail) /\ scan.fds # {}
  /\ \E s \in scan.fds :
       LET held == {t \in Sock : <<scan.pid, t>> \in holds}
           seen == IF s \in held THEN {{s}} ELSE {{}} \union {{t} : t \in held} IN
         /\ scan' = [scan EXCEPT !.fds = @ \ {s}]
         /\ \E S \in seen :
              owners' = owners \union {[inode |-> t, pid |-> scan.pid, id |-> scan.id,
                                        facts |-> scan.facts] : t \in S}
  /\ UNCHANGED <<host, pc, todo, next, lines, absent, records, written, ret, faults>>

ScannedProcess ==
  /\ pc = "detail" /\ next > Len(Detail) /\ scan.fds = {}
  /\ scan' = NoScan
  /\ next' = 1
  /\ pc' = "pick"
  /\ UNCHANGED <<host, todo, owners, lines, absent, records, written, ret, faults>>

ScanEnds ==
  /\ pc = "pick" /\ todo = {}
  /\ pc' = "tables"
  /\ early' = {s \in Sock : socks[s] = "open"}
  /\ UNCHANGED <<procs, born, socks, holds, kept, reading, written, ret, faults>>

----------------------------------------------------------------------------
(* collectConnections: one table after the other, joined and merged.       *)

Inode0(s) == IF socks[s] = "open" THEN s ELSE "0"

\* Bug: owners are united only with those of a record that is there already.
MergeLosesOwners(old, conn, t, own) ==
  IF old = NoRecord THEN [conn |-> conn, tables |-> {t}, owners |-> {}]
  ELSE [old EXCEPT !.tables = @ \union {t}, !.owners = @ \union own]

\* mergeSocketRecord: sources and owners are united, the rest is the first's.
MergeRecord(old, conn, t, own) ==
  IF old = NoRecord THEN [conn |-> conn, tables |-> {t}, owners |-> own]
  ELSE [old EXCEPT !.tables = @ \union {t}, !.owners = @ \union own]

\* AttachOwners: the index is asked for the inode of the line.
Joined(inode) == {o \in owners : o.inode = inode}

ReadTable ==
  /\ pc = "tables" /\ next <= Len(Table)
  /\ LET t   == Table[next]
         new == {[sock |-> s, inode |-> Inode0(s), owners |-> Joined(Inode0(s))] :
                   s \in {x \in Sock : TableOf[x] = t /\ socks[x] \in {"open", "waiting"}}} IN
       /\ lines' = lines \union new
       \* of several lines with one identity, the first in the table counts
       /\ \E first \in [{l.inode : l \in new} -> Sock] :
            /\ \A i \in DOMAIN first : \E l \in new : l.inode = i /\ l.sock = first[i]
            /\ records' = [i \in Inode |-> IF i \in DOMAIN first
                             THEN MergeRecord(records[i], first[i], t, Joined(i))
                             ELSE records[i]]
  /\ next' = next + 1
  /\ UNCHANGED <<host, pc, todo, scan, owners, absent, written, ret, faults>>

\* A table that cannot be read leaves an error event and an absent record.
TableFails ==
  /\ pc = "tables" /\ next <= Len(Table)
  /\ Fault
  /\ absent' = absent \union {Table[next]}
  /\ errors' = errors \union {Event(0, Table[next], "denied")}
  /\ next' = next + 1
  /\ UNCHANGED <<host, pc, todo, scan, owners, lines, records, sockets, flows, ret>>

\* One entity per identity, in the order of the identities.
WriteSockets ==
  /\ pc = "tables" /\ next > Len(Table)
  /\ sockets' = {[id |-> i, record |-> records[i]] : i \in {j \in Inode : records[j] # NoRecord}}
  /\ next' = 1
  /\ pc' = "flows"
  /\ UNCHANGED <<host, todo, scan, owners, lines, absent, records, flows, errors, ret, faults>>

\* Bug: the owners of a flow are looked up when it is written.
WriteFlowsLate ==
  /\ pc = "flows"
  /\ flows' = {[sock |-> l.sock, id |-> l.inode,
                owners |-> {o \in owners : <<o.pid, o.inode>> \in holds /\ o.inode = l.inode}]
               : l \in lines}
  /\ Return("ok")
  /\ UNCHANGED <<host, reading, sockets, errors, faults>>

\* collectNetworkFlows: one flow per line, with the owners of that line, or
\* one record that there is none.
WriteFlows ==
  /\ pc = "flows"
  /\ flows' = IF lines = {} THEN {NoFlow}
              ELSE {[sock |-> l.sock, id |-> l.inode, owners |-> l.owners] : l \in lines}
  /\ Return("ok")
  /\ UNCHANGED <<host, reading, sockets, errors, faults>>

\* A checked write fails.
WriteFails ==
  /\ pc \in {"tables", "flows"}
  /\ Fault
  /\ Return("err")
  /\ UNCHANGED <<host, reading, written>>

\* The run's context is looked at between the parts of the collector.
Interrupt ==
  /\ pc = "flows"
  /\ Return("err")
  /\ UNCHANGED <<host, reading, written, faults>>

----------------------------------------------------------------------------
Collect == \/ ListPIDs \/ ReadStatus \/ ListDescriptors \/ ReadDetail \/ ReadDescriptor
           \/ ScannedProcess \/ ScanEnds \/ ReadTable \/ TableFails
           \/ WriteSockets \/ WriteFlows \/ WriteFails \/ Interrupt

\* The host matters only while the collector runs.
Next == Collect \/ (ret = "none" /\ HostStep)

Spec == Init /\ [][Next]_vars

----------------------------------------------------------------------------
(* Properties.                                                             *)

Owner  == [inode : Sock, pid : Pid, id : 1 .. MaxBorn, facts : [Details -> 0 .. MaxBorn]]
Joint  == [conn : Sock \union {"none"}, tables : SUBSET {Table[k] : k \in 1 .. Len(Table)},
           owners : SUBSET Owner]

\* Every variable stays in its range.
TypeOK ==
  /\ procs \in [Pid -> [id : 0 .. MaxBorn, hidden : BOOLEAN]]
  /\ born \in 0 .. MaxBorn
  /\ socks \in [Sock -> {"unused", "open", "waiting", "gone"}]
  /\ holds \subseteq Pid \X Sock /\ kept \subseteq holds /\ early \subseteq Sock
  /\ pc \in {"list", "pick", "fd", "detail", "tables", "flows", "done"}
  /\ todo \subseteq Pid
  /\ scan \in [pid : Pid \union {0}, id : 0 .. MaxBorn, facts : [Details -> 0 .. MaxBorn],
               fds : SUBSET Sock]
  /\ next \in (1 .. 7) \union (1 .. Len(Table) + 1)
  /\ owners \subseteq Owner
  /\ \A l \in lines : l.sock \in Sock /\ l.inode \in Inode /\ l.owners \subseteq owners
  /\ absent \subseteq {Table[k] : k \in 1 .. Len(Table)}
  /\ records \in [Inode -> Joint]
  /\ \A r \in sockets : r.id \in Inode /\ r.record \in Joint
  /\ \A f \in flows \ {NoFlow} : f.sock \in Sock /\ f.id \in Inode /\ f.owners \subseteq owners
  /\ ret \in {"none", "ok", "err"}
  /\ faults \in 0 .. MaxFaults

Denied(p, f) == Event(p, f, "denied") \in errors

\* Completeness (collectConnections and AttachOwners): a socket that was open
\* from before the tables were read to the return has an entity of its own and
\* one flow, or its table is reported absent; and a process that has held it
\* since the owner scan began is among its owners, with facts of that process
\* and of no other, unless its descriptors could not be read.
StableSocketReported ==
  ret = "ok" =>
    \A s \in early : TableOf[s] \notin absent =>
      /\ Cardinality({f \in flows : f.sock = s}) = 1
      /\ \E r \in sockets :
           /\ r.id = s /\ r.record.conn = s
           /\ \A p \in Pid : <<p, s>> \in kept /\ ~Denied(p, "fd") /\ ~Denied(0, "proc") =>
                \E o \in r.record.owners :
                  /\ o.pid = p /\ o.id = procs[p].id
                  /\ \A f \in Details : o.facts[f] \in {0, procs[p].id}
                  /\ o.facts["stat"] = procs[p].id

\* One answer (the merge of records and the list of lines): whatever happened
\* to the host between the writes, the flow of a socket and its entity name
\* the same owners.
FlowsMatchSockets ==
  ret = "ok" =>
    \A f \in flows : f.id \in Sock =>
      \E r \in sockets : r.id = f.id /\ r.record.conn = f.sock /\ r.record.owners = f.owners

----------------------------------------------------------------------------
(* What the documents say that the program does not do.                    *)

\* doc/EVIDENCE_MERGE_DESIGN_CN.md:16, when two observations of one field
\* differ, both are kept: no endpoint that was read from a table is lost when
\* lines are merged.
ConflictsKept ==
  ret = "ok" => \A l \in lines : \E r \in sockets : r.record.conn = l.sock
=============================================================================
