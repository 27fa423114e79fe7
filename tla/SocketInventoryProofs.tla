----------------------- MODULE SocketInventoryProofs -----------------------
(***************************************************************************)
(* What SocketInventory promises for any number of processes, sockets,     *)
(* tables and failures: the flow of a socket and its entity name the same  *)
(* owners, whatever happens to the host between the two writes.            *)
(***************************************************************************)
EXTENDS SocketInventory, FiniteSetTheorems, WellFoundedInduction, TLAPS

\* The tables are being read, or have been.
Reading == pc \in {"tables", "flows", "done"}

\* A line has the inode of its socket, or none; its owners are those of the
\* index, which is not touched once tables are read.
LinesJoined ==
  \A l \in lines : /\ l.sock \in Sock
                   /\ l.inode \in {l.sock, "0"}
                   /\ l.owners = Joined(l.inode)

\* The record of a line's identity is there, and merging kept its owners and,
\* when the identity is an inode, the socket.
RecordsJoined ==
  /\ \A l \in lines : records[l.inode] # NoRecord
  /\ \A i \in Inode : records[i] # NoRecord =>
       /\ records[i].owners = Joined(i)
       /\ records[i].conn \in Sock
       /\ i \in Sock => records[i].conn = i

\* Before the flows, the entities that were written are the merged records; the
\* flows agree with the entities.
EntitiesWritten ==
  pc = "flows" =>
    sockets = {[id |-> i, record |-> records[i]] : i \in {j \in Inode : records[j] # NoRecord}}
FlowsAgree ==
  \A f \in flows : f.id \in Sock =>
    \E r \in sockets : r.id = f.id /\ r.record.conn = f.sock /\ r.record.owners = f.owners

\* The types that the merge of two records rests on.
TableName == {"tcp", "tcp6", "udp", "udp6", "unix"}
MergeTypes ==
  /\ next \in Nat \ {0}
  /\ records \in [Inode -> [conn : Sock \union {"none"}, tables : SUBSET TableName,
                            owners : SUBSET owners]]

\* The inductive invariant: nothing is read before the owners are known.
FlowInv ==
  /\ MergeTypes
  /\ ~Reading => lines = {} /\ records = [i \in Inode |-> NoRecord]
  /\ pc # "done" => flows = {}
  /\ LinesJoined
  /\ RecordsJoined
  /\ EntitiesWritten
  /\ FlowsAgree

----------------------------------------------------------------------------
\* Initially nothing is read (Collect's first lines).
LEMMA FlowInit == Init => FlowInv
  BY SockAssumption DEF Init, FlowInv, MergeTypes, Reading, LinesJoined, RecordsJoined,
     EntitiesWritten, FlowsAgree, NoRecord, Inode

\* What the invariant is about does not change: the host's steps, the failing
\* table, and the steps that stop the collector.
LEMMA FlowFrame ==
  ASSUME FlowInv,
         UNCHANGED <<owners, lines, records, sockets, flows>>,
         next' \in Nat \ {0},
         pc' = pc \/ pc' = "done" \/ (pc = "tables" /\ pc' = pc)
  PROVE  FlowInv'
  BY DEF FlowInv, MergeTypes, Reading, LinesJoined, RecordsJoined, EntitiesWritten,
     FlowsAgree, Joined

\* The owner scan reads no line and merges no record (ScanSocketOwners).
LEMMA FlowScan ==
  ASSUME FlowInv, ~Reading,
         UNCHANGED <<lines, records, sockets, flows>>,
         next' \in Nat \ {0},
         pc' \notin {"flows", "done"}
  PROVE  FlowInv'
<1>1. lines = {} /\ records = [i \in Inode |-> NoRecord] /\ flows = {}
  BY DEF FlowInv, Reading
<1>2. MergeTypes'
  BY <1>1 DEF MergeTypes, NoRecord
<1>3. QED
  BY <1>1, <1>2 DEF FlowInv, Reading, LinesJoined, RecordsJoined, EntitiesWritten,
     FlowsAgree, NoRecord, Inode

\* Merging never loses a record, its owners or its first socket, when the owners
\* of a second line are the same (mergeSocketRecord).
LEMMA MergeKeeps ==
  ASSUME NEW own, NEW old \in [conn : Sock \union {"none"}, tables : SUBSET TableName, owners : SUBSET own],
         NEW conn \in Sock, NEW t \in TableName, NEW mine \in SUBSET own,
         old # NoRecord => old.owners = mine /\ old.conn \in Sock
  PROVE  /\ MergeRecord(old, conn, t, mine) \in [conn : Sock \union {"none"},
                                                tables : SUBSET TableName, owners : SUBSET own]
         /\ MergeRecord(old, conn, t, mine) # NoRecord
         /\ MergeRecord(old, conn, t, mine).owners = mine
         /\ MergeRecord(old, conn, t, mine).conn = IF old = NoRecord THEN conn ELSE old.conn
<1>1. CASE old = NoRecord
  BY <1>1, SockAssumption DEF MergeRecord, NoRecord
<1>2. CASE old # NoRecord
  BY <1>2, SockAssumption DEF MergeRecord, NoRecord
<1>3. QED
  BY <1>1, <1>2

\* Reading a table joins each line to its owners and merges it (collectConnections).
LEMMA FlowReadTable == FlowInv /\ ReadTable => FlowInv'
<1> SUFFICES ASSUME FlowInv, ReadTable PROVE FlowInv'
  OBVIOUS
<1> DEFINE t   == Table[next]
           new == {[sock |-> s, inode |-> Inode0(s), owners |-> Joined(Inode0(s))] :
                     s \in {x \in Sock : TableOf[x] = t /\ socks[x] \in {"open", "waiting"}}}
<1>1. PICK first \in [{l.inode : l \in new} -> Sock] :
        /\ \A i \in DOMAIN first : \E l \in new : l.inode = i /\ l.sock = first[i]
        /\ records' = [i \in Inode |-> IF i \in DOMAIN first
                         THEN MergeRecord(records[i], first[i], t, Joined(i)) ELSE records[i]]
  BY DEF ReadTable
<1>2. /\ pc = "tables" /\ pc' = pc /\ lines' = lines \union new /\ next' = next + 1
      /\ UNCHANGED <<owners, sockets, flows>>
  BY DEF ReadTable, written
<1>3. t \in TableName
  BY <1>2, TableAssumption DEF ReadTable, FlowInv, MergeTypes, TableName
<1>4. \A l \in new : l.sock \in Sock /\ l.inode \in {l.sock, "0"} /\ l.owners = Joined(l.inode)
  BY DEF Inode0
<1>5. DOMAIN first \subseteq Inode /\ \A i \in DOMAIN first : i \in Sock => first[i] = i
  BY <1>1, <1>4, SockAssumption DEF Inode
<1>6. \A i \in Inode : Joined(i) \in SUBSET owners
  BY DEF Joined
<1>7. \A i \in Inode :
        /\ records'[i] \in [conn : Sock \union {"none"}, tables : SUBSET TableName,
                            owners : SUBSET owners]
        /\ records[i] # NoRecord \/ i \in DOMAIN first => records'[i] # NoRecord
        /\ records'[i] # NoRecord => /\ records'[i].owners = Joined(i)
                                     /\ records'[i].conn \in Sock
                                     /\ i \in Sock => records'[i].conn = i
  <2> TAKE i \in Inode
  <2>1. /\ records[i] \in [conn : Sock \union {"none"}, tables : SUBSET TableName,
                           owners : SUBSET owners]
        /\ records[i] # NoRecord => /\ records[i].owners = Joined(i)
                                    /\ records[i].conn \in Sock
                                    /\ i \in Sock => records[i].conn = i
    BY DEF FlowInv, MergeTypes, RecordsJoined
  <2>2. CASE i \notin DOMAIN first
    BY <1>1, <2>1, <2>2
  <2>3. CASE i \in DOMAIN first
    <3>1. records'[i] = MergeRecord(records[i], first[i], t, Joined(i)) /\ first[i] \in Sock
      BY <1>1, <2>3
    <3> DEFINE mine == Joined(i)
               old  == records[i]
               conn == first[i]
               r    == MergeRecord(old, conn, t, mine)
    <3>a. /\ old \in [conn : Sock \union {"none"}, tables : SUBSET TableName, owners : SUBSET owners]
          /\ conn \in Sock /\ t \in TableName /\ mine \in SUBSET owners
          /\ old # NoRecord => old.owners = mine /\ old.conn \in Sock
      BY <1>3, <1>6, <2>1, <3>1
    <3>2. /\ r \in [conn : Sock \union {"none"}, tables : SUBSET TableName, owners : SUBSET owners]
          /\ r # NoRecord /\ r.owners = mine
          /\ r.conn = IF old = NoRecord THEN conn ELSE old.conn
      <4> HIDE DEF mine, old, conn, t
      <4>1. QED
        BY <3>a, MergeKeeps, SMTT(30)
    <3>3. r.conn \in Sock /\ (i \in Sock => r.conn = i)
      BY <1>5, <2>1, <2>3, <3>1, <3>2
    <3> HIDE DEF r
    <3>4. QED
      BY <3>1, <3>2, <3>3 DEF r
  <2>4. QED
    BY <2>2, <2>3
<1>8. MergeTypes'
  BY <1>1, <1>2, <1>7 DEF FlowInv, MergeTypes
<1>9. LinesJoined'
  BY <1>2, <1>4 DEF FlowInv, LinesJoined, Joined
<1>10. RecordsJoined'
  <2>1. \A l \in lines' : l.inode \in Inode
    BY <1>9 DEF LinesJoined, Inode
  <2>2. \A l \in lines' : records'[l.inode] # NoRecord
    BY <1>1, <1>2, <1>7, <2>1 DEF FlowInv, RecordsJoined
  <2>3. QED
    BY <1>2, <1>7, <2>2 DEF RecordsJoined, Joined
<1>11. QED
  BY <1>2, <1>8, <1>9, <1>10 DEF FlowInv, Reading, EntitiesWritten, FlowsAgree

\* A flow repeats its line, and the entity of its identity has the same socket
\* and the same owners (collectNetworkFlows).
LEMMA FlowWriteFlows == FlowInv /\ WriteFlows => FlowInv'
<1> SUFFICES ASSUME FlowInv, WriteFlows PROVE FlowInv'
  OBVIOUS
<1>1. /\ pc = "flows" /\ pc' = "done" /\ UNCHANGED <<owners, lines, records, sockets, next>>
      /\ flows' = IF lines = {} THEN {NoFlow}
                  ELSE {[sock |-> l.sock, id |-> l.inode, owners |-> l.owners] : l \in lines}
  BY DEF WriteFlows, Return, reading
<1>2. \A l \in lines : l.inode \in Sock =>
        \E r \in sockets : r.id = l.inode /\ r.record.conn = l.sock /\ r.record.owners = l.owners
  <2> SUFFICES ASSUME NEW l \in lines, l.inode \in Sock
               PROVE  \E r \in sockets : r.id = l.inode /\ r.record.conn = l.sock
                                         /\ r.record.owners = l.owners
    OBVIOUS
  <2>1. l.inode = l.sock /\ l.owners = Joined(l.inode) /\ l.inode \in Inode
    BY SockAssumption DEF FlowInv, LinesJoined, Inode
  <2>2. /\ records[l.inode] # NoRecord
        /\ records[l.inode].owners = Joined(l.inode) /\ records[l.inode].conn = l.inode
    BY <2>1 DEF FlowInv, RecordsJoined
  <2>3. [id |-> l.inode, record |-> records[l.inode]] \in sockets
    BY <1>1, <2>1, <2>2 DEF FlowInv, EntitiesWritten
  <2>4. QED
    BY <2>1, <2>2, <2>3
<1>3. FlowsAgree'
  <2>1. CASE lines = {}
    BY <1>1, <2>1, SockAssumption DEF FlowsAgree, NoFlow
  <2>2. CASE lines # {}
    BY <1>1, <1>2, <2>2 DEF FlowsAgree
  <2>3. QED
    BY <2>1, <2>2
<1>4. QED
  BY <1>1, <1>3 DEF FlowInv, MergeTypes, Reading, LinesJoined, RecordsJoined,
     EntitiesWritten, Joined

\* Every step of the collector and of its host keeps the invariant.
LEMMA FlowStep == FlowInv /\ [Next]_vars => FlowInv'
<1> SUFFICES ASSUME FlowInv, [Next]_vars PROVE FlowInv'
  OBVIOUS
<1>0. next \in Nat \ {0}
  BY DEF FlowInv, MergeTypes
<1>1. CASE ListPIDs
  BY <1>0, <1>1, FlowScan DEF ListPIDs, Reading
<1>2. CASE ReadStatus
  BY <1>0, <1>2, FlowScan DEF ReadStatus, Reading
<1>3. CASE ListDescriptors
  BY <1>0, <1>3, FlowScan DEF ListDescriptors, Reading
<1>4. CASE ReadDetail
  BY <1>0, <1>4, FlowScan DEF ReadDetail, Reading
<1>5. CASE ReadDescriptor
  BY <1>0, <1>5, FlowScan DEF ReadDescriptor, Reading, written
<1>6. CASE ScannedProcess
  BY <1>6, FlowScan DEF ScannedProcess, Reading, written
<1>7. CASE ScanEnds
  BY <1>0, <1>7, FlowScan DEF ScanEnds, Reading, reading, written
<1>8. CASE ReadTable
  BY <1>8, FlowReadTable
<1>9. CASE TableFails
  BY <1>0, <1>9, FlowFrame DEF TableFails
<1>10. CASE WriteSockets
  BY <1>10 DEF WriteSockets, FlowInv, MergeTypes, Reading, LinesJoined, RecordsJoined,
     EntitiesWritten, FlowsAgree, Joined
<1>11. CASE WriteFlows
  BY <1>11, FlowWriteFlows
<1>12. CASE WriteFails
  BY <1>0, <1>12, FlowFrame DEF WriteFails, Return, reading, written
<1>13. CASE Interrupt
  BY <1>0, <1>13, FlowFrame DEF Interrupt, Return, reading, written
<1>14. CASE HostStep
  <2>1. UNCHANGED <<pc, reading, written>>
    BY <1>14 DEF HostStep, Spawn, Exit, Open, Share, Close, WaitEnds
  <2>2. QED
    BY <1>0, <2>1, FlowFrame DEF reading, written
<1>15. CASE UNCHANGED vars
  BY <1>0, <1>15, FlowFrame DEF vars, reading, written
<1>16. QED
  BY <1>1, <1>2, <1>3, <1>4, <1>5, <1>6, <1>7, <1>8, <1>9, <1>10, <1>11, <1>12, <1>13,
     <1>14, <1>15 DEF Next, Collect

----------------------------------------------------------------------------
(* The invariants of the scan and of the tables.                           *)

\* Every variable is in its range, a descriptor is held by a process that is
\* there, a process in the scan is a process, and the position of the next read
\* belongs to what is being read.
TypeInv ==
  /\ TypeOK
  /\ \A p \in Pid, s \in Sock : <<p, s>> \in holds => Alive(p)
  /\ pc \in {"fd", "detail"} => scan.pid \in Pid /\ scan.id # 0
  /\ pc = "detail" => next \in 1 .. 7
  /\ pc = "tables" => next \in 1 .. Len(Table) + 1
  /\ pc \in {"list", "pick", "fd"} => next = 1
  /\ pc = "done" <=> ret # "none"

\* What an owner of process p with a descriptor of socket s says, given facts
\* of the process that has the PID now.
OwnFacts(facts, p) == \A f \in Details : facts[f] \in {0, procs[p].id}
Owns(p, s) ==
  \E o \in owners : /\ o.inode = s /\ o.pid = p /\ o.id = procs[p].id
                    /\ OwnFacts(o.facts, p) /\ o.facts["stat"] = procs[p].id

\* The scan of p is at work: its identity and its facts are those of p.
InScan(p) ==
  /\ pc \in {"fd", "detail"} /\ scan.pid = p /\ scan.id = procs[p].id
  /\ OwnFacts(scan.facts, p)
  /\ pc = "detail" /\ next > 5 => scan.facts["stat"] = procs[p].id

\* A descriptor that has been held since the scan began waits to be read, is
\* being read, has been read, or could not be.
KeptFollowed(p, s) ==
  \/ Denied(p, "fd") \/ Denied(0, "proc")
  \/ p \in todo
  \/ InScan(p) /\ (pc = "detail" /\ s \notin scan.fds => Owns(p, s))
  \/ Owns(p, s)
KeptInv ==
  /\ pc = "list" => kept = {}
  /\ pc \in {"tables", "flows", "done"} => todo = {}
  /\ \A p \in Pid, s \in Sock : <<p, s>> \in kept => KeptFollowed(p, s)

\* A socket that has been open since the tables were begun: all its lines have
\* its inode, and once its table was read there is one.
Passed(s) == \/ pc = "tables" /\ \E k \in 1 .. Len(Table) : k < next /\ Table[k] = TableOf[s]
             \/ pc = "flows"
EarlyInv ==
  /\ \A s \in early : socks[s] = "open"
  /\ ~Reading => early = {}
  /\ \A l \in lines : l.sock \in early => l.inode = l.sock
  /\ \A s \in early : Passed(s) /\ TableOf[s] \notin absent => \E l \in lines : l.sock = s

\* Its flow, once flows are written, is that of such a line.
StableFlow(s) == [sock |-> s, id |-> s, owners |-> Joined(s)]
EarlyFlows ==
  ret = "ok" => \A s \in early : TableOf[s] \notin absent =>
    {f \in flows : f.sock = s} = {StableFlow(s)}

StableInv == TypeInv /\ FlowInv /\ KeptInv /\ EarlyInv /\ EarlyFlows

----------------------------------------------------------------------------
(* Facts about the operators.                                              *)

\* Every nonempty set of natural numbers has a least element.
LEMMA LeastNatural ==
  ASSUME NEW S, S \subseteq Nat, S # {}
  PROVE  \E p \in S : \A q \in S : p <= q
<1>. DEFINE Below(p) == 0 .. p - 1
            F == {Below(p) : p \in S}
<1>1. \A p \in S : IsFiniteSet(Below(p)) /\ Below(p) \subseteq Nat
  BY FS_Interval
<1>2. F \subseteq FiniteSubsetsOf(Nat) /\ F # {}
  BY <1>1 DEF FiniteSubsetsOf
<1>3. PICK X \in F : \A Y \in F : ~(<<Y, X>> \in StrictSubsetOrdering(Nat))
  <2>. HIDE DEF F
  <2>. QED
    BY <1>2, FS_StrictSubsetOrderingWellFounded, WFMin
<1>4. PICK p \in S : X = Below(p)
  OBVIOUS
<1>5. ASSUME NEW q \in S, ~(p <= q) PROVE FALSE
  <2>1. Below(q) \subseteq Below(p) /\ q \in Below(p) /\ q \notin Below(q)
    BY <1>5
  <2>2. <<Below(q), Below(p)>> \in StrictSubsetOrdering(Nat)
    BY <1>1, <2>1 DEF StrictSubsetOrdering
  <2>. QED
    BY <1>3, <1>4, <2>2
<1>. QED
  BY <1>5

\* The next PID is one of those that are left.
LEMMA LeastPid ==
  ASSUME NEW S, S \subseteq Pid, S # {}
  PROVE  Least(S) \in S /\ Least(S) \in Pid
<1>1. \E p \in S : \A q \in S : p <= q
  BY LeastNatural, PidAssumption
<1>. QED
  BY <1>1 DEF Least

\* The details of a process, and where its start time stands among them.
LEMMA DetailNames ==
  /\ Len(Detail) = 6 /\ Detail[5] = "stat" /\ "stat" \in Details
  /\ \A k \in 1 .. 6 : Detail[k] \in Details
<1>1. Len(Detail) = 6 /\ Detail[5] = "stat"
  BY DEF Detail
<1>2. \A k \in 1 .. 6 : Detail[k] \in Details
  BY <1>1 DEF Details
<1>. QED
  BY <1>1, <1>2

\* A process that is there yields its own identity or nothing; only what is
\* guarded can be denied.
LEMMA OutcomeOf ==
  ASSUME NEW p \in Pid, NEW f, procs \in [Pid -> [id : 0 .. MaxBorn, hidden : BOOLEAN]]
  PROVE  /\ Outcome(p, f).val \in {0, procs[p].id} /\ Outcome(p, f).val \in 0 .. MaxBorn
         /\ Outcome(p, f).issue \in {"none", "race", "denied"}
         /\ Alive(p) /\ Outcome(p, f).val = 0 => Outcome(p, f).issue = "denied"
         /\ Alive(p) /\ f \notin Guarded => Outcome(p, f).val = procs[p].id
<1>1. procs[p].id \in 0 .. MaxBorn
  OBVIOUS
<1>2. CASE ~Alive(p)
  BY <1>2, <1>1, SocketBoundAssumption DEF Outcome, Alive
<1>3. CASE Alive(p) /\ procs[p].hidden /\ f \in Guarded
  BY <1>3, <1>1, SocketBoundAssumption DEF Outcome, Alive
<1>4. CASE Alive(p) /\ ~(procs[p].hidden /\ f \in Guarded)
  BY <1>4, <1>1 DEF Outcome, Alive
<1>. QED
  BY <1>2, <1>3, <1>4

\* What leaves a socket without descriptors closes it, and takes it from those
\* that stayed open.
LEMMA Released ==
  ASSUME TypeInv, NEW D, Release(D)
  PROVE  /\ holds' = holds \ D /\ kept' = kept \ D
         /\ socks' \in [Sock -> {"unused", "open", "waiting", "gone"}]
         /\ early' \subseteq early /\ \A s \in early' : socks'[s] = "open"
<1>1. socks \in [Sock -> {"unused", "open", "waiting", "gone"}] /\ early \subseteq Sock
  BY DEF TypeInv, TypeOK
<1>2. holds' = holds \ D /\ kept' = kept \ D /\ early' = {s \in early : socks'[s] = "open"}
  BY DEF Release
<1>3. PICK W, left : socks' = [s \in Sock |-> IF s \in W THEN "waiting"
                                             ELSE IF s \in left THEN "gone" ELSE socks[s]]
  BY DEF Release
<1>. QED
  BY <1>1, <1>2, <1>3

----------------------------------------------------------------------------
(* The host.                                                               *)

\* What a step of the host leaves alone: the collector; the processes that have
\* held a descriptor since the scan began; that early sockets are open.
LEMMA HostMoves ==
  ASSUME TypeInv, HostStep
  PROVE  /\ UNCHANGED <<pc, reading, written, ret, faults>>
         /\ procs' \in [Pid -> [id : 0 .. MaxBorn, hidden : BOOLEAN]] /\ born' \in 0 .. MaxBorn
         /\ socks' \in [Sock -> {"unused", "open", "waiting", "gone"}]
         /\ holds' \subseteq Pid \X Sock /\ kept' \subseteq holds'
         /\ \A p \in Pid, s \in Sock : <<p, s>> \in holds' => Alive(p)'
         /\ kept' \subseteq kept /\ early' \subseteq early
         /\ \A p \in Pid, s \in Sock : <<p, s>> \in kept' => procs'[p] = procs[p]
         /\ (\A s \in early : socks[s] = "open") => \A s \in early' : socks'[s] = "open"
<1>1. /\ procs \in [Pid -> [id : 0 .. MaxBorn, hidden : BOOLEAN]] /\ born \in 0 .. MaxBorn
      /\ socks \in [Sock -> {"unused", "open", "waiting", "gone"}]
      /\ holds \subseteq Pid \X Sock /\ kept \subseteq holds /\ early \subseteq Sock
      /\ \A p \in Pid, s \in Sock : <<p, s>> \in holds => procs[p].id # 0
  BY DEF TypeInv, TypeOK, Alive
<1>2. ASSUME NEW p \in Pid, Spawn(p)
      PROVE  /\ UNCHANGED <<socks, holds, kept, early, pc, reading, written, ret, faults>>
             /\ procs' \in [Pid -> [id : 0 .. MaxBorn, hidden : BOOLEAN]] /\ born' \in 0 .. MaxBorn
             /\ \A q \in Pid : procs[q].id # 0 => procs'[q] = procs[q]
  <2>1. born' = born + 1 /\ born < MaxBorn /\ procs[p].id = 0
    BY <1>2 DEF Spawn, Alive
  <2>2. PICK h \in BOOLEAN : procs' = [procs EXCEPT ![p] = [id |-> born', hidden |-> h]]
    BY <1>2 DEF Spawn
  <2>3. born' \in 0 .. MaxBorn
    BY <1>1, <2>1, SocketBoundAssumption
  <2>. QED
    BY <1>1, <1>2, <2>1, <2>2, <2>3 DEF Spawn
<1>3. ASSUME NEW p \in Pid, Exit(p)
      PROVE  /\ UNCHANGED <<born, pc, reading, written, ret, faults>>
             /\ procs' \in [Pid -> [id : 0 .. MaxBorn, hidden : BOOLEAN]]
             /\ \A q \in Pid : q # p => procs'[q] = procs[q]
             /\ holds' = holds \ {d \in holds : d[1] = p}
             /\ kept' = kept \ {d \in holds : d[1] = p}
             /\ socks' \in [Sock -> {"unused", "open", "waiting", "gone"}]
             /\ early' \subseteq early /\ \A s \in early' : socks'[s] = "open"
  <2>1. UNCHANGED <<born, pc, reading, written, ret, faults>> /\ procs' = [procs EXCEPT ![p] = Free]
    BY <1>3 DEF Exit
  <2>2. Free \in [id : 0 .. MaxBorn, hidden : BOOLEAN]
    BY SocketBoundAssumption DEF Free
  <2>3. Release({d \in holds : d[1] = p})
    BY <1>3 DEF Exit
  <2>4. /\ holds' = holds \ {d \in holds : d[1] = p}
        /\ kept' = kept \ {d \in holds : d[1] = p}
        /\ socks' \in [Sock -> {"unused", "open", "waiting", "gone"}]
        /\ early' \subseteq early /\ \A s \in early' : socks'[s] = "open"
    BY <2>3, Released
  <2>. QED
    BY <1>1, <2>1, <2>2, <2>4
<1>4. CASE \E p \in Pid : Spawn(p)
  BY <1>1, <1>2, <1>4 DEF Alive
<1>5. CASE \E p \in Pid : Exit(p)
  <2>1. PICK p \in Pid : Exit(p)
    BY <1>5
  <2>2. \A q \in Pid, s \in Sock : <<q, s>> \in holds' => q # p /\ <<q, s>> \in holds
    BY <1>3, <2>1
  <2>3. kept' \subseteq kept /\ holds' \subseteq holds /\ kept' \subseteq holds'
    BY <1>1, <1>3, <2>1
  <2>4. \A q \in Pid : q # p => procs'[q] = procs[q]
    BY <1>3, <2>1
  <2>5. \A q \in Pid, s \in Sock : <<q, s>> \in holds' => procs'[q] = procs[q] /\ procs[q].id # 0
    BY <1>1, <2>2, <2>4
  <2>6. \A q \in Pid, s \in Sock : <<q, s>> \in holds' => procs'[q].id # 0
    BY <2>5
  <2>7. \A q \in Pid, s \in Sock : <<q, s>> \in kept' => procs'[q] = procs[q]
    BY <2>3, <2>5
  <2>8. /\ UNCHANGED <<born, pc, reading, written, ret, faults>>
        /\ procs' \in [Pid -> [id : 0 .. MaxBorn, hidden : BOOLEAN]]
        /\ socks' \in [Sock -> {"unused", "open", "waiting", "gone"}]
        /\ early' \subseteq early /\ \A s \in early' : socks'[s] = "open"
    BY <1>3, <2>1
  <2>. QED
    BY <1>1, <2>3, <2>6, <2>7, <2>8 DEF Alive
<1>6. CASE \E p \in Pid, s \in Sock : Open(p, s)
  BY <1>1, <1>6 DEF Open, Alive
<1>7. CASE \E p \in Pid, s \in Sock : Close(p, s)
  <2>1. PICK p \in Pid, s \in Sock : Close(p, s)
    BY <1>7
  <2>2. Release({<<p, s>>}) /\ UNCHANGED <<procs, born, pc, reading, written, ret, faults>>
    BY <2>1 DEF Close
  <2>3. /\ holds' = holds \ {<<p, s>>} /\ kept' = kept \ {<<p, s>>}
        /\ socks' \in [Sock -> {"unused", "open", "waiting", "gone"}]
        /\ early' \subseteq early /\ \A x \in early' : socks'[x] = "open"
    BY <2>2, Released
  <2>. QED
    BY <1>1, <2>2, <2>3 DEF Alive
<1>8. CASE \E p, q \in Pid, s \in Sock : Share(p, q, s)
  BY <1>1, <1>8 DEF Share, Alive
<1>9. CASE \E s \in Sock : WaitEnds(s)
  BY <1>1, <1>9 DEF WaitEnds, Alive
<1>. QED
  BY <1>4, <1>5, <1>6, <1>7, <1>8, <1>9 DEF HostStep

\* The index and what is joined from it are untouched by the host, so the host
\* keeps all that is known of descriptors and early sockets.
LEMMA StableHost == StableInv /\ HostStep => TypeInv' /\ KeptInv' /\ EarlyInv' /\ EarlyFlows'
<1> SUFFICES ASSUME StableInv, HostStep PROVE TypeInv' /\ KeptInv' /\ EarlyInv' /\ EarlyFlows'
  OBVIOUS
<1>1. TypeInv /\ KeptInv /\ EarlyInv /\ EarlyFlows
  BY DEF StableInv
<1>2. /\ UNCHANGED <<pc, todo, scan, next, owners, lines, absent, records, sockets, flows, errors,
                     ret, faults>>
      /\ procs' \in [Pid -> [id : 0 .. MaxBorn, hidden : BOOLEAN]] /\ born' \in 0 .. MaxBorn
      /\ socks' \in [Sock -> {"unused", "open", "waiting", "gone"}]
      /\ holds' \subseteq Pid \X Sock /\ kept' \subseteq holds'
      /\ \A p \in Pid, s \in Sock : <<p, s>> \in holds' => Alive(p)'
      /\ kept' \subseteq kept /\ early' \subseteq early
      /\ \A p \in Pid, s \in Sock : <<p, s>> \in kept' => procs'[p] = procs[p]
      /\ (\A s \in early : socks[s] = "open") => \A s \in early' : socks'[s] = "open"
  BY <1>1, HostMoves DEF reading, written
<1>3. TypeInv'
  <2>1. TypeOK'
    BY <1>1, <1>2 DEF TypeInv, TypeOK
  <2>. QED
    BY <1>1, <1>2, <2>1 DEF TypeInv
<1>4. KeptInv'
  <2>1. ASSUME NEW p \in Pid, NEW s \in Sock, <<p, s>> \in kept' PROVE KeptFollowed(p, s)'
    <3>1. KeptFollowed(p, s) /\ procs'[p] = procs[p]
      BY <1>1, <1>2, <2>1 DEF KeptInv
    <3>. QED
      BY <1>2, <3>1 DEF KeptFollowed, Denied, InScan, Owns, OwnFacts
  <2>. QED
    BY <1>1, <1>2, <2>1 DEF KeptInv
<1>5. EarlyInv'
  <2>1. \A s \in early' : Passed(s)' => Passed(s)
    BY <1>2 DEF Passed
  <2>. QED
    BY <1>1, <1>2, <2>1 DEF EarlyInv, Reading
<1>6. EarlyFlows'
  BY <1>1, <1>2 DEF EarlyFlows, StableFlow, Joined
<1>. QED
  BY <1>3, <1>4, <1>5, <1>6

----------------------------------------------------------------------------
(* The owner scan: the types.                                              *)

Scans == [pid : Pid \union {0}, id : 0 .. MaxBorn, facts : [Details -> 0 .. MaxBorn],
          fds : SUBSET Sock]

\* A scan that is done is in the range of scans.
LEMMA NoScanTyped == NoScan \in Scans
  BY SocketBoundAssumption DEF NoScan, Scans

LEMMA TypeListPIDs == TypeInv /\ ListPIDs => TypeInv'
<1> SUFFICES ASSUME TypeInv, ListPIDs PROVE TypeInv'
  OBVIOUS
<1>1. /\ pc = "list" /\ pc' = "pick" /\ kept' = holds
      /\ UNCHANGED <<procs, born, socks, holds, early, scan, next, owners, lines, absent,
                     records, sockets, flows, ret>>
      /\ todo' \subseteq Pid
      /\ faults' \in 0 .. MaxFaults
  BY SocketBoundAssumption DEF ListPIDs, Fault, TypeInv, TypeOK
<1>2. TypeOK'
  BY <1>1 DEF TypeInv, TypeOK
<1>. QED
  BY <1>1, <1>2 DEF TypeInv, Alive

LEMMA TypeReadStatus == TypeInv /\ ReadStatus => TypeInv'
<1> SUFFICES ASSUME TypeInv, ReadStatus PROVE TypeInv'
  OBVIOUS
<1> DEFINE p == Least(todo)
           o == Outcome(p, "status")
<1>1. /\ pc = "pick" /\ todo # {} /\ todo' = todo \ {p}
      /\ UNCHANGED <<procs, born, socks, holds, kept, early, next, owners, lines, absent, records,
                     sockets, flows, ret, faults>>
      /\ \/ o.val = 0 /\ pc' = "pick" /\ scan' = scan
         \/ o.val # 0 /\ pc' = "fd" /\ scan' = [NoScan EXCEPT !.pid = p, !.id = o.val]
  BY DEF ReadStatus, host
<1>2. p \in Pid /\ o.val \in 0 .. MaxBorn
  <2>1. p \in Pid
    BY <1>1, LeastPid DEF TypeInv, TypeOK
  <2>. HIDE DEF p
  <2>. QED
    BY <2>1, OutcomeOf DEF TypeInv, TypeOK
<1>. HIDE DEF p, o
<1>3. /\ scan' \in Scans
      /\ pc' = "fd" => scan'.pid \in Pid /\ scan'.id # 0
  <2>1. /\ [NoScan EXCEPT !.pid = p, !.id = o.val] \in Scans
        /\ [NoScan EXCEPT !.pid = p, !.id = o.val].pid = p
        /\ [NoScan EXCEPT !.pid = p, !.id = o.val].id = o.val
    BY <1>2, NoScanTyped DEF Scans
  <2>4. scan \in Scans
    BY DEF TypeInv, TypeOK, Scans
  <2>. QED
    BY <1>1, <1>2, <2>1, <2>4
<1>4. TypeOK'
  BY <1>1, <1>3 DEF TypeInv, TypeOK, Scans
<1>. QED
  BY <1>1, <1>3, <1>4 DEF TypeInv, Alive

LEMMA TypeListDescriptors == TypeInv /\ ListDescriptors => TypeInv'
<1> SUFFICES ASSUME TypeInv, ListDescriptors PROVE TypeInv'
  OBVIOUS
<1> DEFINE listed == {s \in Sock : <<scan.pid, s>> \in holds}
<1>1. /\ pc = "fd"
      /\ UNCHANGED <<procs, born, socks, holds, kept, early, todo, next, owners, lines, absent,
                     records, sockets, flows, ret, faults>>
      /\ \/ pc' = "pick" /\ scan' = NoScan
         \/ pc' = "detail" /\ scan' = [scan EXCEPT !.fds = listed]
  BY DEF ListDescriptors, host
<1>2. scan \in Scans /\ scan.pid \in Pid /\ scan.id # 0
  BY <1>1 DEF TypeInv, TypeOK, Scans
<1>3. scan' \in Scans /\ (pc' = "detail" => scan'.pid \in Pid /\ scan'.id # 0)
  <2>1. listed \in SUBSET Sock
    OBVIOUS
  <2>. HIDE DEF listed
  <2>2. [scan EXCEPT !.fds = listed] \in Scans
        /\ [scan EXCEPT !.fds = listed].pid = scan.pid /\ [scan EXCEPT !.fds = listed].id = scan.id
    BY <1>2, <2>1 DEF Scans
  <2>. QED
    BY <1>1, <1>2, <2>2, NoScanTyped
<1>. HIDE DEF listed
<1>4. TypeOK'
  BY <1>1, <1>3 DEF TypeInv, TypeOK, Scans
<1>. QED
  BY <1>1, <1>3, <1>4 DEF TypeInv, Alive

LEMMA TypeReadDetail == TypeInv /\ ReadDetail => TypeInv'
<1> SUFFICES ASSUME TypeInv, ReadDetail PROVE TypeInv'
  OBVIOUS
<1> DEFINE f == Detail[next]
           v == Outcome(scan.pid, f).val
<1>1. /\ pc = "detail" /\ pc' = pc /\ next <= 6 /\ next' = next + 1
      /\ UNCHANGED <<procs, born, socks, holds, kept, early, todo, owners, lines, absent,
                     records, sockets, flows, ret, faults>>
      /\ scan' = [scan EXCEPT !.facts[f] = v]
  BY DetailNames DEF ReadDetail, host
<1>2. scan \in Scans /\ scan.pid \in Pid /\ scan.id # 0 /\ next \in 1 .. 7
  BY <1>1 DEF TypeInv, TypeOK, Scans
<1>3. v \in 0 .. MaxBorn
  BY <1>2, OutcomeOf DEF TypeInv, TypeOK
<1>. HIDE DEF f, v
<1>4. scan' \in Scans /\ scan'.pid = scan.pid /\ scan'.id = scan.id
  BY <1>1, <1>2, <1>3 DEF Scans
<1>5. next' \in 1 .. 7
  BY <1>1, <1>2
<1>6. TypeOK'
  BY <1>1, <1>4, <1>5 DEF TypeInv, TypeOK, Scans
<1>. QED
  BY <1>1, <1>2, <1>4, <1>5, <1>6 DEF TypeInv, Alive

LEMMA TypeReadDescriptor == TypeInv /\ ReadDescriptor => TypeInv'
<1> SUFFICES ASSUME TypeInv, ReadDescriptor PROVE TypeInv'
  OBVIOUS
<1>1. /\ pc = "detail"
      /\ UNCHANGED <<procs, born, socks, holds, kept, early, pc, todo, next, lines, absent,
                     records, sockets, flows, errors, ret, faults>>
  BY DEF ReadDescriptor, host, written
<1>2. PICK s \in scan.fds, S \in SUBSET Sock :
        /\ scan' = [scan EXCEPT !.fds = @ \ {s}]
        /\ owners' = owners \union {[inode |-> t, pid |-> scan.pid, id |-> scan.id,
                                     facts |-> scan.facts] : t \in S}
  <2> DEFINE held == {t \in Sock : <<scan.pid, t>> \in holds}
             seen(s) == IF s \in held THEN {{s}} ELSE {{}} \union {{t} : t \in held}
  <2>1. PICK s \in scan.fds :
          /\ scan' = [scan EXCEPT !.fds = @ \ {s}]
          /\ \E S \in seen(s) :
               owners' = owners \union {[inode |-> t, pid |-> scan.pid, id |-> scan.id,
                                         facts |-> scan.facts] : t \in S}
    BY DEF ReadDescriptor
  <2>2. \A S \in seen(s) : S \in SUBSET Sock
    OBVIOUS
  <2>. QED
    BY <2>1, <2>2
<1>3. scan \in Scans /\ scan.pid \in Pid /\ scan.id # 0
  BY <1>1 DEF TypeInv, TypeOK, Scans
<1>4. scan' \in Scans /\ scan'.pid = scan.pid /\ scan'.id = scan.id
  BY <1>2, <1>3 DEF Scans
<1>5. owners' \subseteq Owner /\ owners \subseteq owners'
  BY <1>2, <1>3, SocketBoundAssumption DEF TypeInv, TypeOK, Scans, Owner
<1>6. TypeOK'
  BY <1>1, <1>4, <1>5 DEF TypeInv, TypeOK, Scans
<1>. QED
  BY <1>1, <1>3, <1>4, <1>6 DEF TypeInv, Alive

LEMMA TypeScanned == TypeInv /\ (ScannedProcess \/ ScanEnds) => TypeInv'
<1> SUFFICES ASSUME TypeInv, ScannedProcess \/ ScanEnds PROVE TypeInv'
  OBVIOUS
<1>1. /\ UNCHANGED <<procs, born, socks, holds, kept, todo, owners, lines, absent, records,
                     sockets, flows, errors, ret, faults>>
      /\ early' \subseteq Sock
      /\ \/ pc = "detail" /\ pc' = "pick" /\ scan' = NoScan /\ next' = 1
         \/ pc = "pick" /\ pc' = "tables" /\ scan' = scan /\ next' = next
  BY DEF ScannedProcess, ScanEnds, host, reading, written, TypeInv, TypeOK
<1>2. scan' \in Scans
  BY <1>1, NoScanTyped DEF TypeInv, TypeOK, Scans
<1>3. next' = 1 /\ 1 \in 1 .. 7 /\ 1 \in 1 .. Len(Table) + 1
  BY <1>1, TableAssumption DEF TypeInv
<1>4. TypeOK'
  BY <1>1, <1>2, <1>3 DEF TypeInv, TypeOK, Scans
<1>. QED
  BY <1>1, <1>3, <1>4 DEF TypeInv, Alive

----------------------------------------------------------------------------
(* The tables: the types.                                                  *)

Listed == {Table[k] : k \in 1 .. Len(Table)}

\* A line that is merged gives a record of a socket of its tables.
LEMMA MergeTyped ==
  ASSUME NEW old \in Joint, NEW conn \in Sock, NEW t \in Listed, NEW own \in SUBSET Owner
  PROVE  MergeRecord(old, conn, t, own) \in Joint
<1>1. CASE old = NoRecord
  BY <1>1 DEF MergeRecord, Joint, Listed
<1>2. CASE old # NoRecord
  BY <1>2 DEF MergeRecord, Joint, Listed
<1>. QED
  BY <1>1, <1>2

LEMMA TypeReadTable == TypeInv /\ ReadTable => TypeInv'
<1> SUFFICES ASSUME TypeInv, ReadTable PROVE TypeInv'
  OBVIOUS
<1> DEFINE t   == Table[next]
           new == {[sock |-> s, inode |-> Inode0(s), owners |-> Joined(Inode0(s))] :
                     s \in {x \in Sock : TableOf[x] = t /\ socks[x] \in {"open", "waiting"}}}
<1>1. PICK first \in [{l.inode : l \in new} -> Sock] :
        records' = [i \in Inode |-> IF i \in DOMAIN first
                      THEN MergeRecord(records[i], first[i], t, Joined(i)) ELSE records[i]]
  BY DEF ReadTable
<1>2. /\ pc = "tables" /\ next <= Len(Table) /\ next' = next + 1 /\ lines' = lines \union new
      /\ UNCHANGED <<procs, born, socks, holds, kept, early, pc, todo, scan, owners, absent,
                     sockets, flows, errors, ret, faults>>
  BY DEF ReadTable, host, written
<1>3. next \in 1 .. Len(Table) + 1 /\ Len(Table) \in Nat
  BY <1>2, TableAssumption DEF TypeInv
<1>4. next' \in 1 .. Len(Table) + 1 /\ t \in Listed
  BY <1>2, <1>3 DEF Listed
<1>5. \A l \in new : l.sock \in Sock /\ l.inode \in Inode /\ l.owners \subseteq owners
  BY DEF Inode0, Inode, Joined
<1>6. records' \in [Inode -> Joint]
  <2>1. \A i \in Inode : records[i] \in Joint /\ Joined(i) \in SUBSET Owner
    BY DEF TypeInv, TypeOK, Joined
  <2>. HIDE DEF t, new
  <2>2. \A i \in DOMAIN first : first[i] \in Sock
    OBVIOUS
  <2>3. \A i \in Inode : i \in DOMAIN first =>
          MergeRecord(records[i], first[i], t, Joined(i)) \in Joint
    BY <1>4, <2>1, <2>2, MergeTyped
  <2>. QED
    BY <1>1, <2>1, <2>3
<1>. HIDE DEF t, new
<1>7. TypeOK'
  BY <1>2, <1>4, <1>5, <1>6 DEF TypeInv, TypeOK
<1>. QED
  BY <1>2, <1>4, <1>7 DEF TypeInv, Alive

LEMMA TypeTableFails == TypeInv /\ TableFails => TypeInv'
<1> SUFFICES ASSUME TypeInv, TableFails PROVE TypeInv'
  OBVIOUS
<1>1. /\ pc = "tables" /\ next <= Len(Table) /\ next' = next + 1
      /\ absent' = absent \union {Table[next]}
      /\ faults' \in 0 .. MaxFaults
      /\ UNCHANGED <<procs, born, socks, holds, kept, early, pc, todo, scan, owners, lines,
                     records, sockets, flows, ret>>
  BY SocketBoundAssumption DEF TableFails, Fault, host, TypeInv, TypeOK
<1>2. next \in 1 .. Len(Table) + 1 /\ Len(Table) \in Nat
  BY <1>1, TableAssumption DEF TypeInv
<1>3. next' \in 1 .. Len(Table) + 1 /\ Table[next] \in {Table[k] : k \in 1 .. Len(Table)}
  BY <1>1, <1>2
<1>4. TypeOK'
  BY <1>1, <1>3 DEF TypeInv, TypeOK
<1>. QED
  BY <1>1, <1>3, <1>4 DEF TypeInv, Alive

LEMMA TypeWrites ==
  TypeInv /\ (WriteSockets \/ WriteFlows \/ WriteFails \/ Interrupt) => TypeInv'
<1> SUFFICES ASSUME TypeInv, WriteSockets \/ WriteFlows \/ WriteFails \/ Interrupt PROVE TypeInv'
  OBVIOUS
<1>0. 1 \in 1 .. 7
  OBVIOUS
<1>1. CASE WriteSockets
  <2>1. /\ pc = "tables" /\ pc' = "flows" /\ next' = 1
        /\ sockets' = {[id |-> i, record |-> records[i]] : i \in {j \in Inode : records[j] # NoRecord}}
        /\ UNCHANGED <<procs, born, socks, holds, kept, early, todo, scan, owners, lines, absent,
                       records, flows, errors, ret, faults>>
    BY <1>1 DEF WriteSockets, host
  <2>2. \A r \in sockets' : r.id \in Inode /\ r.record \in Joint
    BY <2>1 DEF TypeInv, TypeOK
  <2>3. TypeOK'
    BY <1>0, <2>1, <2>2 DEF TypeInv, TypeOK
  <2>. QED
    BY <1>0, <2>1, <2>3 DEF TypeInv, Alive
<1>2. CASE WriteFlows
  <2>1. /\ pc = "flows" /\ pc' = "done" /\ ret' = "ok"
        /\ flows' = IF lines = {} THEN {NoFlow}
                    ELSE {[sock |-> l.sock, id |-> l.inode, owners |-> l.owners] : l \in lines}
        /\ UNCHANGED <<procs, born, socks, holds, kept, early, todo, scan, next, owners, lines, absent,
                       records, sockets, errors, faults>>
    BY <1>2 DEF WriteFlows, Return, host, reading
  <2>2. \A f \in flows' \ {NoFlow} : f.sock \in Sock /\ f.id \in Inode /\ f.owners \subseteq owners
    BY <2>1 DEF TypeInv, TypeOK
  <2>3. TypeOK'
    BY <2>1, <2>2 DEF TypeInv, TypeOK
  <2>. QED
    BY <2>1, <2>3 DEF TypeInv, Alive
<1>3. CASE WriteFails \/ Interrupt
  <2>1. /\ pc \in {"tables", "flows"} /\ pc' = "done" /\ ret' = "err" /\ faults' \in 0 .. MaxFaults
        /\ UNCHANGED <<procs, born, socks, holds, kept, early, todo, scan, next, owners, lines, absent,
                       records, sockets, flows, errors>>
    BY <1>3, SocketBoundAssumption DEF WriteFails, Interrupt, Fault, Return, host, reading, written,
       TypeInv, TypeOK
  <2>2. TypeOK'
    BY <2>1 DEF TypeInv, TypeOK
  <2>. QED
    BY <2>1, <2>2 DEF TypeInv, Alive
<1>. QED
  BY <1>1, <1>2, <1>3

LEMMA TypeInit == Init => TypeInv
<1> SUFFICES ASSUME Init PROVE TypeInv
  OBVIOUS
<1>1. /\ procs = [p \in Pid |-> Free] /\ born = 0 /\ socks = [s \in Sock |-> "unused"]
      /\ holds = {} /\ kept = {} /\ early = {} /\ pc = "list" /\ todo = {} /\ scan = NoScan
      /\ next = 1 /\ owners = {} /\ lines = {} /\ absent = {}
      /\ records = [i \in Inode |-> NoRecord] /\ sockets = {} /\ flows = {} /\ errors = {}
      /\ ret = "none" /\ faults = 0
  BY DEF Init
<1>2. procs \in [Pid -> [id : 0 .. MaxBorn, hidden : BOOLEAN]]
  BY <1>1, SocketBoundAssumption DEF Free
<1>3. NoRecord \in Joint
  BY DEF NoRecord, Joint
<1>4. records \in [Inode -> Joint]
  BY <1>1, <1>3
<1>5. scan \in [pid : Pid \union {0}, id : 0 .. MaxBorn, facts : [Details -> 0 .. MaxBorn],
                fds : SUBSET Sock]
  BY <1>1, NoScanTyped DEF Scans
<1>6. 0 \in 0 .. MaxBorn /\ 0 \in 0 .. MaxFaults /\ 1 \in 1 .. 7
  BY SocketBoundAssumption
<1>7. TypeOK
  BY <1>1, <1>2, <1>4, <1>5, <1>6 DEF TypeOK
<1>. QED
  BY <1>1, <1>7 DEF TypeInv

----------------------------------------------------------------------------
(* The owner scan: no descriptor that stays is lost.                       *)

\* Every descriptor that was held when the scan began belongs to a process that
\* is to be scanned, or the processes could not be listed.
LEMMA KeptListPIDs == StableInv /\ ListPIDs => KeptInv'
<1> SUFFICES ASSUME StableInv, ListPIDs PROVE KeptInv'
  OBVIOUS
<1>1. /\ pc' = "pick" /\ kept' = holds /\ holds \subseteq Pid \X Sock
      /\ \A p \in Pid, s \in Sock : <<p, s>> \in holds => Alive(p)
      /\ todo' = {p \in Pid : Alive(p)} \/ Event(0, "proc", "denied") \in errors'
  BY DEF ListPIDs, StableInv, TypeInv, TypeOK
<1>. QED
  BY <1>1 DEF KeptInv, KeptFollowed, Denied

\* The identity of a process that still holds a descriptor is read.
LEMMA KeptReadStatus == StableInv /\ ReadStatus => KeptInv'
<1> SUFFICES ASSUME StableInv, ReadStatus PROVE KeptInv'
  OBVIOUS
<1> DEFINE q == Least(todo)
           o == Outcome(q, "status")
<1>1. /\ pc = "pick" /\ todo # {} /\ todo' = todo \ {q} /\ errors \subseteq errors'
      /\ UNCHANGED <<procs, kept, owners>>
      /\ \/ o.val = 0 /\ pc' = "pick" /\ scan' = scan
         \/ o.val # 0 /\ pc' = "fd" /\ scan' = [NoScan EXCEPT !.pid = q, !.id = o.val]
  BY DEF ReadStatus, host
<1>2. q \in Pid
  BY <1>1, LeastPid DEF StableInv, TypeInv, TypeOK
<1>3. Alive(q) => o.val = procs[q].id /\ o.val # 0
  <2>. HIDE DEF q
  <2>. QED
    BY <1>2, OutcomeOf DEF StableInv, TypeInv, TypeOK, Alive, Guarded
<1>4. pc' = "fd" => scan'.pid = q /\ scan'.id = o.val /\ scan'.facts = [f \in Details |-> 0]
  <2>. HIDE DEF q, o
  <2>1. NoScan \in Scans /\ NoScan.facts = [f \in Details |-> 0]
    BY NoScanTyped DEF NoScan
  <2>. QED
    BY <1>1, <2>1 DEF Scans
<1>. HIDE DEF q, o
<1>5. ASSUME NEW p \in Pid, NEW s \in Sock, <<p, s>> \in kept' PROVE KeptFollowed(p, s)'
  <2>1. KeptFollowed(p, s) /\ Alive(p)
    BY <1>1, <1>5 DEF StableInv, KeptInv, TypeInv, TypeOK
  <2>2. CASE Denied(p, "fd") \/ Denied(0, "proc")
    BY <1>1, <2>2 DEF KeptFollowed, Denied
  <2>3. CASE Owns(p, s)
    BY <1>1, <2>3 DEF KeptFollowed, Owns, OwnFacts
  <2>4. CASE p \in todo /\ p # q
    BY <1>1, <2>4 DEF KeptFollowed
  <2>5. CASE p = q
    <3>1. pc' = "fd" /\ scan'.pid = p /\ scan'.id = procs[p].id
      BY <1>1, <1>3, <1>4, <2>1, <2>5
    <3>2. InScan(p)'
      BY <1>1, <1>4, <3>1 DEF InScan, OwnFacts
    <3>. QED
      BY <3>1, <3>2 DEF KeptFollowed
  <2>. QED
    BY <1>1, <2>1, <2>2, <2>3, <2>4, <2>5 DEF KeptFollowed, InScan
<1>. QED
  BY <1>1, <1>5 DEF KeptInv

\* The descriptor is on the list, or the list is denied.
LEMMA KeptListDescriptors == StableInv /\ ListDescriptors => KeptInv'
<1> SUFFICES ASSUME StableInv, ListDescriptors PROVE KeptInv'
  OBVIOUS
<1> DEFINE o == Outcome(scan.pid, "fd")
           listed == {s \in Sock : <<scan.pid, s>> \in holds}
<1>1. /\ pc = "fd" /\ errors' = errors \union Notice(scan.pid, "fd", o.issue)
      /\ UNCHANGED <<procs, holds, kept, owners, todo, next>>
      /\ \/ o.val = 0 /\ pc' = "pick" /\ scan' = NoScan
         \/ o.val # 0 /\ pc' = "detail" /\ scan' = [scan EXCEPT !.fds = listed]
  BY DEF ListDescriptors, host
<1>2. scan \in Scans /\ scan.pid \in Pid /\ next = 1 /\ kept \subseteq holds
  BY <1>1 DEF StableInv, TypeInv, TypeOK, Scans
<1>3. Alive(scan.pid) /\ o.val = 0 => o.issue = "denied"
  BY <1>2, OutcomeOf DEF StableInv, TypeInv, TypeOK
<1>4. pc' = "detail" => /\ scan'.pid = scan.pid /\ scan'.id = scan.id
                        /\ scan'.facts = scan.facts /\ scan'.fds = listed
  BY <1>1, <1>2 DEF Scans
<1>5. ASSUME NEW p \in Pid, NEW s \in Sock, <<p, s>> \in kept' PROVE KeptFollowed(p, s)'
  <2>1. KeptFollowed(p, s) /\ Alive(p) /\ <<p, s>> \in holds
    BY <1>1, <1>2, <1>5 DEF StableInv, KeptInv, TypeInv
  <2>2. CASE Denied(p, "fd") \/ Denied(0, "proc")
    BY <1>1, <2>2 DEF KeptFollowed, Denied
  <2>3. CASE Owns(p, s)
    BY <1>1, <2>3 DEF KeptFollowed, Owns, OwnFacts
  <2>4. CASE p \in todo
    BY <1>1, <2>4 DEF KeptFollowed
  <2>5. CASE InScan(p)
    <3>1. scan.pid = p
      BY <2>5 DEF InScan
    <3>2. CASE o.val = 0
      BY <1>1, <1>3, <2>1, <3>1, <3>2 DEF KeptFollowed, Denied, Notice
    <3>3. CASE o.val # 0
      <4>1. pc' = "detail" /\ s \in scan'.fds
        BY <1>1, <1>4, <2>1, <3>1, <3>3
      <4>2. InScan(p)'
        BY <1>1, <1>2, <1>4, <2>5, <4>1 DEF InScan, OwnFacts
      <4>. QED
        BY <4>1, <4>2 DEF KeptFollowed
    <3>. QED
      BY <3>2, <3>3
  <2>. QED
    BY <2>1, <2>2, <2>3, <2>4, <2>5 DEF KeptFollowed
<1>. QED
  BY <1>1, <1>5 DEF KeptInv

\* A detail that is read is the process's own, or nothing; its start time is
\* never denied.
LEMMA KeptReadDetail == StableInv /\ ReadDetail => KeptInv'
<1> SUFFICES ASSUME StableInv, ReadDetail PROVE KeptInv'
  OBVIOUS
<1> DEFINE f == Detail[next]
           v == Outcome(scan.pid, f).val
<1>1. /\ pc = "detail" /\ pc' = pc /\ next <= 6 /\ next' = next + 1 /\ errors \subseteq errors'
      /\ UNCHANGED <<procs, holds, kept, owners, todo>>
      /\ scan' = [scan EXCEPT !.facts[f] = v]
  BY DetailNames DEF ReadDetail, host
<1>2. scan \in Scans /\ scan.pid \in Pid /\ next \in 1 .. 7 /\ kept \subseteq holds
  BY <1>1 DEF StableInv, TypeInv, TypeOK, Scans
<1>3. f \in Details /\ (next = 5 => f = "stat")
  BY <1>1, <1>2, DetailNames
<1>4. /\ v \in {0, procs[scan.pid].id}
      /\ Alive(scan.pid) /\ f = "stat" => v = procs[scan.pid].id
  BY <1>2, OutcomeOf DEF StableInv, TypeInv, TypeOK, Guarded
<1>. HIDE DEF f, v
<1>5. /\ scan'.pid = scan.pid /\ scan'.id = scan.id /\ scan'.fds = scan.fds
      /\ \A g \in Details : scan'.facts[g] = IF g = f THEN v ELSE scan.facts[g]
  BY <1>1, <1>2, <1>3 DEF Scans
<1>6. ASSUME NEW p \in Pid, NEW s \in Sock, <<p, s>> \in kept' PROVE KeptFollowed(p, s)'
  <2>1. KeptFollowed(p, s) /\ Alive(p) /\ <<p, s>> \in holds
    BY <1>1, <1>2, <1>6 DEF StableInv, KeptInv, TypeInv
  <2>2. CASE Denied(p, "fd") \/ Denied(0, "proc")
    BY <1>1, <2>2 DEF KeptFollowed, Denied
  <2>3. CASE Owns(p, s)
    BY <1>1, <2>3 DEF KeptFollowed, Owns, OwnFacts
  <2>4. CASE p \in todo
    BY <1>1, <2>4 DEF KeptFollowed
  <2>5. CASE InScan(p) /\ (pc = "detail" /\ s \notin scan.fds => Owns(p, s))
    <3>1. scan.pid = p /\ OwnFacts(scan.facts, p)
      BY <2>5 DEF InScan
    <3>2. OwnFacts(scan'.facts, p)
      BY <1>4, <1>5, <3>1 DEF OwnFacts
    <3>3. next' > 5 => scan'.facts["stat"] = procs[p].id
      <4>1. CASE f = "stat"
        BY <1>4, <1>5, <2>1, <3>1, <4>1, DetailNames
      <4>2. CASE f # "stat"
        <5>1. next # 5
          BY <1>3, <4>2
        <5>2. next' > 5 => next > 5
          BY <1>1, <1>2, <5>1
        <5>. QED
          BY <1>1, <1>5, <2>5, <4>2, <5>2, DetailNames DEF InScan
      <4>. QED
        BY <4>1, <4>2
    <3>4. InScan(p)'
      BY <1>1, <1>5, <2>5, <3>2, <3>3 DEF InScan, OwnFacts
    <3>. QED
      BY <1>1, <1>5, <2>5, <3>4 DEF KeptFollowed, Owns, OwnFacts
  <2>. QED
    BY <2>1, <2>2, <2>3, <2>4, <2>5 DEF KeptFollowed
<1>. QED
  BY <1>1, <1>6 DEF KeptInv

\* The link of a descriptor that is still held names its socket, and the owner
\* that is recorded has the facts of the process (SocketOwner).
LEMMA KeptReadDescriptor == StableInv /\ ReadDescriptor => KeptInv'
<1> SUFFICES ASSUME StableInv, ReadDescriptor PROVE KeptInv'
  OBVIOUS
<1>1. /\ pc = "detail" /\ pc' = pc /\ next > 6
      /\ UNCHANGED <<procs, holds, kept, todo, next, errors>>
  BY DetailNames DEF ReadDescriptor, host, written
<1> DEFINE held == {t \in Sock : <<scan.pid, t>> \in holds}
           seen(x) == IF x \in held THEN {{x}} ELSE {{}} \union {{t} : t \in held}
           owner(t) == [inode |-> t, pid |-> scan.pid, id |-> scan.id, facts |-> scan.facts]
<1>2. PICK x \in scan.fds :
        /\ scan' = [scan EXCEPT !.fds = @ \ {x}]
        /\ \E S \in seen(x) : owners' = owners \union {owner(t) : t \in S}
  BY DEF ReadDescriptor
<1>3. x \in Sock /\ <<scan.pid, x>> \in holds => owner(x) \in owners'
  BY <1>2
<1>4. scan \in Scans /\ scan.pid \in Pid /\ next \in 1 .. 7 /\ kept \subseteq holds
  BY <1>1 DEF StableInv, TypeInv, TypeOK, Scans
<1>5. owners \subseteq owners'
  BY <1>2
<1>6. /\ scan'.pid = scan.pid /\ scan'.id = scan.id /\ scan'.facts = scan.facts
      /\ scan'.fds = scan.fds \ {x}
  BY <1>2, <1>4 DEF Scans
<1>7. ASSUME NEW p \in Pid, NEW s \in Sock, <<p, s>> \in kept' PROVE KeptFollowed(p, s)'
  <2>1. KeptFollowed(p, s) /\ Alive(p) /\ <<p, s>> \in holds
    BY <1>1, <1>4, <1>7 DEF StableInv, KeptInv, TypeInv
  <2>2. CASE Denied(p, "fd") \/ Denied(0, "proc")
    BY <1>1, <2>2 DEF KeptFollowed, Denied
  <2>3. Owns(p, s) => Owns(p, s)'
    BY <1>1, <1>5 DEF Owns, OwnFacts
  <2>4. CASE p \in todo
    BY <1>1, <2>4 DEF KeptFollowed
  <2>5. CASE InScan(p) /\ (pc = "detail" /\ s \notin scan.fds => Owns(p, s))
    <3>1. scan.pid = p /\ scan.id = procs[p].id /\ OwnFacts(scan.facts, p)
          /\ scan.facts["stat"] = procs[p].id
      BY <1>1, <1>4, <2>5 DEF InScan
    <3>2. InScan(p)'
      BY <1>1, <1>6, <3>1 DEF InScan, OwnFacts
    <3>3. s = x => Owns(p, s)'
      <4>1. CASE s = x
        <5>1. owner(s) \in owners'
          BY <1>3, <2>1, <3>1, <4>1
        <5>2. /\ owner(s).inode = s /\ owner(s).pid = p /\ owner(s).id = procs[p].id
              /\ owner(s).facts = scan.facts
          BY <3>1
        <5>. HIDE DEF owner
        <5>. QED
          BY <1>1, <3>1, <5>1, <5>2 DEF Owns, OwnFacts
      <4>. QED
        BY <4>1
    <3>4. s \notin scan'.fds => Owns(p, s)'
      BY <1>1, <1>6, <2>3, <2>5, <3>3
    <3>. QED
      BY <3>2, <3>4 DEF KeptFollowed
  <2>. QED
    BY <2>1, <2>2, <2>3, <2>4, <2>5 DEF KeptFollowed
<1>. QED
  BY <1>1, <1>7 DEF KeptInv

\* A scan ends when every descriptor of its list was read, the scan of owners
\* when every process was; the rest of the collector leaves the index alone.
LEMMA KeptRest ==
  StableInv /\ (ScannedProcess \/ ScanEnds \/ ReadTable \/ TableFails \/ WriteSockets
                \/ WriteFlows \/ WriteFails \/ Interrupt) => KeptInv'
<1> SUFFICES ASSUME StableInv,
                    ScannedProcess \/ ScanEnds \/ ReadTable \/ TableFails \/ WriteSockets
                      \/ WriteFlows \/ WriteFails \/ Interrupt
             PROVE  KeptInv'
  OBVIOUS
<1>1. CASE ScannedProcess
  <2>1. /\ pc = "detail" /\ scan.fds = {} /\ pc' = "pick"
        /\ UNCHANGED <<procs, kept, todo, owners, errors>>
    BY <1>1 DEF ScannedProcess, host, written
  <2>2. ASSUME NEW p \in Pid, NEW s \in Sock, <<p, s>> \in kept' PROVE KeptFollowed(p, s)'
    <3>1. KeptFollowed(p, s)
      BY <2>1, <2>2 DEF StableInv, KeptInv
    <3>2. Owns(p, s) => Owns(p, s)'
      BY <2>1 DEF Owns, OwnFacts
    <3>. QED
      BY <2>1, <3>1, <3>2 DEF KeptFollowed, Denied
  <2>. QED
    BY <2>1, <2>2 DEF KeptInv
<1>2. CASE ~ScannedProcess
  <2>1. /\ pc \notin {"list", "fd", "detail"} /\ pc' \in {"tables", "flows", "done"}
        /\ UNCHANGED <<procs, kept, todo, owners>> /\ errors \subseteq errors'
        /\ pc = "pick" => todo = {}
    BY <1>2 DEF ScanEnds, ReadTable, TableFails, WriteSockets, WriteFlows, WriteFails, Interrupt,
       host, reading, written, Return
  <2>2. pc = "pick" \/ pc \in {"tables", "flows", "done"}
    BY <2>1 DEF StableInv, TypeInv, TypeOK
  <2>3. todo = {}
    BY <2>1, <2>2 DEF StableInv, KeptInv
  <2>4. ASSUME NEW p \in Pid, NEW s \in Sock, <<p, s>> \in kept' PROVE KeptFollowed(p, s)'
    <3>1. KeptFollowed(p, s)
      BY <2>1, <2>4 DEF StableInv, KeptInv
    <3>2. Owns(p, s) => Owns(p, s)'
      BY <2>1 DEF Owns, OwnFacts
    <3>. QED
      BY <2>1, <2>3, <3>1, <3>2 DEF KeptFollowed, Denied, InScan
  <2>. QED
    BY <2>1, <2>3, <2>4 DEF KeptInv
<1>. QED
  BY <1>1, <1>2

----------------------------------------------------------------------------
(* The tables: a socket that stays open is on its table.                   *)

\* The scan of the owners ends: no table is read, no socket was closed since.
LEMMA EarlyScan ==
  StableInv /\ (ListPIDs \/ ReadStatus \/ ListDescriptors \/ ReadDetail \/ ReadDescriptor
                \/ ScannedProcess \/ ScanEnds) => EarlyInv' /\ EarlyFlows'
<1> SUFFICES ASSUME StableInv,
                    ListPIDs \/ ReadStatus \/ ListDescriptors \/ ReadDetail \/ ReadDescriptor
                      \/ ScannedProcess \/ ScanEnds
             PROVE  EarlyInv' /\ EarlyFlows'
  OBVIOUS
<1>1. pc \in {"list", "pick", "fd", "detail"} /\ UNCHANGED <<socks, lines, ret>>
  BY DEF ListPIDs, ReadStatus, ListDescriptors, ReadDetail, ReadDescriptor, ScannedProcess,
     ScanEnds, host, reading, written
<1>2. lines' = {} /\ ret' # "ok" /\ early = {}
  BY <1>1 DEF StableInv, FlowInv, Reading, EarlyInv, TypeInv
<1>3. CASE ScanEnds
  <2>1. pc' = "tables" /\ early' = {s \in Sock : socks[s] = "open"} /\ next' = 1
    BY <1>3 DEF ScanEnds, reading, StableInv, TypeInv
  <2>2. ~ \E k \in 1 .. Len(Table) : k < 1
    OBVIOUS
  <2>. QED
    BY <1>1, <1>2, <2>1, <2>2 DEF EarlyInv, EarlyFlows, Passed, Reading
<1>4. CASE ~ScanEnds
  <2>1. early' = early /\ pc' \notin {"tables", "flows", "done"}
    BY <1>4 DEF ListPIDs, ReadStatus, ListDescriptors, ReadDetail, ReadDescriptor, ScannedProcess, host
  <2>. QED
    BY <1>2, <2>1 DEF EarlyInv, EarlyFlows, Reading
<1>. QED
  BY <1>3, <1>4

\* A table that is read has a line for every open socket of it, with its inode.
LEMMA EarlyReadTable == StableInv /\ ReadTable => EarlyInv' /\ EarlyFlows'
<1> SUFFICES ASSUME StableInv, ReadTable PROVE EarlyInv' /\ EarlyFlows'
  OBVIOUS
<1> DEFINE line(s) == [sock |-> s, inode |-> Inode0(s), owners |-> Joined(Inode0(s))]
           shown   == {x \in Sock : TableOf[x] = Table[next] /\ socks[x] \in {"open", "waiting"}}
           new     == {line(s) : s \in shown}
<1>1. /\ pc = "tables" /\ pc' = pc /\ next' = next + 1 /\ lines' = lines \union new
      /\ UNCHANGED <<socks, early, absent, ret>>
  BY DEF ReadTable, host, written
<1>2. next \in 1 .. Len(Table) + 1 /\ ret # "ok" /\ early \subseteq Sock
      /\ \A s \in early : socks[s] = "open"
  BY <1>1 DEF StableInv, TypeInv, TypeOK, EarlyInv
<1>3. \A l \in lines' : l.sock \in early => l.inode = l.sock
  BY <1>1, <1>2 DEF StableInv, EarlyInv, Inode0
<1>4. ASSUME NEW s \in early, Passed(s)', TableOf[s] \notin absent
      PROVE  \E l \in lines' : l.sock = s
  <2>1. PICK k \in 1 .. Len(Table) : k < next' /\ Table[k] = TableOf[s]
    BY <1>1, <1>4 DEF Passed
  <2>2. CASE k < next
    BY <1>1, <1>4, <2>1, <2>2 DEF StableInv, EarlyInv, Passed
  <2>3. CASE ~(k < next)
    <3>1. k = next
      BY <1>1, <1>2, <2>1, <2>3
    <3>2. s \in shown
      BY <1>2, <2>1, <3>1
    <3>3. line(s) \in lines' /\ line(s).sock = s
      BY <1>1, <3>2
    <3>. QED
      BY <3>3
  <2>. QED
    BY <2>2, <2>3
<1>. QED
  BY <1>1, <1>2, <1>3, <1>4 DEF EarlyInv, EarlyFlows, Reading

\* A table that fails is absent; once no table is left every one was read.
LEMMA EarlyTables ==
  StableInv /\ (TableFails \/ WriteSockets \/ WriteFails \/ Interrupt) => EarlyInv' /\ EarlyFlows'
<1> SUFFICES ASSUME StableInv, TableFails \/ WriteSockets \/ WriteFails \/ Interrupt
             PROVE  EarlyInv' /\ EarlyFlows'
  OBVIOUS
<1>1. /\ pc \in {"tables", "flows"} /\ UNCHANGED <<socks, early, lines>>
      /\ pc' \in {"tables", "flows", "done"} /\ ret' # "ok"
  BY DEF TableFails, WriteSockets, WriteFails, Interrupt, Return, host, reading, written,
     StableInv, TypeInv
<1>2. ASSUME NEW s \in early, Passed(s)', TableOf[s] \notin absent'
      PROVE  Passed(s) /\ TableOf[s] \notin absent
  <2>1. CASE TableFails
    <3>1. /\ pc = "tables" /\ pc' = pc /\ next' = next + 1 /\ absent' = absent \union {Table[next]}
          /\ next \in 1 .. Len(Table) + 1
      BY <2>1 DEF TableFails, StableInv, TypeInv
    <3>2. PICK k \in 1 .. Len(Table) : k < next' /\ Table[k] = TableOf[s]
      BY <1>2, <3>1 DEF Passed
    <3>3. k # next
      BY <1>2, <3>1, <3>2
    <3>4. k < next
      BY <3>1, <3>2, <3>3
    <3>. QED
      BY <1>2, <3>1, <3>2, <3>4 DEF Passed
  <2>2. CASE WriteSockets
    <3>1. pc = "tables" /\ next > Len(Table) /\ absent' = absent /\ next \in 1 .. Len(Table) + 1
      BY <2>2 DEF WriteSockets, StableInv, TypeInv
    <3>2. s \in Sock
      BY DEF StableInv, TypeInv, TypeOK
    <3>3. PICK k \in 1 .. Len(Table) : Table[k] = TableOf[s]
      BY <3>2, TableAssumption
    <3>4. k < next
      BY <3>1, TableAssumption
    <3>. QED
      BY <1>2, <3>1, <3>3, <3>4 DEF Passed
  <2>3. CASE WriteFails \/ Interrupt
    BY <1>2, <2>3 DEF WriteFails, Interrupt, Return, Passed
  <2>. QED
    BY <2>1, <2>2, <2>3
<1>. QED
  BY <1>1, <1>2 DEF StableInv, EarlyInv, EarlyFlows, Reading

\* The flows of a socket that stayed open are one.
LEMMA EarlyWriteFlows == StableInv /\ WriteFlows => EarlyInv' /\ EarlyFlows'
<1> SUFFICES ASSUME StableInv, WriteFlows PROVE EarlyInv' /\ EarlyFlows'
  OBVIOUS
<1>1. /\ pc = "flows" /\ pc' = "done" /\ UNCHANGED <<socks, early, lines, owners, absent>>
      /\ flows' = IF lines = {} THEN {NoFlow}
                  ELSE {[sock |-> l.sock, id |-> l.inode, owners |-> l.owners] : l \in lines}
  BY DEF WriteFlows, Return, host, reading
<1>2. EarlyInv'
  BY <1>1 DEF StableInv, EarlyInv, Passed, Reading
<1>3. ASSUME NEW s \in early, TableOf[s] \notin absent
      PROVE  {f \in flows' : f.sock = s} = {StableFlow(s)}
  <2>1. PICK l \in lines : l.sock = s
    BY <1>1, <1>3 DEF StableInv, EarlyInv, Passed
  <2>2. \A m \in lines : m.sock = s => [sock |-> m.sock, id |-> m.inode, owners |-> m.owners] = StableFlow(s)
    BY DEF StableInv, EarlyInv, FlowInv, LinesJoined, StableFlow
  <2>3. flows' = {[sock |-> m.sock, id |-> m.inode, owners |-> m.owners] : m \in lines}
    BY <1>1, <2>1
  <2>4. StableFlow(s) \in flows' /\ StableFlow(s).sock = s
    BY <2>1, <2>2, <2>3 DEF StableFlow
  <2>5. \A f \in flows' : f.sock = s => f = StableFlow(s)
    <3>1. \A m \in lines : [sock |-> m.sock, id |-> m.inode, owners |-> m.owners].sock = m.sock
      OBVIOUS
    <3>. QED
      BY <2>2, <2>3, <3>1
  <2>. QED
    BY <2>4, <2>5
<1>4. EarlyFlows'
  BY <1>1, <1>3 DEF EarlyFlows, StableFlow, Joined
<1>. QED
  BY <1>2, <1>4

----------------------------------------------------------------------------
(* The invariant of the whole.                                             *)

LEMMA StableInit == Init => StableInv
<1> SUFFICES ASSUME Init PROVE StableInv
  OBVIOUS
<1>1. TypeInv /\ FlowInv
  BY TypeInit, FlowInit
<1>2. pc = "list" /\ kept = {} /\ early = {} /\ lines = {} /\ ret = "none"
  BY DEF Init
<1>. QED
  BY <1>1, <1>2 DEF StableInv, KeptInv, EarlyInv, EarlyFlows

LEMMA StableStep == StableInv /\ [Next]_vars => StableInv'
<1> SUFFICES ASSUME StableInv, [Next]_vars PROVE StableInv'
  OBVIOUS
<1>0. TypeInv /\ FlowInv'
  BY FlowStep DEF StableInv
<1>1. CASE ListPIDs
  BY <1>0, <1>1, TypeListPIDs, KeptListPIDs, EarlyScan DEF StableInv
<1>2. CASE ReadStatus
  BY <1>0, <1>2, TypeReadStatus, KeptReadStatus, EarlyScan DEF StableInv
<1>3. CASE ListDescriptors
  BY <1>0, <1>3, TypeListDescriptors, KeptListDescriptors, EarlyScan DEF StableInv
<1>4. CASE ReadDetail
  BY <1>0, <1>4, TypeReadDetail, KeptReadDetail, EarlyScan DEF StableInv
<1>5. CASE ReadDescriptor
  BY <1>0, <1>5, TypeReadDescriptor, KeptReadDescriptor, EarlyScan DEF StableInv
<1>6. CASE ScannedProcess \/ ScanEnds
  BY <1>0, <1>6, TypeScanned, KeptRest, EarlyScan DEF StableInv
<1>7. CASE ReadTable
  BY <1>0, <1>7, TypeReadTable, KeptRest, EarlyReadTable DEF StableInv
<1>8. CASE TableFails
  BY <1>0, <1>8, TypeTableFails, KeptRest, EarlyTables DEF StableInv
<1>9. CASE WriteFlows
  BY <1>0, <1>9, TypeWrites, KeptRest, EarlyWriteFlows DEF StableInv
<1>10. CASE WriteSockets \/ WriteFails \/ Interrupt
  BY <1>0, <1>10, TypeWrites, KeptRest, EarlyTables DEF StableInv
<1>11. CASE HostStep
  BY <1>0, <1>11, StableHost DEF StableInv
<1>12. CASE UNCHANGED vars
  <2>1. TypeInv'
    BY <1>0, <1>12 DEF vars, host, reading, written, TypeInv, TypeOK, Alive
  <2>2. KeptInv'
    BY <1>12 DEF vars, host, reading, written, StableInv, KeptInv, KeptFollowed, Denied, InScan,
       Owns, OwnFacts
  <2>3. EarlyInv' /\ EarlyFlows'
    BY <1>12 DEF vars, host, reading, written, StableInv, EarlyInv, EarlyFlows, Passed, Reading,
       StableFlow, Joined
  <2>. QED
    BY <1>0, <2>1, <2>2, <2>3 DEF StableInv
<1>. QED
  BY <1>1, <1>2, <1>3, <1>4, <1>5, <1>6, <1>7, <1>8, <1>9, <1>10, <1>11, <1>12 DEF Next, Collect

\* Every variable stays in its range, for any number of tables and processes.
THEOREM SocketsTyped == Spec => []TypeOK
<1>1. StableInv => TypeOK
  BY DEF StableInv, TypeInv
<1>. QED
  BY <1>1, StableInit, StableStep, PTL DEF Spec

\* The invariant says of a finished collection what the property asks for: the
\* flow is one, its entity names the same owners, and the process that kept a
\* descriptor is one of them.
LEMMA StableReported == StableInv => StableSocketReported
<1> SUFFICES ASSUME StableInv, ret = "ok", NEW s \in early, TableOf[s] \notin absent
             PROVE  /\ Cardinality({f \in flows : f.sock = s}) = 1
                    /\ \E r \in sockets :
                         /\ r.id = s /\ r.record.conn = s
                         /\ \A p \in Pid : <<p, s>> \in kept /\ ~Denied(p, "fd") /\ ~Denied(0, "proc") =>
                              \E o \in r.record.owners :
                                /\ o.pid = p /\ o.id = procs[p].id
                                /\ \A f \in Details : o.facts[f] \in {0, procs[p].id}
                                /\ o.facts["stat"] = procs[p].id
  BY DEF StableSocketReported
<1>1. {f \in flows : f.sock = s} = {StableFlow(s)} /\ s \in Sock /\ pc = "done"
  BY DEF StableInv, EarlyFlows, TypeInv, TypeOK
<1>2. Cardinality({f \in flows : f.sock = s}) = 1
  <2>. DEFINE x == StableFlow(s)
  <2>. HIDE DEF x
  <2>1. Cardinality({x}) = 1
    BY FS_Singleton
  <2>. QED
    BY <1>1, <2>1 DEF x
<1>3. PICK r \in sockets : r.id = s /\ r.record.conn = s /\ r.record.owners = Joined(s)
  <2>1. StableFlow(s) \in flows /\ StableFlow(s).id = s
    BY <1>1 DEF StableFlow
  <2>2. StableFlow(s).sock = s /\ StableFlow(s).owners = Joined(s)
    BY DEF StableFlow
  <2>. QED
    BY <1>1, <2>1, <2>2 DEF StableInv, FlowInv, FlowsAgree
<1>4. ASSUME NEW p \in Pid, <<p, s>> \in kept, ~Denied(p, "fd"), ~Denied(0, "proc")
      PROVE  \E o \in r.record.owners :
               /\ o.pid = p /\ o.id = procs[p].id
               /\ \A f \in Details : o.facts[f] \in {0, procs[p].id}
               /\ o.facts["stat"] = procs[p].id
  <2>1. todo = {} /\ KeptFollowed(p, s)
    BY <1>1, <1>4 DEF StableInv, KeptInv
  <2>2. Owns(p, s)
    BY <1>1, <1>4, <2>1 DEF KeptFollowed, InScan
  <2>. QED
    BY <1>3, <2>2 DEF Owns, OwnFacts, Joined
<1>. QED
  BY <1>2, <1>3, <1>4

\* Completeness: whatever processes and sockets come and go, a socket that was
\* open from before the tables were read has one flow and one entity or its table
\* is on record as absent, and a process that has held it since the owner scan
\* began is among its owners with facts of its own, unless its descriptors were
\* denied (ScanSocketOwners, collectConnections, AttachOwners).
THEOREM SocketThatStaysIsReported == Spec => []StableSocketReported
  BY StableInit, StableStep, StableReported, PTL DEF Spec

\* One answer: whatever processes, sockets and failures there are, the flow of a
\* socket and its entity name the same socket and the same owners
\* (collectConnections, collectNetworkFlows).
THEOREM FlowsAreTheirSockets == Spec => []FlowsMatchSockets
<1>1. FlowInv => FlowsMatchSockets
  BY DEF FlowInv, FlowsAgree, FlowsMatchSockets
<1>2. QED
  BY <1>1, FlowInit, FlowStep, PTL DEF Spec
=============================================================================
