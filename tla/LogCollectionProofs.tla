------------------------ MODULE LogCollectionProofs ------------------------
(***************************************************************************)
(* Proofs about LogCollection for every set of logs, every bound and every *)
(* order of rotations, appends and failures: no listed log is passed over  *)
(* in silence, every event is of a line of the copy it refers to, and a    *)
(* rotation that keeps to the order of the list loses no line.             *)
(***************************************************************************)
EXTENDS LogCollection, FiniteSetTheorems, SequenceTheorems, WellFoundedInduction, TLAPS

----------------------------------------------------------------------------
(* The inductive invariants.                                               *)

\* A log is at work: it was read, and is not done with.
Working == pc \in {"legacy", "status", "parse"}

\* Every variable is in its range; the log at work is on the list.
TypeInv ==
  /\ TypeOK
  /\ journal \in [out : 0 .. Limit + 1, pos : 0 .. Limit, events : 0 .. Limit, status : Seq(Statuses)]
  /\ Working => pending # {}
  /\ pc = "status" => Current \in Accounting
  /\ pc = "done" <=> ret # "none"

\* What is left of the list is what no copy, error or record of absence is of,
\* but for the log at work, which is copied before it is parsed.
ListInv ==
  /\ pc = "discover" => listed = {} /\ steady = {}
  /\ pc \in {"journal", "lines"} \/ ret = "ok" => pending = {}
  /\ listed \subseteq pending \union copied \union absent
  /\ (errors \union deaf \union absent) \intersect pending = {}
  /\ \A n \in copied \intersect pending : ret # "err" => pc \in {"status", "parse"} /\ n = Current
  /\ pc \in {"status", "parse"} => Current \in copied
  /\ \A n \in pending, m \in listed : Place(n) < Place(m) => m \in pending

\* Events are of lines of a copy; so is what is left of the copy at work.
TraceInv ==
  /\ \A e \in events : e[2] \in raw[RawOf[e[1]]]
  /\ pc \in {"status", "parse"} => left \subseteq raw[RawOf[Current]]

\* A file with lines exists, and the name a file is about to take is free.
HostInv ==
  /\ \A n \in Name : files[n] # {} => n \in there
  /\ rot > 0 /\ rot < Len(Chain) => files[Chain[rot + 1]] = {}

\* The lines that were seen of the log at work are in its copy, and each one that
\* is not left to be parsed is an event.
SeenInv ==
  /\ pc = "legacy" => seen[Current] = raw[RawOf[Current]]
  /\ pc \in {"status", "parse"} => \A l \in seen[Current] : l \in left \/ <<Current, l>> \in events

\* A line that kept to the order of the list is reported, is of the log at work,
\* or is in a file still to be read.
Unread(n) == n \in pending /\ (Working => n # Current)
Shown(l)  == \/ \E n \in listed : <<n, l>> \in events
             \/ \E n \in listed : n \in errors \union deaf /\ (l \in seen[n] \/ n \in absent)
AtWork(l) == Working /\ l \in seen[Current]
SteadyInv ==
  ret # "err" =>
    \A l \in steady : Shown(l) \/ AtWork(l) \/ \E n \in Name : Unread(n) /\ l \in files[n]

\* Each line of the journal that was passed has an event or a status.
JournalInv ==
  /\ pc \notin {"lines", "done"} => journal = NoJournal
  /\ pc = "lines" => /\ journal.pos <= journal.out
                     /\ journal.events + Len(journal.status) = journal.pos
  /\ ret = "ok" =>
       /\ journal.events + Len(journal.status) = IF journal.out = 0 THEN 1 ELSE journal.out
       /\ journal.out > Limit => journal.status[Len(journal.status)] = "line_limit_reached"

LogInv == TypeInv /\ ListInv /\ TraceInv /\ HostInv /\ SeenInv /\ SteadyInv /\ JournalInv

----------------------------------------------------------------------------
(* Facts about the operators.                                              *)

\* Every nonempty set of natural numbers has a least element.
LEMMA LeastNatural ==
  ASSUME NEW S, S \subseteq Nat, S # {}
  PROVE  \E p \in S : \A q \in S : p <= q
<1>. DEFINE Below(p) == 0 .. p - 1
            F == {Below(p) : p \in S}
<1>1. \A p \in S : IsFiniteSet(Below(p)) /\ Below(p) \subseteq Nat
  BY FS_Interval
<1>2. F \subseteq FiniteSubsetsOf(Nat) /\ F # {}
  BY <1>1 DEF FiniteSubsetsOf
<1>3. PICK X \in F : \A Y \in F : ~(<<Y, X>> \in StrictSubsetOrdering(Nat))
  <2>. HIDE DEF F
  <2>. QED
    BY <1>2, FS_StrictSubsetOrderingWellFounded, WFMin
<1>4. PICK p \in S : X = Below(p)
  OBVIOUS
<1>5. ASSUME NEW q \in S, ~(p <= q) PROVE FALSE
  <2>1. Below(q) \subseteq Below(p) /\ q \in Below(p) /\ q \notin Below(q)
    BY <1>5
  <2>2. <<Below(q), Below(p)>> \in StrictSubsetOrdering(Nat)
    BY <1>1, <2>1 DEF StrictSubsetOrdering
  <2>. QED
    BY <1>3, <1>4, <2>2
<1>. QED
  BY <1>5

\* A name has its own place on the list.
LEMMA PlaceOf ==
  ASSUME NEW n \in Name
  PROVE  Place(n) \in 1 .. Len(Sorted) /\ Sorted[Place(n)] = n /\ Place(n) \in Nat
<1>1. \E k \in 1 .. Len(Sorted) : Sorted[k] = n
  BY SortedAssumption
<1>2. Place(n) \in 1 .. Len(Sorted) /\ Sorted[Place(n)] = n
  BY <1>1 DEF Place
<1>. QED
  BY <1>2

\* The log at work is the first of those left.
LEMMA CurrentFirst ==
  ASSUME pending \subseteq Name, pending # {}
  PROVE  /\ Current \in pending
         /\ \A m \in pending : m # Current => Place(Current) < Place(m)
<1>. DEFINE S == {Place(n) : n \in pending}
<1>1. S \subseteq Nat /\ S # {}
  BY PlaceOf
<1>2. PICK p \in S : \A q \in S : p <= q
  <2>. HIDE DEF S
  <2>. QED
    BY <1>1, LeastNatural
<1>3. \E n \in pending : \A m \in pending : Place(n) <= Place(m)
  BY <1>2
<1>4. Current \in pending /\ \A m \in pending : Place(Current) <= Place(m)
  <2>. HIDE DEF S
  <2>. QED
    BY <1>3 DEF Current
<1>5. ASSUME NEW m \in pending, m # Current PROVE Place(Current) < Place(m)
  <2>. DEFINE c == Current
  <2>1. c \in Name /\ m \in Name /\ Place(c) <= Place(m) /\ m # c
    BY <1>4, <1>5
  <2>. HIDE DEF c
  <2>2. Place(c) \in Nat /\ Place(m) \in Nat /\ Sorted[Place(c)] = c /\ Sorted[Place(m)] = m
    BY <2>1, PlaceOf
  <2>3. Place(c) # Place(m)
    BY <2>1, <2>2
  <2>4. Place(c) < Place(m)
    BY <2>1, <2>2, <2>3
  <2>. QED
    BY <2>4 DEF c
<1>. QED
  BY <1>4, <1>5

\* The next line to be parsed is one of those left.
LEMMA LeastLine ==
  ASSUME left \subseteq Line, left # {}
  PROVE  Least(left) \in left
<1>1. left \subseteq Nat
  BY LogBoundAssumption DEF Line
<1>2. \E l \in left : \A m \in left : l <= m
  BY <1>1, LeastNatural
<1>. QED
  BY <1>2 DEF Least

\* The log is one of its chain, and the names of a chain are its places'.
LEMMA ChainNames ==
  /\ Len(Chain) \in Nat /\ Len(Chain) > 1
  /\ \A k \in 1 .. Len(Chain) : Chain[k] \in Name
  /\ Log \in Name
  /\ \A k \in 1 .. Len(Chain) : Chain[k] = Log => k = 1
<1>1. Len(Chain) \in Nat /\ Len(Chain) > 1
  BY ChainAssumption
<1>2. \A k \in 1 .. Len(Chain) : Chain[k] \in Name
  BY DEF Name, Rotated
<1>. QED
  BY <1>1, <1>2, ChainAssumption DEF Log

----------------------------------------------------------------------------
(* Initially.                                                              *)

LEMMA LogInit == Init => LogInv
<1> SUFFICES ASSUME Init PROVE LogInv
  OBVIOUS
<1>1. /\ there \in SUBSET Name /\ files = [n \in Name |-> {}]
      /\ written = 0 /\ rot = 0 /\ rotations = 0 /\ steady = {} /\ pc = "discover"
      /\ pending = {} /\ listed = {} /\ raw = [n \in Name |-> {}] /\ copied = {} /\ left = {}
      /\ seen = [n \in Name |-> {}] /\ events = {} /\ status = {} /\ absent = {} /\ errors = {}
      /\ deaf = {} /\ ret = "none" /\ faults = 0
  BY DEF Init
<1>2. journal = [out |-> 0, pos |-> 0, events |-> 0, status |-> <<>>]
  BY DEF Init, NoJournal
<1>3. 0 \in 0 .. MaxLines /\ 0 \in 0 .. Len(Chain) /\ 0 \in 0 .. MaxRotations
      /\ 0 \in 0 .. MaxFaults /\ 0 \in 0 .. Limit /\ 0 \in 0 .. Limit + 1
  BY LogBoundAssumption, ChainNames
<1>4. journal \in [out : 0 .. Limit + 1, pos : 0 .. Limit, events : 0 .. Limit, status : Seq(Statuses)]
  BY <1>2, <1>3
<1>5. files \in [Name -> SUBSET Line] /\ raw \in [Name -> SUBSET Line] /\ seen \in [Name -> SUBSET Line]
  BY <1>1
<1>6. TypeOK
  BY <1>1, <1>2, <1>3, <1>4, <1>5 DEF TypeOK
<1>7. TypeInv
  BY <1>1, <1>4, <1>6 DEF TypeInv, Working
<1>8. ListInv /\ TraceInv /\ HostInv /\ SeenInv /\ SteadyInv
  BY <1>1 DEF ListInv, TraceInv, HostInv, SeenInv, SteadyInv, Working
<1>9. JournalInv
  <2>1. journal = NoJournal
    BY DEF Init
  <2>. QED
    BY <1>1, <2>1 DEF JournalInv
<1>. QED
  BY <1>7, <1>8, <1>9 DEF LogInv

----------------------------------------------------------------------------
(* The host.                                                               *)

\* Lines are added at the end, to a file that is there; a log that is being
\* rotated is not the name another file takes.
LEMMA HostAppend ==
  ASSUME LogInv, NEW n \in {Log} \union Accounting, AppendLine(n)
  PROVE  /\ UNCHANGED <<there, rot, rotations, steady, pc, copying, reports, journal, ret, faults>>
         /\ files' \in [Name -> SUBSET Line] /\ written' \in 0 .. MaxLines
         /\ \A f \in Name : files[f] \subseteq files'[f]
         /\ HostInv'
<1>1. /\ n \in there /\ written < MaxLines /\ written' = written + 1
      /\ files' = [files EXCEPT ![n] = @ \union {written'}]
      /\ UNCHANGED <<there, rot, rotations, steady, pc, copying, reports, journal, ret, faults>>
  BY DEF AppendLine
<1>2. n \in Name /\ files \in [Name -> SUBSET Line] /\ written \in 0 .. MaxLines
      /\ rot \in 0 .. Len(Chain)
  BY ChainNames DEF Name, LogInv, TypeInv, TypeOK
<1>3. written' \in 0 .. MaxLines /\ written' \in Line
  BY <1>1, <1>2, LogBoundAssumption DEF Line
<1>4. /\ files' \in [Name -> SUBSET Line]
      /\ \A f \in Name : files'[f] = IF f = n THEN files[f] \union {written'} ELSE files[f]
  BY <1>1, <1>2, <1>3
<1>5. ASSUME rot > 0, rot < Len(Chain) PROVE Chain[rot + 1] # n /\ Chain[rot + 1] \in Name
  <2>1. rot + 1 \in 1 .. Len(Chain) /\ rot + 1 # 1
    BY <1>2, <1>5, ChainNames
  <2>2. Chain[rot + 1] # Log /\ Chain[rot + 1] \in Rotated
    BY <2>1, ChainNames DEF Rotated
  <2>. QED
    BY <2>2, ChainAssumption DEF Name
<1>6. HostInv'
  <2>1. \A f \in Name : files'[f] # {} => f \in there'
    BY <1>1, <1>4 DEF LogInv, HostInv
  <2>2. rot' > 0 /\ rot' < Len(Chain) => files'[Chain[rot' + 1]] = {}
    BY <1>1, <1>4, <1>5 DEF LogInv, HostInv
  <2>. QED
    BY <2>1, <2>2 DEF HostInv
<1>. QED
  BY <1>1, <1>3, <1>4, <1>6

\* A rename moves the lines of a file to a free name; those that it moves to a
\* later name of the list, or leaves alone, stay steady.
LEMMA HostRename ==
  ASSUME LogInv, RenameNext
  PROVE  /\ UNCHANGED <<written, rotations, pc, copying, reports, journal, ret, faults>>
         /\ files' \in [Name -> SUBSET Line] /\ there' \subseteq Name /\ rot' \in 0 .. Len(Chain)
         /\ steady' \subseteq steady
         /\ \A l \in steady', f \in Name : l \in files[f] =>
              \/ l \in files'[f]
              \/ \E m \in listed : Place(f) < Place(m) /\ l \in files'[m]
         /\ HostInv'
<1>. DEFINE n == Chain[rot]
            k == IF rot = Len(Chain) THEN rot ELSE rot + 1
            m == Chain[k]
            keeps == rot < Len(Chain) /\ m \in listed /\ Place(n) < Place(m)
<1>1. /\ rot > 0 /\ rot' = rot - 1
      /\ files' = [f \in Name |-> IF f = n THEN {} ELSE IF f = m THEN files[n] ELSE files[f]]
      /\ there' = (there \ {n}) \union (IF n \in there /\ m # n THEN {m} ELSE {})
                                \union (IF n = Log THEN {Log} ELSE {})
      /\ steady' = IF keeps THEN steady ELSE steady \ files[n]
      /\ UNCHANGED <<written, rotations, pc, copying, reports, journal, ret, faults>>
  BY DEF RenameNext
<1>2. /\ files \in [Name -> SUBSET Line] /\ there \subseteq Name /\ listed \subseteq Name
      /\ rot \in 1 .. Len(Chain) /\ k \in 1 .. Len(Chain) /\ n \in Name /\ m \in Name
  <2>1. files \in [Name -> SUBSET Line] /\ there \subseteq Name /\ listed \subseteq Name
        /\ rot \in 0 .. Len(Chain)
    BY DEF LogInv, TypeInv, TypeOK
  <2>2. rot \in 1 .. Len(Chain) /\ k \in 1 .. Len(Chain)
    BY <1>1, <2>1, ChainNames
  <2>. QED
    BY <2>1, <2>2, ChainNames
<1>3. rot < Len(Chain) => m # n /\ files[m] = {}
  <2>. SUFFICES ASSUME rot < Len(Chain) PROVE m # n /\ files[m] = {}
    OBVIOUS
  <2>1. k = rot + 1 /\ k # rot
    BY <1>2
  <2>2. m # n
    BY <1>2, <2>1, ChainAssumption
  <2>3. files[Chain[rot + 1]] = {}
    BY <1>1 DEF LogInv, HostInv
  <2>. QED
    BY <2>1, <2>2, <2>3
<1>4. rot = Len(Chain) => m = n
  OBVIOUS
<1>. HIDE DEF n, m, k
<1>5. files' \in [Name -> SUBSET Line] /\ there' \subseteq Name /\ rot' \in 0 .. Len(Chain)
  BY <1>1, <1>2, ChainNames
<1>6. ASSUME NEW l \in steady', NEW f \in Name, l \in files[f]
      PROVE  l \in files'[f] \/ \E g \in listed : Place(f) < Place(g) /\ l \in files'[g]
  <2>1. CASE f = n
    <3>1. keeps
      BY <1>1, <1>6, <2>1
    <3>2. files'[m] = files[n]
      BY <1>1, <1>2, <1>3, <3>1
    <3>. QED
      BY <1>6, <2>1, <3>1, <3>2
  <2>2. CASE f # n /\ f = m
    BY <1>2, <1>3, <1>4, <1>6, <2>2
  <2>3. CASE f # n /\ f # m
    BY <1>1, <1>6, <2>3
  <2>. QED
    BY <2>1, <2>2, <2>3
<1>7. HostInv'
  <2>1. ASSUME NEW f \in Name, files'[f] # {} PROVE f \in there'
    <3>1. CASE f = m /\ f # n
      <4>1. files[n] # {}
        BY <1>1, <2>1, <3>1
      <4>. QED
        BY <1>1, <1>2, <3>1, <4>1 DEF LogInv, HostInv
    <3>2. CASE f # m /\ f # n
      BY <1>1, <2>1, <3>2 DEF LogInv, HostInv
    <3>3. CASE f = n
      BY <1>1, <2>1, <3>3
    <3>. QED
      BY <3>1, <3>2, <3>3
  <2>2. ASSUME rot' > 0 PROVE files'[Chain[rot' + 1]] = {}
    <3>1. rot' + 1 = rot
      BY <1>1, <1>2
    <3>2. Chain[rot' + 1] = n
      BY <3>1 DEF n
    <3>. QED
      BY <1>1, <1>2, <3>2
  <2>. QED
    BY <2>1, <2>2 DEF HostInv
<1>. QED
  BY <1>1, <1>5, <1>6, <1>7

\* Whatever the host does between two steps of the collector, a line that stays
\* steady is still in a file to come: its file moves behind the log at work.
LEMMA LogHost == LogInv /\ HostStep => LogInv'
<1> SUFFICES ASSUME LogInv, HostStep PROVE LogInv'
  OBVIOUS
<1>1. /\ UNCHANGED <<pc, copying, reports, journal, ret, faults>>
      /\ files' \in [Name -> SUBSET Line] /\ there' \subseteq Name /\ written' \in 0 .. MaxLines
      /\ rot' \in 0 .. Len(Chain) /\ rotations' \in 0 .. MaxRotations /\ steady' \subseteq steady
      /\ HostInv'
      /\ \A l \in steady', f \in Name : l \in files[f] =>
           l \in files'[f] \/ \E m \in listed : Place(f) < Place(m) /\ l \in files'[m]
  <2>1. CASE \E n \in {Log} \union Accounting : AppendLine(n)
    <3>1. PICK n \in {Log} \union Accounting : AppendLine(n)
      BY <2>1
    <3>2. /\ UNCHANGED <<there, rot, rotations, steady, pc, copying, reports, journal, ret, faults>>
          /\ files' \in [Name -> SUBSET Line] /\ written' \in 0 .. MaxLines
          /\ \A f \in Name : files[f] \subseteq files'[f]
          /\ HostInv'
      BY <3>1, HostAppend
    <3>. QED
      BY <3>2 DEF LogInv, TypeInv, TypeOK
  <2>2. CASE BeginRotation
    <3>1. /\ rot' = Len(Chain) /\ rotations' = rotations + 1 /\ rotations < MaxRotations
          /\ UNCHANGED <<there, files, written, steady, pc, copying, reports, journal, ret, faults>>
      BY <2>2 DEF BeginRotation
    <3>2. rot' \in 0 .. Len(Chain) /\ rotations' \in 0 .. MaxRotations /\ ~(rot' < Len(Chain))
      BY <3>1, ChainNames, LogBoundAssumption DEF LogInv, TypeInv, TypeOK
    <3>3. HostInv'
      BY <3>1, <3>2 DEF LogInv, HostInv
    <3>. QED
      BY <3>1, <3>2, <3>3 DEF LogInv, TypeInv, TypeOK
  <2>3. CASE RenameNext
    BY <2>3, HostRename DEF LogInv, TypeInv, TypeOK
  <2>. QED
    BY <2>1, <2>2, <2>3 DEF HostStep
<1>2. UNCHANGED <<pc, pending, listed, raw, copied, left, seen, events, status, absent, errors,
                  deaf, journal, ret, faults>>
  BY <1>1 DEF copying, reports
<1>3. Current' = Current
  BY <1>2 DEF Current
<1>4. TypeInv'
  <2>1. TypeOK'
    BY <1>1, <1>2 DEF LogInv, TypeInv, TypeOK
  <2>. QED
    BY <1>2, <1>3, <2>1 DEF LogInv, TypeInv, Working
<1>5. ListInv' /\ TraceInv' /\ SeenInv' /\ JournalInv'
  BY <1>1, <1>2, <1>3 DEF LogInv, ListInv, TraceInv, SeenInv, JournalInv
<1>6. SteadyInv'
  <2>. SUFFICES ASSUME ret # "err", NEW l \in steady'
                PROVE  Shown(l)' \/ AtWork(l)' \/ \E n \in Name : Unread(n)' /\ l \in files'[n]
    BY <1>2 DEF SteadyInv
  <2>1. Shown(l) \/ AtWork(l) \/ \E n \in Name : Unread(n) /\ l \in files[n]
    BY <1>1 DEF LogInv, SteadyInv
  <2>2. Shown(l) => Shown(l)'
    BY <1>2 DEF Shown
  <2>3. AtWork(l) => AtWork(l)'
    BY <1>2, <1>3 DEF AtWork, Working
  <2>4. \A n : Unread(n) <=> Unread(n)'
    BY <1>2, <1>3 DEF Unread, Working
  <2>5. ASSUME NEW n \in Name, Unread(n), l \in files[n]
        PROVE  \E m \in Name : Unread(m)' /\ l \in files'[m]
    <3>1. CASE l \in files'[n]
      BY <2>4, <2>5, <3>1
    <3>2. CASE l \notin files'[n]
      <4>1. PICK m \in listed : Place(n) < Place(m) /\ l \in files'[m]
        BY <1>1, <2>5, <3>2
      <4>2. n \in pending /\ m \in pending /\ m \in Name /\ pending \subseteq Name
        BY <2>5, <4>1 DEF Unread, LogInv, ListInv, TypeInv, TypeOK
      <4>3. Working => m # Current
        <5>. SUFFICES ASSUME Working PROVE m # Current
          OBVIOUS
        <5>1. Place(Current) < Place(n)
          BY <2>5, <4>2, CurrentFirst DEF Unread
        <5>2. Current \in pending
          BY <4>2, CurrentFirst
        <5>3. Place(n) \in Nat /\ Place(m) \in Nat
          BY <4>2, PlaceOf
        <5>. DEFINE c == Current
        <5>4. Place(c) \in Nat
          <6>1. c \in Name
            BY <4>2, <5>2
          <6>. HIDE DEF c
          <6>. QED
            BY <6>1, PlaceOf
        <5>5. Place(c) < Place(n)
          BY <5>1
        <5>. HIDE DEF c
        <5>6. m # c
          BY <4>1, <5>3, <5>4, <5>5
        <5>. QED
          BY <5>6 DEF c
      <4>. QED
        BY <2>4, <4>1, <4>2, <4>3 DEF Unread
    <3>. QED
      BY <3>1, <3>2
  <2>. QED
    BY <2>1, <2>2, <2>3, <2>5
<1>. QED
  BY <1>1, <1>4, <1>5, <1>6 DEF LogInv

----------------------------------------------------------------------------
(* The collector, one log at a time.                                       *)

\* What every step on the files has in common: the host and the journal are left
\* alone, and the names that are pending are names.
LEMMA FilesFrame ==
  ASSUME LogInv, pc \notin {"lines", "done"}, pc' \notin {"lines", "done"},
         UNCHANGED <<host, journal, ret>>
  PROVE  /\ HostInv' /\ JournalInv' /\ ret = "none" /\ ret' = "none"
         /\ UNCHANGED <<there, files, written, rot, rotations, steady>>
         /\ pending \subseteq Name /\ listed \subseteq Name
<1>1. UNCHANGED <<there, files, written, rot, rotations, steady>>
  BY DEF host
<1>2. ret = "none"
  BY DEF LogInv, TypeInv
<1>3. HostInv'
  BY <1>1 DEF LogInv, HostInv
<1>4. JournalInv'
  BY <1>2 DEF LogInv, JournalInv
<1>. QED
  BY <1>1, <1>2, <1>3, <1>4 DEF LogInv, TypeInv, TypeOK

\* The list is made: all that was there is still to be read.
LEMMA LogDiscover == LogInv /\ Discover => LogInv'
<1> SUFFICES ASSUME LogInv, Discover PROVE LogInv'
  OBVIOUS
<1>1. /\ pc = "discover" /\ pc' = "next" /\ listed' = Primary \union there /\ pending' = listed'
      /\ steady' = UNION {files[n] : n \in listed'}
      /\ UNCHANGED <<there, files, written, rot, rotations, raw, copied, left, seen, events, status,
                     absent, errors, deaf, journal, ret, faults>>
  BY DEF Discover, reports
<1>2. /\ listed = {} /\ copied = {} /\ events = {} /\ absent = {} /\ errors = {} /\ deaf = {}
      /\ status = {} /\ ret = "none" /\ journal = NoJournal
  BY <1>1 DEF LogInv, ListInv, TypeInv, TypeOK, JournalInv
<1>3. listed' \subseteq Name /\ files \in [Name -> SUBSET Line]
  BY <1>1, PrimaryAssumption DEF LogInv, TypeInv, TypeOK
<1>4. steady' \subseteq Line
  BY <1>1, <1>3
<1>5. TypeInv'
  <2>1. TypeOK'
    BY <1>1, <1>2, <1>3, <1>4 DEF LogInv, TypeInv, TypeOK
  <2>. QED
    BY <1>1, <1>2, <2>1 DEF LogInv, TypeInv, Working
<1>6. ListInv' /\ TraceInv' /\ HostInv' /\ SeenInv' /\ JournalInv'
  BY <1>1, <1>2 DEF LogInv, ListInv, TraceInv, HostInv, SeenInv, JournalInv
<1>7. SteadyInv'
  BY <1>1, <1>3 DEF SteadyInv, Unread, Working
<1>. QED
  BY <1>5, <1>6, <1>7 DEF LogInv

\* The file is read and the first copy written: what is not yet of a log that
\* was read is untouched, and no event, error or record is of this log.
LEMMA LogCopy == LogInv /\ CopyLog => LogInv'
<1> SUFFICES ASSUME LogInv, CopyLog PROVE LogInv'
  OBVIOUS
<1>1. PICK c : c = Current
  OBVIOUS
<1>2. /\ pc = "next" /\ pc' = "legacy" /\ pending # {}
      /\ seen' = [seen EXCEPT ![c] = files[c]] /\ raw' = [raw EXCEPT ![RawOf[c]] = files[c]]
      /\ UNCHANGED <<host, pending, listed, copied, left, events, status, absent, errors, deaf,
                     journal, ret, faults>>
  BY <1>1 DEF CopyLog, reports
<1>3. /\ HostInv' /\ JournalInv' /\ ret = "none" /\ ret' = "none"
      /\ UNCHANGED <<there, files, written, rot, rotations, steady>>
      /\ pending \subseteq Name /\ listed \subseteq Name
  BY <1>2, FilesFrame
<1>4. c \in pending /\ c \in Name /\ Current' = c
  <2>1. Current' = Current
    BY <1>2 DEF Current
  <2>. QED
    BY <1>1, <1>2, <1>3, <2>1, CurrentFirst
<1>5. files \in [Name -> SUBSET Line] /\ raw \in [Name -> SUBSET Line]
      /\ seen \in [Name -> SUBSET Line] /\ RawOf[c] \in Name
  BY <1>4, RawAssumption DEF LogInv, TypeInv, TypeOK
<1>6. c \notin copied /\ c \notin errors \union deaf \union absent
  BY <1>2, <1>3, <1>4 DEF LogInv, ListInv
<1>7. /\ raw' \in [Name -> SUBSET Line] /\ seen' \in [Name -> SUBSET Line]
      /\ raw'[RawOf[c]] = files[c] /\ seen'[c] = files[c]
      /\ \A n \in Name : n # c => raw'[RawOf[n]] = raw[RawOf[n]] /\ seen'[n] = seen[n]
  BY <1>2, <1>4, <1>5, RawAssumption
<1>8. TypeInv'
  <2>1. TypeOK'
    BY <1>2, <1>3, <1>7 DEF LogInv, TypeInv, TypeOK
  <2>. QED
    BY <1>2, <1>3, <2>1 DEF LogInv, TypeInv, Working
<1>9. ListInv'
  BY <1>2, <1>3 DEF LogInv, ListInv
<1>10. TraceInv'
  <2>1. \A e \in events : e[1] \in copied /\ e[1] \in Name /\ e[1] # c
    BY <1>3, <1>6 DEF LogInv, TypeInv, TypeOK
  <2>. QED
    BY <1>2, <1>7, <2>1 DEF LogInv, TraceInv
<1>11. SeenInv'
  BY <1>2, <1>4, <1>7 DEF SeenInv
<1>12. SteadyInv'
  <2>. SUFFICES ASSUME NEW l \in steady
                PROVE  Shown(l)' \/ AtWork(l)' \/ \E n \in Name : Unread(n)' /\ l \in files[n]
    BY <1>3 DEF SteadyInv
  <2>1. Shown(l) \/ \E n \in Name : Unread(n) /\ l \in files[n]
    BY <1>2, <1>3 DEF LogInv, SteadyInv, AtWork, Working
  <2>2. Shown(l) => Shown(l)'
    BY <1>2, <1>3, <1>6, <1>7 DEF Shown
  <2>3. ASSUME NEW n \in Name, Unread(n), l \in files[n]
        PROVE  AtWork(l)' \/ \E m \in Name : Unread(m)' /\ l \in files[m]
    <3>1. CASE n = c
      BY <1>2, <1>4, <1>7, <2>3, <3>1 DEF AtWork, Working
    <3>2. CASE n # c
      BY <1>2, <1>4, <2>3, <3>2 DEF Unread, Working
    <3>. QED
      BY <3>1, <3>2
  <2>. QED
    BY <2>1, <2>2, <2>3
<1>. QED
  BY <1>3, <1>8, <1>9, <1>10, <1>11, <1>12 DEF LogInv

\* The second copy: the lines of the first are to be parsed.
LEMMA LogCopyLegacy == LogInv /\ CopyLegacy => LogInv'
<1> SUFFICES ASSUME LogInv, CopyLegacy PROVE LogInv'
  OBVIOUS
<1>1. PICK c : c = Current
  OBVIOUS
<1>2. /\ pc = "legacy" /\ copied' = copied \union {c} /\ left' = raw[RawOf[c]]
      /\ pc' = IF c \in Accounting THEN "status" ELSE "parse"
      /\ UNCHANGED <<host, pending, listed, raw, seen, events, status, absent, errors, deaf,
                     journal, ret, faults>>
  BY <1>1 DEF CopyLegacy, reports
<1>3. /\ HostInv' /\ JournalInv' /\ ret = "none" /\ ret' = "none"
      /\ UNCHANGED <<there, files, written, rot, rotations, steady>>
      /\ pending \subseteq Name /\ listed \subseteq Name
  BY <1>2, FilesFrame
<1>4. c \in pending /\ c \in Name /\ Current' = c /\ c \in listed
  <2>1. Current' = Current
    BY <1>2 DEF Current
  <2>2. pending # {} /\ pending \subseteq listed
    BY <1>2 DEF LogInv, TypeInv, TypeOK, Working
  <2>. QED
    BY <1>1, <1>2, <1>3, <2>1, <2>2, CurrentFirst
<1>5. c \notin absent /\ left' \subseteq Line
  BY <1>2, <1>4, RawAssumption DEF LogInv, ListInv, TypeInv, TypeOK
<1>6. TypeInv'
  <2>1. TypeOK'
    BY <1>2, <1>3, <1>4, <1>5 DEF LogInv, TypeInv, TypeOK
  <2>. QED
    BY <1>2, <1>3, <1>4, <2>1 DEF LogInv, TypeInv, Working
<1>7. ListInv'
  BY <1>2, <1>3, <1>4 DEF LogInv, ListInv
<1>8. TraceInv' /\ SeenInv'
  BY <1>1, <1>2, <1>4 DEF LogInv, TraceInv, SeenInv
<1>9. SteadyInv'
  <2>1. \A l : Shown(l) => Shown(l)'
    BY <1>2 DEF Shown
  <2>2. \A l : AtWork(l) => AtWork(l)'
    BY <1>1, <1>2, <1>4 DEF AtWork, Working
  <2>3. \A n : Unread(n) => Unread(n)'
    BY <1>1, <1>2, <1>4 DEF Unread, Working
  <2>. QED
    BY <1>3, <2>1, <2>2, <2>3 DEF LogInv, SteadyInv
<1>. QED
  BY <1>3, <1>6, <1>7, <1>8, <1>9 DEF LogInv

\* The record that the copy is all there is of a login accounting file.
LEMMA LogStatus == LogInv /\ WriteStatus => LogInv'
<1> SUFFICES ASSUME LogInv, WriteStatus PROVE LogInv'
  OBVIOUS
<1>1. PICK c : c = Current
  OBVIOUS
<1>2. /\ pc = "status" /\ pc' = "parse" /\ status' = status \union {c}
      /\ UNCHANGED <<host, pending, listed, raw, copied, left, seen, events, absent, errors, deaf,
                     journal, ret, faults>>
  BY <1>1 DEF WriteStatus, copying
<1>3. /\ HostInv' /\ JournalInv' /\ ret = "none" /\ ret' = "none"
      /\ UNCHANGED <<there, files, written, rot, rotations, steady>>
      /\ pending \subseteq Name /\ listed \subseteq Name
  BY <1>2, FilesFrame
<1>4. Current' = c /\ c \in copied /\ c \in Accounting
  <2>1. Current' = Current
    BY <1>2 DEF Current
  <2>. QED
    BY <1>1, <1>2, <2>1 DEF LogInv, ListInv, TypeInv
<1>5. TypeInv'
  <2>1. TypeOK'
    BY <1>2, <1>3, <1>4 DEF LogInv, TypeInv, TypeOK
  <2>. QED
    BY <1>2, <1>3, <2>1 DEF LogInv, TypeInv, Working
<1>6. ListInv' /\ TraceInv' /\ SeenInv'
  BY <1>1, <1>2, <1>3, <1>4 DEF LogInv, ListInv, TraceInv, SeenInv
<1>7. SteadyInv'
  <2>1. \A l : (Shown(l) => Shown(l)') /\ (AtWork(l) => AtWork(l)') /\ (Unread(l) => Unread(l)')
    BY <1>1, <1>2, <1>4 DEF Shown, AtWork, Unread, Working
  <2>. QED
    BY <1>3, <2>1 DEF LogInv, SteadyInv
<1>. QED
  BY <1>3, <1>5, <1>6, <1>7 DEF LogInv

\* A line of the copy becomes an event.
LEMMA LogParseLine == LogInv /\ ParseLine => LogInv'
<1> SUFFICES ASSUME LogInv, ParseLine PROVE LogInv'
  OBVIOUS
<1>1. PICK c, x : c = Current /\ x = Least(left)
  OBVIOUS
<1>2. /\ pc = "parse" /\ pc' = pc /\ left # {}
      /\ events' = events \union {<<c, x>>} /\ left' = left \ {x}
      /\ UNCHANGED <<host, pending, listed, raw, copied, seen, status, absent, errors, deaf,
                     journal, ret, faults>>
  BY <1>1 DEF ParseLine
<1>3. /\ HostInv' /\ JournalInv' /\ ret = "none" /\ ret' = "none"
      /\ UNCHANGED <<there, files, written, rot, rotations, steady>>
      /\ pending \subseteq Name /\ listed \subseteq Name
  BY <1>2, FilesFrame
<1>4. Current' = c /\ c \in copied /\ x \in left /\ x \in Line
  <2>1. Current' = Current
    BY <1>2 DEF Current
  <2>2. left \subseteq Line
    BY DEF LogInv, TypeInv, TypeOK
  <2>. QED
    BY <1>1, <1>2, <2>1, <2>2, LeastLine DEF LogInv, ListInv
<1>5. TypeInv'
  <2>1. TypeOK'
    BY <1>2, <1>3, <1>4 DEF LogInv, TypeInv, TypeOK
  <2>. QED
    BY <1>2, <1>3, <2>1 DEF LogInv, TypeInv, Working
<1>6. ListInv'
  BY <1>1, <1>2, <1>3, <1>4 DEF LogInv, ListInv
<1>7. TraceInv' /\ SeenInv'
  BY <1>1, <1>2, <1>4 DEF LogInv, TraceInv, SeenInv
<1>8. SteadyInv'
  <2>1. \A l : (Shown(l) => Shown(l)') /\ (AtWork(l) => AtWork(l)') /\ (Unread(l) => Unread(l)')
    BY <1>1, <1>2, <1>4 DEF Shown, AtWork, Unread, Working
  <2>. QED
    BY <1>3, <2>1 DEF LogInv, SteadyInv
<1>. QED
  BY <1>3, <1>5, <1>6, <1>7, <1>8 DEF LogInv

\* Whatever ends the work on a log, its lines are events, or an error event (or
\* the trace of one that was lost) is left, or nothing was there.
LEMMA LeaveLog ==
  ASSUME LogInv, NEW c, c = Current,
         pc \in {"next", "legacy", "parse"}, pending # {},
         pc' = "next", pending' = pending \ {c},
         UNCHANGED <<host, listed, raw, copied, seen, status, journal, ret>>,
         left' \subseteq Line, faults' \in 0 .. MaxFaults,
         events \subseteq events', \A e \in events' : e \in events \/ (pc = "parse" /\ e \in {c} \X left),
         absent \subseteq absent', absent' \subseteq absent \union {c},
         errors \subseteq errors', errors' \subseteq errors \union {c},
         deaf \subseteq deaf', deaf' \subseteq deaf \union {c},
         pc = "parse" <=> c \notin absent',
         \A l \in files[c] : pc = "next" => c \in (errors' \union deaf') /\ c \in absent',
         \A l \in seen[c] : pc # "next" => <<c, l>> \in events' \/ c \in errors' \union deaf'
  PROVE  LogInv'
<1>1. /\ HostInv' /\ JournalInv' /\ ret = "none" /\ ret' = "none"
      /\ UNCHANGED <<there, files, written, rot, rotations, steady>>
      /\ pending \subseteq Name /\ listed \subseteq Name
  BY FilesFrame
<1>2. c \in pending /\ c \in Name /\ c \in listed
      /\ \A m \in pending : m # c => Place(c) < Place(m)
  <2>1. pending \subseteq listed
    BY DEF LogInv, TypeInv, TypeOK
  <2>. QED
    BY <1>1, <2>1, CurrentFirst
<1>3. pc = "parse" <=> c \in copied
  BY <1>1, <1>2 DEF LogInv, ListInv
<1>4. events' \subseteq copied \X Line
  BY <1>3 DEF LogInv, TypeInv, TypeOK
<1>5. TypeInv'
  <2>1. absent' \subseteq listed \ copied /\ errors' \subseteq listed /\ deaf' \subseteq listed
    <3>1. absent \subseteq listed \ copied /\ errors \subseteq listed /\ deaf \subseteq listed
      BY DEF LogInv, TypeInv, TypeOK
    <3>2. c \in absent' => c \notin copied
      BY <1>3
    <3>. QED
      BY <1>2, <3>1, <3>2
  <2>2. TypeOK'
    BY <1>1, <1>4, <2>1 DEF LogInv, TypeInv, TypeOK
  <2>. QED
    BY <1>1, <2>2 DEF LogInv, TypeInv, Working
<1>6. ListInv'
  <2>1. listed \subseteq pending' \union copied \union absent'
    BY <1>3 DEF LogInv, ListInv
  <2>2. (errors' \union deaf' \union absent') \intersect pending' = {}
    BY DEF LogInv, ListInv
  <2>3. \A n \in copied : n \notin pending'
    BY <1>1 DEF LogInv, ListInv
  <2>4. \A n \in pending', m \in listed : Place(n) < Place(m) => m \in pending'
    <3>. SUFFICES ASSUME NEW n \in pending', NEW m \in listed, Place(n) < Place(m)
                  PROVE  m \in pending'
      OBVIOUS
    <3>1. m \in pending /\ n \in pending /\ n # c /\ Place(c) < Place(n)
      BY <1>2 DEF LogInv, ListInv
    <3>2. Place(n) \in Nat /\ Place(c) \in Nat
      BY <1>1, <1>2, <3>1, PlaceOf
    <3>3. m # c
      BY <3>1, <3>2
    <3>. QED
      BY <3>1, <3>3
  <2>. QED
    BY <1>1, <2>1, <2>2, <2>3, <2>4 DEF ListInv
<1>7. TraceInv' /\ SeenInv'
  <2>1. \A e \in {c} \X left : pc = "parse" => e[2] \in raw[RawOf[e[1]]]
    BY DEF LogInv, TraceInv
  <2>. QED
    BY <2>1 DEF LogInv, TraceInv, SeenInv
<1>8. SteadyInv'
  <2>. SUFFICES ASSUME NEW l \in steady
                PROVE  Shown(l)' \/ \E n \in Name : Unread(n)' /\ l \in files[n]
    BY <1>1 DEF SteadyInv
  <2>1. Shown(l) \/ AtWork(l) \/ \E n \in Name : Unread(n) /\ l \in files[n]
    BY <1>1 DEF LogInv, SteadyInv
  <2>2. Shown(l) => Shown(l)'
    BY DEF Shown
  <2>3. AtWork(l) => Shown(l)'
    BY <1>2 DEF AtWork, Working, Shown
  <2>4. ASSUME NEW n \in Name, Unread(n), l \in files[n]
        PROVE  Shown(l)' \/ Unread(n)'
    <3>1. CASE n # c
      BY <2>4, <3>1 DEF Unread, Working
    <3>2. CASE n = c
      <4>1. pc = "next"
        BY <2>4, <3>2 DEF Unread, Working
      <4>2. c \in (errors' \union deaf') /\ c \in absent'
        BY <2>4, <3>2, <4>1
      <4>. QED
        BY <1>2, <4>2 DEF Shown
    <3>. QED
      BY <3>1, <3>2
  <2>. QED
    BY <2>1, <2>2, <2>3, <2>4
<1>. QED
  BY <1>1, <1>5, <1>6, <1>7, <1>8 DEF LogInv

\* The log at work is the first of those left, and is on none of the records.
LEMMA AtFirst ==
  ASSUME LogInv, pending # {}, ret = "none"
  PROVE  /\ Current \in pending /\ Current \in Name /\ Current \in listed
         /\ Current \notin errors \union deaf \union absent
<1>1. pending \subseteq listed /\ listed \subseteq Name
  BY DEF LogInv, TypeInv, TypeOK
<1>2. Current \in pending
  BY <1>1, CurrentFirst
<1>. QED
  BY <1>1, <1>2 DEF LogInv, ListInv

\* A log that is not there had no lines to lose.
LEMMA LogLogGone == LogInv /\ LogGone => LogInv'
<1> SUFFICES ASSUME LogInv, LogGone PROVE LogInv'
  OBVIOUS
<1>1. PICK c : c = Current
  OBVIOUS
<1>2. /\ pc = "next" /\ pc' = pc /\ pending # {} /\ c \notin there
      /\ absent' = absent \union {c} /\ pending' = pending \ {c}
      /\ UNCHANGED <<host, listed, raw, copied, left, seen, events, status, errors, deaf,
                     journal, ret, faults>>
  BY <1>1 DEF LogGone
<1>3. files[c] = {} /\ left' \subseteq Line /\ faults' \in 0 .. MaxFaults
  <2>1. ret = "none"
    BY <1>2 DEF LogInv, TypeInv
  <2>. QED
    BY <1>1, <1>2, <2>1, AtFirst DEF LogInv, HostInv, TypeInv, TypeOK
<1>. QED
  BY <1>1, <1>2, <1>3, LeaveLog

\* The outcomes of an error event.
LEMMA Recorded ==
  ASSUME LogInv, NEW c, RecordError(c) \/ FailAndRecord(c)
  PROVE  /\ faults' \in 0 .. MaxFaults
         /\ errors \subseteq errors' /\ errors' \subseteq errors \union {c}
         /\ deaf \subseteq deaf' /\ deaf' \subseteq deaf \union {c}
         /\ c \in errors' \union deaf'
<1>1. faults \in 0 .. MaxFaults /\ MaxFaults \in Nat
  BY LogBoundAssumption DEF LogInv, TypeInv, TypeOK
<1>. QED
  BY <1>1 DEF RecordError, FailAndRecord, Fault

\* A log that could not be copied is an error event and a record of absence.
LEMMA LogCopyFails == LogInv /\ CopyFails => LogInv'
<1> SUFFICES ASSUME LogInv, CopyFails PROVE LogInv'
  OBVIOUS
<1>1. PICK c : c = Current
  OBVIOUS
<1>2. /\ pc \in {"next", "legacy"} /\ pc' = "next" /\ FailAndRecord(c)
      /\ absent' = absent \union {c} /\ pending' = pending \ {c}
      /\ UNCHANGED <<host, listed, raw, copied, left, seen, events, status, journal, ret>>
  BY <1>1 DEF CopyFails
<1>3. pending # {}
  BY DEF CopyFails, LogInv, TypeInv, Working
<1>4. /\ faults' \in 0 .. MaxFaults
      /\ errors \subseteq errors' /\ errors' \subseteq errors \union {c}
      /\ deaf \subseteq deaf' /\ deaf' \subseteq deaf \union {c}
      /\ c \in errors' \union deaf'
  BY <1>2, Recorded
<1>5. left' \subseteq Line
  BY <1>2 DEF LogInv, TypeInv, TypeOK
<1>. QED
  BY <1>1, <1>2, <1>3, <1>4, <1>5, LeaveLog

\* Every line of the copy was parsed, or an error event stands for the rest.
LEMMA LogParsed == LogInv /\ (ParsedAll \/ ParseLimit \/ ParseFails) => LogInv'
<1> SUFFICES ASSUME LogInv, ParsedAll \/ ParseLimit \/ ParseFails PROVE LogInv'
  OBVIOUS
<1>1. PICK c, x : c = Current /\ x = Least(left)
  OBVIOUS
<1>2. /\ pc = "parse" /\ pc' = "next" /\ pending' = pending \ {c} /\ left' = {}
      /\ UNCHANGED <<host, listed, raw, copied, seen, status, absent, journal, ret>>
  BY <1>1 DEF ParsedAll, ParseLimit, ParseFails, NextLog
<1>3. pending # {} /\ ret = "none" /\ left' \subseteq Line
  BY <1>2 DEF LogInv, TypeInv, Working
<1>4. c \notin absent'
  BY <1>1, <1>2, <1>3, AtFirst
<1>5. \A l \in seen[c] : l \in left \/ <<c, l>> \in events
  BY <1>1, <1>2 DEF LogInv, SeenInv
<1>6. /\ faults' \in 0 .. MaxFaults
      /\ errors \subseteq errors' /\ errors' \subseteq errors \union {c}
      /\ deaf \subseteq deaf' /\ deaf' \subseteq deaf \union {c}
      /\ left # {} => c \in errors' \union deaf'
  <2>1. CASE ParsedAll
    BY <2>1 DEF ParsedAll, LogInv, TypeInv, TypeOK
  <2>2. CASE ParseLimit \/ ParseFails
    <3>1. RecordError(c) \/ FailAndRecord(c)
      BY <1>1, <2>2 DEF ParseLimit, ParseFails
    <3>. QED
      BY <3>1, Recorded
  <2>. QED
    BY <2>1, <2>2
<1>7. events \subseteq events' /\ \A e \in events' : e \in events \/ e \in {c} \X left
  <2>1. events' = events \/ (left # {} /\ events' = events \union {<<c, x>>})
    BY <1>1 DEF ParsedAll, ParseLimit, ParseFails
  <2>2. left # {} => x \in left
    BY <1>1, LeastLine DEF LogInv, TypeInv, TypeOK
  <2>. QED
    BY <2>1, <2>2
<1>8. \A l \in seen[c] : <<c, l>> \in events' \/ c \in errors' \union deaf'
  BY <1>5, <1>6, <1>7
<1>. QED
  BY <1>1, <1>2, <1>3, <1>4, <1>6, <1>7, <1>8, LeaveLog

----------------------------------------------------------------------------
(* The end of the files, and the journal.                                  *)

\* Steps that touch neither files nor reports keep what is known of them once no
\* log is left, or once the collector has given up.
LEMMA ReportsFrame ==
  ASSUME LogInv, UNCHANGED <<host, copying, reports>>,
         ~Working \/ ret' = "err",
         pc' \in {"journal", "lines", "done"},
         ret' # "err" => pending = {} /\ ret # "err",
         ret' \in {"none", "ok", "err"}, pc' = "done" <=> ret' # "none",
         faults' \in 0 .. MaxFaults,
         journal' \in [out : 0 .. Limit + 1, pos : 0 .. Limit, events : 0 .. Limit, status : Seq(Statuses)]
  PROVE  TypeInv' /\ ListInv' /\ TraceInv' /\ HostInv' /\ SeenInv' /\ SteadyInv'
<1>1. UNCHANGED <<there, files, written, rot, rotations, steady, pending, listed, raw, copied, left,
                  seen, events, status, absent, errors, deaf>>
  BY DEF host, copying, reports
<1>2. TypeInv'
  <2>1. /\ journal'.out \in 0 .. Limit + 1 /\ journal'.pos \in 0 .. Limit
        /\ journal'.events \in 0 .. Limit /\ journal'.status \in Seq(Statuses)
    OBVIOUS
  <2>2. TypeOK'
    BY <1>1, <2>1 DEF LogInv, TypeInv, TypeOK
  <2>. QED
    BY <1>1, <2>2 DEF TypeInv, Working
<1>3. ListInv'
  <2>1. \A n \in copied \intersect pending : ret' = "err"
    OBVIOUS
  <2>. QED
    BY <1>1, <2>1 DEF LogInv, ListInv
<1>4. TraceInv' /\ HostInv' /\ SeenInv'
  BY <1>1 DEF LogInv, TraceInv, HostInv, SeenInv
<1>5. SteadyInv'
  <2>1. CASE ret' = "err"
    BY <2>1 DEF SteadyInv
  <2>2. CASE ret' # "err"
    <3>1. \A l \in steady : Shown(l)
      BY <2>2 DEF LogInv, SteadyInv, AtWork, Unread
    <3>. QED
      BY <1>1, <3>1 DEF SteadyInv, Shown
  <2>. QED
    BY <2>1, <2>2
<1>. QED
  BY <1>2, <1>3, <1>4, <1>5

\* What one more status is.
LEMMA Appended ==
  ASSUME NEW q \in Seq(Statuses), NEW x \in Statuses
  PROVE  /\ Append(q, x) \in Seq(Statuses) /\ Len(Append(q, x)) = Len(q) + 1
         /\ Append(q, x)[Len(Append(q, x))] = x
<1>1. /\ Append(q, x) \in Seq(Statuses) /\ Len(Append(q, x)) = Len(q) + 1
      /\ Append(q, x)[Len(q) + 1] = x
  BY AppendProperties
<1>. QED
  BY <1>1

\* The journal's lines are passed one after the other, each with its event or its
\* status; whatever ends it leaves a status (collectJournal, parseJournalOutput).
LEMMA LogJournal ==
  LogInv /\ (FilesDone \/ JournalUnavailable \/ CopyJournal \/ JournalLine \/ JournalLimit
             \/ JournalEnds) => LogInv'
<1> SUFFICES ASSUME LogInv,
                    FilesDone \/ JournalUnavailable \/ CopyJournal \/ JournalLine \/ JournalLimit
                      \/ JournalEnds
             PROVE  LogInv'
  OBVIOUS
<1> DEFINE J == [out : 0 .. Limit + 1, pos : 0 .. Limit, events : 0 .. Limit, status : Seq(Statuses)]
<1>1. /\ UNCHANGED <<host, copying, reports, faults>> /\ pc \in {"next", "journal", "lines"}
      /\ pc' \in {"journal", "lines", "done"} /\ ret' \in {ret, "ok"}
      /\ pc' = "done" <=> ret' = "ok"
      /\ ret = "none" /\ pending = {} /\ journal \in J /\ journal.status \in Seq(Statuses)
  BY DEF FilesDone, JournalUnavailable, CopyJournal, JournalLine, JournalLimit, JournalEnds, Return,
     LogInv, TypeInv, TypeOK, ListInv
<1>2. Limit \in Nat \ {0}
  BY LogBoundAssumption
<1>0. {"absent", "error", "timeout", "parse_error", "line_limit_reached", "empty"} = Statuses
  BY DEF Statuses
<1>3. journal' \in J /\ JournalInv'
  <2>1. CASE FilesDone
    BY <1>1, <2>1 DEF FilesDone, LogInv, JournalInv
  <2>2. CASE JournalUnavailable
    <3>1. journal = NoJournal /\ pc' = "done"
      BY <2>2 DEF JournalUnavailable, Return, LogInv, JournalInv
    <3>2. PICK s \in {"absent", "error", "timeout"} : journal' = [journal EXCEPT !.status = Append(@, s)]
      BY <2>2 DEF JournalUnavailable, JournalStatus
    <3>3. journal.out = 0 /\ journal.events = 0 /\ journal.status = <<>>
      BY <3>1 DEF NoJournal
    <3>4. Append(journal.status, s) \in Seq(Statuses) /\ Len(Append(journal.status, s)) = 1
      BY <1>1, <3>3, <1>0, Appended
    <3>5. /\ journal' \in J /\ journal'.out = 0 /\ journal'.events = 0
          /\ journal'.status = Append(journal.status, s)
      BY <1>1, <3>2, <3>3, <3>4
    <3>. QED
      BY <1>1, <1>2, <3>1, <3>4, <3>5 DEF JournalInv
  <2>3. CASE CopyJournal
    <3>1. journal = NoJournal /\ pc' = "lines" /\ ret' = "none"
      BY <1>1, <2>3 DEF CopyJournal, LogInv, JournalInv
    <3>2. PICK k \in 0 .. Limit + 1 : journal' = [journal EXCEPT !.out = k]
      BY <2>3 DEF CopyJournal
    <3>3. journal.pos = 0 /\ journal.events = 0 /\ journal.status = <<>>
      BY <3>1 DEF NoJournal
    <3>4. /\ journal' \in J /\ journal'.out = k /\ journal'.pos = 0 /\ journal'.events = 0
          /\ journal'.status = <<>>
      BY <1>1, <3>2, <3>3
    <3>. QED
      BY <3>1, <3>4 DEF JournalInv
  <2>4. CASE JournalLine
    <3>1. /\ pc = "lines" /\ pc' = pc /\ ret' = "none" /\ journal.pos < journal.out
          /\ journal.pos < Limit
          /\ \/ journal' = [journal EXCEPT !.pos = @ + 1, !.events = @ + 1]
             \/ journal' = [journal EXCEPT !.pos = @ + 1, !.status = Append(@, "parse_error")]
      BY <1>1, <2>4 DEF JournalLine
    <3>2. journal.events + Len(journal.status) = journal.pos /\ Len(journal.status) \in Nat
      BY <1>1, <3>1 DEF LogInv, JournalInv
    <3>3. journal.pos + 1 \in 0 .. Limit /\ journal.events + 1 \in 0 .. Limit
      BY <1>1, <1>2, <3>1, <3>2
    <3>4. CASE journal' = [journal EXCEPT !.pos = @ + 1, !.events = @ + 1]
      <4>1. /\ journal' \in J /\ journal'.out = journal.out /\ journal'.pos = journal.pos + 1
            /\ journal'.events = journal.events + 1 /\ journal'.status = journal.status
        BY <1>1, <3>3, <3>4
      <4>. QED
        BY <1>1, <3>1, <3>2, <4>1 DEF JournalInv
    <3>5. CASE journal' = [journal EXCEPT !.pos = @ + 1, !.status = Append(@, "parse_error")]
      <4>1. /\ Append(journal.status, "parse_error") \in Seq(Statuses)
            /\ Len(Append(journal.status, "parse_error")) = Len(journal.status) + 1
        BY <1>1, <1>0, Appended
      <4>2. /\ journal' \in J /\ journal'.out = journal.out /\ journal'.pos = journal.pos + 1
            /\ journal'.events = journal.events
            /\ journal'.status = Append(journal.status, "parse_error")
        BY <1>1, <3>3, <3>5, <4>1
      <4>. QED
        BY <1>1, <3>1, <3>2, <4>1, <4>2 DEF JournalInv
    <3>. QED
      BY <3>1, <3>4, <3>5
  <2>5. CASE JournalLimit
    <3>1. /\ pc = "lines" /\ pc' = "done" /\ journal.pos < journal.out /\ journal.pos = Limit
          /\ journal' = [journal EXCEPT !.status = Append(@, "line_limit_reached")]
      BY <2>5 DEF JournalLimit, JournalStatus, Return
    <3>2. journal.events + Len(journal.status) = journal.pos /\ Len(journal.status) \in Nat
      BY <1>1, <3>1 DEF LogInv, JournalInv
    <3>3. journal.out = Limit + 1
      BY <1>1, <1>2, <3>1
    <3>. DEFINE new == Append(journal.status, "line_limit_reached")
    <3>4. new \in Seq(Statuses) /\ Len(new) = Len(journal.status) + 1
          /\ new[Len(new)] = "line_limit_reached"
      BY <1>1, <1>0, Appended
    <3>. HIDE DEF new
    <3>5. /\ journal' \in J /\ journal'.out = journal.out /\ journal'.events = journal.events
          /\ journal'.status = new
      BY <1>1, <3>1, <3>4 DEF new
    <3>6. journal'.events + Len(journal'.status) = journal'.out /\ journal'.out # 0
      <4>1. journal.events \in Nat /\ journal'.events + Len(journal'.status) = journal.events + Len(journal.status) + 1
        BY <1>1, <1>2, <3>2, <3>4, <3>5
      <4>. QED
        BY <1>2, <3>1, <3>2, <3>3, <3>5, <4>1
    <3>. QED
      BY <3>1, <3>4, <3>5, <3>6 DEF JournalInv
  <2>6. CASE JournalEnds
    <3>1. /\ pc = "lines" /\ pc' = "done" /\ journal.pos = journal.out
          /\ IF journal.out = 0 THEN journal' = [journal EXCEPT !.status = Append(@, "empty")]
             ELSE journal' = journal
      BY <2>6 DEF JournalEnds, JournalStatus, Return
    <3>2. journal.events + Len(journal.status) = journal.pos /\ Len(journal.status) \in Nat
      BY <1>1, <3>1 DEF LogInv, JournalInv
    <3>3. ~(journal.out > Limit)
      BY <1>1, <1>2, <3>1
    <3>4. CASE journal.out # 0
      BY <1>1, <3>1, <3>2, <3>3, <3>4 DEF JournalInv
    <3>5. CASE journal.out = 0
      <4>1. Len(journal.status) = 0 /\ journal.events = 0
        BY <1>1, <3>1, <3>2, <3>5
      <4>2. /\ Append(journal.status, "empty") \in Seq(Statuses)
            /\ Len(Append(journal.status, "empty")) = 1
        BY <1>1, <4>1, <1>0, Appended
      <4>3. /\ journal' \in J /\ journal'.out = 0 /\ journal'.events = 0
            /\ journal'.status = Append(journal.status, "empty")
        BY <1>1, <3>1, <3>5, <4>1, <4>2
      <4>. QED
        BY <1>2, <3>1, <4>2, <4>3 DEF JournalInv
    <3>. QED
      BY <3>4, <3>5
  <2>. QED
    BY <2>1, <2>2, <2>3, <2>4, <2>5, <2>6
<1>4. TypeInv' /\ ListInv' /\ TraceInv' /\ HostInv' /\ SeenInv' /\ SteadyInv'
  <2>1. ~Working /\ faults' \in 0 .. MaxFaults
    BY <1>1 DEF Working, LogInv, TypeInv, TypeOK
  <2>. QED
    BY <1>1, <1>3, <2>1, ReportsFrame
<1>. QED
  BY <1>3, <1>4 DEF LogInv

\* A write that fails, or the end of the run's context, ends the collector.
LEMMA LogStops == LogInv /\ (WriteFails \/ Interrupt) => LogInv'
<1> SUFFICES ASSUME LogInv, WriteFails \/ Interrupt PROVE LogInv'
  OBVIOUS
<1>1. /\ pc' = "done" /\ ret' = "err" /\ UNCHANGED <<host, copying, reports, journal>>
      /\ faults' \in 0 .. MaxFaults
  BY LogBoundAssumption DEF WriteFails, Interrupt, Return, Fault, LogInv, TypeInv, TypeOK
<1>2. journal' \in [out : 0 .. Limit + 1, pos : 0 .. Limit, events : 0 .. Limit, status : Seq(Statuses)]
  BY <1>1 DEF LogInv, TypeInv
<1>3. JournalInv'
  BY <1>1 DEF JournalInv
<1>4. TypeInv' /\ ListInv' /\ TraceInv' /\ HostInv' /\ SeenInv' /\ SteadyInv'
  <2>1. ret' \in {"none", "ok", "err"} /\ (pc' = "done" <=> ret' # "none")
        /\ pc' \in {"journal", "lines", "done"}
    BY <1>1
  <2>. QED
    BY <1>1, <1>2, <2>1, ReportsFrame
<1>. QED
  BY <1>3, <1>4 DEF LogInv

----------------------------------------------------------------------------
(* The theorems.                                                           *)

LEMMA LogStep == LogInv /\ [Next]_vars => LogInv'
<1> SUFFICES ASSUME LogInv, [Next]_vars PROVE LogInv'
  OBVIOUS
<1>1. CASE UNCHANGED vars
  <2>1. UNCHANGED <<there, files, written, rot, rotations, steady, pc, pending, listed, raw, copied,
                    left, seen, events, status, absent, errors, deaf, journal, ret, faults>>
    BY <1>1 DEF vars, host, copying, reports
  <2>2. Current' = Current
    BY <2>1 DEF Current
  <2>3. TypeInv' /\ ListInv' /\ TraceInv' /\ HostInv'
    BY <2>1, <2>2 DEF LogInv, TypeInv, TypeOK, ListInv, TraceInv, HostInv, Working
  <2>4. SeenInv' /\ SteadyInv' /\ JournalInv'
    BY <2>1, <2>2 DEF LogInv, SeenInv, SteadyInv, JournalInv, Shown, AtWork, Unread, Working
  <2>. QED
    BY <2>3, <2>4 DEF LogInv
<1>. QED
  BY <1>1, LogHost, LogDiscover, LogLogGone, LogCopy, LogCopyFails, LogCopyLegacy, LogStatus,
     LogParseLine, LogParsed, LogJournal, LogStops DEF Next, Collect

\* Every variable stays in its range; in particular no log is both copied and
\* reported absent (Collect).
THEOREM LogsTyped == Spec => []TypeOK
<1>1. LogInv => TypeOK
  BY DEF LogInv, TypeInv
<1>. QED
  BY <1>1, LogInit, LogStep, PTL DEF Spec

\* Traceable: however often the log is appended to or rotated between the two
\* copies and the parsing, every event is of a line of the raw copy it refers to
\* (copyLog, parseCopiedLog).
THEOREM EventsAreOfTheirCopies == Spec => []EventsTraceable
<1>1. LogInv => EventsTraceable
  BY DEF LogInv, TraceInv, EventsTraceable
<1>. QED
  BY <1>1, LogInit, LogStep, PTL DEF Spec

\* Each source speaks: no listed log is without copies and without a record of
\* absence, and each line of the journal has its event or its status, at the
\* limit too (Collect, parseJournalOutput).
THEOREM EverySourceSpeaks == Spec => []EveryLogAccounted
<1>1. LogInv => EveryLogAccounted
  BY DEF LogInv, ListInv, JournalInv, EveryLogAccounted
<1>. QED
  BY <1>1, LogInit, LogStep, PTL DEF Spec

\* Nothing is lost to a rotation that keeps to the order of the list, whatever
\* its length and whenever it strikes: such a line is an event, or an error event
\* or a record of absence stands for a file that could have shown it
\* (discoverLogs, Collect).
THEOREM SteadyLinesAreReported == Spec => []SteadyLineReported
<1>1. LogInv => SteadyLineReported
  <2> SUFFICES ASSUME LogInv, ret = "ok", NEW l \in steady PROVE Shown(l)
    BY DEF SteadyLineReported, Shown
  <2>1. pending = {} /\ pc = "done"
    BY DEF LogInv, ListInv, TypeInv
  <2>. QED
    BY <2>1 DEF LogInv, SteadyInv, AtWork, Working, Unread
<1>. QED
  BY <1>1, LogInit, LogStep, PTL DEF Spec
=============================================================================
