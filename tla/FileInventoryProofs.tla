------------------------ MODULE FileInventoryProofs ------------------------
(***************************************************************************)
(* Proofs about FileInventory for every tree, agenda and bound: whatever   *)
(* happens to the files and whatever calls fail, every path of the map has *)
(* one outcome, the three places that show a file's content agree, and no  *)
(* file that nobody touches is missed without a trace.                     *)
(***************************************************************************)
EXTENDS FileInventory, FiniteSetTheorems, SequenceTheorems, WellFoundedInduction, TLAPS

----------------------------------------------------------------------------
(* The inductive invariants.                                               *)

Surveying == pc \in {"agenda", "absent", "walk", "list", "open"}
Recording == pc \in {"stat", "hash", "attrs", "legacy"}

\* Inside an item the agenda has that item, and only a listed entry may turn
\* out to be something else than it was.
TypeInv ==
  /\ TypeOK
  /\ pc \in {"absent", "walk", "list", "open"} => item \in DOMAIN Agenda
  /\ \A e \in pending : e.dir \/ Up[e.node] \in Node

\* The outcome of a path: its four traces in step with each other.
Accounted(m) ==
  /\ entities[m].state # "none" <=> m \in found \ left
  /\ entities[m].state = "absent" <=> m \in missing
  /\ entities[m].state = "absent" <=> attrs[m].state = "absent"
  /\ entities[m].state # "exists" => entities[m].kind = "none"
  /\ hashes[m].state # "absent"
  /\ ~(pc = "hash" /\ m = cur) => (hashes[m].state # "none" <=> entities[m].kind = "file")
  /\ m \in left => attrs[m] = NoHash /\ hashes[m] = NoHash

RecordInv ==
  /\ Surveying => /\ left = {} /\ missing = {}
                  /\ \A m \in Name : entities[m] = NoEntity /\ hashes[m] = NoHash /\ attrs[m] = NoHash
  /\ Recording \/ ret = "ok" => \A m \in Name : Accounted(m)
  /\ pc \in {"hash", "attrs"} => /\ cur \in found \ left /\ entities[cur].state = "exists"
                                 /\ attrs[cur] = NoHash
  /\ pc = "hash" => entities[cur].kind = "file" /\ hashes[cur] = NoHash
  /\ pc = "legacy" \/ ret = "ok" => left = {}
  /\ ret = "ok" => pc = "done"

\* What is there now is at least as new as what was seen of it before.
Ordered(m) ==
  /\ Of(m).kind = "file" => /\ Of(m).ver >= entities[m].ver
                            /\ Of(m).ver >= hashes[m].val
                            /\ Of(m).ver >= legacy[m]
  /\ entities[m].kind = "file" /\ attrs[m].state # "none" => attrs[m] = hashes[m]
  /\ hashes[m].val # 0 => hashes[m].val >= entities[m].ver
  /\ legacy[m] # 0 => legacy[m] >= entities[m].ver /\ legacy[m] >= hashes[m].val

\* A file that is still what it was, and that can be read.
Steady(n) == tree[n].kind = "file" /\ tree[n].ver = 1 /\ ~tree[n].big
Unnoted(m) == \A e \in Noted : e.name # m

\* Of a file that is still what it was, every look that is on record saw that.
Faithful(m) ==
  Steady(m[1]) /\ ~m[2] /\ Unnoted(m) =>
    /\ entities[m].state # "none" =>
         entities[m] = [state |-> "exists", kind |-> "file", ver |-> 1, big |-> FALSE]
    /\ hashes[m].state # "none" => hashes[m].val = 1
    /\ pc = "legacy" \/ ret = "ok" => m \notin found \/ m \in listing \/ legacy[m] = 1

HashInv ==
  /\ \A n \in Node : tree[n].ver <= changes
  /\ \A m \in Name : /\ entities[m].ver <= changes /\ hashes[m].val <= changes
                     /\ legacy[m] <= changes
  /\ Surveying \/ Recording => \A m \in Name : legacy[m] = 0 \/ pc = "legacy"
  /\ \A m \in Name : Ordered(m) /\ Faithful(m)
  /\ ret = "ok" => listing = {}

\* What is there is in a directory, and what is from the beginning is there.
Rooted ==
  \A n \in Node : /\ tree[n].kind # "none" /\ Up[n] # "/" => tree[Up[n]].kind = "dir"
                  /\ tree[n].id = 1 => tree[n].kind # "none"

\* A directory that was there from the beginning was listed as one.
Listed == \A e \in pending : tree[e.node].id = 1 /\ tree[e.node].kind = "dir" => e.dir

\* The trace that StableFileReported allows in place of a record.
Marked(n, k) ==
  \E e \in Noted : \/ e.name[1] \in Above[n]
                   \/ e.what = "limit" /\ e.name[1] = Agenda[k].root

\* Item k of the agenda is done and has found n, or is at work on a directory
\* above n that it has still to meet, or is still to come.
Pursued(n, k) ==
  /\ k < item => <<n, FALSE>> \in found
  /\ k = item => \/ <<n, FALSE>> \in found \/ pc = "agenda"
                 \/ /\ pc \in {"walk", "list"}
                    /\ limitHit \/ \E e \in pending : e.node \in Above[n]

\* Of a file that is still what it was the first look says that.
Looked(n) ==
  tree[n].kind = "file" /\ tree[n].ver = 1 /\ Unnoted(<<n, FALSE>>)
    /\ entities[<<n, FALSE>>].state # "none" =>
       entities[<<n, FALSE>>].state = "exists" /\ entities[<<n, FALSE>>].ver = 1

\* What item k of the agenda owes a record or a trace.
Sought(n, k) == Untouched(n) /\ Covers(Agenda[k], n) /\ ~Excluded(n)

SearchInv ==
  /\ Rooted /\ Listed
  /\ Recording \/ ret = "ok" => Finished
  /\ pc # "done" \/ ret = "ok" =>
       \A n \in Node, k \in DOMAIN Agenda : Sought(n, k) => Marked(n, k) \/ Pursued(n, k)
  /\ \A n \in Node : Looked(n)

----------------------------------------------------------------------------
(* Types.                                                                  *)

Note == [what : {"release", "root", "dir", "lstat", "skipped", "limit", "proc", "link",
                 "stat", "hash", "legacy"}, name : Name]

HostType ==
  /\ tree \in [Node -> [kind : {"none", "file", "dir", "link"}, id : 0 .. MaxChanges,
                        ver : 0 .. MaxChanges, big : BOOLEAN]]
  /\ held \subseteq Node \X {1}
  /\ changes \in 1 .. MaxChanges

WalkType ==
  /\ pc \in {"agenda", "absent", "walk", "list", "open", "stat", "hash", "attrs", "legacy", "done"}
  /\ item \in 1 .. Len(Agenda) + 1
  /\ pc \in {"absent", "walk", "list", "open"} => item \in DOMAIN Agenda
  /\ pending \subseteq [node : Node, dir : BOOLEAN]
  /\ \A e \in pending : e.dir \/ Up[e.node] \in Node
  /\ visited \in 0 .. ScanLimit /\ limitHit \in BOOLEAN
  /\ links \subseteq Node \X {1}
  /\ absents \subseteq DOMAIN Agenda
  /\ ret \in {"none", "ok", "err"}

NamesType == found \subseteq Name /\ left \subseteq found /\ listing \subseteq found
             /\ missing \subseteq found /\ cur \in Name

TracesType ==
  /\ entities \in [Name -> [state : {"none", "absent", "exists"}, ver : 0 .. MaxChanges,
                            kind : {"none", "file", "dir", "link"}, big : BOOLEAN]]
  /\ hashes \in [Name -> [state : {"none", "absent", "skipped", "error", "ok"},
                          val : 0 .. MaxChanges]]
  /\ attrs \in [Name -> [state : {"none", "absent", "skipped", "error", "ok"},
                         val : 0 .. MaxChanges]]
  /\ legacy \in [Name -> 0 .. MaxChanges]

Marks == Noted \subseteq Note /\ faults \in 0 .. MaxFaults

\* The type invariant, part by part.
LEMMA TypeParts == TypeInv <=> HostType /\ WalkType /\ NamesType /\ TracesType /\ Marks
BY DEF TypeInv, TypeOK, HostType, WalkType, NamesType, TracesType, Marks, Note

\* The agenda is a sequence of requests, its domain that of its length.
LEMMA AgendaParts ==
  /\ Len(Agenda) \in Nat /\ DOMAIN Agenda = 1 .. Len(Agenda)
  /\ \A k \in DOMAIN Agenda : /\ Agenda[k].root \in Node /\ Agenda[k].loud \in BOOLEAN
                              /\ Agenda[k].depth \in Nat
<1>. DEFINE Request == [kind : {"kernel", "open", "path", "walk"}, root : Node, depth : Nat,
                        loud : BOOLEAN]
<1>1. Agenda \in Seq(Request)
  BY AgendaAssumption
<1>2. /\ Len(Agenda) \in Nat /\ DOMAIN Agenda = 1 .. Len(Agenda)
      /\ \A k \in DOMAIN Agenda : Agenda[k] \in Request
  BY <1>1, LenProperties, ElementOfSeq
<1>. QED
  BY <1>2

\* Before the end of the agenda there is an item, and one after it or the end.
LEMMA ItemParts ==
  ASSUME WalkType, item \in DOMAIN Agenda \/ ~Finished
  PROVE  item \in DOMAIN Agenda /\ item + 1 \in 1 .. Len(Agenda) + 1 /\ Asked.root \in Node
BY AgendaParts DEF WalkType, Finished, Asked

\* An event names a path.
LEMMA EventType ==
  ASSUME NEW w \in {"release", "root", "dir", "lstat", "skipped", "limit", "proc", "link"},
         NEW n \in Node
  PROVE  Event(w, n) \in Note
BY DEF Event, Note, Name

\* What is noted and how often something failed, in every way to note it.
LEMMA MarksKept ==
  ASSUME Marks, NEW e \in Note, \/ Report(e) \/ FailAndReport(e) \/ ReportIfLoud(e)
                                \/ (Fault /\ silent' = silent \union {e} /\ UNCHANGED errors)
                                \/ (Fault /\ UNCHANGED <<errors, silent>>)
                                \/ UNCHANGED <<errors, silent, faults>>
                                \/ (silent' = silent \union {e} /\ UNCHANGED <<errors, faults>>)
  PROVE  Marks' /\ Noted \subseteq Noted'
BY FileBoundAssumption DEF Marks, Noted, Report, FailAndReport, ReportIfLoud, Fault

\* A path of the tree that is added to the map is a name.
LEMMA AddType ==
  ASSUME found \subseteq Name, NEW n \in Node, NEW b \in BOOLEAN
  PROVE  Add(found, <<n, b>>) \subseteq Name /\ found \subseteq Add(found, <<n, b>>)
BY DEF Add, Name

\* A map that grows keeps its parts.
LEMMA NamesKept ==
  ASSUME NamesType, found \subseteq found', found' \subseteq Name,
         UNCHANGED <<left, cur, missing, listing>>
  PROVE  NamesType'
BY DEF NamesType

\* What the survey of the host does to the map, to the notes and to the records.
Surveys ==
  /\ Surveying
  /\ UNCHANGED <<tree, held, changes, records>>
  /\ (Surveying' /\ ret' = ret) \/ (pc' = "done" /\ ret' = "err")
  /\ WalkType' /\ found \subseteq found' /\ found' \subseteq Name
  /\ Marks' /\ Noted \subseteq Noted'

----------------------------------------------------------------------------
(* The survey.                                                             *)

\* An unread release leaves a trace of every tree of the kernel.
LEMMA ReleaseSurveys ==
  ASSUME TypeInv, ReleaseUnknown PROVE Surveys
<1>1. Kernel \subseteq 1 .. Len(Agenda)
  BY AgendaParts DEF Kernel
<1>2. Cardinality(Kernel) \in Nat /\ Cardinality(Kernel) <= Len(Agenda)
  <2>1. /\ IsFiniteSet(1 .. Len(Agenda)) /\ Len(Agenda) \in Nat
        /\ Cardinality(1 .. Len(Agenda)) = IF 1 > Len(Agenda) THEN 0 ELSE Len(Agenda) - 1 + 1
    BY AgendaParts, FS_Interval
  <2>2. Cardinality(1 .. Len(Agenda)) = Len(Agenda)
    BY <2>1
  <2>3. IsFiniteSet(Kernel) /\ Cardinality(Kernel) <= Cardinality(1 .. Len(Agenda))
    BY <1>1, <2>1, FS_Subset
  <2>. QED
    BY <2>2, <2>3, FS_CardinalityType
<1>3. item' \in 1 .. Len(Agenda) + 1
  BY <1>2, AgendaParts DEF ReleaseUnknown
<1>4. \A k \in Kernel : Event("release", Agenda[k].root) \in Note
  BY AgendaParts, EventType DEF Kernel
<1>5. silent' = silent \union {Event("release", Agenda[k].root) : k \in Kernel}
      /\ errors' = errors /\ Fault
  BY DEF ReleaseUnknown
<1>6. {Event("release", Agenda[k].root) : k \in Kernel} \subseteq Note
  BY <1>4
<1>7. Marks' /\ Noted \subseteq Noted'
  <2>1. Noted \subseteq Note /\ Noted' = Noted \union {Event("release", Agenda[k].root) : k \in Kernel}
    BY <1>5, TypeParts DEF Marks, Noted
  <2>2. faults' \in 0 .. MaxFaults
    BY <1>5, TypeParts, FileBoundAssumption DEF Marks, Fault
  <2>. QED
    BY <1>6, <2>1, <2>2 DEF Marks
<1>. QED
  BY <1>3, <1>7, TypeParts DEF ReleaseUnknown, Surveys, Surveying, WalkType, NamesType, host, walk, records

\* The start of a walk, and the ways to have none.
LEMMA StartSurveys ==
  ASSUME TypeInv, StartWalk \/ StartFails \/ WriteAbsent \/ AddPath PROVE Surveys
<1>0. HostType /\ WalkType /\ NamesType /\ Marks
  BY TypeParts
<1>1. CASE StartWalk
  <2>1. /\ pc = "agenda" /\ item \in DOMAIN Agenda /\ item + 1 \in 1 .. Len(Agenda) + 1
        /\ Asked.root \in Node
    BY <1>0, <1>1, ItemParts DEF StartWalk
  <2>2. /\ pending' \subseteq [node : Node, dir : BOOLEAN] /\ \A e \in pending' : e.dir
        /\ found \subseteq found' /\ found' \subseteq Name
    <3>. DEFINE r == Asked.root
                k == tree[r].kind
    <3>1. /\ pending' = IF k = "dir" THEN {[node |-> r, dir |-> TRUE]} ELSE {}
          /\ found' = IF k \in {"file", "link"} THEN Add(found, <<r, FALSE>>) ELSE found
      BY <1>1 DEF StartWalk
    <3>2. Add(found, <<r, FALSE>>) \subseteq Name /\ found \subseteq Add(found, <<r, FALSE>>)
      BY <1>0, <2>1, AddType DEF NamesType
    <3>3. r \in Node
      BY <2>1
    <3>. HIDE DEF r, k
    <3>4. /\ pending' \subseteq {[node |-> r, dir |-> TRUE]}
          /\ found' = Add(found, <<r, FALSE>>) \/ found' = found
      BY <3>1
    <3>5. [node |-> r, dir |-> TRUE] \in [node : Node, dir : BOOLEAN]
      BY <3>3
    <3>6. \A e \in pending' : e = [node |-> r, dir |-> TRUE]
      BY <3>4
    <3>7. \A e \in pending' : e.dir
      BY <3>6
    <3>. QED
      BY <1>0, <3>2, <3>4, <3>5, <3>6, <3>7 DEF NamesType
  <2>3. /\ pc' \in {"walk", "absent", "agenda"} /\ item' \in 1 .. Len(Agenda) + 1
        /\ pc' # "agenda" => item' = item
    <3>1. tree[Asked.root].kind \in {"none", "file", "dir", "link"}
      BY <1>0, <2>1 DEF HostType
    <3>. QED
      BY <1>0, <1>1, <2>1, <3>1 DEF StartWalk, NextItem, WalkType
  <2>4. /\ UNCHANGED <<tree, held, changes, records, links, absents, ret>>
        /\ UNCHANGED <<errors, silent, faults>> /\ visited' = 0 /\ limitHit' = FALSE
    BY <1>1 DEF StartWalk, host
  <2>5. Marks' /\ Noted \subseteq Noted'
    BY <1>0, <2>4 DEF Marks, Noted
  <2>6. WalkType'
    <3>1. visited' \in 0 .. ScanLimit
      BY <2>4, FileBoundAssumption
    <3>. QED
      BY <1>0, <2>1, <2>2, <2>3, <2>4, <3>1 DEF WalkType
  <2>. QED
    BY <2>1, <2>2, <2>3, <2>4, <2>5, <2>6 DEF Surveys, Surveying
<1>2. CASE StartFails
  <2>1. /\ pc = "agenda" /\ item \in DOMAIN Agenda /\ item + 1 \in 1 .. Len(Agenda) + 1
        /\ Asked.root \in Node
    BY <1>0, <1>2, ItemParts DEF StartFails
  <2>2. Event("root", Asked.root) \in Note
    BY <2>1, EventType
  <2>3. Marks' /\ Noted \subseteq Noted'
    BY <1>0, <1>2, <2>2, MarksKept DEF StartFails
  <2>4. /\ UNCHANGED <<tree, held, changes, records, pending, visited, limitHit, links, found,
                       absents, ret>>
        /\ (pc' = "absent" /\ item' = item) \/ (pc' = "agenda" /\ item' = item + 1)
    BY <1>2 DEF StartFails, NextItem, host, walk
  <2>. QED
    BY <1>0, <2>1, <2>3, <2>4 DEF Surveys, Surveying, WalkType, NamesType
<1>3. CASE WriteAbsent
  <2>1. /\ pc = "absent" /\ item \in DOMAIN Agenda /\ item + 1 \in 1 .. Len(Agenda) + 1
    BY <1>0, <1>3, ItemParts DEF WriteAbsent, WalkType
  <2>2. /\ UNCHANGED <<tree, held, changes, records, pending, visited, limitHit, links, found,
                       ret, errors, silent, faults>>
        /\ absents' = absents \union {item} /\ pc' = "agenda" /\ item' = item + 1
    BY <1>3 DEF WriteAbsent, NextItem, host, walk
  <2>3. Marks' /\ Noted \subseteq Noted'
    BY <1>0, <2>2 DEF Marks, Noted
  <2>. QED
    BY <1>0, <2>1, <2>2, <2>3 DEF Surveys, Surveying, WalkType, NamesType
<1>4. CASE AddPath
  <2>1. /\ pc = "agenda" /\ item + 1 \in 1 .. Len(Agenda) + 1 /\ Asked.root \in Node
    BY <1>0, <1>4, ItemParts DEF AddPath
  <2>2. /\ UNCHANGED <<tree, held, changes, records, pending, visited, limitHit, links, absents,
                       ret, errors, silent, faults>>
        /\ found' = Add(found, <<Asked.root, FALSE>>) /\ pc' = "agenda" /\ item' = item + 1
    BY <1>4 DEF AddPath, NextItem, host, walk
  <2>3. Marks' /\ Noted \subseteq Noted'
    BY <1>0, <2>2 DEF Marks, Noted
  <2>4. found \subseteq found' /\ found' \subseteq Name
    BY <1>0, <2>1, <2>2, AddType DEF NamesType
  <2>. QED
    BY <1>0, <2>1, <2>2, <2>3, <2>4 DEF Surveys, Surveying, WalkType
<1>. QED
  BY <1>1, <1>2, <1>3, <1>4

\* The walk: every entry it has listed is met once.
LEMMA WalkSurveys ==
  ASSUME TypeInv, PassOver \/ Visit \/ VisitFails \/ EndWalk PROVE Surveys
<1>0. HostType /\ WalkType /\ NamesType /\ Marks
  BY TypeParts
<1>1. pc = "walk" /\ item \in DOMAIN Agenda /\ item + 1 \in 1 .. Len(Agenda) + 1 /\ Asked.root \in Node
  BY <1>0, ItemParts DEF PassOver, Visit, VisitFails, EndWalk, WalkType
<1>2. \A e \in Upcoming : e \in pending /\ e.node \in Node /\ (e.dir \/ Up[e.node] \in Node)
  BY <1>0 DEF Upcoming, WalkType
<1>3. CASE PassOver
  <2>1. /\ UNCHANGED <<tree, held, changes, records, item, visited, links, found, absents, ret,
                       errors, silent, faults>>
        /\ pc' = "walk" /\ pending' \subseteq pending /\ limitHit' \in BOOLEAN
    BY <1>0, <1>1, <1>3 DEF PassOver, Pop, host, AtLimit, WalkType
  <2>2. WalkType'
    BY <1>0, <1>1, <2>1 DEF WalkType
  <2>3. Marks' /\ Noted \subseteq Noted'
    BY <1>0, <2>1 DEF Marks, Noted
  <2>. QED
    BY <1>0, <1>1, <2>1, <2>2, <2>3 DEF Surveys, Surveying, NamesType
<1>4. CASE Visit
  <2>1. PICK e \in Upcoming :
          /\ found' = IF tree[e.node].kind \in {"file", "link"}
                      THEN Add(found, <<e.node, FALSE>>) ELSE found
          /\ visited' = IF tree[e.node].kind \in {"file", "link"} THEN visited + 1 ELSE visited
          /\ \/ (Pop(e) \/ Descend(e)) /\ UNCHANGED silent
             \/ ~e.dir /\ SkipRest(e.node)
    BY <1>4 DEF Visit
  <2>2. /\ UNCHANGED <<tree, held, changes, records, item, limitHit, links, absents, ret,
                       errors, faults>>
        /\ pc' \in {"walk", "list"} /\ pending' \subseteq pending /\ ~AtLimit
    BY <1>1, <1>4, <2>1 DEF Visit, Pop, Descend, SkipRest, host
  <2>3. visited' \in 0 .. ScanLimit
    BY <1>0, <2>1, <2>2, FileBoundAssumption DEF AtLimit, WalkType
  <2>4. WalkType'
    BY <1>0, <1>1, <2>2, <2>3 DEF WalkType
  <2>5. found \subseteq found' /\ found' \subseteq Name
    BY <1>0, <1>2, <2>1, AddType DEF NamesType
  <2>6. Marks' /\ Noted \subseteq Noted'
    <3>1. CASE silent' = silent
      BY <1>0, <2>2, <3>1 DEF Marks, Noted
    <3>2. CASE ~e.dir /\ SkipRest(e.node)
      <4>1. Event("skipped", Up[e.node]) \in Note
        BY <1>2, <2>1, <3>2, EventType
      <4>. QED
        BY <1>0, <2>2, <3>2, <4>1, MarksKept DEF SkipRest
    <3>. QED
      BY <2>1, <3>1, <3>2
  <2>. QED
    BY <1>1, <2>2, <2>4, <2>5, <2>6 DEF Surveys, Surveying
<1>5. CASE VisitFails
  <2>1. PICK e \in Upcoming : silent' = silent \union {Event("lstat", e.node)} /\ Descend(e)
    BY <1>5 DEF VisitFails
  <2>2. /\ UNCHANGED <<tree, held, changes, records, item, visited, limitHit, links, found,
                       absents, ret, errors>>
        /\ pc' \in {"walk", "list"} /\ pending' \subseteq pending /\ Fault
    BY <1>1, <1>5, <2>1 DEF VisitFails, Pop, Descend, host
  <2>3. WalkType'
    BY <1>0, <1>1, <2>2 DEF WalkType
  <2>4. Event("lstat", e.node) \in Note
    BY <1>2, <2>1, EventType
  <2>5. Marks' /\ Noted \subseteq Noted'
    BY <1>0, <2>1, <2>2, <2>4, MarksKept
  <2>. QED
    BY <1>0, <1>1, <2>2, <2>3, <2>5 DEF Surveys, Surveying, NamesType
<1>6. CASE EndWalk
  <2>1. /\ UNCHANGED <<tree, held, changes, records, walk, links, found, absents, ret>>
        /\ pc' = "agenda" /\ item' = item + 1
        /\ ReportIfLoud(Event("limit", Asked.root)) \/ UNCHANGED <<errors, silent, faults>>
    BY <1>6 DEF EndWalk, NextItem, host
  <2>2. WalkType'
    BY <1>0, <1>1, <2>1 DEF WalkType, walk
  <2>3. Event("limit", Asked.root) \in Note
    BY <1>1, EventType
  <2>4. Marks' /\ Noted \subseteq Noted'
    BY <1>0, <2>1, <2>3, MarksKept
  <2>. QED
    BY <1>0, <1>1, <2>1, <2>2, <2>4 DEF Surveys, Surveying, NamesType
<1>. QED
  BY <1>3, <1>4, <1>5, <1>6

\* The walk: what a directory holds is pending once the directory is read.
LEMMA ListSurveys ==
  ASSUME TypeInv, ListDir \/ ListDirFails PROVE Surveys
<1>0. HostType /\ WalkType /\ NamesType /\ Marks
  BY TypeParts
<1>1. pc = "list" /\ item \in DOMAIN Agenda
  BY <1>0 DEF ListDir, ListDirFails, WalkType
<1>2. \A e \in Upcoming : e \in pending /\ e.node \in Node /\ Event("dir", e.node) \in Note
  BY <1>0, EventType DEF Upcoming, WalkType
<1>3. /\ UNCHANGED <<tree, held, changes, records, item, visited, limitHit, links, found,
                     absents, ret>>
      /\ pc' = "walk"
  BY DEF ListDir, ListDirFails, host
<1>4. PICK e \in Upcoming :
        \/ /\ pending' = (pending \ {e}) \union {[node |-> m, dir |-> IsDir(m)] : m \in Inside(e.node)}
           /\ UNCHANGED <<errors, silent, faults>>
        \/ /\ pending' = pending \ {e}
           /\ \/ ReportIfLoud(Event("dir", e.node)) \/ FailAndReport(Event("dir", e.node))
              \/ Fault /\ silent' = silent \union {Event("dir", e.node)} /\ UNCHANGED errors
  BY DEF ListDir, ListDirFails
<1>5. Marks' /\ Noted \subseteq Noted'
  BY <1>0, <1>2, <1>4, MarksKept
<1>6. /\ \A m \in Inside(e.node) : m \in Node /\ Up[m] \in Node /\ IsDir(m) \in BOOLEAN
      /\ pending \ {e} \subseteq [node : Node, dir : BOOLEAN]
  BY <1>0, <1>2, <1>4 DEF Inside, IsDir, WalkType
<1>7. /\ pending' \subseteq [node : Node, dir : BOOLEAN]
      /\ \A f \in pending' : f.dir \/ Up[f.node] \in Node
  BY <1>0, <1>4, <1>6 DEF WalkType
<1>8. WalkType'
  BY <1>0, <1>1, <1>3, <1>7 DEF WalkType
<1>. QED
  BY <1>0, <1>1, <1>3, <1>5, <1>8 DEF Surveys, Surveying, NamesType

\* The open files, and the end of the run's patience.
LEMMA OpenSurveys ==
  ASSUME TypeInv, ListPIDs \/ PIDsUnlisted \/ ReadLink \/ OpenDone \/ Interrupt PROVE Surveys
<1>0. HostType /\ WalkType /\ NamesType /\ Marks
  BY TypeParts
<1>1. CASE ListPIDs \/ OpenDone \/ Interrupt
  <2>1. /\ pc \in {"agenda", "open"} /\ item \in DOMAIN Agenda /\ item + 1 \in 1 .. Len(Agenda) + 1
    BY <1>0, <1>1, ItemParts DEF ListPIDs, OpenDone, Interrupt, WalkType
  <2>2. /\ UNCHANGED <<tree, held, changes, records, walk, found, absents, errors, silent, faults>>
        /\ links' \in {links, held}
        /\ \/ pc' = "open" /\ item' = item /\ ret' = ret
           \/ pc' = "agenda" /\ item' = item + 1 /\ ret' = ret
           \/ pc' = "done" /\ item' = item /\ ret' = "err"
    BY <1>1 DEF ListPIDs, OpenDone, Interrupt, NextItem, Return, host
  <2>3. WalkType'
    BY <1>0, <2>1, <2>2 DEF WalkType, walk, HostType
  <2>4. Marks' /\ Noted \subseteq Noted'
    BY <1>0, <2>2 DEF Marks, Noted
  <2>. QED
    BY <1>0, <2>1, <2>2, <2>3, <2>4 DEF Surveys, Surveying, NamesType
<1>2. CASE PIDsUnlisted
  <2>1. pc = "agenda" /\ item \in DOMAIN Agenda /\ Asked.root \in Node
    BY <1>0, <1>2, ItemParts DEF PIDsUnlisted
  <2>2. /\ UNCHANGED <<tree, held, changes, records, item, walk, links, found, absents, ret>>
        /\ pc' = "absent" /\ FailAndReport(Event("proc", Asked.root))
    BY <1>2 DEF PIDsUnlisted, host
  <2>3. WalkType'
    BY <1>0, <2>1, <2>2 DEF WalkType, walk
  <2>4. Event("proc", Asked.root) \in Note
    BY <2>1, EventType
  <2>5. Marks' /\ Noted \subseteq Noted'
    BY <1>0, <2>2, <2>4, MarksKept
  <2>. QED
    BY <1>0, <2>1, <2>2, <2>3, <2>5 DEF Surveys, Surveying, NamesType
<1>3. CASE ReadLink
  <2>1. PICK d \in links :
          /\ links' = links \ {d}
          /\ \/ /\ found' = Add(found, <<d[1], tree[d[1]].id # d[2]>>)
                /\ UNCHANGED <<errors, silent, faults>>
             \/ found' = found /\ UNCHANGED <<errors, silent, faults>>
             \/ found' = found /\ Report(Event("link", d[1]))
             \/ found' = found /\ FailAndReport(Event("link", d[1]))
    BY <1>3 DEF ReadLink
  <2>2. d[1] \in Node /\ Event("link", d[1]) \in Note
    BY <1>0, EventType DEF WalkType
  <2>3. /\ UNCHANGED <<tree, held, changes, records, pc, item, walk, absents, ret>> /\ pc = "open"
    BY <1>3 DEF ReadLink, host
  <2>4. WalkType'
    BY <1>0, <2>1, <2>3 DEF WalkType, walk
  <2>5. Marks' /\ Noted \subseteq Noted'
    BY <1>0, <2>1, <2>2, MarksKept
  <2>6. (tree[d[1]].id # d[2]) \in BOOLEAN
    OBVIOUS
  <2>7. found \subseteq found' /\ found' \subseteq Name
    BY <1>0, <2>1, <2>2, <2>6, AddType DEF NamesType
  <2>. QED
    BY <2>3, <2>4, <2>5, <2>7 DEF Surveys, Surveying
<1>. QED
  BY <1>1, <1>2, <1>3

----------------------------------------------------------------------------
(* The host.                                                               *)

\* What the host does to a path: nothing, remove it, or give it a new content.
HostMoves ==
  /\ UNCHANGED <<pc, item, walk, links, found, absents, records, errors, silent, ret, faults>>
  /\ HostType' /\ changes <= changes'
  /\ \A n \in Node : \/ tree'[n] = tree[n]
                     \/ tree'[n] = Nothing
                     \/ tree'[n].ver = changes' /\ changes' = changes + 1

\* Every step of the host is such a move.
LEMMA HostShape ==
  ASSUME TypeInv, HostStep PROVE HostMoves
<1>0. HostType /\ changes \in 1 .. MaxChanges
  BY TypeParts DEF HostType
<1>1. ASSUME NEW n \in Node, Create(n) PROVE HostMoves
  <2>1. PICK k \in May[n] :
          tree' = [tree EXCEPT ![n] = [kind |-> k, id |-> changes', ver |-> changes', big |-> FALSE]]
    BY <1>1 DEF Create
  <2>2. changes' = changes + 1 /\ changes' \in 1 .. MaxChanges /\ held' = held
    BY <1>0, <1>1, FileBoundAssumption DEF Create
  <2>3. k \in {"file", "dir", "link"}
    BY TreeAssumption
  <2>4. [kind |-> k, id |-> changes', ver |-> changes', big |-> FALSE]
          \in [kind : {"none", "file", "dir", "link"}, id : 0 .. MaxChanges,
               ver : 0 .. MaxChanges, big : BOOLEAN]
    BY <2>2, <2>3
  <2>5. HostType'
    BY <1>0, <2>1, <2>2, <2>4 DEF HostType
  <2>6. \A m \in Node : tree'[m] = tree[m] \/ tree'[m].ver = changes'
    BY <1>0, <2>1 DEF HostType
  <2>. QED
    BY <1>0, <1>1, <2>2, <2>5, <2>6 DEF Create, HostMoves
<1>2. ASSUME NEW n \in Node, Modify(n) PROVE HostMoves
  <2>1. PICK b \in BOOLEAN : tree' = [tree EXCEPT ![n].ver = changes', ![n].big = b]
    BY <1>2 DEF Modify
  <2>2. changes' = changes + 1 /\ changes' \in 1 .. MaxChanges /\ held' = held
    BY <1>0, <1>2, FileBoundAssumption DEF Modify
  <2>3. tree'[n] = [kind |-> tree[n].kind, id |-> tree[n].id, ver |-> changes', big |-> b]
    BY <1>0, <2>1 DEF HostType
  <2>4. tree'[n] \in [kind : {"none", "file", "dir", "link"}, id : 0 .. MaxChanges,
                      ver : 0 .. MaxChanges, big : BOOLEAN]
    BY <1>0, <2>2, <2>3 DEF HostType
  <2>5. \A m \in Node : m # n => tree'[m] = tree[m]
    BY <1>0, <2>1 DEF HostType
  <2>6. DOMAIN tree' = Node /\ tree' = [m \in Node |-> tree'[m]]
    BY <1>0, <2>1 DEF HostType
  <2>7. HostType'
    BY <1>0, <2>2, <2>4, <2>5, <2>6 DEF HostType
  <2>8. \A m \in Node : tree'[m] = tree[m] \/ tree'[m].ver = changes'
    <3>1. tree'[n].ver = changes'
      BY <2>3
    <3>. QED
      BY <2>5, <3>1
  <2>9. UNCHANGED <<pc, item, walk, links, found, absents, records, errors, silent, ret, faults>>
    BY <1>2 DEF Modify
  <2>10. \A m \in Node : tree'[m] = tree[m] \/ (tree'[m].ver = changes' /\ changes' = changes + 1)
    BY <2>2, <2>8
  <2>11. changes <= changes'
    BY <1>0, <2>2
  <2>. QED
    BY <2>7, <2>9, <2>10, <2>11 DEF HostMoves
<1>3. ASSUME NEW n \in Node, Unlink(n) PROVE HostMoves
  <2>1. /\ tree' = [tree EXCEPT ![n] = Nothing] /\ held' = held
        /\ changes' = changes + 1 /\ changes' \in 1 .. MaxChanges
    BY <1>0, <1>3, FileBoundAssumption DEF Unlink
  <2>2. Nothing \in [kind : {"none", "file", "dir", "link"}, id : 0 .. MaxChanges,
                     ver : 0 .. MaxChanges, big : BOOLEAN]
    BY FileBoundAssumption DEF Nothing
  <2>3. HostType'
    BY <1>0, <2>1, <2>2 DEF HostType
  <2>4. \A m \in Node : tree'[m] = tree[m] \/ tree'[m] = Nothing
    BY <1>0, <2>1 DEF HostType
  <2>. QED
    BY <1>0, <1>3, <2>1, <2>3, <2>4 DEF Unlink, HostMoves
<1>4. ASSUME NEW d \in held, Drop(d) PROVE HostMoves
  BY <1>0, <1>4 DEF Drop, HostType, HostMoves
<1>. QED
  BY <1>1, <1>2, <1>3, <1>4 DEF HostStep

----------------------------------------------------------------------------
(* The records.                                                            *)

\* What the steps after the survey leave alone, and what they only add to.
Records ==
  /\ UNCHANGED <<tree, held, changes, item, pending, visited, limitHit, links, found, absents>>
  /\ NamesType' /\ TracesType' /\ Marks' /\ Noted \subseteq Noted'
  /\ \/ /\ pc = "agenda" \/ Recording
        /\ Recording' /\ ret' = ret
     \/ /\ pc = "legacy" /\ listing = {}
        /\ pc' = "done" /\ ret' = "ok"
     \/ /\ pc' = "done" /\ ret' = "err"

\* The place of a name is a place of the tree, or nowhere.
LEMMA OfType ==
  ASSUME HostType, NEW m \in Name
  PROVE  /\ Of(m) \in [kind : {"none", "file", "dir", "link"}, id : 0 .. MaxChanges,
                       ver : 0 .. MaxChanges, big : BOOLEAN]
         /\ Digests(Of(m)) \subseteq 0 .. MaxChanges
<1>1. m[1] \in Node
  BY DEF Name
<1>2. Of(m) \in [kind : {"none", "file", "dir", "link"}, id : 0 .. MaxChanges,
                 ver : 0 .. MaxChanges, big : BOOLEAN]
  BY <1>1, FileBoundAssumption DEF HostType, Of, Nothing
<1>3. Digests(Of(m)) \subseteq {Of(m).ver, 0}
  BY DEF Digests
<1>. QED
  BY <1>2, <1>3, FileBoundAssumption

\* A flag that a file is absent keeps the traces in range.
LEMMA AbsentType ==
  ASSUME TracesType, NEW m \in Name, Absent(m), UNCHANGED <<hashes, legacy>>
  PROVE  TracesType'
<1>. DEFINE e == [entities[m] EXCEPT !.state = "absent"]
            a == [attrs[m] EXCEPT !.state = "absent"]
<1>1. /\ entities' = [entities EXCEPT ![m] = e]
      /\ attrs' = [attrs EXCEPT ![m] = a]
  BY DEF Absent
<1>2. e \in [state : {"none", "absent", "exists"}, ver : 0 .. MaxChanges,
             kind : {"none", "file", "dir", "link"}, big : BOOLEAN]
  <2>1. entities[m] \in [state : {"none", "absent", "exists"}, ver : 0 .. MaxChanges,
                         kind : {"none", "file", "dir", "link"}, big : BOOLEAN]
    BY DEF TracesType
  <2>. QED
    BY <2>1
<1>3. a \in [state : {"none", "absent", "skipped", "error", "ok"}, val : 0 .. MaxChanges]
  <2>1. attrs[m] \in [state : {"none", "absent", "skipped", "error", "ok"}, val : 0 .. MaxChanges]
    BY DEF TracesType
  <2>. QED
    BY <2>1
<1>. HIDE DEF e, a
<1>. QED
  BY <1>1, <1>2, <1>3 DEF TracesType

\* The records of the files.
LEMMA FileRecords ==
  ASSUME TypeInv, BeginRecords \/ StatFile \/ StatFails PROVE Records
<1>0. HostType /\ WalkType /\ NamesType /\ TracesType /\ Marks
  BY TypeParts
<1>1. CASE BeginRecords
  <2>1. /\ UNCHANGED <<tree, held, changes, item, pending, visited, limitHit, links, found, absents,
                       cur, entities, hashes, attrs, missing, legacy, listing, errors, silent, ret,
                       faults>>
        /\ pc = "agenda" /\ pc' = "stat" /\ left' = found
    BY <1>1 DEF BeginRecords, host, walk
  <2>. QED
    BY <1>0, <2>1 DEF Records, Recording, NamesType, TracesType, Marks, Noted
<1>2. CASE StatFile
  <2>1. PICK m \in left :
          /\ left' = left \ {m}
          /\ IF Of(m).kind = "none"
             THEN Absent(m) /\ UNCHANGED <<cur, pc>>
             ELSE /\ entities' = [entities EXCEPT ![m] =
                       [state |-> "exists", kind |-> Of(m).kind, ver |-> Of(m).ver, big |-> Of(m).big]]
                  /\ cur' = m
                  /\ pc' = IF Of(m).kind = "file" THEN "hash" ELSE "attrs"
                  /\ UNCHANGED <<attrs, missing>>
    BY <1>2 DEF StatFile
  <2>2. /\ UNCHANGED <<tree, held, changes, item, pending, visited, limitHit, links, found, absents,
                       hashes, legacy, listing, errors, silent, ret, faults>>
        /\ pc = "stat"
    BY <1>2 DEF StatFile, host, walk
  <2>3. m \in Name /\ m \in found
    BY <1>0 DEF NamesType
  <2>4. CASE Of(m).kind = "none"
    <3>1. TracesType' /\ missing' = missing \union {m}
      BY <1>0, <2>1, <2>2, <2>3, <2>4, AbsentType DEF Absent
    <3>. QED
      BY <1>0, <2>1, <2>2, <2>3, <2>4, <3>1 DEF Records, Recording, NamesType, Marks, Noted
  <2>5. CASE Of(m).kind # "none"
    <3>1. TracesType'
      <4>. DEFINE e == [state |-> "exists", kind |-> Of(m).kind, ver |-> Of(m).ver,
                        big |-> Of(m).big]
      <4>1. e \in [state : {"none", "absent", "exists"}, ver : 0 .. MaxChanges,
                   kind : {"none", "file", "dir", "link"}, big : BOOLEAN]
        BY <1>0, <2>3, OfType
      <4>2. entities' = [entities EXCEPT ![m] = e]
        BY <2>1, <2>5
      <4>. HIDE DEF e
      <4>. QED
        BY <1>0, <2>1, <2>2, <2>5, <4>1, <4>2 DEF TracesType
    <3>. QED
      BY <1>0, <2>1, <2>2, <2>3, <2>5, <3>1 DEF Records, Recording, NamesType, Marks, Noted
  <2>. QED
    BY <2>4, <2>5
<1>3. CASE StatFails
  <2>1. PICK m \in left : /\ left' = left \ {m} /\ Absent(m)
                          /\ FailAndReport([what |-> "stat", name |-> m])
    BY <1>3 DEF StatFails
  <2>2. /\ UNCHANGED <<tree, held, changes, pc, item, pending, visited, limitHit, links, found,
                       absents, cur, hashes, legacy, listing, ret>>
        /\ pc = "stat"
    BY <1>3 DEF StatFails, host, walk
  <2>3. m \in Name /\ m \in found
    BY <1>0 DEF NamesType
  <2>4. Marks' /\ Noted \subseteq Noted'
    <3>1. [what |-> "stat", name |-> m] \in Note
      BY <2>3 DEF Note
    <3>. QED
      BY <1>0, <2>1, <3>1, MarksKept
  <2>5. TracesType' /\ missing' = missing \union {m}
    BY <1>0, <2>1, <2>2, <2>3, AbsentType DEF Absent
  <2>. QED
    BY <1>0, <2>1, <2>2, <2>3, <2>4, <2>5 DEF Records, Recording, NamesType
<1>. QED
  BY <1>1, <1>2, <1>3

\* Their hashes and their attributes.
LEMMA HashRecords ==
  ASSUME TypeInv, HashFile \/ HashFails \/ WriteAttrs PROVE Records
<1>0. HostType /\ WalkType /\ NamesType /\ TracesType /\ Marks /\ cur \in Name
  BY TypeParts DEF NamesType
<1>1. CASE HashFile \/ HashFails
  <2>1. /\ UNCHANGED <<tree, held, changes, item, pending, visited, limitHit, links, found, absents,
                       left, cur, entities, attrs, missing, legacy, listing, ret>>
        /\ pc = "hash" /\ pc' = "attrs"
    BY <1>1 DEF HashFile, HashFails, host, walk
  <2>2. \E s \in {"skipped", "ok", "error"}, v \in 0 .. MaxChanges :
          hashes' = [hashes EXCEPT ![cur] = [state |-> s, val |-> v]]
    <3>1. CASE HashFile
      <4>1. \/ hashes' = [hashes EXCEPT ![cur] = [state |-> "skipped", val |-> 0]]
            \/ \E v \in Digests(Of(cur)) : hashes' = [hashes EXCEPT ![cur] = [state |-> "ok", val |-> v]]
            \/ hashes' = [hashes EXCEPT ![cur] = [state |-> "error", val |-> 0]]
        BY <3>1 DEF HashFile
      <4>. QED
        BY <1>0, <4>1, OfType, FileBoundAssumption
    <3>2. CASE HashFails
      <4>1. 0 \in 0 .. MaxChanges
        BY FileBoundAssumption
      <4>2. hashes' = [hashes EXCEPT ![cur] = [state |-> "error", val |-> 0]]
        BY <3>2 DEF HashFails
      <4>. QED
        BY <4>1, <4>2
    <3>. QED
      BY <1>1, <3>1, <3>2
  <2>3. TracesType'
    BY <1>0, <2>1, <2>2 DEF TracesType
  <2>4. [what |-> "hash", name |-> cur] \in Note
    BY <1>0 DEF Note
  <2>5. Marks' /\ Noted \subseteq Noted'
    BY <1>0, <1>1, <2>4, MarksKept DEF HashFile, HashFails
  <2>. QED
    BY <1>0, <2>1, <2>3, <2>5 DEF Records, Recording, NamesType
<1>2. CASE WriteAttrs
  <2>1. /\ UNCHANGED <<tree, held, changes, item, pending, visited, limitHit, links, found, absents,
                       left, cur, entities, hashes, missing, legacy, listing, errors, silent, ret,
                       faults>>
        /\ pc = "attrs" /\ pc' = "stat"
        /\ attrs' = [attrs EXCEPT ![cur] =
             IF entities[cur].kind = "file" THEN hashes[cur] ELSE [state |-> "ok", val |-> 0]]
    BY <1>2 DEF WriteAttrs, host, walk
  <2>2. TracesType'
    BY <1>0, <2>1, FileBoundAssumption DEF TracesType
  <2>. QED
    BY <1>0, <2>1, <2>2 DEF Records, Recording, NamesType, Marks, Noted
<1>. QED
  BY <1>1, <1>2

\* The legacy list, and the end of the collector.
LEMMA LegacyRecords ==
  ASSUME TypeInv, RecordsDone \/ LegacyLine \/ LegacyFails \/ WriteLegacy \/ WriteFails PROVE Records
<1>0. HostType /\ WalkType /\ NamesType /\ TracesType /\ Marks
  BY TypeParts
<1>1. /\ UNCHANGED <<tree, held, changes, item, pending, visited, limitHit, links, found, absents,
                     left, cur, entities, hashes, attrs, missing>>
  BY DEF RecordsDone, LegacyLine, LegacyFails, WriteLegacy, WriteFails, host, walk, records
<1>2. CASE RecordsDone
  <2>1. /\ UNCHANGED <<legacy, errors, silent, ret, faults>> /\ listing' \subseteq found
        /\ pc = "stat" /\ pc' = "legacy"
    BY <1>2 DEF RecordsDone
  <2>. QED
    BY <1>0, <1>1, <2>1 DEF Records, Recording, NamesType, TracesType, Marks, Noted
<1>3. CASE LegacyLine
  <2>1. PICK m \in listing : /\ listing' = listing \ {m}
                             /\ \/ UNCHANGED legacy
                                \/ \E v \in Digests(Of(m)) : legacy' = [legacy EXCEPT ![m] = v]
    BY <1>3 DEF LegacyLine
  <2>2. UNCHANGED <<errors, silent, ret, faults>> /\ pc = "legacy" /\ pc' = pc
    BY <1>3 DEF LegacyLine
  <2>3. m \in Name
    BY <1>0 DEF NamesType
  <2>4. TracesType'
    BY <1>0, <1>1, <2>1, <2>3, OfType DEF TracesType
  <2>. QED
    BY <1>0, <1>1, <2>1, <2>2, <2>4 DEF Records, Recording, NamesType, Marks, Noted
<1>4. CASE LegacyFails
  <2>1. PICK m \in listing : /\ listing' = listing \ {m}
                             /\ silent' = silent \union {[what |-> "legacy", name |-> m]}
    BY <1>4 DEF LegacyFails
  <2>2. UNCHANGED <<errors, ret, legacy>> /\ pc = "legacy" /\ pc' = pc /\ Fault
    BY <1>4 DEF LegacyFails
  <2>3. [what |-> "legacy", name |-> m] \in Note
    BY <1>0 DEF NamesType, Note
  <2>4. Marks' /\ Noted \subseteq Noted'
    BY <1>0, <2>1, <2>2, <2>3, MarksKept
  <2>. QED
    BY <1>0, <1>1, <2>1, <2>2, <2>4 DEF Records, Recording, NamesType, TracesType
<1>5. CASE WriteLegacy \/ WriteFails
  <2>1. /\ UNCHANGED <<legacy, listing, errors, silent>>
        /\ UNCHANGED faults \/ Fault
        /\ \/ pc = "legacy" /\ listing = {} /\ pc' = "done" /\ ret' = "ok"
           \/ pc' = "done" /\ ret' = "err"
    BY <1>5 DEF WriteLegacy, WriteFails, Return, records
  <2>2. Marks' /\ Noted \subseteq Noted'
    BY <1>0, <2>1, FileBoundAssumption DEF Marks, Noted, Fault
  <2>. QED
    BY <1>0, <1>1, <2>1, <2>2 DEF Records, NamesType, TracesType
<1>. QED
  BY <1>2, <1>3, <1>4, <1>5

----------------------------------------------------------------------------
(* Every variable stays in its range.                                      *)

\* What a step is: of the survey, of the records, of the host, or nothing.
LEMMA StepShape ==
  ASSUME TypeInv, [Next]_vars
  PROVE  Surveys \/ Records \/ HostMoves \/ UNCHANGED vars
<1>1. CASE Collect
  BY <1>1, ReleaseSurveys, StartSurveys, WalkSurveys, ListSurveys, OpenSurveys, FileRecords,
     HashRecords, LegacyRecords DEF Collect
<1>2. CASE HostStep
  BY <1>2, HostShape
<1>. QED
  BY <1>1, <1>2 DEF Next

LEMMA TypeInit == Init => TypeInv
<1>. SUFFICES ASSUME Init PROVE TypeInv
  OBVIOUS
<1>1. HostType
  <2>1. \A k \in {"file", "dir", "link"} :
          At(k) \in [kind : {"none", "file", "dir", "link"}, id : 0 .. MaxChanges,
                     ver : 0 .. MaxChanges, big : BOOLEAN]
    BY FileBoundAssumption DEF At
  <2>2. Nothing \in [kind : {"none", "file", "dir", "link"}, id : 0 .. MaxChanges,
                     ver : 0 .. MaxChanges, big : BOOLEAN]
    BY FileBoundAssumption DEF Nothing
  <2>3. tree \in [Node -> {Nothing} \union {At(k) : k \in {"file", "dir", "link"}}]
    BY DEF Init
  <2>4. held \subseteq Node \X {1} /\ changes = 1
    BY DEF Init
  <2>. QED
    BY <2>1, <2>2, <2>3, <2>4, FileBoundAssumption DEF HostType
<1>2. WalkType /\ NamesType /\ Marks
  <2>1. Sorted[1] \in Node
    BY TreeAssumption DEF Node
  <2>2. <<Sorted[1], FALSE>> \in Name
    BY <2>1 DEF Name
  <2>3. WalkType
    <3>1. /\ pc = "agenda" /\ item = 1 /\ pending = {} /\ visited = 0 /\ limitHit = FALSE
          /\ links = {} /\ absents = {} /\ ret = "none"
      BY DEF Init
    <3>2. 1 \in 1 .. Len(Agenda) + 1 /\ 0 \in 0 .. ScanLimit
      BY AgendaParts, FileBoundAssumption
    <3>. QED
      BY <3>1, <3>2 DEF WalkType
  <2>4. NamesType
    BY <2>2 DEF Init, NamesType
  <2>5. Marks
    BY FileBoundAssumption DEF Init, Marks, Noted
  <2>. QED
    BY <2>3, <2>4, <2>5
<1>3. TracesType
  BY FileBoundAssumption DEF Init, TracesType, NoEntity, NoHash
<1>. QED
  BY <1>1, <1>2, <1>3, TypeParts

LEMMA TypeStep == TypeInv /\ [Next]_vars => TypeInv'
<1>. SUFFICES ASSUME TypeInv, [Next]_vars PROVE TypeInv'
  OBVIOUS
<1>0. HostType /\ WalkType /\ NamesType /\ TracesType /\ Marks
  BY TypeParts
<1>1. TypeInv' <=> HostType' /\ WalkType' /\ NamesType' /\ TracesType' /\ Marks'
  BY TypeParts, PTL
<1>2. CASE Surveys
  <2>1. HostType' /\ NamesType' /\ TracesType'
    <3>1. UNCHANGED <<tree, held, changes, left, cur, entities, hashes, attrs, missing, legacy,
                      listing>>
      BY <1>2 DEF Surveys, records
    <3>2. NamesType'
      BY <1>0, <1>2, <3>1, NamesKept DEF Surveys
    <3>. QED
      BY <1>0, <3>1, <3>2 DEF HostType, TracesType
  <2>. QED
    BY <1>1, <1>2, <2>1 DEF Surveys
<1>3. CASE Records
  <2>1. HostType'
    BY <1>0, <1>3 DEF Records, HostType
  <2>2. WalkType'
    BY <1>0, <1>3 DEF Records, WalkType, Recording
  <2>. QED
    BY <1>1, <1>3, <2>1, <2>2 DEF Records
<1>4. CASE HostMoves
  BY <1>0, <1>1, <1>4
  DEF HostMoves, WalkType, NamesType, TracesType, Marks, Noted, walk, records
<1>5. CASE UNCHANGED vars
  BY <1>0, <1>1, <1>5
  DEF vars, HostType, WalkType, NamesType, TracesType, Marks, Noted, host, walk, records
<1>. QED
  BY <1>2, <1>3, <1>4, <1>5, StepShape

\* Whatever the host does and whatever call fails, every variable stays in its
\* range (scanPath, collectOpenFiles, writeFile, writeLegacy): only a listed entry
\* can turn out to be something else, and what is noted names a path.
THEOREM FilesTyped == Spec => []TypeOK
<1>1. TypeInv => TypeOK
  BY DEF TypeInv
<1>. QED
  BY TypeInit, TypeStep, <1>1, PTL DEF Spec

----------------------------------------------------------------------------
(* Every path has one outcome.                                             *)

LEMMA RecordInit == Init => RecordInv
BY DEF Init, RecordInv, Surveying, Recording

\* A step that leaves the outcomes and their place in the run alone.
LEMMA RecordKept ==
  ASSUME RecordInv, UNCHANGED <<pc, ret, records>>,
         found' = found \/ Surveying
  PROVE  RecordInv'
BY DEF RecordInv, Accounted, Surveying, Recording, records

\* The survey writes no outcome.
LEMMA RecordSurvey ==
  ASSUME RecordInv, Surveys PROVE RecordInv'
<1>1. /\ Surveying /\ UNCHANGED <<left, cur, entities, hashes, attrs, missing, legacy, listing>>
      /\ (Surveying' /\ ret' = ret) \/ (pc' = "done" /\ ret' = "err")
  BY DEF Surveys, records
<1>2. left = {} /\ missing = {} /\ ret # "ok"
  BY <1>1 DEF RecordInv, Surveying
<1>3. \A m \in Name : entities[m] = NoEntity /\ hashes[m] = NoHash /\ attrs[m] = NoHash
  BY <1>1 DEF RecordInv
<1>4. pc' \notin {"stat", "hash", "attrs", "legacy"} /\ ret' # "ok"
  BY <1>1, <1>2 DEF Surveying
<1>. QED
  BY <1>1, <1>2, <1>3, <1>4 DEF RecordInv, Surveying, Recording

\* The records begin with every path of the map still to do.
LEMMA RecordBegin ==
  ASSUME TypeInv, RecordInv, BeginRecords PROVE RecordInv'
<1>1. /\ UNCHANGED <<found, cur, entities, hashes, attrs, missing, legacy, listing, ret>>
      /\ pc = "agenda" /\ pc' = "stat" /\ left' = found
  BY DEF BeginRecords
<1>2. /\ missing = {} /\ ret # "ok"
      /\ \A m \in Name : entities[m] = NoEntity /\ hashes[m] = NoHash /\ attrs[m] = NoHash
  BY <1>1 DEF RecordInv, Surveying
<1>3. \A m \in Name : Accounted(m)'
  BY <1>1, <1>2 DEF Accounted, NoEntity, NoHash
<1>. QED
  BY <1>1, <1>2, <1>3 DEF RecordInv, Surveying, Recording

\* The first look at a path gives its outcome.
LEMMA RecordStat ==
  ASSUME TypeInv, RecordInv, StatFile \/ StatFails PROVE RecordInv'
<1>0. HostType /\ NamesType /\ TracesType /\ pc = "stat" /\ ret # "ok"
  BY TypeParts DEF StatFile, StatFails, RecordInv
<1>1. UNCHANGED <<found, hashes, legacy, listing, ret>>
  BY DEF StatFile, StatFails
<1>2. PICK n \in left :
        /\ left' = left \ {n}
        /\ \/ Absent(n) /\ UNCHANGED <<cur, pc>>
           \/ /\ Of(n).kind # "none"
              /\ entities' = [entities EXCEPT ![n] =
                   [state |-> "exists", kind |-> Of(n).kind, ver |-> Of(n).ver, big |-> Of(n).big]]
              /\ cur' = n
              /\ pc' = IF Of(n).kind = "file" THEN "hash" ELSE "attrs"
              /\ UNCHANGED <<attrs, missing>>
  BY DEF StatFile, StatFails
<1>3. n \in Name /\ n \in found
  BY <1>0 DEF NamesType
<1>4. /\ \A m \in Name : Accounted(m)
      /\ Accounted(n) /\ attrs[n] = NoHash /\ hashes[n] = NoHash /\ entities[n].state = "none"
  BY <1>0, <1>3 DEF RecordInv, Accounted, Recording
<1>5. CASE Absent(n) /\ UNCHANGED <<cur, pc>>
  <2>1. /\ entities'[n] = [entities[n] EXCEPT !.state = "absent"]
        /\ attrs'[n] = [attrs[n] EXCEPT !.state = "absent"]
        /\ missing' = missing \union {n}
    BY <1>0, <1>3, <1>5 DEF Absent, TracesType
  <2>2. \A m \in Name : m # n => entities'[m] = entities[m] /\ attrs'[m] = attrs[m]
    BY <1>0, <1>5 DEF Absent, TracesType
  <2>3. /\ entities'[n].state = "absent" /\ attrs'[n].state = "absent"
        /\ entities'[n].kind = entities[n].kind
    BY <1>0, <1>3, <2>1 DEF TracesType
  <2>4. Accounted(n)'
    BY <1>0, <1>1, <1>2, <1>3, <1>4, <1>5, <2>1, <2>3 DEF Accounted, NoHash
  <2>5. ASSUME NEW m \in Name, m # n PROVE Accounted(m)'
    BY <1>0, <1>1, <1>2, <1>4, <1>5, <2>1, <2>2, <2>5 DEF Accounted
  <2>. QED
    BY <1>0, <1>1, <1>5, <2>4, <2>5 DEF RecordInv, Surveying, Recording
<1>6. CASE ~(Absent(n) /\ UNCHANGED <<cur, pc>>)
  <2>1. /\ entities'[n] = [state |-> "exists", kind |-> Of(n).kind, ver |-> Of(n).ver,
                           big |-> Of(n).big]
        /\ Of(n).kind # "none" /\ cur' = n /\ UNCHANGED <<attrs, missing>>
        /\ pc' = IF Of(n).kind = "file" THEN "hash" ELSE "attrs"
    BY <1>0, <1>2, <1>3, <1>6 DEF TracesType
  <2>2. \A m \in Name : m # n => entities'[m] = entities[m]
    BY <1>0, <1>2, <1>6 DEF TracesType
  <2>3. entities'[n].state = "exists" /\ entities'[n].kind = Of(n).kind
    BY <2>1
  <2>4. Accounted(n)'
    BY <1>1, <1>2, <1>3, <1>4, <2>1, <2>3 DEF Accounted, NoHash
  <2>5. ASSUME NEW m \in Name, m # n PROVE Accounted(m)'
    BY <1>0, <1>1, <1>2, <1>4, <2>1, <2>2, <2>5 DEF Accounted
  <2>. QED
    BY <1>0, <1>1, <1>2, <1>3, <1>4, <2>1, <2>3, <2>4, <2>5 DEF RecordInv, Surveying, Recording
<1>. QED
  BY <1>5, <1>6

\* A hash record is written for a file, and no other way.
LEMMA RecordHash ==
  ASSUME TypeInv, RecordInv, HashFile \/ HashFails PROVE RecordInv'
<1>0. NamesType /\ TracesType /\ pc = "hash" /\ pc' = "attrs" /\ ret # "ok"
  BY TypeParts DEF HashFile, HashFails, RecordInv
<1>1. UNCHANGED <<found, left, cur, entities, attrs, missing, legacy, listing, ret>>
  BY DEF HashFile, HashFails
<1>2. /\ cur \in found \ left /\ cur \in Name /\ entities[cur].state = "exists"
      /\ attrs[cur] = NoHash /\ entities[cur].kind = "file"
      /\ \A m \in Name : Accounted(m)
  BY <1>0 DEF RecordInv, Recording, NamesType
<1>3. /\ hashes'[cur].state # "none" /\ hashes'[cur].state # "absent"
      /\ \A m \in Name : m # cur => hashes'[m] = hashes[m]
  <2>1. \E s \in {"skipped", "ok", "error"} : \E v :
          hashes' = [hashes EXCEPT ![cur] = [state |-> s, val |-> v]]
    BY DEF HashFile, HashFails
  <2>. QED
    BY <1>0, <1>2, <2>1 DEF TracesType
<1>4. \A m \in Name : Accounted(m)'
  BY <1>0, <1>1, <1>2, <1>3 DEF Accounted
<1>. QED
  BY <1>0, <1>1, <1>2, <1>4 DEF RecordInv, Surveying, Recording

\* The attributes never say that a file is absent when its record says it is there.
LEMMA RecordAttrs ==
  ASSUME TypeInv, RecordInv, WriteAttrs PROVE RecordInv'
<1>0. NamesType /\ TracesType /\ pc = "attrs" /\ pc' = "stat" /\ ret # "ok"
  BY TypeParts DEF WriteAttrs, RecordInv
<1>1. UNCHANGED <<found, left, cur, entities, hashes, missing, legacy, listing, ret>>
  BY DEF WriteAttrs
<1>2. /\ cur \in found \ left /\ cur \in Name /\ entities[cur].state = "exists"
      /\ \A m \in Name : Accounted(m)
  BY <1>0 DEF RecordInv, Recording, NamesType
<1>3. /\ attrs'[cur] = hashes[cur] \/ attrs'[cur] = [state |-> "ok", val |-> 0]
      /\ \A m \in Name : m # cur => attrs'[m] = attrs[m]
  BY <1>0, <1>2 DEF WriteAttrs, TracesType
<1>4. \A m \in Name : Accounted(m)'
  BY <1>0, <1>1, <1>2, <1>3 DEF Accounted
<1>. QED
  BY <1>0, <1>1, <1>4 DEF RecordInv, Surveying, Recording

\* The legacy list changes no outcome, and the collector ends with every one.
LEMMA RecordLegacy ==
  ASSUME TypeInv, RecordInv, RecordsDone \/ LegacyLine \/ LegacyFails \/ WriteLegacy \/ WriteFails
  PROVE  RecordInv'
<1>1. UNCHANGED <<found, left, cur, entities, hashes, attrs, missing>>
  BY DEF RecordsDone, LegacyLine, LegacyFails, WriteLegacy, WriteFails, records
<1>2. CASE RecordsDone
  BY <1>1, <1>2 DEF RecordsDone, RecordInv, Accounted, Surveying, Recording
<1>3. CASE LegacyLine \/ LegacyFails
  BY <1>1, <1>3 DEF LegacyLine, LegacyFails, RecordInv, Accounted, Surveying, Recording
<1>4. CASE WriteLegacy
  BY <1>1, <1>4 DEF WriteLegacy, Return, RecordInv, Accounted, Surveying, Recording
<1>5. CASE WriteFails
  BY <1>1, <1>5 DEF WriteFails, Return, RecordInv, Accounted, Surveying, Recording
<1>. QED
  BY <1>2, <1>3, <1>4, <1>5

LEMMA RecordStep == TypeInv /\ RecordInv /\ [Next]_vars => RecordInv'
<1>. SUFFICES ASSUME TypeInv, RecordInv, [Next]_vars PROVE RecordInv'
  OBVIOUS
<1>1. CASE Next /\ Collect
  BY <1>1, RecordSurvey, ReleaseSurveys, StartSurveys, WalkSurveys, ListSurveys, OpenSurveys,
     RecordBegin, RecordStat, RecordHash, RecordAttrs, RecordLegacy DEF Collect
<1>2. CASE HostStep
  <2>1. HostMoves
    BY <1>2, HostShape
  <2>. QED
    BY <2>1, RecordKept DEF HostMoves
<1>3. CASE UNCHANGED vars
  BY <1>3, RecordKept DEF vars
<1>. QED
  BY <1>1, <1>2, <1>3 DEF Next

\* When the collector ends well, every path of the map has exactly one outcome:
\* a record of a file, or a record of its absence with attributes and a flag that
\* agree, and a hash record if and only if it was a file (writeFile, writeHash).
\* No change of the tree between the looks and no failing call can break that.
THEOREM EveryPathHasOneOutcome == Spec => []DiscoveredAccounted
<1>1. TypeInv /\ RecordInv => DiscoveredAccounted
  <2>. SUFFICES ASSUME TypeInv, RecordInv, ret = "ok", NEW m \in Name
                PROVE  /\ entities[m].state # "none" <=> m \in found
                       /\ entities[m].state = "absent" <=> m \in missing
                       /\ entities[m].state = "absent" <=> attrs[m].state = "absent"
                       /\ hashes[m].state # "none" <=> entities[m].kind = "file"
    BY DEF DiscoveredAccounted
  <2>1. Accounted(m) /\ left = {} /\ pc = "done"
    BY DEF RecordInv
  <2>. QED
    BY <2>1 DEF Accounted
<1>. QED
  BY TypeInit, TypeStep, RecordInit, RecordStep, <1>1, PTL DEF Spec

----------------------------------------------------------------------------
(* The hashes agree.                                                       *)

LEMMA HashInit == Init => HashInv
<1>. SUFFICES ASSUME Init PROVE HashInv
  OBVIOUS
<1>1. \A n \in Node : tree[n].ver <= 1
  <2>1. \A n \in Node : tree[n] = Nothing \/ \E k \in {"file", "dir", "link"} : tree[n] = At(k)
    BY DEF Init
  <2>. QED
    BY <2>1 DEF Nothing, At
<1>2. \A m \in Name : /\ entities[m] = NoEntity /\ hashes[m] = NoHash /\ attrs[m] = NoHash
                      /\ legacy[m] = 0
  BY DEF Init
<1>3. ASSUME NEW m \in Name PROVE Ordered(m)
  <2>1. m[1] \in Node /\ (Of(m) = Nothing \/ Of(m) = tree[m[1]])
    BY DEF Of, Name
  <2>2. Of(m).kind = "file" => Of(m).ver >= 0
    <3>1. tree \in [Node -> {Nothing} \union {At(k) : k \in {"file", "dir", "link"}}]
      BY DEF Init
    <3>. QED
      BY <2>1, <3>1 DEF Nothing, At
  <2>. QED
    BY <1>2, <2>2 DEF Ordered, NoEntity, NoHash
<1>. QED
  BY <1>1, <1>2, <1>3 DEF Init, HashInv, Faithful, NoEntity, NoHash

\* What matters to a path that a step does not touch.
LEMMA UntouchedPath ==
  ASSUME NEW m \in Name, Ordered(m), Faithful(m), tree' = tree, Noted \subseteq Noted',
         entities'[m] = entities[m], hashes'[m] = hashes[m], legacy'[m] = legacy[m],
         entities[m].kind = "file" => attrs'[m] = attrs[m],
         (pc' = "legacy" \/ ret' = "ok") =>
           /\ pc = "legacy" \/ ret = "ok"
           /\ found' = found /\ (m \in listing' <=> m \in listing)
  PROVE  Ordered(m)' /\ Faithful(m)'
<1>1. Of(m)' = Of(m) /\ (Steady(m[1])' <=> Steady(m[1]))
  BY DEF Of, Steady
<1>2. Unnoted(m)' => Unnoted(m)
  BY DEF Unnoted
<1>3. Ordered(m)'
  BY <1>1 DEF Ordered
<1>4. Faithful(m)'
  BY <1>1, <1>2 DEF Faithful
<1>. QED
  BY <1>3, <1>4

\* The survey reads no content.
LEMMA HashSurvey ==
  ASSUME TypeInv, RecordInv, HashInv, Surveys PROVE HashInv'
<1>1. /\ UNCHANGED <<tree, changes, entities, hashes, attrs, legacy, listing>>
      /\ (Surveying' /\ ret' = ret) \/ (pc' = "done" /\ ret' = "err")
      /\ Surveying /\ Noted \subseteq Noted'
  BY DEF Surveys, records
<1>2. pc' # "legacy" /\ ret' # "ok"
  BY <1>1 DEF RecordInv, Surveying
<1>3. \A m \in Name : Ordered(m)' /\ Faithful(m)'
  BY <1>1, <1>2, UntouchedPath DEF HashInv
<1>. QED
  BY <1>1, <1>2, <1>3 DEF HashInv, Surveying, Recording

\* A new content is newer than everything that was seen, and no longer the
\* content of the beginning.
LEMMA HashHost ==
  ASSUME TypeInv, HashInv, HostMoves PROVE HashInv'
<1>0. HostType /\ TracesType /\ HostType' /\ changes \in Nat /\ changes' \in Nat /\ changes >= 1
  BY TypeParts DEF HostMoves, HostType
<1>1. /\ UNCHANGED <<pc, found, entities, hashes, attrs, legacy, listing, errors, silent, ret>>
      /\ changes <= changes'
      /\ \A n \in Node : \/ tree'[n] = tree[n]
                         \/ tree'[n] = Nothing
                         \/ tree'[n].ver = changes' /\ changes' = changes + 1
  BY DEF HostMoves, records
<1>2. \A n \in Node : tree'[n].ver <= changes'
  <2>1. \A n \in Node : tree[n].ver <= changes /\ tree[n].ver \in Nat
    BY <1>0, FileBoundAssumption DEF HashInv, HostType
  <2>. QED
    BY <1>0, <1>1, <2>1 DEF Nothing
<1>3. \A m \in Name : /\ entities[m].ver \in Nat /\ entities[m].ver <= changes
                      /\ hashes[m].val \in Nat /\ hashes[m].val <= changes
                      /\ legacy[m] \in Nat /\ legacy[m] <= changes
  BY <1>0, FileBoundAssumption DEF HashInv, TracesType
<1>4. ASSUME NEW m \in Name PROVE Ordered(m)' /\ Faithful(m)'
  <2>1. Ordered(m) /\ Faithful(m) /\ m[1] \in Node
    BY DEF HashInv, Name
  <2>2. Of(m)' = IF m[2] THEN Nothing ELSE tree'[m[1]]
    BY DEF Of, Nothing
  <2>3. \/ Of(m)' = Of(m) \/ Of(m)' = Nothing
        \/ Of(m)'.ver = changes' /\ changes' = changes + 1
    BY <1>1, <2>1, <2>2 DEF Of
  <2>4. Ordered(m)'
    <3>1. CASE Of(m)' = Of(m)
      BY <1>1, <2>1, <3>1 DEF Ordered
    <3>2. CASE Of(m)' = Nothing
      <4>1. Of(m)'.kind # "file"
        BY <3>2 DEF Nothing
      <4>. QED
        BY <1>1, <2>1, <4>1 DEF Ordered
    <3>3. CASE Of(m)'.ver = changes' /\ changes' = changes + 1
      <4>1. /\ Of(m)'.ver >= entities[m].ver /\ Of(m)'.ver >= hashes[m].val
            /\ Of(m)'.ver >= legacy[m]
        BY <1>0, <1>3, <3>3
      <4>. QED
        BY <1>1, <2>1, <4>1 DEF Ordered
    <3>. QED
      BY <2>3, <3>1, <3>2, <3>3
  <2>5. Steady(m[1])' => Steady(m[1])
    <3>1. \/ tree'[m[1]] = tree[m[1]] \/ tree'[m[1]].kind = "none"
          \/ tree'[m[1]].ver = changes + 1
      BY <1>1, <2>1 DEF Nothing
    <3>. QED
      BY <1>0, <3>1 DEF Steady
  <2>6. Unnoted(m)' => Unnoted(m)
    BY <1>1 DEF Unnoted, Noted
  <2>7. Faithful(m)'
    BY <1>1, <2>1, <2>5, <2>6 DEF Faithful
  <2>. QED
    BY <2>4, <2>7
<1>5. \A m \in Name : /\ entities[m].ver <= changes' /\ hashes[m].val <= changes'
                      /\ legacy[m] <= changes'
  BY <1>0, <1>1, <1>3
<1>. QED
  BY <1>1, <1>2, <1>4, <1>5 DEF HashInv, Surveying, Recording


\* The first look records what is there; a path that is gone, or that the look
\* fails on, has nothing to be faithful to.
LEMMA HashStat ==
  ASSUME TypeInv, RecordInv, HashInv, StatFile \/ StatFails PROVE HashInv'
<1>0. /\ HostType /\ NamesType /\ TracesType /\ pc = "stat" /\ ret # "ok"
  BY TypeParts DEF StatFile, StatFails, RecordInv
<1>1. UNCHANGED <<tree, changes, found, hashes, legacy, listing, ret>> /\ Noted \subseteq Noted'
  BY DEF StatFile, StatFails, host, Noted, FailAndReport
<1>2. PICK n \in left :
        \/ Absent(n) /\ pc' = pc /\ (Of(n).kind = "none" \/ ~Unnoted(n)')
        \/ /\ Of(n).kind # "none"
           /\ entities' = [entities EXCEPT ![n] =
                [state |-> "exists", kind |-> Of(n).kind, ver |-> Of(n).ver, big |-> Of(n).big]]
           /\ pc' \in {"hash", "attrs"} /\ attrs' = attrs
  <2>1. CASE StatFile
    BY <2>1 DEF StatFile
  <2>2. CASE StatFails
    <3>1. PICK n \in left : Absent(n) /\ FailAndReport([what |-> "stat", name |-> n])
      BY <2>2 DEF StatFails
    <3>2. [what |-> "stat", name |-> n] \in Noted'
      BY <3>1 DEF FailAndReport, Noted
    <3>3. ~Unnoted(n)'
      BY <3>2 DEF Unnoted
    <3>. QED
      BY <2>2, <3>1, <3>3 DEF StatFails
  <2>. QED
    BY <2>1, <2>2
<1>3. n \in Name /\ n[1] \in Node
  BY <1>0 DEF NamesType, Name
<1>4. /\ Ordered(n) /\ Faithful(n) /\ legacy[n] = 0 /\ attrs[n] = NoHash /\ hashes[n] = NoHash
      /\ entities[n].kind = "none" /\ entities[n].ver <= changes
  BY <1>0, <1>3 DEF HashInv, RecordInv, Accounted, Recording
<1>5. pc' \notin {"legacy", "done"}
  BY <1>0, <1>2
<1>6. ASSUME NEW m \in Name, m # n PROVE Ordered(m)' /\ Faithful(m)'
  <2>1. entities'[m] = entities[m] /\ attrs'[m] = attrs[m]
    BY <1>0, <1>2, <1>6 DEF Absent, TracesType
  <2>2. Ordered(m) /\ Faithful(m)
    BY DEF HashInv
  <2>. QED
    BY <1>0, <1>1, <1>5, <2>1, <2>2, UntouchedPath
<1>7. /\ Ordered(n)' /\ Faithful(n)' /\ entities'[n].ver <= changes
  <2>1. Of(n)' = Of(n) /\ (Steady(n[1])' <=> Steady(n[1]))
    BY <1>1 DEF Of, Steady
  <2>2. CASE Absent(n) /\ (Of(n).kind = "none" \/ ~Unnoted(n)')
    <3>1. entities'[n] = [entities[n] EXCEPT !.state = "absent"]
      BY <1>0, <1>3, <2>2 DEF Absent, TracesType
    <3>2. entities'[n].kind = entities[n].kind /\ entities'[n].ver = entities[n].ver
      BY <1>0, <1>3, <3>1 DEF TracesType
    <3>3. Ordered(n)'
      BY <1>1, <1>4, <2>1, <3>2 DEF Ordered
    <3>4. Of(n).kind = "none" => ~(Steady(n[1]) /\ ~n[2])
      BY DEF Of, Steady
    <3>5. Faithful(n)'
      BY <2>1, <2>2, <3>4 DEF Faithful
    <3>. QED
      BY <1>4, <3>2, <3>3, <3>5
  <2>3. CASE entities' = [entities EXCEPT ![n] =
               [state |-> "exists", kind |-> Of(n).kind, ver |-> Of(n).ver, big |-> Of(n).big]]
    <3>1. entities'[n] = [state |-> "exists", kind |-> Of(n).kind, ver |-> Of(n).ver,
                          big |-> Of(n).big]
      BY <1>0, <1>3, <2>3 DEF TracesType
    <3>2. Of(n).ver \in Nat /\ Of(n).ver <= changes
      BY <1>0, <1>3, FileBoundAssumption DEF HashInv, HostType, Of, Nothing
    <3>3. attrs'[n] = NoHash
      BY <1>0, <1>2, <1>3, <1>4, <2>3, <3>1 DEF Absent, TracesType
    <3>4. Ordered(n)'
      BY <1>1, <1>4, <2>1, <3>1, <3>2, <3>3 DEF Ordered, NoHash
    <3>5. Steady(n[1]) /\ ~n[2] =>
            entities'[n] = [state |-> "exists", kind |-> "file", ver |-> 1, big |-> FALSE]
      <4>1. ~n[2] => Of(n) = tree[n[1]]
        BY DEF Of
      <4>2. tree[n[1]].big \in BOOLEAN
        BY <1>0, <1>3 DEF HostType
      <4>. QED
        BY <3>1, <4>1, <4>2 DEF Steady
    <3>6. Faithful(n)'
      BY <1>0, <1>1, <1>4, <1>5, <2>1, <3>5 DEF Faithful, NoHash
    <3>. QED
      BY <3>1, <3>2, <3>4, <3>6
  <2>. QED
    BY <1>2, <2>2, <2>3
<1>8. \A m \in Name : m # n => entities'[m] = entities[m]
  BY <1>0, <1>2 DEF Absent, TracesType
<1>. QED
  BY <1>0, <1>1, <1>5, <1>6, <1>7, <1>8 DEF HashInv, Surveying, Recording

\* The second look hashes what is there now, and never something older.
LEMMA HashHash ==
  ASSUME TypeInv, RecordInv, HashInv, HashFile \/ HashFails PROVE HashInv'
<1>0. /\ HostType /\ NamesType /\ TracesType /\ pc = "hash" /\ pc' = "attrs" /\ ret # "ok"
      /\ cur \in Name /\ cur[1] \in Node
  BY TypeParts DEF HashFile, HashFails, RecordInv, NamesType, Name
<1>1. UNCHANGED <<tree, changes, found, entities, attrs, legacy, listing, ret>>
      /\ Noted \subseteq Noted'
  BY DEF HashFile, HashFails, host, Noted, FailAndReport, Report
<1>c. PICK c \in Name : c = cur
  BY <1>0
<1>2. /\ Ordered(c) /\ Faithful(c) /\ legacy[c] = 0 /\ attrs[c] = NoHash
      /\ entities[c].state = "exists"
  BY <1>0, <1>c DEF HashInv, RecordInv, Recording
<1>3. \/ entities[c].big /\ hashes' = [hashes EXCEPT ![c] = [state |-> "skipped", val |-> 0]]
      \/ \E v \in Digests(Of(c)) : hashes' = [hashes EXCEPT ![c] = [state |-> "ok", val |-> v]]
      \/ /\ hashes' = [hashes EXCEPT ![c] = [state |-> "error", val |-> 0]]
         /\ [what |-> "hash", name |-> c] \in Noted'
  BY <1>c DEF HashFile, HashFails, Report, FailAndReport, Noted
<1>4. /\ c[1] \in Node
      /\ \A m \in Name : m # c => hashes'[m] = hashes[m]
      /\ \/ hashes'[c].val = 0
         \/ Readable(Of(c)) /\ hashes'[c].val = Of(c).ver
  BY <1>0, <1>c, <1>3 DEF TracesType, Digests
<1>5. ASSUME NEW m \in Name, m # c PROVE Ordered(m)' /\ Faithful(m)'
  <2>1. Ordered(m) /\ Faithful(m)
    BY DEF HashInv
  <2>. QED
    BY <1>0, <1>1, <1>4, <1>5, <2>1, UntouchedPath
<1>6. Of(c)' = IF c[2] THEN Nothing ELSE tree[c[1]]
  BY <1>1 DEF Of
<1>7. Of(c).ver \in Nat /\ Of(c).ver <= changes
  BY <1>0, <1>4, FileBoundAssumption DEF HashInv, HostType, Of, Nothing
<1>8. Ordered(c)'
  <2>1. (Of(c).kind = "file" => Of(c).ver >= hashes'[c].val)
        /\ (hashes'[c].val # 0 => hashes'[c].val >= entities[c].ver)
    BY <1>2, <1>4, <1>7 DEF Ordered, Readable
  <2>2. Of(c)' = Of(c)
    BY <1>6 DEF Of
  <2>. QED
    BY <1>1, <1>2, <2>1, <2>2 DEF Ordered, NoHash
<1>9. Faithful(c)'
  <2>1. (Steady(c[1])' <=> Steady(c[1])) /\ (Unnoted(c)' => Unnoted(c))
    BY <1>1 DEF Steady, Unnoted
  <2>2. ASSUME Steady(c[1]), ~c[2], Unnoted(c)' PROVE hashes'[c].val = 1
    <3>1. entities[c] = [state |-> "exists", kind |-> "file", ver |-> 1, big |-> FALSE]
      BY <1>2, <2>1, <2>2 DEF Faithful
    <3>2. entities[c].big = FALSE
      BY <3>1
    <3>3. [what |-> "hash", name |-> c] \notin Noted'
      BY <2>1, <2>2 DEF Unnoted
    <3>4. Digests(Of(c)) = {1}
      BY <2>2 DEF Digests, Readable, Of, Steady
    <3>. QED
      BY <1>0, <1>3, <3>2, <3>3, <3>4 DEF TracesType
  <2>. QED
    BY <1>0, <1>1, <1>2, <2>1, <2>2 DEF Faithful
<1>10. hashes'[c].val <= changes
  BY <1>0, <1>4, <1>7 DEF HostType
<1>. QED
  BY <1>0, <1>1, <1>4, <1>5, <1>8, <1>9, <1>10 DEF HashInv, Surveying, Recording


\* The attributes of a file repeat its hash record.
LEMMA HashAttrs ==
  ASSUME TypeInv, RecordInv, HashInv, BeginRecords \/ WriteAttrs PROVE HashInv'
<1>0. NamesType /\ TracesType
  BY TypeParts
<1>1. /\ UNCHANGED <<tree, changes, found, entities, hashes, legacy, listing, errors, silent, ret>>
      /\ pc' = "stat" /\ pc \in {"agenda", "attrs"} /\ ret # "ok"
  BY DEF BeginRecords, WriteAttrs, RecordInv, host
<1>2. Noted \subseteq Noted'
  BY <1>1 DEF Noted
<1>3. \A m \in Name : legacy[m] = 0
  BY <1>1 DEF HashInv, Surveying, Recording
<1>4. ASSUME NEW m \in Name PROVE Ordered(m)' /\ Faithful(m)'
  <2>1. Ordered(m) /\ Faithful(m)
    BY DEF HashInv
  <2>2. CASE attrs'[m] = attrs[m]
    BY <1>1, <1>2, <2>1, <2>2, UntouchedPath
  <2>3. CASE attrs'[m] # attrs[m]
    <3>1. WriteAttrs /\ m = cur
      BY <1>0, <2>3 DEF BeginRecords, WriteAttrs, TracesType
    <3>2. entities[m].kind = "file" => attrs'[m] = hashes[m]
      BY <1>0, <3>1 DEF WriteAttrs, TracesType
    <3>3. Of(m)' = Of(m) /\ (Steady(m[1])' <=> Steady(m[1])) /\ (Unnoted(m)' => Unnoted(m))
      BY <1>1, <1>2 DEF Of, Steady, Unnoted
    <3>4. Ordered(m)'
      BY <1>1, <2>1, <3>2, <3>3 DEF Ordered
    <3>5. Faithful(m)'
      BY <1>1, <2>1, <3>3 DEF Faithful
    <3>. QED
      BY <3>4, <3>5
  <2>. QED
    BY <2>2, <2>3
<1>. QED
  BY <1>1, <1>3, <1>4 DEF HashInv, Surveying, Recording

\* Of a file of the beginning the second list has a line to make.
LEMMA HashListed ==
  ASSUME TypeInv, RecordInv, HashInv, RecordsDone PROVE HashInv'
<1>1. /\ UNCHANGED <<tree, changes, found, entities, hashes, attrs, legacy, errors, silent, ret>>
      /\ pc = "stat" /\ pc' = "legacy" /\ left = {} /\ ret # "ok"
      /\ listing' = {m \in found : entities[m].kind = "file" /\ ~entities[m].big}
  BY DEF RecordsDone, RecordInv, host
<1>2. \A m \in Name : Ordered(m) /\ Faithful(m) /\ Accounted(m)
  BY <1>1 DEF HashInv, RecordInv, Recording
<1>3. ASSUME NEW m \in Name PROVE Ordered(m)' /\ Faithful(m)'
  <2>1. Of(m)' = Of(m) /\ (Steady(m[1])' <=> Steady(m[1])) /\ (Unnoted(m)' <=> Unnoted(m))
    BY <1>1 DEF Of, Steady, Unnoted, Noted
  <2>2. Ordered(m)'
    BY <1>1, <1>2, <2>1 DEF Ordered
  <2>3. ASSUME Steady(m[1]), ~m[2], Unnoted(m), m \in found PROVE m \in listing'
    <3>1. entities[m].state # "none"
      BY <1>1, <1>2, <2>3 DEF Accounted
    <3>2. entities[m] = [state |-> "exists", kind |-> "file", ver |-> 1, big |-> FALSE]
      BY <1>2, <2>3, <3>1 DEF Faithful
    <3>3. entities[m].kind = "file" /\ ~entities[m].big
      BY <3>2
    <3>. QED
      BY <1>1, <2>3, <3>3
  <2>4. Faithful(m)'
    BY <1>1, <1>2, <2>1, <2>3 DEF Faithful
  <2>. QED
    BY <2>2, <2>4
<1>. QED
  BY <1>1, <1>3 DEF HashInv, Surveying, Recording

\* The third look, too, finds what is there now; or it fails, which is noted.
LEMMA HashLegacy ==
  ASSUME TypeInv, RecordInv, HashInv, LegacyLine \/ LegacyFails PROVE HashInv'
<1>0. /\ HostType /\ NamesType /\ TracesType /\ pc = "legacy" /\ pc' = pc /\ ret # "ok"
  BY TypeParts DEF LegacyLine, LegacyFails, RecordInv
<1>1. /\ UNCHANGED <<tree, changes, found, entities, hashes, attrs, ret>> /\ Noted \subseteq Noted'
  BY DEF LegacyLine, LegacyFails, host, Noted
<1>2. PICK n \in listing :
        /\ listing' = listing \ {n}
        /\ \/ Digests(Of(n)) = {} /\ legacy' = legacy
           \/ \E v \in Digests(Of(n)) : legacy' = [legacy EXCEPT ![n] = v]
           \/ legacy' = legacy /\ [what |-> "legacy", name |-> n] \in Noted'
  BY DEF LegacyLine, LegacyFails, Noted
<1>3. n \in Name /\ n[1] \in Node /\ Ordered(n) /\ Faithful(n)
  BY <1>0 DEF NamesType, Name, HashInv
<1>4. /\ \A m \in Name : m # n => legacy'[m] = legacy[m]
      /\ \/ legacy'[n] = legacy[n] \/ legacy'[n] = 0
         \/ Readable(Of(n)) /\ legacy'[n] = Of(n).ver
  BY <1>0, <1>2, <1>3 DEF TracesType, Digests
<1>5. ASSUME NEW m \in Name, m # n PROVE Ordered(m)' /\ Faithful(m)'
  <2>1. Ordered(m) /\ Faithful(m)
    BY DEF HashInv
  <2>2. m \in listing' <=> m \in listing
    BY <1>2, <1>5
  <2>. QED
    BY <1>0, <1>1, <1>4, <1>5, <2>1, <2>2, UntouchedPath
<1>6. Of(n)' = Of(n) /\ (Steady(n[1])' <=> Steady(n[1])) /\ (Unnoted(n)' => Unnoted(n))
  BY <1>1 DEF Of, Steady, Unnoted
<1>7. Of(n).ver \in Nat /\ Of(n).ver <= changes
  BY <1>0, <1>3, FileBoundAssumption DEF HashInv, HostType, Of, Nothing
<1>8. Ordered(n)'
  BY <1>1, <1>3, <1>4, <1>6, <1>7 DEF Ordered, Readable
<1>9. Faithful(n)'
  <2>1. ASSUME Steady(n[1]), ~n[2], Unnoted(n)' PROVE legacy'[n] = 1
    <3>1. [what |-> "legacy", name |-> n] \notin Noted'
      BY <2>1 DEF Unnoted
    <3>2. Digests(Of(n)) = {1}
      BY <2>1 DEF Digests, Readable, Of, Steady
    <3>. QED
      BY <1>0, <1>2, <1>3, <3>1, <3>2 DEF TracesType
  <2>. QED
    BY <1>1, <1>3, <1>6, <2>1 DEF Faithful
<1>10. legacy'[n] <= changes
  BY <1>0, <1>3, <1>4, <1>7 DEF HashInv, HostType
<1>11. ret' # "ok" /\ tree' = tree /\ changes' = changes
  BY <1>0, <1>1
<1>. QED
  BY <1>0, <1>1, <1>4, <1>5, <1>8, <1>9, <1>10, <1>11 DEF HashInv, Surveying, Recording

\* The collector ends with no line to make, or in error.
LEMMA HashEnd ==
  ASSUME TypeInv, RecordInv, HashInv, WriteLegacy \/ WriteFails PROVE HashInv'
<1>1. /\ UNCHANGED <<tree, changes, found, entities, hashes, attrs, legacy, listing, errors, silent>>
      /\ pc' = "done"
      /\ ret' = "err" \/ (ret' = "ok" /\ pc = "legacy" /\ listing = {})
  BY DEF WriteLegacy, WriteFails, Return, host, records
<1>2. Noted \subseteq Noted'
  BY <1>1 DEF Noted
<1>3. \A m \in Name : Ordered(m)' /\ Faithful(m)'
  BY <1>1, <1>2, UntouchedPath DEF HashInv
<1>. QED
  BY <1>1, <1>3 DEF HashInv, Surveying, Recording

LEMMA HashStep == TypeInv /\ RecordInv /\ HashInv /\ [Next]_vars => HashInv'
<1>. SUFFICES ASSUME TypeInv, RecordInv, HashInv, [Next]_vars PROVE HashInv'
  OBVIOUS
<1>1. CASE Collect
  BY <1>1, HashSurvey, ReleaseSurveys, StartSurveys, WalkSurveys, ListSurveys, OpenSurveys,
     HashStat, HashHash, HashAttrs, HashListed, HashLegacy, HashEnd DEF Collect
<1>2. CASE HostStep
  BY <1>2, HostShape, HashHost
<1>3. CASE UNCHANGED vars
  <2>1. /\ UNCHANGED <<tree, changes, pc, found, entities, hashes, attrs, legacy, listing, ret>>
        /\ Noted' = Noted
    BY <1>3 DEF vars, host, records, Noted
  <2>2. \A m \in Name : Ordered(m)' /\ Faithful(m)'
    BY <2>1, UntouchedPath DEF HashInv
  <2>. QED
    BY <2>1, <2>2 DEF HashInv, Surveying, Recording
<1>. QED
  BY <1>1, <1>2, <1>3 DEF Next

\* Two records and the legacy list show one file, at every moment of the run
\* (writeHash, writeFileAttributes, writeLegacy): the attributes repeat the hash
\* record, no later look shows an older content than an earlier one, and of a file
\* that nobody touched all three show the content of the beginning, unless a
\* failure that names it was noted.
THEOREM LooksAgree == Spec => []HashesAgree
<1>1. TypeInv /\ RecordInv /\ HashInv => HashesAgree
  <2>. SUFFICES ASSUME TypeInv, RecordInv, HashInv, NEW m \in found PROVE
         /\ entities[m].kind = "file" /\ attrs[m].state # "none" => attrs[m] = hashes[m]
         /\ hashes[m].val # 0 => hashes[m].val >= entities[m].ver
         /\ legacy[m] # 0 => legacy[m] >= entities[m].ver /\ legacy[m] >= hashes[m].val
         /\ ret = "ok" /\ ~m[2] /\ Untouched(m[1]) /\ ~tree[m[1]].big
              /\ (\A e \in Noted : e.name # m) => hashes[m].val = 1 /\ legacy[m] = 1
    BY DEF HashesAgree
  <2>1. m \in Name
    BY TypeParts DEF NamesType
  <2>2. Ordered(m) /\ Faithful(m)
    BY <2>1 DEF HashInv
  <2>3. ASSUME ret = "ok", ~m[2], Untouched(m[1]), ~tree[m[1]].big, \A e \in Noted : e.name # m
        PROVE  hashes[m].val = 1 /\ legacy[m] = 1
    <3>1. Accounted(m) /\ left = {} /\ pc = "done" /\ listing = {}
      BY <2>1, <2>3 DEF RecordInv, HashInv
    <3>2. Steady(m[1]) /\ Unnoted(m)
      BY <2>3 DEF Untouched, Steady, Unnoted
    <3>3. entities[m].state # "none"
      BY <3>1 DEF Accounted
    <3>4. entities[m] = [state |-> "exists", kind |-> "file", ver |-> 1, big |-> FALSE]
      BY <2>2, <2>3, <3>2, <3>3 DEF Faithful
    <3>5. hashes[m].state # "none"
      <4>1. entities[m].kind = "file"
        BY <3>4
      <4>. QED
        BY <3>1, <4>1 DEF Accounted
    <3>. QED
      BY <2>2, <2>3, <3>1, <3>2, <3>5 DEF Faithful
  <2>. QED
    BY <2>2, <2>3 DEF Ordered
<1>. QED
  BY TypeInit, TypeStep, RecordInit, RecordStep, HashInit, HashStep, <1>1, PTL DEF Spec

----------------------------------------------------------------------------
(* Paths, their places in the list, and the directories they are in.       *)

\* Every nonempty set of naturals has a least element.
LEMMA LeastNatural ==
  ASSUME NEW S, S \subseteq Nat, S # {}
  PROVE  \E p \in S : \A q \in S : p <= q
<1>. DEFINE Below(p) == 0 .. p - 1
            F == {Below(p) : p \in S}
<1>1. \A p \in S : IsFiniteSet(Below(p)) /\ Below(p) \subseteq Nat
  BY FS_Interval
<1>2. F \subseteq FiniteSubsetsOf(Nat) /\ F # {}
  BY <1>1 DEF FiniteSubsetsOf
<1>3. PICK X \in F : \A Y \in F : ~(<<Y, X>> \in StrictSubsetOrdering(Nat))
  <2>. HIDE DEF F
  <2>. QED
    BY <1>2, FS_StrictSubsetOrderingWellFounded, WFMin
<1>4. PICK p \in S : X = Below(p)
  OBVIOUS
<1>5. ASSUME NEW q \in S, ~(p <= q) PROVE FALSE
  <2>1. Below(q) \subseteq Below(p) /\ q \in Below(p) /\ q \notin Below(q)
    BY <1>5
  <2>2. <<Below(q), Below(p)>> \in StrictSubsetOrdering(Nat)
    BY <1>1, <2>1 DEF StrictSubsetOrdering
  <2>. QED
    BY <1>3, <1>4, <2>2
<1>. QED
  BY <1>5

LEMMA SortedFacts ==
  /\ Sorted \in Seq(Node) /\ Len(Sorted) \in Nat /\ DOMAIN Sorted = 1 .. Len(Sorted)
  /\ Sorted[1] \in Node
  /\ \A n \in Node : \E k \in DOMAIN Sorted : Sorted[k] = n
<1>1. Sorted \in Seq(Node) /\ Sorted # <<>>
  BY TreeAssumption
<1>2. Len(Sorted) \in Nat /\ DOMAIN Sorted = 1 .. Len(Sorted) /\ Len(Sorted) # 0
  BY <1>1, EmptySeq, LenProperties
<1>3. Sorted[1] \in Node
  BY <1>2 DEF Node
<1>. QED
  BY <1>1, <1>2, <1>3 DEF Node

\* Every path has a position, and a directory one before what is in it.
LEMMA PositionFacts ==
  /\ \A n \in Node : Position(n) \in Nat /\ Position(n) \in DOMAIN Sorted /\ Sorted[Position(n)] = n
  /\ \A n \in Node : Up[n] # "/" => Up[n] \in Node /\ Position(Up[n]) < Position(n)
<1>1. ASSUME NEW n \in Node
      PROVE  Position(n) \in Nat /\ Position(n) \in DOMAIN Sorted /\ Sorted[Position(n)] = n
  <2>1. PICK k \in DOMAIN Sorted : Sorted[k] = n
    BY SortedFacts
  <2>2. Position(n) \in DOMAIN Sorted /\ Sorted[Position(n)] = n
    BY <2>1 DEF Position
  <2>. QED
    BY <2>2, SortedFacts
<1>2. ASSUME NEW n \in Node, Up[n] # "/"
      PROVE  Up[n] \in Node /\ Position(Up[n]) < Position(n)
  <2>1. Position(n) \in DOMAIN Sorted /\ Sorted[Position(n)] = n
    BY <1>1
  <2>2. Up[n] \in Node
    BY <1>2, TreeAssumption
  <2>3. PICK j \in 1 .. Position(n) - 1 : Sorted[j] = Up[n]
    BY <1>2, <2>1, TreeAssumption
  <2>4. j \in DOMAIN Sorted /\ j < Position(n)
    BY <2>1, <2>3, SortedFacts
  <2>5. Position(Up[n]) = j
    <3>1. PICK p : p = Position(Up[n])
      OBVIOUS
    <3>2. p \in DOMAIN Sorted /\ Sorted[p] = Sorted[j]
      BY <1>1, <2>2, <2>3, <3>1
    <3>3. \A h, k \in DOMAIN Sorted : Sorted[h] = Sorted[k] => h = k
      BY TreeAssumption
    <3>. QED
      BY <2>4, <3>1, <3>2, <3>3
  <2>. QED
    BY <2>2, <2>4, <2>5
<1>. QED
  BY <1>1, <1>2

\* In every set of paths one comes first.
LEMMA FirstPath ==
  ASSUME NEW S, S \subseteq Node, S # {}
  PROVE  \E n \in S : \A m \in S : Position(n) <= Position(m)
<1>. DEFINE P == {Position(n) : n \in S}
<1>1. P \subseteq Nat /\ P # {}
  BY PositionFacts
<1>2. PICK p \in P : \A q \in P : p <= q
  <2>. HIDE DEF P
  <2>. QED
    BY <1>1, LeastNatural
<1>. QED
  BY <1>2

\* The path and the directories it is in, as the smallest set closed under Up.
LEMMA AboveEquation ==
  \A n \in Node : Above[n] = {n} \union (IF Up[n] = "/" THEN {} ELSE Above[Up[n]])
<1>. DEFINE Closed(S) == \A m \in S : Up[m] = "/" \/ Up[m] \in S
            G(n) == {a \in Node : \A S \in SUBSET Node : n \in S /\ Closed(S) => a \in S}
            g == [n \in Node |-> G(n)]
            Equation(f) == f = [n \in Node |-> {n} \union (IF Up[n] = "/" THEN {} ELSE f[Up[n]])]
<1>1. ASSUME NEW n \in Node, Up[n] = "/" PROVE G(n) = {n}
  <2>1. {n} \in SUBSET Node /\ Closed({n})
    BY <1>1
  <2>. QED
    BY <2>1
<1>2. ASSUME NEW n \in Node, Up[n] # "/" PROVE G(n) = {n} \union G(Up[n])
  <2>1. Up[n] \in Node
    BY <1>2, TreeAssumption
  <2>2. ASSUME NEW a \in G(n), a # n PROVE a \in G(Up[n])
    <3>1. ASSUME NEW S \in SUBSET Node, Up[n] \in S, Closed(S) PROVE a \in S
      <4>1. S \union {n} \in SUBSET Node /\ Closed(S \union {n})
        BY <3>1
      <4>. QED
        BY <4>1, <2>2
    <3>. QED
      BY <3>1
  <2>3. ASSUME NEW a \in G(Up[n]) PROVE a \in G(n)
    <3>1. ASSUME NEW S \in SUBSET Node, n \in S, Closed(S) PROVE a \in S
      BY <3>1, <1>2
    <3>. QED
      BY <3>1
  <2>4. n \in G(n)
    OBVIOUS
  <2>. HIDE DEF G
  <2>. QED
    BY <2>2, <2>3, <2>4
<1>3. Equation(g)
  <2>. HIDE DEF G, Closed
  <2>1. ASSUME NEW n \in Node
        PROVE  G(n) = {n} \union (IF Up[n] = "/" THEN {} ELSE g[Up[n]])
    <3>1. CASE Up[n] = "/"
      BY <3>1, <1>1
    <3>2. CASE Up[n] # "/"
      BY <3>2, <1>2, TreeAssumption
    <3>. QED
      BY <3>1, <3>2
  <2>. QED
    BY <2>1
<1>4. Equation(CHOOSE f : Equation(f))
  <2>. HIDE DEF Equation, g
  <2>. QED
    BY <1>3
<1>5. Above = CHOOSE f : Equation(f)
  BY DEF Above
<1>6. Equation(Above)
  <2>. HIDE DEF Equation
  <2>. QED
    BY <1>4, <1>5
<1>. QED
  <2>1. \A n \in Node : [m \in Node |-> {m} \union (IF Up[m] = "/" THEN {} ELSE Above[Up[m]])][n]
                        = {n} \union (IF Up[n] = "/" THEN {} ELSE Above[Up[n]])
    OBVIOUS
  <2>. QED
    BY <1>6, <2>1

\* Every path above is one of the host's, is above all that is below it, and is
\* the directory of the next one down.
LEMMA AboveFacts ==
  ASSUME NEW n \in Node
  PROVE  /\ n \in Above[n] /\ Above[n] \subseteq Node
         /\ \A m \in Above[n] : Up[m] # "/" => Up[m] \in Above[n]
         /\ \A a \in Above[n] : a # n => \E m \in Above[n] : Up[m] = a
         /\ \A a \in Above[n] : a # n => Up[n] # "/" /\ a \in Above[Up[n]]
<1>. DEFINE Fine(m) == /\ Above[m] \subseteq Node
                       /\ \A x \in Above[m] : Up[x] # "/" => Up[x] \in Above[m]
                       /\ \A a \in Above[m] : a # m => \E x \in Above[m] : Up[x] = a
            Bad == {m \in Node : ~Fine(m)}
<1>1. Bad = {}
  <2>1. SUFFICES ASSUME Bad # {} PROVE FALSE
    OBVIOUS
  <2>2. PICK m \in Bad : \A x \in Bad : Position(m) <= Position(x)
    <3>1. Bad \subseteq Node
      OBVIOUS
    <3>. HIDE DEF Bad
    <3>. QED
      BY <2>1, <3>1, FirstPath
  <2>3. m \in Node /\ Above[m] = {m} \union (IF Up[m] = "/" THEN {} ELSE Above[Up[m]])
    BY AboveEquation
  <2>4. CASE Up[m] = "/"
    BY <2>3, <2>4
  <2>5. CASE Up[m] # "/"
    <3>1. Up[m] \in Node /\ Position(Up[m]) < Position(m) /\ Position(m) \in Nat /\ Position(Up[m]) \in Nat
      BY <2>3, <2>5, PositionFacts
    <3>2. Up[m] \notin Bad
      <4>. HIDE DEF Bad
      <4>. QED
        BY <3>1, <2>2
    <3>3. Fine(Up[m])
      BY <3>1, <3>2
    <3>4. Above[m] = {m} \union Above[Up[m]] /\ Up[m] \in Above[Up[m]]
      BY <2>3, <2>5, <3>1, AboveEquation
    <3>5. Fine(m)
      BY <2>3, <3>3, <3>4
    <3>. QED
      BY <3>5
  <2>. QED
    BY <2>4, <2>5
<1>2. Fine(n)
  BY <1>1
<1>3. Above[n] = {n} \union (IF Up[n] = "/" THEN {} ELSE Above[Up[n]])
  BY AboveEquation
<1>. QED
  BY <1>2, <1>3

\* A directory above another is above everything the other is above, and it is
\* not deeper.
LEMMA AboveInner ==
  ASSUME NEW n \in Node, NEW a \in Above[n]
  PROVE  /\ a \in Node /\ Above[a] \subseteq Above[n]
         /\ Cardinality(Above[a]) \in Nat /\ Cardinality(Above[n]) \in Nat
         /\ Cardinality(Above[a]) <= Cardinality(Above[n])
<1>. DEFINE Bad == {x \in Above[n] : ~(Above[x] \subseteq Above[n])}
<1>0. Above[n] \subseteq Node /\ \A m \in Above[n] : Up[m] # "/" => Up[m] \in Above[n]
  BY AboveFacts
<1>1. Bad = {}
  <2>1. SUFFICES ASSUME Bad # {} PROVE FALSE
    OBVIOUS
  <2>2. PICK x \in Bad : \A y \in Bad : Position(x) <= Position(y)
    <3>1. Bad \subseteq Node
      BY <1>0
    <3>. HIDE DEF Bad
    <3>. QED
      BY <2>1, <3>1, FirstPath
  <2>3. x \in Node /\ x \in Above[n] /\ Above[x] = {x} \union (IF Up[x] = "/" THEN {} ELSE Above[Up[x]])
    BY <1>0, AboveEquation
  <2>4. Up[x] # "/"
    BY <2>3
  <2>5. /\ Up[x] \in Above[n] /\ Position(Up[x]) < Position(x)
        /\ Position(x) \in Nat /\ Position(Up[x]) \in Nat
    BY <1>0, <2>3, <2>4, PositionFacts
  <2>6. Up[x] \notin Bad
    <3>. HIDE DEF Bad
    <3>. QED
      BY <2>2, <2>5
  <2>. QED
    BY <2>3, <2>4, <2>5, <2>6
<1>2. Above[a] \subseteq Above[n] /\ a \in Node
  BY <1>0, <1>1
<1>3. IsFiniteSet(Node)
  <2>1. IsFiniteSet(1 .. Len(Sorted))
    BY SortedFacts, FS_Interval
  <2>2. Sorted \in Surjection(1 .. Len(Sorted), Node)
    BY SortedFacts DEF Surjection
  <2>. QED
    BY <2>1, <2>2, FS_Surjection
<1>4. IsFiniteSet(Above[n])
  BY <1>0, <1>3, FS_Subset
<1>5. IsFiniteSet(Above[a]) /\ Cardinality(Above[a]) <= Cardinality(Above[n])
  BY <1>2, <1>4, FS_Subset
<1>. QED
  BY <1>2, <1>4, <1>5, FS_CardinalityType

----------------------------------------------------------------------------
(* A file that nobody touched is found.                                    *)

LEMMA SearchInit == Init => SearchInv
<1>. SUFFICES ASSUME Init PROVE SearchInv
  OBVIOUS
<1>1. Rooted
  <2>1. \A n \in Node : /\ tree[n] = Nothing \/ \E k \in {"file", "dir", "link"} : tree[n] = At(k)
                        /\ tree[n] # Nothing => Up[n] = "/" \/ tree[Up[n]] = At("dir")
    BY DEF Init
  <2>2. /\ Nothing.kind = "none" /\ Nothing.id = 0 /\ At("dir").kind = "dir"
        /\ \A k \in {"file", "dir", "link"} : At(k).kind = k
    BY DEF Nothing, At
  <2>3. ASSUME NEW n \in Node
        PROVE  /\ tree[n].kind # "none" /\ Up[n] # "/" => tree[Up[n]].kind = "dir"
               /\ tree[n].id = 1 => tree[n].kind # "none"
    <3>1. CASE tree[n] = Nothing
      BY <2>2, <3>1
    <3>2. CASE tree[n] # Nothing
      BY <2>1, <2>2, <3>2
    <3>. QED
      BY <3>1, <3>2
  <2>. QED
    BY <2>3 DEF Rooted
<1>2. Listed
  BY DEF Init, Listed
<1>3. /\ pc = "agenda" /\ item = 1 /\ ret = "none"
      /\ \A m \in Name : entities[m] = NoEntity
  BY DEF Init
<1>4. \A n \in Node, k \in DOMAIN Agenda : Pursued(n, k)
  BY <1>3, AgendaParts DEF Pursued
<1>5. \A n \in Node : entities[<<n, FALSE>>].state = "none"
  <2>1. ASSUME NEW n \in Node PROVE entities[<<n, FALSE>>].state = "none"
    <3>1. <<n, FALSE>> \in Name
      BY DEF Name
    <3>2. entities[<<n, FALSE>>] = NoEntity
      BY <1>3, <3>1
    <3>. QED
      BY <3>2 DEF NoEntity
  <2>. QED
    BY <2>1
<1>6. \A n \in Node : Looked(n)
  BY <1>5 DEF Looked
<1>. QED
  BY <1>1, <1>2, <1>3, <1>4, <1>6 DEF SearchInv, Recording

\* What is created or changed is no longer of the beginning, and nothing is
\* created outside a directory or left behind in one that goes.
LEMMA HostSteady ==
  ASSUME TypeInv, Rooted, HostStep
  PROVE  /\ Rooted'
         /\ \A m \in Node : /\ tree'[m].id = 1 => tree[m].id = 1 /\ tree'[m].kind = tree[m].kind
                            /\ tree'[m].kind = "file" /\ tree'[m].ver = 1 => tree'[m] = tree[m]
<1>0. HostType /\ changes \in Nat /\ changes >= 1 /\ \A m \in Node : Up[m] # "/" => Up[m] \in Node
  BY TypeParts, TreeAssumption, FileBoundAssumption DEF HostType
<1>1. ASSUME NEW n \in Node, Create(n)
      PROVE  /\ Rooted'
             /\ \A m \in Node : /\ tree'[m].id = 1 => tree[m].id = 1 /\ tree'[m].kind = tree[m].kind
                                /\ tree'[m].kind = "file" /\ tree'[m].ver = 1 => tree'[m] = tree[m]
  <2>1. PICK k \in May[n] :
          tree' = [tree EXCEPT ![n] = [kind |-> k, id |-> changes', ver |-> changes', big |-> FALSE]]
    BY <1>1 DEF Create
  <2>2. /\ k \in {"file", "dir", "link"} /\ changes' # 1 /\ tree[n].kind = "none"
        /\ Up[n] # "/" => tree[Up[n]].kind = "dir"
    BY <1>0, <1>1, TreeAssumption DEF Create, IsDir
  <2>3. /\ tree'[n].kind = k /\ tree'[n].id = changes' /\ tree'[n].ver = changes'
        /\ \A m \in Node : m # n => tree'[m] = tree[m]
    BY <1>0, <2>1 DEF HostType
  <2>4. ASSUME NEW m \in Node
        PROVE  /\ tree'[m].kind # "none" /\ Up[m] # "/" => tree'[Up[m]].kind = "dir"
               /\ tree'[m].id = 1 => tree'[m].kind # "none"
    <3>1. tree[m].kind # "none" /\ Up[m] # "/" => tree[Up[m]].kind = "dir" /\ Up[m] # n
      BY <2>2 DEF Rooted
    <3>2. Up[n] # "/" => Up[n] # n
      BY <2>2
    <3>. QED
      BY <1>0, <2>2, <2>3, <3>1, <3>2 DEF Rooted
  <2>. QED
    BY <2>2, <2>3, <2>4 DEF Rooted
<1>2. ASSUME NEW n \in Node, Modify(n)
      PROVE  /\ Rooted'
             /\ \A m \in Node : /\ tree'[m].id = 1 => tree[m].id = 1 /\ tree'[m].kind = tree[m].kind
                                /\ tree'[m].kind = "file" /\ tree'[m].ver = 1 => tree'[m] = tree[m]
  <2>1. PICK b \in BOOLEAN : tree' = [tree EXCEPT ![n].ver = changes', ![n].big = b]
    BY <1>2 DEF Modify
  <2>2. changes' # 1
    BY <1>0, <1>2 DEF Modify
  <2>3. tree'[n].kind = tree[n].kind /\ tree'[n].id = tree[n].id /\ tree'[n].ver = changes'
    BY <1>0, <2>1 DEF HostType
  <2>4. \A m \in Node : m # n => tree'[m] = tree[m]
    BY <1>0, <2>1 DEF HostType
  <2>5. \A m \in Node : tree'[m].kind = tree[m].kind /\ tree'[m].id = tree[m].id
    BY <2>3, <2>4
  <2>. QED
    BY <1>0, <2>2, <2>3, <2>4, <2>5 DEF Rooted
<1>3. ASSUME NEW n \in Node, Unlink(n)
      PROVE  /\ Rooted'
             /\ \A m \in Node : /\ tree'[m].id = 1 => tree[m].id = 1 /\ tree'[m].kind = tree[m].kind
                                /\ tree'[m].kind = "file" /\ tree'[m].ver = 1 => tree'[m] = tree[m]
  <2>1. /\ tree' = [tree EXCEPT ![n] = Nothing] /\ Inside(n) = {}
        /\ Nothing.kind = "none" /\ Nothing.id = 0
    BY <1>3 DEF Unlink, Nothing
  <2>2. tree'[n] = Nothing /\ \A m \in Node : m # n => tree'[m] = tree[m]
    BY <1>0, <2>1 DEF HostType
  <2>3. \A m \in Node : Up[m] = n => tree[m].kind = "none"
    BY <2>1 DEF Inside
  <2>. QED
    BY <1>0, <2>1, <2>2, <2>3 DEF Rooted
<1>4. ASSUME NEW d \in held, Drop(d) PROVE tree' = tree
  BY <1>4 DEF Drop
<1>5. CASE tree' = tree
  BY <1>5 DEF Rooted
<1>. QED
  BY <1>1, <1>2, <1>3, <1>4, <1>5 DEF HostStep

\* Above a file that nobody touched there are the directories of the beginning.
LEMMA UntouchedAbove ==
  ASSUME Rooted, NEW n \in Node, Untouched(n), NEW a \in Above[n]
  PROVE  a \in Node /\ tree[a].id = 1 /\ (a # n => tree[a].kind = "dir")
<1>1. a \in Node /\ tree[a].id = 1 /\ "/" \notin Node
  BY AboveFacts, TreeAssumption DEF Untouched
<1>2. ASSUME a # n PROVE tree[a].kind = "dir"
  <2>1. PICK m \in Above[n] : Up[m] = a
    BY <1>2, AboveFacts
  <2>2. m \in Node /\ tree[m].id = 1
    BY AboveFacts DEF Untouched
  <2>. QED
    BY <1>1, <2>1, <2>2 DEF Rooted
<1>. QED
  BY <1>1, <1>2

\* The items that an unread release passes over are the kernel's.
LEMMA KernelFirst ==
  ASSUME NEW k \in DOMAIN Agenda, k < Cardinality(Kernel) + 1
  PROVE  k \in Kernel
<1>1. SUFFICES ASSUME k \notin Kernel PROVE FALSE
  OBVIOUS
<1>2. k \in Nat /\ k >= 1 /\ DOMAIN Agenda \subseteq Nat /\ \A j \in DOMAIN Agenda : j >= 1
  BY AgendaParts
<1>3. Kernel \subseteq 1 .. k - 1
  <2>1. ASSUME NEW j \in Kernel PROVE j \in 1 .. k - 1
    <3>1. j \in DOMAIN Agenda /\ Agenda[j].kind = "kernel"
      BY DEF Kernel
    <3>2. ~(k < j) /\ k # j
      BY <1>1, <3>1, AgendaAssumption DEF Kernel
    <3>. QED
      BY <1>2, <3>1, <3>2
  <2>. QED
    BY <2>1
<1>4. IsFiniteSet(1 .. k - 1) /\ Cardinality(1 .. k - 1) = k - 1
  <2>1. /\ IsFiniteSet(1 .. k - 1)
        /\ Cardinality(1 .. k - 1) = IF 1 > k - 1 THEN 0 ELSE k - 1 - 1 + 1
    BY <1>2, FS_Interval
  <2>. QED
    BY <1>2, <2>1
<1>5. IsFiniteSet(Kernel) /\ Cardinality(Kernel) <= k - 1
  BY <1>3, <1>4, FS_Subset
<1>. QED
  BY <1>2, <1>5, FS_CardinalityType

\* What is reported, or passed over in silence, is noted.
LEMMA NotedNow ==
  ASSUME NEW e, \/ Report(e) \/ FailAndReport(e) \/ ReportIfLoud(e)
                \/ silent' = silent \union {e} /\ UNCHANGED errors
  PROVE  e \in Noted' /\ Noted \subseteq Noted'
BY DEF Noted, Report, FailAndReport, ReportIfLoud

\* A trace stays, and what was pursued stays so while the walk stands still.
LEMMA MarkedKept ==
  ASSUME NEW n, NEW k, Marked(n, k), Noted \subseteq Noted'
  PROVE  Marked(n, k)'
BY DEF Marked

\* What an event about a path above the file leaves.
LEMMA MarkedNow ==
  ASSUME NEW n, NEW k, NEW w, NEW a \in Above[n], Event(w, a) \in Noted'
  PROVE  Marked(n, k)'
<1>1. Event(w, a).name[1] = a
  BY DEF Event
<1>. QED
  BY <1>1 DEF Marked

LEMMA PursuedStill ==
  ASSUME NEW n, NEW k, Pursued(n, k), found \subseteq found', UNCHANGED <<pc, item, limitHit, pending>>
  PROVE  Pursued(n, k)'
BY DEF Pursued

\* The next item of the agenda is still to come; the last one must have found
\* the file.
LEMMA PursuedNext ==
  ASSUME TypeInv, NEW n \in Node, NEW k \in DOMAIN Agenda, Pursued(n, k), found \subseteq found',
         item' = item + 1, pc' = "agenda", k = item => <<n, FALSE>> \in found'
  PROVE  Pursued(n, k)'
<1>1. k \in Nat /\ item \in Nat
  BY TypeParts, AgendaParts DEF WalkType
<1>2. k < item + 1 => k < item \/ k = item
  BY <1>1
<1>. QED
  BY <1>2 DEF Pursued

\* What a walk that stays at its item owes: one of the ways to pursue the file.
LEMMA PursuedWalk ==
  ASSUME NEW n, NEW k, Pursued(n, k), found \subseteq found', item' = item,
         k = item => \/ <<n, FALSE>> \in found'
                     \/ pc' \in {"walk", "list"} /\ (limitHit' \/ \E e \in pending' : e.node \in Above[n])
  PROVE  Pursued(n, k)'
BY DEF Pursued

\* The kernel's trees are passed over with a trace of each.
LEMMA ReleasePursues ==
  ASSUME TypeInv, NEW n \in Node, NEW k \in DOMAIN Agenda, Sought(n, k), Pursued(n, k),
         ReleaseUnknown
  PROVE  Marked(n, k)' \/ Pursued(n, k)'
<1>1. /\ silent' = silent \union {Event("release", Agenda[j].root) : j \in Kernel}
      /\ item' = Cardinality(Kernel) + 1 /\ pc' = "agenda"
  BY DEF ReleaseUnknown
<1>2. CASE k < item'
  <2>1. k \in Kernel
    BY <1>1, <1>2, KernelFirst
  <2>2. Event("release", Agenda[k].root) \in Noted'
    BY <1>1, <2>1 DEF Noted
  <2>. QED
    BY <2>2, MarkedNow DEF Sought, Covers
<1>3. CASE ~(k < item')
  BY <1>1, <1>3 DEF Pursued
<1>. QED
  BY <1>2, <1>3

\* A walk begins at its root, which is the file or a directory above it.
LEMMA StartPursues ==
  ASSUME TypeInv, Rooted, NEW n \in Node, NEW k \in DOMAIN Agenda, Sought(n, k), Pursued(n, k),
         StartWalk
  PROVE  Marked(n, k)' \/ Pursued(n, k)'
<1>1. /\ pc = "agenda" /\ \/ item' = item
                          \/ item' = item + 1 /\ pc' = "agenda"
      /\ found \subseteq found'
  <2>1. HostType /\ Asked.root \in Node
    BY TypeParts, ItemParts DEF StartWalk
  <2>2. tree[Asked.root].kind \in {"none", "file", "dir", "link"}
    BY <2>1 DEF HostType
  <2>. QED
    BY <2>2 DEF StartWalk, NextItem, Add
<1>2. CASE k # item
  <2>1. k \in Nat /\ item \in Nat
    BY TypeParts, AgendaParts DEF WalkType
  <2>. QED
    BY <1>1, <1>2, <2>1, PursuedNext DEF Pursued
<1>3. CASE k = item
  <2>. DEFINE r == Agenda[k].root
  <2>1. r \in Above[n] /\ Untouched(n) /\ ~Excluded(n) /\ tree[n].kind = "file"
    BY DEF Sought, Covers, Untouched
  <2>2. r = n \/ tree[r].kind = "dir"
    BY <2>1, UntouchedAbove
  <2>3. CASE tree[r].kind = "dir"
    <3>1. pending' = {[node |-> r, dir |-> TRUE]} /\ pc' = "walk" /\ item' = item
      BY <1>3, <2>3 DEF StartWalk, Asked
    <3>2. \E e \in pending' : e.node \in Above[n]
      <4>1. [node |-> r, dir |-> TRUE].node \in Above[n]
        BY <2>1
      <4>. QED
        BY <3>1, <4>1
    <3>. QED
      BY <1>1, <3>1, <3>2, PursuedWalk
  <2>4. CASE r = n
    <3>1. found' = Add(found, <<n, FALSE>>) /\ item' = item + 1 /\ pc' = "agenda"
      BY <1>3, <2>1, <2>4 DEF StartWalk, Asked, NextItem
    <3>2. <<n, FALSE>> \in found'
      BY <2>1, <3>1 DEF Add
    <3>. QED
      BY <1>1, <3>1, <3>2, PursuedNext
  <2>. QED
    BY <2>2, <2>3, <2>4
<1>. QED
  BY <1>2, <1>3

\* The other items, and the ways to have no walk.
LEMMA ItemsPursue ==
  ASSUME TypeInv, NEW n \in Node, NEW k \in DOMAIN Agenda, Sought(n, k), Pursued(n, k),
         \/ StartFails \/ WriteAbsent \/ AddPath
         \/ ListPIDs \/ PIDsUnlisted \/ ReadLink \/ OpenDone
  PROVE  Marked(n, k)' \/ Pursued(n, k)'
<1>0. /\ k \in Nat /\ item \in Nat /\ Agenda[k].kind \in {"kernel", "walk"}
      /\ Agenda[k].root \in Above[n]
  BY TypeParts, AgendaParts DEF WalkType, Sought, Covers
<1>1. CASE StartFails
  <2>1. /\ found' = found
        /\ (pc' = "absent" /\ item' = item) \/ (pc' = "agenda" /\ item' = item + 1)
        /\ Event("root", Asked.root) \in Noted'
    BY <1>1, NotedNow DEF StartFails, NextItem
  <2>2. CASE k = item
    BY <1>0, <2>1, <2>2, MarkedNow DEF Asked
  <2>3. CASE k # item
    BY <1>0, <2>1, <2>3, PursuedNext DEF Pursued
  <2>. QED
    BY <2>2, <2>3
<1>2. CASE WriteAbsent \/ OpenDone
  <2>1. pc \in {"absent", "open"} /\ found' = found /\ item' = item + 1 /\ pc' = "agenda"
    BY <1>2 DEF WriteAbsent, OpenDone, NextItem
  <2>2. k = item => <<n, FALSE>> \in found'
    BY <2>1 DEF Pursued
  <2>. QED
    BY <2>1, <2>2, PursuedNext
<1>3. CASE AddPath
  <2>1. /\ found \subseteq found' /\ item' = item + 1 /\ pc' = "agenda" /\ k # item
    BY <1>0, <1>3 DEF AddPath, NextItem, Add, Asked
  <2>. QED
    BY <2>1, PursuedNext
<1>4. CASE ListPIDs \/ PIDsUnlisted
  <2>1. found' = found /\ item' = item /\ k # item
    BY <1>0, <1>4 DEF ListPIDs, PIDsUnlisted, Asked
  <2>. QED
    BY <2>1 DEF Pursued
<1>5. CASE ReadLink
  <2>1. pc = "open" /\ pc' = pc /\ found \subseteq found' /\ UNCHANGED <<item, limitHit, pending>>
    BY <1>5 DEF ReadLink, Add, walk
  <2>. QED
    BY <2>1, PursuedStill
<1>. QED
  BY <1>1, <1>2, <1>3, <1>4, <1>5

\* An entry that is left out lies beyond the limit or deeper than the file.
LEMMA PassOverPursues ==
  ASSUME TypeInv, NEW n \in Node, NEW k \in DOMAIN Agenda, Sought(n, k), Pursued(n, k), PassOver
  PROVE  Pursued(n, k)'
<1>1. /\ pc = "walk" /\ pc' = "walk" /\ item' = item /\ found' = found
      /\ limitHit' = (limitHit \/ AtLimit)
  BY DEF PassOver, Pop
<1>2. PICK e \in Upcoming : (AtLimit \/ TooDeep(e)) /\ pending' = pending \ {e}
  BY DEF PassOver, Pop
<1>3. CASE limitHit \/ AtLimit
  BY <1>1, <1>3, PursuedWalk
<1>4. CASE ~limitHit /\ ~AtLimit
  <2>1. ASSUME k = item, e.node \in Above[n] PROVE FALSE
    <3>1. /\ Cardinality(Above[e.node]) \in Nat /\ Cardinality(Above[n]) \in Nat
          /\ Cardinality(Above[e.node]) <= Cardinality(Above[n])
      BY <2>1, AboveInner
    <3>2. /\ Agenda[k].root \in Above[n]
          /\ Cardinality(Above[n]) - Cardinality(Above[Agenda[k].root]) <= Agenda[k].depth
      BY DEF Sought, Covers
    <3>3. Cardinality(Above[Agenda[k].root]) \in Nat
      BY <3>2, AboveInner
    <3>4. Agenda[k].depth \in Nat
      BY AgendaParts
    <3>5. Cardinality(Above[e.node]) - Cardinality(Above[Agenda[k].root]) > Agenda[k].depth
      BY <1>2, <1>4, <2>1 DEF TooDeep, Depth, Asked
    <3>. QED
      BY <3>1, <3>2, <3>3, <3>4, <3>5
  <2>2. k = item => \/ <<n, FALSE>> \in found
                    \/ \E o \in pending : o.node \in Above[n]
    BY <1>1, <1>4 DEF Pursued
  <2>3. k = item => \/ <<n, FALSE>> \in found'
                    \/ \E o \in pending' : o.node \in Above[n]
    BY <1>1, <1>2, <2>1, <2>2
  <2>. QED
    BY <1>1, <2>3, PursuedWalk
<1>. QED
  BY <1>3, <1>4

\* A directory of the beginning is not one of the collector's own when the file
\* is not.
LEMMA NotExcludedAbove ==
  ASSUME NEW n \in Node, ~Excluded(n), NEW a \in Above[n]
  PROVE  ~Excluded(a)
BY AboveInner DEF Excluded

\* The visit of a directory above the file leaves it to be read, the visit of the
\* file finds it; the entries that SkipDir passes over leave a trace.
LEMMA VisitPursues ==
  ASSUME TypeInv, Rooted, Listed, NEW n \in Node, NEW k \in DOMAIN Agenda, Sought(n, k),
         Pursued(n, k), Visit
  PROVE  Marked(n, k)' \/ Pursued(n, k)'
<1>1. PICK e \in Upcoming :
        /\ found' = IF tree[e.node].kind \in {"file", "link"}
                    THEN Add(found, <<e.node, FALSE>>) ELSE found
        /\ CASE tree[e.node].kind = "link" -> Pop(e) /\ UNCHANGED silent
             [] tree[e.node].kind = "dir" /\ Excluded(e.node) /\ Asked.loud ->
                  IF e.dir THEN Pop(e) /\ UNCHANGED silent ELSE SkipRest(e.node)
             [] OTHER -> Descend(e) /\ UNCHANGED silent
  BY DEF Visit
<1>2. pc = "walk" /\ item' = item /\ limitHit' = limitHit /\ found \subseteq found' /\ errors' = errors
  BY <1>1 DEF Visit, Add
<1>3. e \in pending /\ Untouched(n) /\ ~Excluded(n) /\ tree[n].kind = "file"
  BY DEF Upcoming, Sought, Untouched
<1>4. CASE e.node = n
  <2>1. <<n, FALSE>> \in found'
    BY <1>1, <1>3, <1>4 DEF Add
  <2>. QED
    BY <1>2, <2>1, PursuedWalk
<1>5. CASE e.node \in Above[n] /\ e.node # n
  <2>1. tree[e.node].kind = "dir" /\ tree[e.node].id = 1 /\ ~Excluded(e.node)
    BY <1>3, <1>5, UntouchedAbove, NotExcludedAbove
  <2>2. e.dir
    BY <1>3, <2>1 DEF Listed
  <2>3. pc' = "list" /\ pending' = pending
    BY <1>1, <2>1, <2>2 DEF Descend
  <2>. QED
    BY <1>2, <1>3, <1>5, <2>3, PursuedWalk
<1>6. CASE e.node \notin Above[n]
  <2>1. CASE \E o \in pending : o.node \in Above[n] /\ o \notin pending'
    <3>1. PICK o \in pending : o.node \in Above[n] /\ o \notin pending'
      BY <2>1
    <3>2. SkipRest(e.node)
      BY <1>1, <1>6, <3>1 DEF Pop, Descend
    <3>3. Up[o.node] = Up[e.node] /\ Event("skipped", Up[e.node]) \in Noted'
      BY <3>1, <3>2 DEF SkipRest, Noted
    <3>4. Up[e.node] # "/"
      <4>1. ~e.dir
        BY <1>1, <3>1, <1>6 DEF Pop, Descend
      <4>. QED
        BY <1>3, <4>1, TreeAssumption DEF TypeInv
    <3>5. Up[o.node] \in Above[n]
      BY <3>1, <3>3, <3>4, AboveFacts
    <3>. QED
      BY <3>3, <3>5, MarkedNow
  <2>2. CASE ~\E o \in pending : o.node \in Above[n] /\ o \notin pending'
    <3>1. pc' \in {"walk", "list"}
      BY <1>1, <1>2 DEF Pop, Descend, SkipRest
    <3>2. k = item => \/ <<n, FALSE>> \in found \/ limitHit
                      \/ \E o \in pending : o.node \in Above[n]
      BY <1>2 DEF Pursued
    <3>. QED
      BY <1>2, <2>2, <3>1, <3>2, PursuedWalk
  <2>. QED
    BY <2>1, <2>2
<1>. QED
  BY <1>4, <1>5, <1>6

\* A failed visit leaves a trace of its path.
LEMMA VisitFailsPursues ==
  ASSUME NEW n \in Node, NEW k \in DOMAIN Agenda, Pursued(n, k), VisitFails
  PROVE  Marked(n, k)' \/ Pursued(n, k)'
<1>1. PICK e \in Upcoming : silent' = silent \union {Event("lstat", e.node)} /\ Descend(e)
  BY DEF VisitFails
<1>2. pc = "walk" /\ item' = item /\ limitHit' = limitHit /\ found' = found
  BY DEF VisitFails
<1>3. CASE e.node \in Above[n]
  <2>1. Event("lstat", e.node) \in Noted'
    BY <1>1 DEF Noted
  <2>. QED
    BY <1>3, <2>1, MarkedNow
<1>4. CASE e.node \notin Above[n]
  <2>1. pc' \in {"walk", "list"} /\ pending \ {e} \subseteq pending'
    BY <1>1, <1>2 DEF Descend, Pop
  <2>2. k = item => \/ <<n, FALSE>> \in found \/ limitHit
                    \/ \E o \in pending : o.node \in Above[n]
    BY <1>2 DEF Pursued
  <2>3. \A o \in pending : o.node \in Above[n] => o \in pending'
    BY <1>4, <2>1
  <2>. QED
    BY <1>2, <2>1, <2>2, <2>3, PursuedWalk
<1>. QED
  BY <1>3, <1>4

\* Of a directory above the file that is read, the next path down is pending; the
\* file itself and what cannot be read leave a trace.
LEMMA ListPursues ==
  ASSUME TypeInv, Rooted, NEW n \in Node, NEW k \in DOMAIN Agenda, Sought(n, k), Pursued(n, k),
         ListDir \/ ListDirFails
  PROVE  Marked(n, k)' \/ Pursued(n, k)'
<1>1. pc = "list" /\ pc' = "walk" /\ item' = item /\ limitHit' = limitHit /\ found' = found
  BY DEF ListDir, ListDirFails
<1>2. PICK e \in Upcoming :
        \/ /\ IsDir(e.node)
           /\ pending' = (pending \ {e}) \union {[node |-> m, dir |-> IsDir(m)] : m \in Inside(e.node)}
        \/ pending' = pending \ {e} /\ Event("dir", e.node) \in Noted'
  <2>1. CASE ListDir
    <3>1. PICK e \in Upcoming :
            IF IsDir(e.node)
            THEN /\ pending' = (pending \ {e})
                      \union {[node |-> m, dir |-> IsDir(m)] : m \in Inside(e.node)}
                 /\ UNCHANGED <<errors, silent, faults>>
            ELSE pending' = pending \ {e} /\ ReportIfLoud(Event("dir", e.node))
      BY <2>1 DEF ListDir
    <3>. QED
      BY <3>1, NotedNow
  <2>2. CASE ListDirFails
    <3>1. PICK e \in Upcoming :
            /\ pending' = pending \ {e}
            /\ \/ FailAndReport(Event("dir", e.node))
               \/ silent' = silent \union {Event("dir", e.node)} /\ UNCHANGED errors
      BY <2>2 DEF ListDirFails
    <3>. QED
      BY <3>1, NotedNow
  <2>. QED
    BY <2>1, <2>2
<1>3. Untouched(n) /\ tree[n].kind = "file" /\ "/" \notin Node
  BY TreeAssumption DEF Sought, Untouched
<1>4. k = item => \/ <<n, FALSE>> \in found \/ limitHit
                  \/ \E o \in pending : o.node \in Above[n]
  BY <1>1 DEF Pursued
<1>5. CASE e.node \notin Above[n]
  <2>1. \A o \in pending : o.node \in Above[n] => o \in pending'
    BY <1>2, <1>5
  <2>. QED
    BY <1>1, <1>4, <2>1, PursuedWalk
<1>6. CASE e.node \in Above[n] /\ Event("dir", e.node) \in Noted'
  BY <1>6, MarkedNow
<1>7. CASE /\ e.node \in Above[n] /\ IsDir(e.node)
           /\ pending' = (pending \ {e}) \union {[node |-> m, dir |-> IsDir(m)] : m \in Inside(e.node)}
  <2>1. e.node \in Node /\ e.node # n
    BY <1>3, <1>7, UntouchedAbove DEF IsDir
  <2>2. PICK m \in Above[n] : Up[m] = e.node
    BY <1>7, <2>1, AboveFacts
  <2>3. m \in Node /\ tree[m].id = 1
    BY <1>3, UntouchedAbove
  <2>4. m \in Inside(e.node)
    BY <2>2, <2>3 DEF Inside, Rooted
  <2>5. [node |-> m, dir |-> IsDir(m)] \in pending'
    BY <1>7, <2>4
  <2>6. \E o \in pending' : o.node \in Above[n]
    <3>1. [node |-> m, dir |-> IsDir(m)].node = m
      OBVIOUS
    <3>. QED
      BY <2>5, <3>1
  <2>. QED
    BY <1>1, <2>6, PursuedWalk
<1>. QED
  BY <1>2, <1>5, <1>6, <1>7

\* A walk ends when nothing is pending, with a trace when it met its limit.
LEMMA EndPursues ==
  ASSUME TypeInv, NEW n \in Node, NEW k \in DOMAIN Agenda, Sought(n, k), Pursued(n, k), EndWalk
  PROVE  Marked(n, k)' \/ Pursued(n, k)'
<1>1. /\ pc = "walk" /\ pending = {} /\ pc' = "agenda" /\ item' = item + 1 /\ found' = found
      /\ limitHit => ReportIfLoud(Event("limit", Asked.root))
  BY DEF EndWalk, NextItem
<1>2. CASE k = item /\ limitHit
  <2>1. Event("limit", Agenda[k].root) \in Noted'
    BY <1>1, <1>2, NotedNow DEF Asked
  <2>2. Agenda[k].root \in Above[n]
    BY DEF Sought, Covers
  <2>. QED
    BY <2>1, <2>2, MarkedNow
<1>3. CASE ~(k = item /\ limitHit)
  <2>1. k = item => <<n, FALSE>> \in found'
    BY <1>1, <1>3 DEF Pursued
  <2>. QED
    BY <1>1, <2>1, PursuedNext
<1>. QED
  BY <1>2, <1>3

\* What is listed as something else than a directory was none when it was listed.
LEMMA ListedKept ==
  ASSUME Listed, tree' = tree, pending' \subseteq pending
  PROVE  Listed'
BY DEF Listed

\* The survey leaves what is pending or adds what a directory holds.
LEMMA ListedSurvey ==
  ASSUME TypeInv, Listed, tree' = tree,
         \/ ReleaseUnknown \/ StartWalk \/ StartFails \/ WriteAbsent \/ PassOver \/ Visit
         \/ VisitFails \/ ListDir \/ ListDirFails \/ EndWalk \/ AddPath
         \/ ListPIDs \/ PIDsUnlisted \/ ReadLink \/ OpenDone \/ Interrupt
  PROVE  Listed'
<1>1. CASE StartWalk
  <2>1. pending' \subseteq {[node |-> Asked.root, dir |-> TRUE]}
    BY <1>1 DEF StartWalk
  <2>2. \A e \in pending' : e.dir
    BY <2>1
  <2>. QED
    BY <2>2 DEF Listed
<1>2. CASE ListDir
  <2>1. PICK e \in Upcoming :
          \/ pending' = (pending \ {e}) \union {[node |-> m, dir |-> IsDir(m)] : m \in Inside(e.node)}
          \/ pending' = pending \ {e}
    BY <1>2 DEF ListDir
  <2>2. CASE pending' = pending \ {e}
    BY <2>2, ListedKept
  <2>3. CASE pending' = (pending \ {e}) \union {[node |-> m, dir |-> IsDir(m)] : m \in Inside(e.node)}
    <3>1. ASSUME NEW m \in Inside(e.node), tree[m].kind = "dir" PROVE IsDir(m)
      BY <3>1 DEF IsDir
    <3>2. ASSUME NEW o \in pending', tree[o.node].id = 1, tree[o.node].kind = "dir" PROVE o.dir
      <4>1. CASE o \in pending
        BY <3>2, <4>1 DEF Listed
      <4>2. CASE o \notin pending
        <5>1. PICK m \in Inside(e.node) : o = [node |-> m, dir |-> IsDir(m)]
          BY <2>3, <3>2, <4>2
        <5>2. o.node = m /\ o.dir = IsDir(m)
          BY <5>1
        <5>. QED
          BY <3>1, <3>2, <5>2
      <4>. QED
        BY <4>1, <4>2
    <3>. QED
      BY <3>2 DEF Listed
  <2>. QED
    BY <2>1, <2>2, <2>3
<1>3. CASE PassOver \/ Visit \/ VisitFails \/ ListDirFails
  <2>1. pending' \subseteq pending
    BY <1>3 DEF PassOver, Visit, VisitFails, ListDirFails, Pop, Descend, SkipRest
  <2>. QED
    BY <2>1, ListedKept
<1>4. CASE \/ ReleaseUnknown \/ StartFails \/ WriteAbsent \/ EndWalk \/ AddPath
           \/ ListPIDs \/ PIDsUnlisted \/ ReadLink \/ OpenDone \/ Interrupt
  <2>1. pending' = pending
    BY <1>4 DEF ReleaseUnknown, StartFails, WriteAbsent, EndWalk, AddPath, ListPIDs, PIDsUnlisted,
                ReadLink, OpenDone, Interrupt, walk
  <2>. QED
    BY <2>1, ListedKept
<1>. QED
  BY <1>1, <1>2, <1>3, <1>4

\* Looks are kept by a step that changes no file and no record.
LEMMA LookedKept ==
  ASSUME NEW n, Looked(n), tree'[n] = tree[n] \/ ~(tree'[n].kind = "file" /\ tree'[n].ver = 1),
         entities'[<<n, FALSE>>] = entities[<<n, FALSE>>], Noted \subseteq Noted'
  PROVE  Looked(n)'
<1>1. Unnoted(<<n, FALSE>>)' => Unnoted(<<n, FALSE>>)
  BY DEF Unnoted
<1>. QED
  BY <1>1 DEF Looked

\* The survey pursues every file that an item of the agenda owes.
LEMMA SearchSurvey ==
  ASSUME TypeInv, RecordInv, SearchInv, Surveys,
         \/ ReleaseUnknown \/ StartWalk \/ StartFails \/ WriteAbsent \/ PassOver \/ Visit
         \/ VisitFails \/ ListDir \/ ListDirFails \/ EndWalk \/ AddPath
         \/ ListPIDs \/ PIDsUnlisted \/ ReadLink \/ OpenDone \/ Interrupt
  PROVE  SearchInv'
<1>1. /\ tree' = tree /\ entities' = entities /\ Noted \subseteq Noted' /\ Surveying
      /\ (Surveying' /\ ret' = ret) \/ (pc' = "done" /\ ret' = "err")
  BY DEF Surveys, records
<1>2. ret # "ok" /\ pc # "done"
  BY <1>1 DEF RecordInv, Surveying
<1>3. ~Recording' /\ ret' # "ok"
  BY <1>1, <1>2 DEF Surveying, Recording
<1>4. Rooted' /\ Listed'
  BY <1>1, ListedSurvey DEF SearchInv, Rooted
<1>5. \A n \in Node : Looked(n)'
  BY <1>1, LookedKept DEF SearchInv
<1>6. ASSUME NEW n \in Node, NEW k \in DOMAIN Agenda, Sought(n, k)', pc' # "done"
      PROVE  Marked(n, k)' \/ Pursued(n, k)'
  <2>1. Sought(n, k)
    BY <1>1, <1>6 DEF Sought, Untouched
  <2>2. CASE Marked(n, k)
    BY <1>1, <2>2, MarkedKept
  <2>3. CASE Pursued(n, k)
    <3>1. ~Interrupt
      BY <1>6 DEF Interrupt, Return
    <3>. QED
      BY <2>1, <2>3, <3>1, ReleasePursues, StartPursues, ItemsPursue, PassOverPursues, VisitPursues,
         VisitFailsPursues, ListPursues, EndPursues DEF SearchInv
  <2>. QED
    BY <1>2, <2>1, <2>2, <2>3 DEF SearchInv
<1>. QED
  BY <1>3, <1>4, <1>5, <1>6 DEF SearchInv

\* What changes on the host leaves a file untouched only if it was so before.
LEMMA SearchHost ==
  ASSUME TypeInv, SearchInv, HostStep PROVE SearchInv'
<1>1. UNCHANGED <<pc, item, walk, found, entities, errors, silent, ret>>
  BY HostShape DEF HostMoves, records
<1>2. /\ Rooted'
      /\ \A m \in Node : /\ tree'[m].id = 1 => tree[m].id = 1 /\ tree'[m].kind = tree[m].kind
                         /\ tree'[m].kind = "file" /\ tree'[m].ver = 1 => tree'[m] = tree[m]
  BY HostSteady DEF SearchInv
<1>3. Listed'
  <2>1. pending' = pending /\ \A e \in pending : e.node \in Node
    BY <1>1, TypeParts DEF walk, WalkType
  <2>. QED
    BY <1>2, <2>1 DEF SearchInv, Listed
<1>4. Noted' = Noted
  BY <1>1 DEF Noted
<1>5. \A n \in Node : Looked(n)'
  BY <1>1, <1>2, <1>4, LookedKept DEF SearchInv
<1>6. ASSUME NEW n \in Node, NEW k \in DOMAIN Agenda, Sought(n, k)', pc # "done" \/ ret = "ok"
      PROVE  Marked(n, k)' \/ Pursued(n, k)'
  <2>1. Above[n] \subseteq Node
    BY AboveFacts
  <2>2. Untouched(n)
    BY <1>2, <1>6, <2>1 DEF Sought, Untouched
  <2>3. Marked(n, k) \/ Pursued(n, k)
    BY <1>6, <2>2 DEF SearchInv, Sought
  <2>. QED
    BY <1>1, <1>4, <2>3, MarkedKept, PursuedStill DEF walk
<1>. QED
  BY <1>1, <1>2, <1>3, <1>5, <1>6 DEF SearchInv, Recording, Finished

\* After the survey every item of the agenda is done, and the map stays.
LEMMA SearchRecords ==
  ASSUME TypeInv, SearchInv, Records, Finished \/ (pc' = "done" /\ ret' = "err"),
         \A n \in Node : Looked(n)'
  PROVE  SearchInv'
<1>1. /\ UNCHANGED <<tree, item, pending, found>> /\ Noted \subseteq Noted'
      /\ (pc = "agenda" \/ Recording) \/ (pc' = "done" /\ ret' = "err")
  BY DEF Records, Recording
<1>2. Rooted' /\ Listed'
  BY <1>1 DEF SearchInv, Rooted, Listed
<1>3. Recording' \/ ret' = "ok" => Finished'
  BY <1>1 DEF Finished, Recording
<1>4. ASSUME NEW n \in Node, NEW k \in DOMAIN Agenda, Sought(n, k)', pc' # "done" \/ ret' = "ok"
      PROVE  Marked(n, k)' \/ Pursued(n, k)'
  <2>1. Sought(n, k) /\ (pc = "agenda" \/ Recording) /\ Finished
    BY <1>1, <1>4 DEF Sought, Untouched
  <2>2. Marked(n, k) \/ Pursued(n, k)
    BY <2>1 DEF SearchInv, Recording
  <2>3. CASE Marked(n, k)
    BY <1>1, <2>3, MarkedKept
  <2>4. CASE Pursued(n, k)
    <3>1. k < item /\ item \in Nat /\ k \in Nat
      BY <2>1, TypeParts, AgendaParts DEF Finished, WalkType
    <3>2. <<n, FALSE>> \in found'
      BY <1>1, <2>4, <3>1 DEF Pursued
    <3>. QED
      BY <1>1, <3>1, <3>2 DEF Pursued
  <2>. QED
    BY <2>2, <2>3, <2>4
<1>. QED
  BY <1>2, <1>3, <1>4 DEF SearchInv

\* The first look at a file that is still what it was says so; a look that failed
\* is noted.
LEMMA SearchStat ==
  ASSUME TypeInv, SearchInv, StatFile \/ StatFails PROVE SearchInv'
<1>0. NamesType /\ TracesType /\ pc = "stat" /\ Records /\ tree' = tree /\ Noted \subseteq Noted'
  BY TypeParts, FileRecords DEF StatFile, StatFails, Records
<1>1. PICK m \in left :
        \/ Absent(m) /\ Of(m).kind = "none"
        \/ Absent(m) /\ FailAndReport([what |-> "stat", name |-> m])
        \/ /\ Of(m).kind # "none"
           /\ entities' = [entities EXCEPT ![m] =
                [state |-> "exists", kind |-> Of(m).kind, ver |-> Of(m).ver, big |-> Of(m).big]]
  BY DEF StatFile, StatFails
<1>2. m \in Name
  BY <1>0 DEF NamesType
<1>3. \A o \in Name : o # m => entities'[o] = entities[o]
  BY <1>0, <1>1 DEF Absent, TracesType
<1>4. ASSUME NEW n \in Node PROVE Looked(n)'
  <2>1. <<n, FALSE>> \in Name
    BY DEF Name
  <2>2. CASE <<n, FALSE>> # m
    BY <1>0, <1>3, <2>1, <2>2, LookedKept DEF SearchInv
  <2>3. CASE <<n, FALSE>> = m
    <3>1. Of(m) = tree[n]
      BY <2>3 DEF Of
    <3>2. CASE Of(m).kind = "none"
      BY <1>0, <3>1, <3>2 DEF Looked
    <3>3. CASE FailAndReport([what |-> "stat", name |-> m])
      <4>1. [what |-> "stat", name |-> m] \in Noted' /\ [what |-> "stat", name |-> m].name = m
        BY <3>3, NotedNow
      <4>2. ~Unnoted(m)'
        BY <4>1 DEF Unnoted
      <4>. QED
        BY <2>3, <4>2 DEF Looked
    <3>4. CASE entities' = [entities EXCEPT ![m] =
                 [state |-> "exists", kind |-> Of(m).kind, ver |-> Of(m).ver, big |-> Of(m).big]]
      <4>1. entities'[m].state = "exists" /\ entities'[m].ver = tree[n].ver
        BY <1>0, <1>2, <3>1, <3>4 DEF TracesType
      <4>. QED
        BY <1>0, <2>3, <4>1 DEF Looked
    <3>. QED
      BY <1>1, <3>2, <3>3, <3>4
  <2>. QED
    BY <2>2, <2>3
<1>5. Finished
  BY <1>0 DEF SearchInv, Recording
<1>. QED
  BY <1>0, <1>4, <1>5, SearchRecords

\* No later step of the records touches what the first look saw.
LEMMA SearchLater ==
  ASSUME TypeInv, SearchInv,
         \/ BeginRecords \/ HashFile \/ HashFails \/ WriteAttrs
         \/ RecordsDone \/ LegacyLine \/ LegacyFails \/ WriteLegacy \/ WriteFails
  PROVE  SearchInv'
<1>1. Records
  BY FileRecords, HashRecords, LegacyRecords
<1>2. entities' = entities /\ tree' = tree /\ Noted \subseteq Noted'
  BY <1>1 DEF Records, BeginRecords, HashFile, HashFails, WriteAttrs, RecordsDone, LegacyLine,
              LegacyFails, WriteLegacy, WriteFails, records
<1>3. Finished \/ (pc' = "done" /\ ret' = "err")
  BY DEF SearchInv, Recording, BeginRecords, HashFile, HashFails, WriteAttrs, RecordsDone, LegacyLine,
         LegacyFails, WriteLegacy, WriteFails, Return
<1>4. \A n \in Node : Looked(n)'
  BY <1>2, LookedKept DEF SearchInv
<1>. QED
  BY <1>1, <1>3, <1>4, SearchRecords

LEMMA SearchStep == TypeInv /\ RecordInv /\ SearchInv /\ [Next]_vars => SearchInv'
<1>. SUFFICES ASSUME TypeInv, RecordInv, SearchInv, [Next]_vars PROVE SearchInv'
  OBVIOUS
<1>1. CASE Collect
  BY <1>1, SearchSurvey, ReleaseSurveys, StartSurveys, WalkSurveys, ListSurveys, OpenSurveys,
     SearchStat, SearchLater DEF Collect
<1>2. CASE HostStep
  BY <1>2, SearchHost
<1>3. CASE UNCHANGED vars
  <2>1. /\ UNCHANGED <<tree, pc, item, pending, limitHit, found, entities, ret>> /\ Noted' = Noted
    BY <1>3 DEF vars, host, walk, records, Noted
  <2>2. Rooted' /\ Listed' /\ \A n \in Node : Looked(n)'
    BY <2>1, LookedKept DEF SearchInv, Rooted, Listed
  <2>3. ASSUME NEW n \in Node, NEW k \in DOMAIN Agenda, Sought(n, k)', pc # "done" \/ ret = "ok"
        PROVE  Marked(n, k)' \/ Pursued(n, k)'
    <3>1. Sought(n, k)
      BY <2>1, <2>3 DEF Sought, Untouched
    <3>. QED
      BY <2>1, <2>3, <3>1, MarkedKept, PursuedStill DEF SearchInv
  <2>. QED
    BY <2>1, <2>2, <2>3 DEF SearchInv, Recording, Finished
<1>. QED
  BY <1>1, <1>2, <1>3 DEF Next

\* Nothing is missed without a trace (scanPath, writeFile): a file that is there
\* from the beginning to the end and that nobody touches, in directories that
\* stay, has a record that shows it as it was whenever an item of the agenda covers
\* it, whatever else comes and goes around it, unless something was noted of a path
\* above it or the item met its limit.
THEOREM StableFilesReported == Spec => []StableFileReported
<1>1. TypeInv /\ RecordInv /\ SearchInv => StableFileReported
  <2>. SUFFICES ASSUME TypeInv, RecordInv, SearchInv, ret = "ok",
                       NEW n \in Node, NEW k \in DOMAIN Agenda,
                       Untouched(n), Covers(Agenda[k], n), ~Excluded(n), ~Marked(n, k)
                PROVE  entities[<<n, FALSE>>].state = "exists" /\ entities[<<n, FALSE>>].ver = 1
    BY DEF StableFileReported, Marked
  <2>1. Pursued(n, k) /\ Finished
    BY DEF SearchInv, Sought
  <2>2. <<n, FALSE>> \in found
    <3>1. k < item
      BY <2>1, TypeParts, AgendaParts DEF Finished, WalkType
    <3>. QED
      BY <2>1, <3>1 DEF Pursued
  <2>3. entities[<<n, FALSE>>].state # "none"
    <3>1. <<n, FALSE>> \in Name
      BY DEF Name
    <3>2. Accounted(<<n, FALSE>>) /\ left = {}
      BY <3>1 DEF RecordInv
    <3>. QED
      BY <2>2, <3>2 DEF Accounted
  <2>4. Unnoted(<<n, FALSE>>)
    <3>1. n \in Above[n] /\ <<n, FALSE>>[1] = n
      BY AboveFacts
    <3>. QED
      BY <3>1 DEF Unnoted, Marked
  <2>. QED
    BY <2>3, <2>4 DEF SearchInv, Looked, Untouched
<1>. QED
  BY TypeInit, TypeStep, RecordInit, RecordStep, SearchInit, SearchStep, <1>1, PTL DEF Spec
=============================================================================
