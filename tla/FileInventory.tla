--------------------------- MODULE FileInventory ---------------------------
(***************************************************************************)
(* The file collector (internal/collectors/files): it walks a few trees    *)
(* and asks /proc which files processes have open, gathers the paths it    *)
(* meets in a map, and afterwards looks at each path again, for its        *)
(* metadata and for its hash, and once more for the legacy hash list.      *)
(* Files are created, changed, replaced and removed all the time.          *)
(*                                                                         *)
(* Every change of the tree has a number.  A file is its identity, the     *)
(* number of its creation, and its content, the number of its last change; *)
(* 1 stands for everything that was there when the collector began.        *)
(***************************************************************************)
EXTENDS Integers, Sequences, FiniteSets

CONSTANTS
  Sorted,      \* the paths that may exist, in the order in which a walk meets them
  Up,          \* path -> the directory it is in, or "/"
  Agenda,      \* what is asked, in order: [kind, root, depth, loud]
  Own,         \* the directory of the package; only loud walks pass it over
  May,         \* path -> what may be there: "file", "dir" or "link"
  ScanLimit,   \* scanFileLimit
  MaxHeld,     \* bound on the descriptors of processes
  MaxChanges,  \* bound on the changes of the tree
  MaxFaults    \* bound on failing calls

Node == {Sorted[k] : k \in DOMAIN Sorted}
\* A walk meets a directory before what is in it.
ASSUME TreeAssumption == /\ Sorted \in Seq(Node) \ {<<>>} /\ "/" \notin Node
                         /\ \A j, k \in DOMAIN Sorted : Sorted[j] = Sorted[k] => j = k
                         /\ Up \in [Node -> Node \union {"/"}]
                         /\ \A k \in DOMAIN Sorted : Up[Sorted[k]] # "/" =>
                              \E j \in 1 .. k - 1 : Sorted[j] = Up[Sorted[k]]
                         /\ Own \subseteq Node
                         /\ May \in [Node -> SUBSET {"file", "dir", "link"}]
Position(n) == CHOOSE k \in DOMAIN Sorted : Sorted[k] = n
\* The trees of the kernel's modules come first (Collect).
ASSUME AgendaAssumption ==
  /\ Agenda \in Seq([kind : {"kernel", "open", "path", "walk"}, root : Node, depth : Nat, loud : BOOLEAN])
  /\ \A j, k \in DOMAIN Agenda : j < k /\ Agenda[k].kind = "kernel" => Agenda[j].kind = "kernel"
ASSUME FileBoundAssumption == /\ ScanLimit \in Nat /\ MaxHeld \in Nat
                               /\ MaxChanges \in Nat \ {0} /\ MaxFaults \in Nat

VARIABLES
  tree,      \* the host: path -> [kind, id, ver, big]
  held,      \* descriptors of processes: pairs <<path, id>>
  changes,   \* number of the last change
  pc,        \* where the collector is
  item,      \* position in Agenda
  pending,   \* entries the walk has listed and not yet met: [node, dir]
  visited,   \* files the walk has met
  limitHit,  \* the walk has met something beyond its limit
  links,     \* descriptors that are still to be read
  found,     \* names in the map
  left,      \* names whose record is still to be written
  cur,       \* name of the record in progress
  entities,  \* name -> record of entities/file that stands for a found path
  absents,   \* positions of Agenda with a record that their root is absent
  hashes,    \* name -> record of facts/file_hashes
  attrs,     \* name -> record of facts/file_attributes
  missing,   \* names flagged as missing after discovery
  legacy,    \* name -> content whose hash the legacy list shows, 0 for none
  listing,   \* names whose legacy line is still to be made
  errors,    \* error events: pairs <<what, where>>
  silent,    \* failures that leave no trace: pairs <<what, where>> (history)
  ret,       \* "none" while the collector runs, then "ok" or "err"
  faults     \* failures so far

host    == <<tree, held, changes>>
walk    == <<pending, visited, limitHit>>
records == <<left, cur, entities, hashes, attrs, missing, legacy, listing>>
vars    == <<host, pc, item, walk, links, found, absents, records, errors, silent, ret, faults>>

----------------------------------------------------------------------------
(* The host.                                                               *)

Nothing == [kind |-> "none", id |-> 0, ver |-> 0, big |-> FALSE]
IsDir(n) == n # "/" => tree[n].kind = "dir"
Inside(n) == {m \in Node : Up[m] = n /\ tree[m].kind # "none"}

Create(n) ==
  /\ changes < MaxChanges
  /\ tree[n].kind = "none" /\ IsDir(Up[n])
  /\ changes' = changes + 1
  /\ \E k \in May[n] :
       tree' = [tree EXCEPT ![n] = [kind |-> k, id |-> changes', ver |-> changes', big |-> FALSE]]
  /\ UNCHANGED <<held, pc, item, walk, links, found, absents, records, errors, silent, ret, faults>>

Modify(n) ==
  /\ changes < MaxChanges
  /\ tree[n].kind = "file"
  /\ changes' = changes + 1
  /\ \E b \in BOOLEAN : tree' = [tree EXCEPT ![n].ver = changes', ![n].big = b]
  /\ UNCHANGED <<held, pc, item, walk, links, found, absents, records, errors, silent, ret, faults>>

Unlink(n) ==
  /\ changes < MaxChanges
  /\ tree[n].kind # "none" /\ Inside(n) = {}
  /\ changes' = changes + 1
  /\ tree' = [tree EXCEPT ![n] = Nothing]
  /\ UNCHANGED <<held, pc, item, walk, links, found, absents, records, errors, silent,
                 ret, faults>>

\* A process closes a file, or exits; it matters while /proc is read.
Drop(d) ==
  /\ d \in held \intersect links
  /\ held' = held \ {d}
  /\ UNCHANGED <<tree, changes, pc, item, walk, links, found, absents, records, errors, silent,
                 ret, faults>>

HostStep == \/ \E n \in Node : Create(n) \/ Modify(n) \/ Unlink(n)
            \/ \E d \in held : Drop(d)

----------------------------------------------------------------------------
(* Names, places and records.                                              *)

\* A path is shown as it is, or with " (deleted)" behind it.
Name == Node \X BOOLEAN
NoEntity == [state |-> "none", kind |-> "none", ver |-> 0, big |-> FALSE]
NoHash   == [state |-> "none", val |-> 0]

\* The path and the directories it is in, and how deep it is.
Above[n \in Node] == {n} \union (IF Up[n] = "/" THEN {} ELSE Above[Up[n]])
Depth(n, root) == Cardinality(Above[n]) - Cardinality(Above[root])

\* shouldExcludeCollectorArtifactPath
Excluded(n) == Above[n] \intersect Own # {}

\* add: every path once, and none of the collector's own.
Add(names, name) == IF Excluded(name[1]) THEN names ELSE names \union {name}

Fault == faults < MaxFaults /\ faults' = faults + 1
Return(result) == pc' = "done" /\ ret' = result

\* out.Error, whose own failure is dropped.
Report(e) == \/ errors' = errors \union {e} /\ UNCHANGED <<silent, faults>>
             \/ Fault /\ silent' = silent \union {e} /\ UNCHANGED errors

\* The same after a call that failed.
FailAndReport(e) ==
  /\ faults < MaxFaults
  /\ \/ errors' = errors \union {e} /\ faults' = faults + 1 /\ UNCHANGED silent
     \/ /\ faults + 1 < MaxFaults
        /\ silent' = silent \union {e} /\ faults' = faults + 2 /\ UNCHANGED errors

At(k) == [kind |-> k, id |-> 1, ver |-> 1, big |-> FALSE]

Init ==
  /\ tree \in {t \in [Node -> {Nothing} \union {At(k) : k \in {"file", "dir", "link"}}] :
                 \A n \in Node : t[n] # Nothing => /\ t[n].kind \in May[n]
                                                   /\ Up[n] = "/" \/ t[Up[n]] = At("dir")}
  /\ held \in {h \in SUBSET (Node \X {1}) : /\ Cardinality(h) <= MaxHeld
                                          /\ \A d \in h : tree[d[1]].kind # "none"}
  /\ changes = 1
  /\ pc = "agenda" /\ item = 1
  /\ pending = {} /\ visited = 0 /\ limitHit = FALSE
  /\ links = {}
  /\ found = {}
  /\ left = {} /\ cur = <<Sorted[1], FALSE>>
  /\ entities = [m \in Name |-> NoEntity] /\ absents = {}
  /\ hashes = [m \in Name |-> NoHash] /\ attrs = [m \in Name |-> NoHash]
  /\ missing = {} /\ legacy = [m \in Name |-> 0] /\ listing = {}
  /\ errors = {} /\ silent = {}
  /\ ret = "none" /\ faults = 0

----------------------------------------------------------------------------
(* scanPath.                                                               *)

Asked    == Agenda[item]
Finished == item > Len(Agenda)
Event(what, path) == [what |-> what, name |-> <<path, FALSE>>]

NextItem == item' = item + 1 /\ pc' = "agenda"

\* Only a walk that was given the manager can report.
ReportIfLoud(e) == IF Asked.loud THEN Report(e)
                   ELSE silent' = silent \union {e} /\ UNCHANGED <<errors, faults>>

\* The kernel's release names the trees of its modules; unread, they are
\* passed over.
Kernel == {k \in DOMAIN Agenda : Agenda[k].kind = "kernel"}

ReleaseUnknown ==
  /\ pc = "agenda" /\ item = 1 /\ Kernel # {}
  /\ Fault
  /\ silent' = silent \union {Event("release", Agenda[k].root) : k \in Kernel}
  /\ item' = Cardinality(Kernel) + 1
  /\ UNCHANGED <<host, pc, walk, links, found, absents, records, errors, ret>>

StartWalk ==
  /\ pc = "agenda" /\ ~Finished /\ Asked.kind \in {"kernel", "walk"}
  /\ LET r == Asked.root
         k == tree[r].kind IN
       /\ pending' = IF k = "dir" THEN {[node |-> r, dir |-> TRUE]} ELSE {}
       /\ found' = IF k \in {"file", "link"} THEN Add(found, <<r, FALSE>>) ELSE found
       /\ CASE k = "dir"                 -> pc' = "walk" /\ UNCHANGED item
            [] k = "none" /\ Asked.loud  -> pc' = "absent" /\ UNCHANGED item
            [] k = "none" /\ ~Asked.loud -> NextItem
            [] k \in {"file", "link"}    -> NextItem
  /\ visited' = 0 /\ limitHit' = FALSE
  /\ UNCHANGED <<host, links, absents, records, errors, silent, ret, faults>>

\* The root cannot be looked at.
StartFails ==
  /\ pc = "agenda" /\ ~Finished /\ Asked.kind \in {"kernel", "walk"}
  /\ IF Asked.loud
     THEN FailAndReport(Event("root", Asked.root)) /\ pc' = "absent" /\ UNCHANGED item
     ELSE /\ Fault /\ NextItem
          /\ silent' = silent \union {Event("root", Asked.root)} /\ UNCHANGED errors
  /\ UNCHANGED <<host, walk, links, found, absents, records, ret>>

WriteAbsent ==
  /\ pc = "absent"
  /\ absents' = absents \union {item}
  /\ NextItem
  /\ UNCHANGED <<host, walk, links, found, records, errors, silent, ret, faults>>

\* The entry that the walk meets next.
Upcoming == {e \in pending : \A o \in pending : Position(e.node) <= Position(o.node)}
Pop(e)   == pending' = pending \ {e} /\ UNCHANGED pc
\* WalkDir lists what was a directory when its parent was listed.
Descend(e) == IF e.dir THEN pc' = "list" /\ UNCHANGED pending ELSE Pop(e)

TooDeep(e) == Depth(e.node, Asked.root) > Asked.depth

\* Bug: the limit is noticed one file late.
AtLimitLate == visited > ScanLimit

AtLimit == visited >= ScanLimit

\* Bug: the walk stops at its limit without a word.
PassOverQuietly ==
  /\ pc = "walk"
  /\ \E e \in Upcoming : (AtLimit \/ TooDeep(e)) /\ Pop(e)
  /\ UNCHANGED <<host, item, visited, limitHit, links, found, absents, records, errors, silent,
                 ret, faults>>

PassOver ==
  /\ pc = "walk"
  /\ \E e \in Upcoming : (AtLimit \/ TooDeep(e)) /\ Pop(e)
  /\ limitHit' = (limitHit \/ AtLimit)
  /\ UNCHANGED <<host, item, visited, links, found, absents, records, errors, silent, ret, faults>>

\* SkipDir, returned for an entry that was no directory when it was listed,
\* skips the entries after it.
SkipRest(n) == /\ pending' = {e \in pending : Up[e.node] # Up[n]}
               /\ silent' = silent \union {Event("skipped", Up[n])}
               /\ UNCHANGED pc

\* The callback looks at each entry again.
Visit ==
  /\ pc = "walk" /\ ~AtLimit
  /\ \E e \in Upcoming :
       LET n == e.node
           k == tree[n].kind IN
       /\ ~TooDeep(e)
       /\ found'   = IF k \in {"file", "link"} THEN Add(found, <<n, FALSE>>) ELSE found
       /\ visited' = IF k \in {"file", "link"} THEN visited + 1 ELSE visited
       /\ CASE k = "link" -> Pop(e) /\ UNCHANGED silent
            [] k = "dir" /\ Excluded(n) /\ Asked.loud ->
                 IF e.dir THEN Pop(e) /\ UNCHANGED silent ELSE SkipRest(n)
            [] OTHER -> Descend(e) /\ UNCHANGED silent
  /\ UNCHANGED <<host, item, limitHit, links, absents, records, errors, ret, faults>>

\* An entry that cannot be looked at again is passed over without a word.
VisitFails ==
  /\ pc = "walk" /\ ~AtLimit
  /\ Fault
  /\ \E e \in Upcoming : /\ ~TooDeep(e)
                         /\ silent' = silent \union {Event("lstat", e.node)}
                         /\ Descend(e)
  /\ UNCHANGED <<host, item, visited, limitHit, links, found, absents, records, errors, ret>>

ListDir ==
  /\ pc = "list"
  /\ pc' = "walk"
  /\ \E e \in Upcoming :
       IF IsDir(e.node)
       THEN /\ pending' = (pending \ {e})
                 \union {[node |-> m, dir |-> IsDir(m)] : m \in Inside(e.node)}
            /\ UNCHANGED <<errors, silent, faults>>
       ELSE pending' = pending \ {e} /\ ReportIfLoud(Event("dir", e.node))
  /\ UNCHANGED <<host, item, visited, limitHit, links, found, absents, records, ret>>

ListDirFails ==
  /\ pc = "list"
  /\ pc' = "walk"
  /\ \E e \in Upcoming :
       /\ pending' = pending \ {e}
       /\ IF Asked.loud THEN FailAndReport(Event("dir", e.node))
          ELSE Fault /\ silent' = silent \union {Event("dir", e.node)} /\ UNCHANGED errors
  /\ UNCHANGED <<host, item, visited, limitHit, links, found, absents, records, ret>>

EndWalk ==
  /\ pc = "walk" /\ pending = {}
  /\ IF limitHit THEN ReportIfLoud(Event("limit", Asked.root))
                 ELSE UNCHANGED <<errors, silent, faults>>
  /\ NextItem
  /\ UNCHANGED <<host, walk, links, found, absents, records, ret>>

\* collectPersistenceFiles names some files without looking at them.
AddPath ==
  /\ pc = "agenda" /\ ~Finished /\ Asked.kind = "path"
  /\ found' = Add(found, <<Asked.root, FALSE>>)
  /\ NextItem
  /\ UNCHANGED <<host, walk, links, absents, records, errors, silent, ret, faults>>

----------------------------------------------------------------------------
(* collectOpenFiles.                                                       *)

ListPIDs ==
  /\ pc = "agenda" /\ ~Finished /\ Asked.kind = "open"
  /\ pc' = "open" /\ links' = held
  /\ UNCHANGED <<host, item, walk, found, absents, records, errors, silent, ret, faults>>

PIDsUnlisted ==
  /\ pc = "agenda" /\ ~Finished /\ Asked.kind = "open"
  /\ FailAndReport(Event("proc", Asked.root))
  /\ pc' = "absent"
  /\ UNCHANGED <<host, item, walk, links, found, absents, records, ret>>

\* The link of a file that is no longer there, or no longer the same, shows
\* that in its text.  Of a descriptor that is gone the code may or may not be
\* told that it does not exist.
ReadLink ==
  /\ pc = "open"
  /\ \E d \in links :
       /\ links' = links \ {d}
       /\ \/ /\ d \in held
             /\ found' = Add(found, <<d[1], tree[d[1]].id # d[2]>>)
             /\ UNCHANGED <<errors, silent, faults>>
          \/ d \notin held /\ UNCHANGED <<found, errors, silent, faults>>
          \/ d \notin held /\ Report(Event("link", d[1])) /\ UNCHANGED found
          \/ FailAndReport(Event("link", d[1])) /\ UNCHANGED found
  /\ UNCHANGED <<host, pc, item, walk, absents, records, ret>>

OpenDone ==
  /\ pc = "open" /\ links = {}
  /\ NextItem
  /\ UNCHANGED <<host, walk, links, found, absents, records, errors, silent, ret, faults>>

\* The run's context: before and after the open files, before a loud walk.
Interrupt ==
  /\ pc = "agenda" /\ ~Finished
  /\ \/ Asked.kind = "open"
     \/ item > 1 /\ Agenda[item - 1].kind = "open"
     \/ Asked.kind = "walk" /\ Asked.loud
  /\ Return("err")
  /\ UNCHANGED <<host, item, walk, links, found, absents, records, errors, silent, faults>>

----------------------------------------------------------------------------
(* writeFile, once for every name, in any order.                           *)

Of(name) == IF name[2] THEN Nothing ELSE tree[name[1]]

BeginRecords ==
  /\ pc = "agenda" /\ Finished
  /\ pc' = "stat" /\ left' = found
  /\ UNCHANGED <<host, item, walk, links, found, absents, cur, entities, hashes, attrs, missing,
                 legacy, listing, errors, silent, ret, faults>>

\* Bug: a file that went away between the two looks is not flagged.
AbsentUnflagged(name) ==
  /\ entities' = [entities EXCEPT ![name].state = "absent"]
  /\ attrs'    = [attrs EXCEPT ![name].state = "absent"]
  /\ missing'  = missing

Absent(name) ==
  /\ entities' = [entities EXCEPT ![name].state = "absent"]
  /\ attrs'    = [attrs EXCEPT ![name].state = "absent"]
  /\ missing'  = missing \union {name}

StatFile ==
  /\ pc = "stat"
  /\ \E name \in left :
       LET f == Of(name) IN
       /\ left' = left \ {name}
       /\ IF f.kind = "none"
          THEN Absent(name) /\ UNCHANGED <<cur, pc>>
          ELSE /\ entities' = [entities EXCEPT ![name] =
                    [state |-> "exists", kind |-> f.kind, ver |-> f.ver, big |-> f.big]]
               /\ cur' = name
               /\ pc' = IF f.kind = "file" THEN "hash" ELSE "attrs"
               /\ UNCHANGED <<attrs, missing>>
  /\ UNCHANGED <<host, item, walk, links, found, absents, hashes, legacy, listing, errors, silent,
                 ret, faults>>

StatFails ==
  /\ pc = "stat"
  /\ \E name \in left :
       /\ left' = left \ {name}
       /\ FailAndReport([what |-> "stat", name |-> name])
       /\ Absent(name)
  /\ UNCHANGED <<host, pc, item, walk, links, found, absents, cur, hashes, legacy, listing, ret>>

\* hashFile opens the path again, and follows a link to what is not in the tree.
Readable(f) == f.kind = "file" /\ ~f.big
Digests(f)  == CASE Readable(f) -> {f.ver} [] f.kind = "link" -> {0} [] OTHER -> {}

\* writeHash: the size the first look saw decides whether the file is read.
HashFile ==
  /\ pc = "hash"
  /\ pc' = "attrs"
  /\ LET f == Of(cur) IN
     CASE entities[cur].big ->
            /\ hashes' = [hashes EXCEPT ![cur] = [state |-> "skipped", val |-> 0]]
            /\ UNCHANGED <<errors, silent, faults>>
       [] ~entities[cur].big /\ Digests(f) # {} ->
            /\ \E v \in Digests(f) : hashes' = [hashes EXCEPT ![cur] = [state |-> "ok", val |-> v]]
            /\ UNCHANGED <<errors, silent, faults>>
       [] OTHER ->
            /\ hashes' = [hashes EXCEPT ![cur] = [state |-> "error", val |-> 0]]
            /\ Report([what |-> "hash", name |-> cur])
  /\ UNCHANGED <<host, item, walk, links, found, absents, left, cur, entities, attrs, missing,
                 legacy, listing, ret>>

HashFails ==
  /\ pc = "hash" /\ ~entities[cur].big
  /\ pc' = "attrs"
  /\ hashes' = [hashes EXCEPT ![cur] = [state |-> "error", val |-> 0]]
  /\ FailAndReport([what |-> "hash", name |-> cur])
  /\ UNCHANGED <<host, item, walk, links, found, absents, left, cur, entities, attrs, missing,
                 legacy, listing, ret>>

\* Bug: the attributes take the hash of the content that is there by now.
WriteAttrsAgain ==
  /\ pc = "attrs"
  /\ pc' = "stat"
  /\ attrs' = [attrs EXCEPT ![cur] =
       IF entities[cur].kind # "file" THEN [state |-> "ok", val |-> 0]
       ELSE IF Readable(Of(cur)) THEN [state |-> "ok", val |-> Of(cur).ver] ELSE hashes[cur]]
  /\ UNCHANGED <<host, item, walk, links, found, absents, left, cur, entities, hashes, missing,
                 legacy, listing, errors, silent, ret, faults>>

\* writeFileAttributes: they take over what the hash record says.
WriteAttrs ==
  /\ pc = "attrs"
  /\ pc' = "stat"
  /\ attrs' = [attrs EXCEPT ![cur] =
       IF entities[cur].kind = "file" THEN hashes[cur] ELSE [state |-> "ok", val |-> 0]]
  /\ UNCHANGED <<host, item, walk, links, found, absents, left, cur, entities, hashes, missing,
                 legacy, listing, errors, silent, ret, faults>>

RecordsDone ==
  /\ pc = "stat" /\ left = {}
  /\ pc' = "legacy"
  /\ listing' = {m \in found : entities[m].kind = "file" /\ ~entities[m].big}
  /\ UNCHANGED <<host, item, walk, links, found, absents, left, cur, entities, hashes, attrs,
                 missing, legacy, errors, silent, ret, faults>>

----------------------------------------------------------------------------
(* writeLegacy reads the files a second time.                              *)

\* The records are sorted by path; a mark behind a path is never read.
First(m) == \A o \in listing : Position(m[1]) <= Position(o[1])

LegacyLine ==
  /\ pc = "legacy"
  /\ \E m \in listing :
       /\ First(m)
       /\ listing' = listing \ {m}
       /\ IF Digests(Of(m)) = {} THEN UNCHANGED legacy
          ELSE \E v \in Digests(Of(m)) : legacy' = [legacy EXCEPT ![m] = v]
  /\ UNCHANGED <<host, pc, item, walk, links, found, absents, left, cur, entities, hashes, attrs,
                 missing, errors, silent, ret, faults>>

LegacyFails ==
  /\ pc = "legacy"
  /\ Fault
  /\ \E m \in listing : /\ First(m) /\ listing' = listing \ {m}
                        /\ silent' = silent \union {[what |-> "legacy", name |-> m]}
  /\ UNCHANGED <<host, pc, item, walk, links, found, absents, left, cur, entities, hashes, attrs,
                 missing, legacy, errors, ret>>

WriteLegacy ==
  /\ pc = "legacy" /\ listing = {}
  /\ Return("ok")
  /\ UNCHANGED <<host, item, walk, links, found, absents, records, errors, silent, faults>>

\* Every write of a record is checked.
WriteFails ==
  /\ \/ pc \in {"absent", "hash", "attrs"}
     \/ pc = "stat"
     \/ pc = "legacy" /\ listing = {}
  /\ Fault
  /\ Return("err")
  /\ UNCHANGED <<host, item, walk, links, found, absents, records, errors, silent>>

----------------------------------------------------------------------------
Collect == \/ ReleaseUnknown \/ StartWalk \/ StartFails \/ WriteAbsent \/ PassOver \/ Visit
           \/ VisitFails \/ ListDir \/ ListDirFails \/ EndWalk \/ AddPath
           \/ ListPIDs \/ PIDsUnlisted \/ ReadLink \/ OpenDone \/ Interrupt
           \/ BeginRecords \/ StatFile \/ StatFails \/ HashFile \/ HashFails \/ WriteAttrs
           \/ RecordsDone \/ LegacyLine \/ LegacyFails \/ WriteLegacy \/ WriteFails

Next == Collect \/ (pc # "done" /\ HostStep)

Spec == Init /\ [][Next]_vars

----------------------------------------------------------------------------
(* Properties.                                                             *)

Noted == errors \union silent

\* Every variable stays in its range.
TypeOK ==
  /\ tree \in [Node -> [kind : {"none", "file", "dir", "link"}, id : 0 .. MaxChanges,
                        ver : 0 .. MaxChanges, big : BOOLEAN]]
  /\ held \subseteq Node \X {1} /\ links \subseteq Node \X {1}
  /\ changes \in 1 .. MaxChanges
  /\ pc \in {"agenda", "absent", "walk", "list", "open", "stat", "hash", "attrs", "legacy", "done"}
  /\ item \in 1 .. Len(Agenda) + 1
  /\ pending \subseteq [node : Node, dir : BOOLEAN]
  /\ visited \in 0 .. ScanLimit /\ limitHit \in BOOLEAN
  /\ found \subseteq Name /\ left \subseteq found /\ listing \subseteq found
  /\ missing \subseteq found /\ cur \in Name
  /\ entities \in [Name -> [state : {"none", "absent", "exists"}, ver : 0 .. MaxChanges,
                            kind : {"none", "file", "dir", "link"}, big : BOOLEAN]]
  /\ absents \subseteq DOMAIN Agenda
  /\ \A h \in {hashes, attrs} :
       h \in [Name -> [state : {"none", "absent", "skipped", "error", "ok"}, val : 0 .. MaxChanges]]
  /\ legacy \in [Name -> 0 .. MaxChanges]
  /\ Noted \subseteq [what : {"release", "root", "dir", "lstat", "skipped", "limit", "proc", "link",
                             "stat", "hash", "legacy"}, name : Name]
  /\ ret \in {"none", "ok", "err"}
  /\ faults \in 0 .. MaxFaults

\* A walk goes down to a path when it is not too deep below its root.
Covers(w, n) == /\ w.kind \in {"kernel", "walk"}
                /\ w.root \in Above[n]
                /\ Cardinality(Above[n]) - Cardinality(Above[w.root]) <= w.depth

\* A file that was there from the beginning, unchanged to the end, in
\* directories that stayed.
Untouched(n) == /\ tree[n].kind = "file" /\ tree[n].ver = 1
                /\ \A m \in Above[n] : tree[m].id = 1

\* Nothing missed without a trace (scanPath): a file that nobody touched and
\* that a walk covers has a record, or something was noted of that walk or of a
\* directory above the file.
StableFileReported ==
  ret = "ok" =>
    \A n \in Node, k \in DOMAIN Agenda :
      Untouched(n) /\ Covers(Agenda[k], n) /\ ~Excluded(n) =>
        \/ entities[<<n, FALSE>>].state = "exists" /\ entities[<<n, FALSE>>].ver = 1
        \/ \E e \in Noted :
             \/ e.name[1] \in Above[n]
             \/ e.what = "limit" /\ e.name[1] = Agenda[k].root

\* Every path of the map has exactly one outcome (Collect): a record of a file
\* or a record of its absence with attributes and a flag that agree.
DiscoveredAccounted ==
  ret = "ok" =>
    \A m \in Name :
      /\ entities[m].state # "none" <=> m \in found
      /\ entities[m].state = "absent" <=> m \in missing
      /\ entities[m].state = "absent" <=> attrs[m].state = "absent"
      /\ hashes[m].state # "none" <=> entities[m].kind = "file"

\* Two records and the legacy list show one file (writeHash,
\* writeFileAttributes, writeLegacy): the attributes repeat the hash record, and
\* what is hashed later is never older than what was seen before, and of a file
\* that did not change all three show the same content, unless reading it failed.
HashesAgree ==
  \A m \in found :
    /\ entities[m].kind = "file" /\ attrs[m].state # "none" => attrs[m] = hashes[m]
    /\ hashes[m].val # 0 => hashes[m].val >= entities[m].ver
    /\ legacy[m] # 0 => legacy[m] >= entities[m].ver /\ legacy[m] >= hashes[m].val
    /\ ret = "ok" /\ ~m[2] /\ Untouched(m[1]) /\ ~tree[m[1]].big /\ (\A e \in Noted : e.name # m) =>
         hashes[m].val = 1 /\ legacy[m] = 1
=============================================================================
