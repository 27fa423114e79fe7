------------------------ MODULE BrowserCopiesProofs ------------------------
(***************************************************************************)
(* Proofs about BrowserCopies for any profiles, databases and bounds:      *)
(* however the browsers commit, checkpoint and remove between two copies,  *)
(* rows are those of the copies in the package and a state that was        *)
(* committed, and what nobody disturbed is reported.                       *)
(***************************************************************************)
EXTENDS BrowserCopies, SequenceTheorems, TLAPS

----------------------------------------------------------------------------
(* The inductive invariants.                                               *)

Fetching == pc \in {"copy", "read"}
Parsing  == pc \in {"stage", "rows"}
Phase    == {"discover", "absent", "profile", "copy", "read", "stage", "rows", "done"}

\* What the collector copies is a file of a profile it found; only a database
\* with a journal has its second file looked for.
TypeInv ==
  /\ TypeOK
  /\ pc \in Phase
  /\ spec \in Nat \ {0}
  /\ Fetching \/ Parsing => at \in found
  /\ Fetching /\ suffix = "-wal" => spec \in DOMAIN Specs(at) /\ Journalled(Database)
  /\ pc = "read" => spec \in DOMAIN Specs(at) /\ Database \in Known

\* The last commit of a database.
Latest(d) == IF db[d].wal # 0 THEN db[d].wal ELSE db[d].main

\* A journal belongs to the database it lies beside, and what is not yet in the
\* database is not older than the beginning.
HostInv ==
  \A d \in Known :
    /\ db[d].main <= changes /\ db[d].wal <= changes
    /\ db[d].wal = 0 <=> db[d].base = 0
    /\ db[d].wal # 0 => db[d].main # 0 /\ db[d].base = db[d].main /\ db[d].wal >= 2
    /\ ~Journalled(d) => db[d].wal = 0
    /\ db[d].main # 0 /\ db[d].point = 0 => Latest(d) >= 2

\* What is noted, and what it says nothing about.
Noted     == errors \union silent
Clean(d)  == db[d].main # 0 /\ db[d].point = 0 /\ \A e \in Noted : e[2] # d
Spared(d) == db[d].main # 0 /\ \A e \in Noted : e[2] # <<d[1], "profile">>

\* Where the collector is with a database.
Ahead(d)     == \/ pc \in {"discover", "absent"}
                \/ pc = "profile" /\ at <= d[1]
                \/ (Fetching \/ Parsing) /\ at < d[1]
                \/ Fetching /\ at = d[1] /\ (spec < Place(d) \/ (spec = Place(d) /\ suffix = "main"))
AtJournal(d) == Fetching /\ at = d[1] /\ spec = Place(d) /\ suffix = "-wal"
Fetched(d)   == Fetching /\ at = d[1] /\ Place(d) < spec
Left(d)      == pc \in {"profile", "copy", "read", "stage", "rows"} /\ d[1] < at
Behind(d)    == d[1] \in found /\ (Fetched(d) \/ (Parsing /\ at = d[1]) \/ Left(d))

\* The copies of a database whose name is its own: none before its turn, then
\* the main file as it still is, then what was the last commit at some time.
CopiesInv ==
  \A d \in Known : Alone(d) =>
    /\ Ahead(d) => \A s \in Suffix : kept[<<RawName(d), s>>] = Missing
    /\ AtJournal(d) => /\ kept[<<RawName(d), "-wal">>] = Missing
                       /\ Clean(d) => kept[<<RawName(d), "main">>] = [ver |-> db[d].main, base |-> 0]
    /\ Behind(d) /\ Clean(d) => Content(Kept(d)) \in 2 .. Latest(d)

\* What was copied, and what lies in the temporary directory.
Mine(S) == {<<d, s>> : d \in {e \in Known : e[1] = at}, s \in S}
StagedInv ==
  /\ Fetching \/ Parsing => copied \subseteq Mine(Suffix)
  /\ Parsing => /\ copied \subseteq Mine({"main"})
                /\ at \in DOMAIN profiles /\ copied \subseteq profiles[at]
  /\ pc = "rows" =>
       /\ copied # {} /\ staged = Kept(Source)
       /\ tables \in Seq({"history", "downloads", "cookies", "bookmarks"})
       /\ \A k \in 1 .. Len(tables) :
            \E j \in 1 .. Len(Tables(Source[2])) : Tables(Source[2])[j] = tables[k]

\* Rows are of databases that were copied before.
RowsInv ==
  /\ listing \in [Listings -> 0 .. MaxChanges]
  /\ pc \in {"discover", "absent"} => rows = {}
  /\ pc # "done" => \A r \in rows : r.of[1] < at \/ (r.of[1] = at /\ Parsing)
  /\ \A r \in rows : r.table = "history" => r.of[2] \in {"History", "places.sqlite"}
  /\ RowsComeFromTheirCopies
  /\ RowsWereCommitted

\* A profile is found, its databases are copied and listed, and their tables
\* are written one after the other.
Row(d, k)  == [of |-> d, table |-> Tables(d[2])[k], ver |-> Content(Kept(d))]
AllRows(d) == \A k \in 1 .. Len(Tables(d[2])) : Row(d, k) \in rows
FoundInv ==
  ret # "err" => \A d \in Known : Spared(d) => (pc = "discover" /\ at <= d[1]) \/ d[1] \in found
Pursued(d) ==
  /\ AtJournal(d) \/ Fetched(d) => <<d, "main">> \in copied
  /\ Left(d) \/ (Parsing /\ at = d[1]) => d[1] \in DOMAIN profiles /\ <<d, "main">> \in profiles[d[1]]
  /\ Parsing /\ at = d[1] => <<d, "main">> \in copied \/ AllRows(d)
  /\ pc = "rows" /\ d = Source =>
       \A k \in 1 .. Len(Tables(d[2])) :
         Row(d, k) \in rows \/ \E j \in 1 .. Len(tables) : tables[j] = Tables(d[2])[k]
  /\ Left(d) => AllRows(d)
ReportInv ==
  /\ pc = "absent" => found = {}
  /\ FoundInv
  /\ \A d \in Known : Alone(d) /\ Clean(d) /\ d[1] \in found => Pursued(d)
  /\ UndisturbedReported

BrowserInv == TypeInv /\ HostInv /\ CopiesInv /\ StagedInv /\ RowsInv /\ ReportInv

----------------------------------------------------------------------------
(* Names, places and contents.                                             *)

\* The databases of a profile, in the order of artifactSpecs, are two or four
\* different files.
LEMMA SpecsShape ==
  ASSUME NEW p
  PROVE  /\ DOMAIN Specs(p) = 1 .. 2 \/ DOMAIN Specs(p) = 1 .. 4
         /\ \A k, l \in DOMAIN Specs(p) : Specs(p)[k] = Specs(p)[l] => k = l
<1>1. CASE Profile[p].browser = "firefox"
  <2>1. Specs(p) = <<"places.sqlite", "cookies.sqlite">>
    BY <1>1 DEF Specs
  <2>. QED
    BY <2>1
<1>2. CASE Profile[p].browser # "firefox"
  <2>1. Specs(p) = <<"History", "Cookies", "Network/Cookies", "Bookmarks">>
    BY <1>2 DEF Specs
  <2>. QED
    BY <2>1
<1>. QED
  BY <1>1, <1>2

\* A database has its place among those of its profile.
LEMMA PlaceOf ==
  ASSUME NEW d \in Known
  PROVE  /\ d[1] \in 1 .. Len(Profile) /\ d = <<d[1], d[2]>>
         /\ Place(d) \in DOMAIN Specs(d[1]) /\ Specs(d[1])[Place(d)] = d[2]
         /\ \A k \in DOMAIN Specs(d[1]) : Specs(d[1])[k] = d[2] => k = Place(d)
<1>1. PICK p \in DOMAIN Profile : \E k \in DOMAIN Specs(p) : d = <<p, Specs(p)[k]>>
  BY KnownAssumption
<1>2. PICK k \in DOMAIN Specs(p) : d = <<p, Specs(p)[k]>>
  BY <1>1
<1>3. d[1] = p /\ d[2] = Specs(p)[k]
  BY <1>2
<1>4. DOMAIN Profile = 1 .. Len(Profile)
  BY ProfileAssumption
<1>5. Place(d) \in DOMAIN Specs(d[1]) /\ Specs(d[1])[Place(d)] = d[2]
  BY <1>3 DEF Place
<1>. QED
  BY <1>1, <1>2, <1>3, <1>4, <1>5, SpecsShape

\* Two databases of a profile have two places.
LEMMA PlacesDiffer ==
  ASSUME NEW d \in Known, NEW e \in Known, d[1] = e[1], Place(d) = Place(e)
  PROVE  d = e
BY PlaceOf

\* The database being copied is the one whose turn it is.
LEMMA AtDatabase ==
  ASSUME NEW d \in Known, spec \in DOMAIN Specs(at)
  PROVE  Database = d <=> at = d[1] /\ spec = Place(d)
<1>1. Database = <<at, Specs(at)[spec]>>
  BY DEF Database
<1>2. ASSUME Database = d PROVE at = d[1] /\ spec = Place(d)
  <2>1. at = d[1] /\ Specs(d[1])[spec] = d[2]
    BY <1>1, <1>2
  <2>. QED
    BY <2>1, PlaceOf
<1>3. ASSUME at = d[1], spec = Place(d) PROVE Database = d
  BY <1>1, <1>3, PlaceOf
<1>. QED
  BY <1>2, <1>3

\* A file whose name is its own shares its copies with no other.
LEMMA OwnCopies ==
  ASSUME NEW d \in Known, NEW e \in Known, Alone(d), RawName(e) = RawName(d)
  PROVE  e = d
BY DEF Alone, RawName

\* The copies are where they are kept.
LEMMA ShelfOf ==
  ASSUME NEW d \in Known, NEW s \in Suffix
  PROVE  <<RawName(d), s>> \in Shelf
BY DEF Shelf

\* What was copied of a database depends on its own copies only.
LEMMA KeptSame ==
  ASSUME NEW d, \A s \in Suffix : kept'[<<RawName(d), s>>] = kept[<<RawName(d), s>>]
  PROVE  Kept(d)' = Kept(d) /\ Content(Kept(d))' = Content(Kept(d))
<1>1. Kept(d)' = Kept(d)
  BY DEF Kept
<1>. QED
  BY <1>1 DEF Content

\* There are at most four places.
LEMMA PlaceRange ==
  ASSUME NEW d \in Known
  PROVE  Place(d) \in 1 .. 4 /\ Place(d) \in Nat
<1>1. Place(d) \in DOMAIN Specs(d[1])
  BY PlaceOf
<1>2. DOMAIN Specs(d[1]) = 1 .. 2 \/ DOMAIN Specs(d[1]) = 1 .. 4
  BY SpecsShape
<1>. QED
  BY <1>1, <1>2

\* A copy is of a database of the profile.
LEMMA CopyOf ==
  ASSUME NEW S, NEW c \in Mine(S)
  PROVE  c[1] \in Known /\ c[1][1] = at /\ c[2] \in S /\ c = <<c[1], c[2]>>
BY DEF Mine

\* A nonempty set of up to four places has a first one.
LEMMA FirstOfFour ==
  ASSUME NEW P, P \subseteq 1 .. 4, P # {}
  PROVE  \E k \in P : \A l \in P : k <= l
<1>1. CASE 1 \in P
  BY <1>1
<1>2. CASE 1 \notin P /\ 2 \in P
  <2>1. \A l \in P : 2 <= l
    BY <1>2
  <2>. QED
    BY <1>2, <2>1
<1>3. CASE 1 \notin P /\ 2 \notin P /\ 3 \in P
  <2>1. \A l \in P : 3 <= l
    BY <1>3
  <2>. QED
    BY <1>3, <2>1
<1>4. CASE 1 \notin P /\ 2 \notin P /\ 3 \notin P
  <2>1. \A l \in P : l = 4
    BY <1>4
  <2>2. PICK k \in P : TRUE
    OBVIOUS
  <2>. QED
    BY <2>1, <2>2
<1>. QED
  BY <1>1, <1>2, <1>3, <1>4

\* The database that is parsed is one that was copied.
LEMMA SourceCopied ==
  ASSUME copied \subseteq Mine({"main"}), copied # {}
  PROVE  Source \in Known /\ <<Source, "main">> \in copied /\ Source[1] = at
<1>. DEFINE D == {d \in Known : <<d, "main">> \in copied}
            P == {Place(d) : d \in D}
<1>1. PICK c \in copied : TRUE
  OBVIOUS
<1>2. c[1] \in Known /\ c[2] \in {"main"} /\ c = <<c[1], c[2]>>
  BY <1>1, CopyOf
<1>3. c[1] \in D
  BY <1>1, <1>2
<1>4. \A d \in D : Place(d) \in 1 .. 4
  BY PlaceRange
<1>5. P \subseteq 1 .. 4 /\ P # {}
  BY <1>3, <1>4
<1>6. PICK k \in P : \A l \in P : k <= l
  <2>. HIDE DEF P
  <2>. QED
    BY <1>5, FirstOfFour
<1>7. PICK d \in D : Place(d) = k
  BY <1>6
<1>8. /\ d \in Known /\ <<d, "main">> \in copied
      /\ \A o \in Known : <<o, "main">> \in copied => Place(d) <= Place(o)
  BY <1>6, <1>7
<1>9. Source \in Known /\ <<Source, "main">> \in copied
  <2>. HIDE DEF D, P
  <2>. QED
    BY <1>8 DEF Source
<1>10. <<Source, "main">>[1] = Source
  OBVIOUS
<1>. QED
  BY <1>9, <1>10, CopyOf

----------------------------------------------------------------------------
(* Types.                                                                  *)

Contents == [ver : 0 .. MaxChanges, base : 0 .. MaxChanges]
Base     == [main : 0 .. MaxChanges, wal : 0 .. MaxChanges, base : 0 .. MaxChanges,
             point : 0 .. MaxChanges]
HostType  == db \in [Known -> Base] /\ changes \in 2 .. MaxChanges
PlaceType ==
  /\ ret \in {"none", "ok", "err"} /\ (pc = "done" <=> ret # "none")
  /\ at \in 1 .. Len(Profile) + 1 /\ found \subseteq DOMAIN Profile /\ suffix \in Suffix
  /\ pc \in Phase /\ spec \in Nat \ {0}
  /\ Fetching \/ Parsing => at \in found
  /\ Fetching /\ suffix = "-wal" => spec \in DOMAIN Specs(at) /\ Journalled(Database)
  /\ pc = "read" => spec \in DOMAIN Specs(at) /\ Database \in Known
KeptType  == kept \in [Shelf -> Contents] /\ faults \in 0 .. MaxFaults
Cleared   == pc \notin {"rows", "done"} => staged = [s \in Suffix |-> Missing]
RowType   == \A r \in rows : /\ r.of \in Known /\ r.of[1] \in DOMAIN profiles
                             /\ <<r.of, "main">> \in profiles[r.of[1]]

\* The type invariant, part by part.
LEMMA TypeParts == TypeInv <=> HostType /\ PlaceType /\ KeptType /\ Cleared /\ RowType
BY DEF TypeInv, TypeOK, HostType, Base, PlaceType, KeptType, Contents, Cleared, RowType

\* What a file of a database contains is in range.
LEMMA FileType ==
  ASSUME HostType, NEW d \in Known, NEW s
  PROVE  File(d, s) \in Contents
<1>1. db[d] \in Base
  BY DEF HostType
<1>2. db[d].main \in 0 .. MaxChanges /\ db[d].wal \in 0 .. MaxChanges /\ db[d].base \in 0 .. MaxChanges
  BY <1>1 DEF Base
<1>3. 0 \in 0 .. MaxChanges
  BY BrowserBoundAssumption
<1>. QED
  BY <1>2, <1>3 DEF File, Contents

\* What the browsers do to a database: a commit adds to the journal, or to the
\* bookmarks themselves; a checkpoint empties the journal; a removal leaves
\* nothing.
LEMMA HostShape ==
  ASSUME HostType, HostStep
  PROVE  /\ changes' = changes + 1 /\ changes' \in 3 .. MaxChanges
         /\ UNCHANGED <<pc, place, parse, out, noted, ret>>
         /\ \E d \in Known : \E x \in Base :
              /\ db' = [db EXCEPT ![d] = x]
              /\ \/ /\ Journalled(d) /\ db[d].main # 0 /\ x.main = db[d].main /\ x.point = db[d].point
                    /\ x.wal = changes' /\ x.base = db[d].main
                 \/ /\ ~Journalled(d) /\ db[d].main # 0 /\ x.main = changes' /\ x.point = db[d].point
                    /\ x.wal = db[d].wal /\ x.base = db[d].base
                 \/ /\ db[d].wal # 0 /\ x.main = db[d].wal /\ x.wal = 0 /\ x.base = 0
                    /\ x.point = changes'
                 \/ x.main = 0 /\ x.wal = 0 /\ x.base = 0 /\ x.point = 0
<1>1. /\ changes' = changes + 1 /\ changes' \in 3 .. MaxChanges
      /\ UNCHANGED <<pc, place, parse, out, noted, ret>>
  BY BrowserBoundAssumption DEF HostStep, HostType
<1>2. PICK d \in Known : Commit(d) \/ Checkpoint(d) \/ Remove(d)
  BY ProfileAssumption DEF HostStep
<1>3. db[d] \in Base /\ 0 \in 0 .. MaxChanges /\ changes' \in 0 .. MaxChanges
  BY <1>1, BrowserBoundAssumption DEF HostType
<1>4. /\ db[d].main \in 0 .. MaxChanges /\ db[d].wal \in 0 .. MaxChanges
      /\ db[d].base \in 0 .. MaxChanges /\ db[d].point \in 0 .. MaxChanges
  BY <1>3 DEF Base
<1>5. CASE Commit(d) /\ Journalled(d)
  <2>. DEFINE x == [db[d] EXCEPT !.wal = changes', !.base = db[d].main]
  <2>1. db' = [db EXCEPT ![d] = x] /\ db[d].main # 0
    BY <1>5 DEF Commit
  <2>2. /\ x \in Base /\ x.main = db[d].main /\ x.point = db[d].point /\ x.wal = changes'
        /\ x.base = db[d].main
    BY <1>3, <1>4 DEF Base
  <2>. HIDE DEF x
  <2>. QED
    BY <1>1, <1>5, <2>1, <2>2
<1>6. CASE Commit(d) /\ ~Journalled(d)
  <2>. DEFINE x == [db[d] EXCEPT !.main = changes']
  <2>1. db' = [db EXCEPT ![d] = x] /\ db[d].main # 0
    BY <1>6 DEF Commit
  <2>2. /\ x \in Base /\ x.main = changes' /\ x.point = db[d].point /\ x.wal = db[d].wal
        /\ x.base = db[d].base
    BY <1>3, <1>4 DEF Base
  <2>. HIDE DEF x
  <2>. QED
    BY <1>1, <1>6, <2>1, <2>2
<1>7. CASE Checkpoint(d)
  <2>. DEFINE x == [main |-> db[d].wal, wal |-> 0, base |-> 0, point |-> changes']
  <2>1. db' = [db EXCEPT ![d] = x] /\ db[d].wal # 0
    BY <1>7 DEF Checkpoint
  <2>2. x \in Base /\ x.main = db[d].wal /\ x.wal = 0 /\ x.base = 0 /\ x.point = changes'
    BY <1>3, <1>4 DEF Base
  <2>. HIDE DEF x
  <2>. QED
    BY <1>1, <2>1, <2>2
<1>8. CASE Remove(d)
  <2>1. db' = [db EXCEPT ![d] = Gone]
    BY <1>8 DEF Remove
  <2>2. Gone \in Base /\ Gone.main = 0 /\ Gone.wal = 0 /\ Gone.base = 0 /\ Gone.point = 0
    BY <1>3 DEF Gone, Base
  <2>. QED
    BY <1>1, <2>1, <2>2
<1>. QED
  BY <1>2, <1>5, <1>6, <1>7, <1>8

\* The collector does nothing to the host, and what it notes it never takes back.
LEMMA CollectShape ==
  ASSUME Collect
  PROVE  UNCHANGED host /\ errors \subseteq errors' /\ silent \subseteq silent'
<1>1. CASE Discover \/ EndDiscover \/ WriteAbsents \/ BeginProfile \/ Interrupt \/ End \/ Skip \/ SeeFile
  BY <1>1 DEF Discover, EndDiscover, WriteAbsents, BeginProfile, Interrupt, End, Skip, SeeFile,
              Fault, Hush, host, noted
<1>2. CASE ReadFile
  BY <1>2 DEF ReadFile, Report, Fault, Hush, host, noted
<1>3. CASE CopyFails \/ StageFails \/ TableFails
  BY <1>3 DEF CopyFails, StageFails, TableFails, FailAndReport, Report, Fault, Hush, host, noted
<1>4. CASE WriteProfile \/ StageFamily \/ EndRows \/ EndProfile \/ WriteFails
  BY <1>4 DEF WriteProfile, StageFamily, EndRows, EndProfile, WriteFails, Fault, host, noted
<1>5. CASE EmitHistory \/ EmitDownloads \/ EmitCookies \/ EmitBookmarks
  BY <1>5 DEF EmitHistory, EmitDownloads, EmitCookies, EmitBookmarks, Emit, host, noted
<1>. QED
  BY <1>1, <1>2, <1>3, <1>4, <1>5 DEF Collect

\* The host stays in range, and its journals beside their databases.
LEMMA HostTypeStep ==
  ASSUME HostType, Next PROVE HostType'
<1>1. CASE HostStep
  <2>1. PICK d \in Known, x \in Base : db' = [db EXCEPT ![d] = x]
    BY <1>1, HostShape
  <2>2. changes' \in 2 .. MaxChanges
    BY <1>1, HostShape, BrowserBoundAssumption
  <2>. QED
    BY <2>1, <2>2 DEF HostType
<1>2. CASE Collect
  BY <1>2, CollectShape DEF HostType, host
<1>. QED
  BY <1>1, <1>2 DEF Next

LEMMA HostInvStep ==
  ASSUME HostType, HostInv, Next PROVE HostInv'
<1>1. CASE HostStep
  <2>1. /\ changes' = changes + 1 /\ changes' \in 3 .. MaxChanges /\ changes \in 2 .. MaxChanges
        /\ \A e \in Known : db[e] \in Base
    BY <1>1, HostShape DEF HostType
  <2>2. PICK d \in Known, x \in Base :
          /\ db' = [db EXCEPT ![d] = x]
          /\ \/ /\ Journalled(d) /\ db[d].main # 0 /\ x.main = db[d].main /\ x.point = db[d].point
                /\ x.wal = changes' /\ x.base = db[d].main
             \/ /\ ~Journalled(d) /\ db[d].main # 0 /\ x.main = changes' /\ x.point = db[d].point
                /\ x.wal = db[d].wal /\ x.base = db[d].base
             \/ /\ db[d].wal # 0 /\ x.main = db[d].wal /\ x.wal = 0 /\ x.base = 0
                /\ x.point = changes'
             \/ x.main = 0 /\ x.wal = 0 /\ x.base = 0 /\ x.point = 0
    BY <1>1, HostShape
  <2>3. db'[d] = x /\ \A e \in Known \ {d} : db'[e] = db[e]
    BY <2>2 DEF HostType
  <2>4. /\ x.main <= changes' /\ x.wal <= changes' /\ (x.wal = 0 <=> x.base = 0)
        /\ x.wal # 0 => x.main # 0 /\ x.base = x.main /\ x.wal >= 2
        /\ ~Journalled(d) => x.wal = 0
        /\ x.main # 0 /\ x.point = 0 => (IF x.wal # 0 THEN x.wal ELSE x.main) >= 2
    <3>1. /\ db[d].main \in 0 .. MaxChanges /\ db[d].wal \in 0 .. MaxChanges
          /\ db[d].base \in 0 .. MaxChanges /\ db[d].point \in 0 .. MaxChanges
      BY <2>1 DEF Base
    <3>2. /\ db[d].main <= changes /\ db[d].wal <= changes
          /\ db[d].wal = 0 <=> db[d].base = 0
          /\ db[d].wal # 0 => db[d].main # 0 /\ db[d].base = db[d].main /\ db[d].wal >= 2
          /\ ~Journalled(d) => db[d].wal = 0
      BY DEF HostInv
    <3>. QED
      BY <2>1, <2>2, <3>1, <3>2
  <2>5. \A e \in Known \ {d} :
          /\ db'[e].main <= changes' /\ db'[e].wal <= changes'
          /\ db'[e].wal = 0 <=> db'[e].base = 0
          /\ db'[e].wal # 0 => db'[e].main # 0 /\ db'[e].base = db'[e].main /\ db'[e].wal >= 2
          /\ ~Journalled(e) => db'[e].wal = 0
          /\ db'[e].main # 0 /\ db'[e].point = 0 =>
               (IF db'[e].wal # 0 THEN db'[e].wal ELSE db'[e].main) >= 2
    <3>. TAKE e \in Known \ {d}
    <3>1. db'[e] = db[e] /\ db[e].main \in Nat /\ db[e].wal \in Nat
      BY <2>1, <2>3 DEF Base
    <3>. QED
      BY <2>1, <3>1 DEF HostInv, Latest
  <2>. QED
    BY <2>3, <2>4, <2>5 DEF HostInv, Latest, Journalled
<1>2. CASE Collect
  BY <1>2, CollectShape DEF HostInv, Latest, host
<1>. QED
  BY <1>1, <1>2 DEF Next

----------------------------------------------------------------------------
(* Places.                                                                 *)

\* The next file to copy is one of the same database, or of the next.
LEMMA NextTurn ==
  ASSUME PlaceType, Fetching, spec \in DOMAIN Specs(at), NextDatabase \/ Sidecars,
         UNCHANGED <<at, found, ret>>, pc' = "copy"
  PROVE  PlaceType'
<1>1. pc # "done" /\ ret = "none"
  BY DEF PlaceType, Fetching
<1>2. CASE NextDatabase
  <2>1. spec' = spec + 1 /\ suffix' = "main" /\ spec \in Nat \ {0} /\ at \in found
    BY <1>2 DEF NextDatabase, PlaceType
  <2>. QED
    <3>1. spec' \in Nat \ {0} /\ suffix' \in Suffix /\ suffix' # "-wal"
      BY <2>1 DEF Suffix
    <3>2. pc' \in Phase /\ (pc' = "done" <=> ret' # "none")
      BY <1>1 DEF Phase
    <3>3. (Fetching \/ Parsing)' => at' \in found'
      BY <2>1
    <3>. QED
      BY <1>1, <3>1, <3>2, <3>3 DEF PlaceType, Fetching
<1>3. CASE ~NextDatabase
  <2>1. suffix' = "-wal" /\ spec' = spec /\ Journalled(Database)
    BY <1>3 DEF Sidecars
  <2>2. Database' = Database
    BY <2>1 DEF Database
  <2>3. Journalled(Database)'
    BY <2>1, <2>2 DEF Journalled
  <2>. QED
    BY <1>1, <2>1, <2>3 DEF PlaceType, Fetching, Parsing, Phase, Suffix
<1>. QED
  BY <1>2, <1>3

\* At the end, the place is of no matter.
LEMMA PlaceEnds ==
  ASSUME PlaceType, pc # "done", pc' = "done", ret' \in {"ok", "err"}, UNCHANGED place
  PROVE  PlaceType'
BY DEF PlaceType, Phase, place, Fetching, Parsing

LEMMA PlaceStep ==
  ASSUME PlaceType, Next PROVE PlaceType'
<1>1. CASE HostStep
  <2>1. UNCHANGED <<pc, at, found, spec, suffix, ret>>
    BY <1>1 DEF HostStep, place
  <2>2. Database' = Database
    BY <2>1 DEF Database
  <2>. QED
    BY <2>1, <2>2 DEF PlaceType, Fetching, Parsing, Journalled
<1>2. CASE Discover
  <2>1. UNCHANGED <<pc, spec, suffix, ret>> /\ pc = "discover"
    BY <1>2 DEF Discover
  <2>2. at' \in 1 .. Len(Profile) + 1 /\ found' \subseteq DOMAIN Profile
    <3>1. DOMAIN Profile = 1 .. Len(Profile) /\ Len(Profile) \in Nat
      BY ProfileAssumption
    <3>. QED
      BY <1>2, <3>1 DEF Discover, PlaceType
  <2>. QED
    BY <2>1, <2>2 DEF PlaceType, Fetching, Parsing
<1>3. CASE EndDiscover
  <2>1. Len(Profile) \in Nat
    BY ProfileAssumption
  <2>. QED
    BY <1>3, <2>1 DEF EndDiscover, PlaceType, Fetching, Parsing, Phase
<1>4. CASE WriteAbsents \/ Interrupt \/ End \/ WriteFails
  BY <1>4, PlaceEnds DEF WriteAbsents, Interrupt, End, WriteFails, Return
<1>5. CASE BeginProfile
  <2>1. pc = "profile" /\ ret = "none" /\ ret' = ret /\ found' = found
    BY <1>5 DEF BeginProfile, PlaceType
  <2>2. CASE at \in found
    <3>1. pc' = "copy" /\ spec' = 1 /\ suffix' = "main" /\ at' = at
      BY <1>5, <2>2 DEF BeginProfile
    <3>. QED
      BY <2>1, <2>2, <3>1 DEF PlaceType, Fetching, Parsing, Phase, Suffix
  <2>3. CASE at \notin found
    <3>1. at' = at + 1 /\ at <= Len(Profile) /\ UNCHANGED <<pc, spec, suffix>>
      BY <1>5, <2>3 DEF BeginProfile
    <3>2. at' \in 1 .. Len(Profile) + 1
      BY <3>1, ProfileAssumption DEF PlaceType
    <3>. QED
      BY <2>1, <3>1, <3>2 DEF PlaceType, Fetching, Parsing
  <2>. QED
    BY <2>2, <2>3
<1>6. CASE Skip
  <2>1. pc' = "copy" /\ UNCHANGED <<at, found, ret>> /\ Fetching /\ spec \in DOMAIN Specs(at)
    BY <1>6 DEF Skip, Copying, Fetching
  <2>. QED
    BY <1>6, <2>1, NextTurn DEF Skip
<1>7. CASE SeeFile
  <2>1. Database' = Database /\ Database \in Known /\ spec \in DOMAIN Specs(at)
    BY <1>7 DEF SeeFile, place, Database, IsThere, Copying
  <2>2. pc = "copy" /\ pc' = "read" /\ UNCHANGED <<at, found, spec, suffix, ret>>
    BY <1>7 DEF SeeFile, place, Copying
  <2>3. suffix = "-wal" => Journalled(Database)'
    BY <2>1, <2>2 DEF Journalled, PlaceType, Fetching
  <2>. QED
    BY <2>1, <2>2, <2>3 DEF PlaceType, Phase, Fetching, Parsing
<1>8. CASE ReadFile \/ CopyFails
  <2>1. pc' = "copy" /\ UNCHANGED <<at, found, ret>> /\ Fetching /\ spec \in DOMAIN Specs(at)
    BY <1>8 DEF ReadFile, CopyFails, Fetching, PlaceType
  <2>2. NextDatabase \/ Sidecars
    BY <1>8 DEF ReadFile, CopyFails, Lost
  <2>. QED
    BY <2>1, <2>2, NextTurn
<1>9. CASE WriteProfile \/ StageFamily \/ EndRows
  <2>1. /\ UNCHANGED <<at, found, spec, suffix, ret>> /\ at \in found /\ pc # "done"
        /\ pc' \in {"stage", "rows"}
    BY <1>9 DEF WriteProfile, StageFamily, EndRows, place, PlaceType, Fetching, Parsing
  <2>. QED
    BY <2>1 DEF PlaceType, Fetching, Parsing, Phase
<1>10. CASE StageFails \/ TableFails
  <2>1. UNCHANGED <<pc, at, found, spec, suffix, ret>> /\ pc \in {"stage", "rows"}
    BY <1>10 DEF StageFails, TableFails, place
  <2>. QED
    BY <2>1 DEF PlaceType, Fetching, Parsing
<1>11. CASE EmitHistory \/ EmitDownloads \/ EmitCookies \/ EmitBookmarks
  <2>1. UNCHANGED <<pc, at, found, spec, suffix, ret>> /\ pc = "rows"
    BY <1>11 DEF EmitHistory, EmitDownloads, EmitCookies, EmitBookmarks, Emit, place
  <2>. QED
    BY <2>1 DEF PlaceType, Fetching, Parsing
<1>12. CASE EndProfile
  <2>1. pc = "stage" /\ pc' = "profile" /\ at' = at + 1 /\ UNCHANGED <<found, spec, suffix, ret>>
    BY <1>12 DEF EndProfile
  <2>2. at' \in 1 .. Len(Profile) + 1
    <3>1. at \in DOMAIN Profile /\ DOMAIN Profile = 1 .. Len(Profile) /\ Len(Profile) \in Nat
      BY <2>1, ProfileAssumption DEF PlaceType, Parsing
    <3>. QED
      BY <2>1, <3>1
  <2>. QED
    BY <2>1, <2>2 DEF PlaceType, Fetching, Parsing, Phase
<1>. QED
  BY <1>1, <1>2, <1>3, <1>4, <1>5, <1>6, <1>7, <1>8, <1>9, <1>10, <1>11, <1>12 DEF Next, Collect

----------------------------------------------------------------------------
(* Copies.                                                                 *)

\* The package changes where a file was read, and there only by the file that
\* is being copied.
LEMMA KeptShape ==
  ASSUME Next
  PROVE  \/ kept' = kept
         \/ /\ ReadFile \/ CopyFails
            /\ IsThere(Database, suffix)
            /\ kept' = [kept EXCEPT ![<<RawName(Database), suffix>>] = File(Database, suffix)]
<1>1. CASE HostStep \/ Discover \/ EndDiscover \/ WriteAbsents \/ BeginProfile \/ Interrupt \/ End
  BY <1>1 DEF HostStep, Discover, EndDiscover, WriteAbsents, BeginProfile, Interrupt, End, out
<1>2. CASE Skip \/ SeeFile \/ WriteProfile \/ StageFamily \/ StageFails \/ TableFails
  BY <1>2 DEF Skip, SeeFile, WriteProfile, StageFamily, StageFails, TableFails, out
<1>3. CASE EmitHistory \/ EmitDownloads \/ EmitCookies \/ EmitBookmarks
  BY <1>3 DEF EmitHistory, EmitDownloads, EmitCookies, EmitBookmarks, Emit
<1>4. CASE EndRows \/ EndProfile \/ WriteFails
  BY <1>4 DEF EndRows, EndProfile, WriteFails, out
<1>5. CASE ReadFile
  BY <1>5 DEF ReadFile
<1>6. CASE CopyFails
  BY <1>6 DEF CopyFails
<1>. QED
  BY <1>1, <1>2, <1>3, <1>4, <1>5, <1>6 DEF Next, Collect

\* What is read belongs to a database of the profile.
LEMMA Reads ==
  ASSUME PlaceType, ReadFile \/ CopyFails
  PROVE  /\ pc = "read" /\ pc' = "copy" /\ Fetching /\ UNCHANGED <<at, found, ret>>
         /\ spec \in DOMAIN Specs(at) /\ Database \in Known /\ suffix \in Suffix
BY DEF PlaceType, ReadFile, CopyFails, Fetching

\* Copying one database leaves the copies of those with other names alone.
LEMMA OtherCopies ==
  ASSUME PlaceType, Next, NEW d \in Known, Alone(d),
         ReadFile \/ CopyFails => Database # d
  PROVE  \A s \in Suffix : kept'[<<RawName(d), s>>] = kept[<<RawName(d), s>>]
<1>1. CASE kept' = kept
  BY <1>1
<1>2. CASE kept' # kept
  <2>1. /\ ReadFile \/ CopyFails
        /\ kept' = [kept EXCEPT ![<<RawName(Database), suffix>>] = File(Database, suffix)]
    BY <1>2, KeptShape
  <2>2. PICK e \in Known : e = Database
    BY <2>1, Reads
  <2>3. RawName(e) # RawName(d)
    BY <2>1, <2>2, OwnCopies
  <2>4. \A s \in Suffix : <<RawName(d), s>> # <<RawName(e), suffix>>
    BY <2>3
  <2>5. kept' = [kept EXCEPT ![<<RawName(e), suffix>>] = File(e, suffix)]
    BY <2>1, <2>2
  <2>6. DEFINE x == <<RawName(e), suffix>>
               y == File(e, suffix)
               z(s) == <<RawName(d), s>>
  <2>7. kept' = [kept EXCEPT ![x] = y] /\ \A s \in Suffix : z(s) # x
    BY <2>4, <2>5
  <2>. HIDE DEF x, y, z
  <2>8. \A s \in Suffix : kept'[z(s)] = kept[z(s)]
    BY <2>7
  <2>. QED
    BY <2>8 DEF z
<1>. QED
  BY <1>1, <1>2

LEMMA KeptTypeStep ==
  ASSUME HostType, PlaceType, KeptType, Next PROVE KeptType'
<1>1. kept' \in [Shelf -> Contents]
  <2>1. CASE kept' = kept
    BY <2>1 DEF KeptType
  <2>2. CASE kept' # kept
    <3>1. /\ ReadFile \/ CopyFails
          /\ kept' = [kept EXCEPT ![<<RawName(Database), suffix>>] = File(Database, suffix)]
      BY <2>2, KeptShape
    <3>2. PICK e \in Known : e = Database
      BY <3>1, Reads
    <3>3. PICK s \in Suffix : s = suffix
      BY <3>1, Reads
    <3>4. PICK y \in Contents : y = File(e, s)
      BY FileType
    <3>5. PICK x \in Shelf : x = <<RawName(e), s>>
      BY ShelfOf
    <3>6. kept' = [kept EXCEPT ![x] = y]
      BY <3>1, <3>2, <3>3, <3>4, <3>5
    <3>. QED
      BY <3>6 DEF KeptType
  <2>. QED
    BY <2>1, <2>2
<1>2. faults' = faults \/ (faults < MaxFaults /\ faults' = faults + 1)
        \/ (faults + 1 < MaxFaults /\ faults' = faults + 2)
  <2>1. CASE HostStep \/ Discover \/ EndDiscover \/ WriteAbsents \/ BeginProfile \/ Interrupt \/ End
    BY <2>1 DEF HostStep, Discover, EndDiscover, WriteAbsents, BeginProfile, Interrupt, End, noted,
                Fault, Hush
  <2>2. CASE Skip \/ SeeFile \/ WriteProfile \/ StageFamily \/ EndRows \/ EndProfile \/ WriteFails
    BY <2>2 DEF Skip, SeeFile, WriteProfile, StageFamily, EndRows, EndProfile, WriteFails, noted, Fault
  <2>3. CASE EmitHistory \/ EmitDownloads \/ EmitCookies \/ EmitBookmarks
    BY <2>3 DEF EmitHistory, EmitDownloads, EmitCookies, EmitBookmarks, Emit, noted
  <2>4. CASE ReadFile
    BY <2>4 DEF ReadFile, Report, Fault, Hush, noted
  <2>5. CASE CopyFails \/ StageFails
    BY <2>5 DEF CopyFails, StageFails, FailAndReport, Hush
  <2>6. CASE TableFails
    BY <2>6 DEF TableFails, FailAndReport, Report, Fault, Hush
  <2>. QED
    BY <2>1, <2>2, <2>3, <2>4, <2>5, <2>6 DEF Next, Collect
<1>3. faults' \in 0 .. MaxFaults
  BY <1>2, BrowserBoundAssumption DEF KeptType
<1>. QED
  BY <1>1, <1>3 DEF KeptType

\* Nothing lies in the temporary directory but while rows are read.
LEMMA ClearedStep ==
  ASSUME Cleared, Next PROVE Cleared'
<1>1. CASE HostStep \/ Discover \/ EndDiscover \/ BeginProfile
  BY <1>1 DEF HostStep, Discover, EndDiscover, BeginProfile, parse, Cleared
<1>2. CASE WriteAbsents \/ Interrupt \/ End \/ WriteFails
  BY <1>2 DEF WriteAbsents, Interrupt, End, WriteFails, Return, Cleared
<1>3. CASE Skip \/ SeeFile \/ ReadFile \/ CopyFails \/ WriteProfile
  BY <1>3 DEF Skip, SeeFile, ReadFile, CopyFails, WriteProfile, Copying, parse, Cleared
<1>4. CASE StageFamily \/ EndRows
  BY <1>4 DEF StageFamily, EndRows, Cleared
<1>5. CASE StageFails \/ TableFails \/ EndProfile
  BY <1>5 DEF StageFails, TableFails, EndProfile, parse, Cleared
<1>6. CASE EmitHistory \/ EmitDownloads \/ EmitCookies \/ EmitBookmarks
  BY <1>6 DEF EmitHistory, EmitDownloads, EmitCookies, EmitBookmarks, Emit, Cleared
<1>. QED
  BY <1>1, <1>2, <1>3, <1>4, <1>5, <1>6 DEF Next, Collect

----------------------------------------------------------------------------
(* Where the collector is with a database.                                 *)

\* After a file comes the next one: no database is back before its turn, only
\* the one being copied comes to its journal, and it has been fetched when that
\* is not so.
LEMMA TurnMoves ==
  ASSUME PlaceType, Fetching, spec \in DOMAIN Specs(at), NextDatabase \/ Sidecars,
         pc' = "copy", UNCHANGED <<at, found>>, NEW d \in Known
  PROVE  /\ Ahead(d)' => Ahead(d) /\ Database # d
         /\ AtJournal(d)' => Database = d /\ suffix = "main" /\ Journalled(d) /\ ~NextDatabase
         /\ Behind(d)' => Behind(d) \/ (Database = d /\ NextDatabase)
<1>1. Place(d) \in Nat /\ spec \in Nat /\ at \in Nat /\ d[1] \in Nat
  BY PlaceRange, PlaceOf DEF PlaceType
<1>2. Database = d <=> at = d[1] /\ spec = Place(d)
  BY AtDatabase
<1>3. Place(d)' = Place(d)
  BY DEF Place, Specs
<1>4. CASE NextDatabase
  <2>1. spec' = spec + 1 /\ suffix' = "main"
    BY <1>4 DEF NextDatabase
  <2>2. Ahead(d)' => Ahead(d) /\ Database # d
    BY <1>1, <1>2, <1>3, <2>1 DEF Ahead, Fetching, Parsing
  <2>3. ~AtJournal(d)'
    BY <2>1 DEF AtJournal
  <2>4. Behind(d)' => Behind(d) \/ Database = d
    BY <1>1, <1>2, <1>3, <2>1 DEF Behind, Fetched, Left, Fetching, Parsing
  <2>. QED
    BY <1>4, <2>2, <2>3, <2>4
<1>5. CASE ~NextDatabase
  <2>1. suffix' = "-wal" /\ spec' = spec /\ Journalled(Database) /\ suffix # "-wal"
    BY <1>5 DEF Sidecars
  <2>2. suffix = "main"
    BY <2>1 DEF PlaceType, Suffix
  <2>3. Ahead(d)' => Ahead(d) /\ Database # d
    BY <1>1, <1>2, <1>3, <2>1 DEF Ahead, Fetching, Parsing
  <2>4. AtJournal(d)' => Database = d
    BY <1>2, <1>3, <2>1 DEF AtJournal
  <2>5. Behind(d)' => Behind(d)
    BY <1>1, <1>3, <2>1 DEF Behind, Fetched, Left, Fetching, Parsing
  <2>. QED
    BY <1>5, <2>1, <2>2, <2>3, <2>4, <2>5
<1>. QED
  BY <1>4, <1>5

\* Every other step leaves no database earlier than it was.
LEMMA OtherMoves ==
  ASSUME PlaceType, Next, ~Skip, ~ReadFile, ~CopyFails, NEW d \in Known
  PROVE  /\ Ahead(d)' => Ahead(d)
         /\ AtJournal(d)' => AtJournal(d)
         /\ Behind(d)' => Behind(d)
<1>1. Place(d) \in Nat /\ spec \in Nat /\ at \in Nat /\ d[1] \in Nat /\ 1 <= d[1]
  BY PlaceRange, PlaceOf DEF PlaceType
<1>2. Place(d)' = Place(d)
  BY DEF Place, Specs
<1>3. CASE HostStep \/ SeeFile
  <2>1. /\ UNCHANGED <<at, found, spec, suffix>>
        /\ pc' = pc \/ (pc = "copy" /\ pc' = "read")
    BY <1>3 DEF HostStep, SeeFile, place, Copying
  <2>. QED
    BY <1>2, <2>1 DEF Ahead, AtJournal, Behind, Fetched, Left, Fetching, Parsing
<1>4. CASE Discover
  <2>1. pc = "discover" /\ pc' = "discover"
    BY <1>4 DEF Discover
  <2>. QED
    BY <2>1 DEF Ahead, AtJournal, Behind, Fetched, Left, Fetching, Parsing
<1>5. CASE EndDiscover
  <2>1. pc = "discover" /\ pc' \in {"absent", "profile"} /\ at' = 1
    BY <1>5 DEF EndDiscover
  <2>. QED
    BY <1>1, <2>1 DEF Ahead, AtJournal, Behind, Fetched, Left, Fetching, Parsing
<1>6. CASE WriteAbsents \/ Interrupt \/ End \/ WriteFails
  <2>1. pc' = "done"
    BY <1>6 DEF WriteAbsents, Interrupt, End, WriteFails, Return
  <2>. QED
    BY <2>1 DEF Ahead, AtJournal, Behind, Fetched, Left, Fetching, Parsing
<1>7. CASE BeginProfile
  <2>1. pc = "profile" /\ found' = found
    BY <1>7 DEF BeginProfile
  <2>2. CASE at \in found
    <3>1. pc' = "copy" /\ spec' = 1 /\ suffix' = "main" /\ at' = at
      BY <1>7, <2>2 DEF BeginProfile
    <3>. QED
      <4>1. Ahead(d)' => Ahead(d)
        BY <1>1, <2>1, <3>1 DEF Ahead, Fetching, Parsing
      <4>2. ~AtJournal(d)'
        BY <3>1 DEF AtJournal
      <4>3. ~Fetched(d)'
        <5>1. 1 <= Place(d)
          BY PlaceRange
        <5>. QED
          BY <1>1, <1>2, <3>1, <5>1 DEF Fetched
      <4>4. Behind(d)' => Behind(d)
        BY <2>1, <3>1, <4>3 DEF Behind, Left, Parsing
      <4>. QED
        BY <4>1, <4>2, <4>4
  <2>3. CASE at \notin found
    <3>1. pc' = pc /\ at' = at + 1
      BY <1>7, <2>3 DEF BeginProfile
    <3>. QED
      BY <1>1, <2>1, <2>3, <3>1 DEF Ahead, AtJournal, Behind, Fetched, Left, Fetching, Parsing
  <2>. QED
    BY <2>2, <2>3
<1>8. CASE WriteProfile
  <2>1. pc = "copy" /\ pc' = "stage" /\ UNCHANGED <<at, found, spec, suffix>> /\ spec \notin DOMAIN Specs(at)
    BY <1>8 DEF WriteProfile, place
  <2>2. at = d[1] => Place(d) < spec
    <3>1. at = d[1] => Place(d) \in DOMAIN Specs(at)
      BY PlaceOf
    <3>2. DOMAIN Specs(at) = 1 .. 2 \/ DOMAIN Specs(at) = 1 .. 4
      BY SpecsShape
    <3>3. spec \in Nat \ {0}
      BY DEF PlaceType
    <3>. QED
      BY <2>1, <3>1, <3>2, <3>3
  <2>. QED
    BY <2>1, <2>2 DEF Ahead, AtJournal, Behind, Fetched, Left, Fetching, Parsing
<1>9. CASE \/ StageFamily \/ StageFails \/ EndRows \/ TableFails
           \/ EmitHistory \/ EmitDownloads \/ EmitCookies \/ EmitBookmarks
  <2>1. pc \in {"stage", "rows"} /\ pc' \in {"stage", "rows"} /\ UNCHANGED <<at, found>>
    BY <1>9 DEF StageFamily, StageFails, EndRows, TableFails, EmitHistory, EmitDownloads,
                EmitCookies, EmitBookmarks, Emit, place
  <2>. QED
    BY <2>1 DEF Ahead, AtJournal, Behind, Fetched, Left, Fetching, Parsing
<1>10. CASE EndProfile
  <2>1. pc = "stage" /\ pc' = "profile" /\ at' = at + 1 /\ found' = found
    BY <1>10 DEF EndProfile
  <2>. QED
    BY <1>1, <2>1 DEF Ahead, AtJournal, Behind, Fetched, Left, Fetching, Parsing
<1>. QED
  BY <1>3, <1>4, <1>5, <1>6, <1>7, <1>8, <1>9, <1>10 DEF Next, Collect

----------------------------------------------------------------------------
(* What is clean.                                                          *)

\* A step of the browsers that leaves a database there and moves no journal
\* keeps its main file, where there is a journal, and its last commit does not
\* get older.
LEMMA HostKeeps ==
  ASSUME HostType, HostInv, HostStep, NEW d \in Known, db'[d].main # 0, db'[d].point = 0
  PROVE  /\ db[d].main # 0 /\ db[d].point = 0
         /\ Latest(d) \in Nat /\ Latest(d)' \in Nat /\ Latest(d) <= Latest(d)'
         /\ Journalled(d) => db'[d].main = db[d].main
<1>1. /\ changes' = changes + 1 /\ changes' \in 3 .. MaxChanges /\ changes \in 2 .. MaxChanges
      /\ \A e \in Known : db[e] \in Base
  BY HostShape DEF HostType
<1>2. PICK e \in Known, x \in Base :
        /\ db' = [db EXCEPT ![e] = x]
        /\ \/ /\ Journalled(e) /\ db[e].main # 0 /\ x.main = db[e].main /\ x.point = db[e].point
              /\ x.wal = changes' /\ x.base = db[e].main
           \/ /\ ~Journalled(e) /\ db[e].main # 0 /\ x.main = changes' /\ x.point = db[e].point
              /\ x.wal = db[e].wal /\ x.base = db[e].base
           \/ /\ db[e].wal # 0 /\ x.main = db[e].wal /\ x.wal = 0 /\ x.base = 0
              /\ x.point = changes'
           \/ x.main = 0 /\ x.wal = 0 /\ x.base = 0 /\ x.point = 0
  BY HostShape
<1>3. db'[e] = x /\ \A o \in Known \ {e} : db'[o] = db[o]
  BY <1>2 DEF HostType
<1>4. /\ db[d].main \in 0 .. MaxChanges /\ db[d].wal \in 0 .. MaxChanges
      /\ db[d].main <= changes /\ db[d].wal <= changes
      /\ ~Journalled(d) => db[d].wal = 0
  BY <1>1 DEF Base, HostInv
<1>5. CASE d # e
  <2>1. db'[d] = db[d]
    BY <1>3, <1>5
  <2>. QED
    BY <1>4, <2>1 DEF Latest
<1>6. CASE d = e
  <2>1. x.main # 0 /\ x.point = 0 /\ db'[d] = x
    BY <1>3, <1>6
  <2>2. CASE Journalled(d) /\ x.main = db[d].main /\ x.point = db[d].point /\ x.wal = changes'
    BY <1>1, <1>4, <2>1, <2>2 DEF Latest
  <2>3. CASE ~Journalled(d) /\ db[d].main # 0 /\ x.main = changes' /\ x.point = db[d].point /\ x.wal = db[d].wal
    BY <1>1, <1>4, <2>1, <2>3 DEF Latest
  <2>4. changes' # 0
    BY <1>1
  <2>. QED
    BY <1>2, <1>6, <2>1, <2>2, <2>3, <2>4
<1>. QED
  BY <1>5, <1>6

\* What is clean was clean before, its main file is the one it was, and what was
\* committed last is not older than before.
LEMMA CleanBefore ==
  ASSUME HostType, HostInv, Next, NEW d \in Known, Clean(d)'
  PROVE  /\ Clean(d)
         /\ Latest(d) \in Nat /\ Latest(d)' \in Nat /\ Latest(d) <= Latest(d)'
         /\ Journalled(d) => db'[d].main = db[d].main
<1>1. db'[d].main # 0 /\ db'[d].point = 0 /\ \A e \in Noted' : e[2] # d
  BY DEF Clean
<1>2. CASE HostStep
  <2>1. Noted' = Noted
    BY <1>2 DEF HostStep, noted, Noted
  <2>. QED
    BY <1>1, <1>2, <2>1, HostKeeps DEF Clean
<1>3. CASE Collect
  <2>1. db' = db /\ Noted \subseteq Noted'
    BY <1>3, CollectShape DEF host, Noted
  <2>2. db[d] \in Base
    BY DEF HostType
  <2>3. Latest(d) \in Nat /\ Latest(d)' = Latest(d)
    BY <2>1, <2>2 DEF Latest, Base
  <2>. QED
    BY <1>1, <2>1, <2>3 DEF Clean
<1>. QED
  BY <1>2, <1>3 DEF Next

\* A file that was lost is noted.
LEMMA LostNoted ==
  ASSUME CopyFails \/ (ReadFile /\ ~IsThere(Database, suffix)), NEW d, d = Database
  PROVE  ~Clean(d)' /\ Lost
<1>1. <<"copy", d>> \in errors' \/ <<"copy", d>> \in silent'
  BY DEF CopyFails, ReadFile, FailAndReport, Report, Hush
<1>2. <<"copy", d>>[2] = d
  OBVIOUS
<1>. QED
  BY <1>1, <1>2 DEF Clean, Noted, CopyFails, ReadFile

----------------------------------------------------------------------------
(* The copies are what the browser had.                                    *)

LEMMA CopiesInvStep ==
  ASSUME HostType, PlaceType, KeptType, HostInv, CopiesInv, Next PROVE CopiesInv'
<1>. SUFFICES ASSUME NEW d \in Known, Alone(d)
              PROVE  /\ Ahead(d)' => \A s \in Suffix : kept'[<<RawName(d), s>>] = Missing
                     /\ AtJournal(d)' => /\ kept'[<<RawName(d), "-wal">>] = Missing
                                         /\ Clean(d)' => kept'[<<RawName(d), "main">>] = [ver |-> db'[d].main, base |-> 0]
                     /\ Behind(d)' /\ Clean(d)' => Content(Kept(d))' \in 2 .. Latest(d)'
  BY DEF CopiesInv, Alone, RawName
<1>1. /\ Ahead(d) => \A s \in Suffix : kept[<<RawName(d), s>>] = Missing
      /\ AtJournal(d) => /\ kept[<<RawName(d), "-wal">>] = Missing
                         /\ Clean(d) => kept[<<RawName(d), "main">>] = [ver |-> db[d].main, base |-> 0]
      /\ Behind(d) /\ Clean(d) => Content(Kept(d)) \in 2 .. Latest(d)
  BY DEF CopiesInv
<1>2. Clean(d)' => /\ Clean(d)
                   /\ Latest(d) \in Nat /\ Latest(d)' \in Nat /\ Latest(d) <= Latest(d)'
                   /\ Journalled(d) => db'[d].main = db[d].main
  BY CleanBefore
<1>3. AtJournal(d) => Journalled(d)
  <2>1. ASSUME AtJournal(d) PROVE Journalled(d)
    <3>1. spec \in DOMAIN Specs(at) /\ Journalled(Database)
      BY <2>1 DEF AtJournal, PlaceType
    <3>2. Database = d
      BY <2>1, <3>1, AtDatabase DEF AtJournal
    <3>. QED
      BY <3>1, <3>2
  <2>. QED
    BY <2>1
<1>4. "-wal" \in Suffix /\ "main" \in Suffix
  BY DEF Suffix
<1>5. ASSUME \A s \in Suffix : kept'[<<RawName(d), s>>] = kept[<<RawName(d), s>>],
             Ahead(d)' => Ahead(d), AtJournal(d)' => AtJournal(d), Behind(d)' => Behind(d)
      PROVE  /\ Ahead(d)' => \A s \in Suffix : kept'[<<RawName(d), s>>] = Missing
             /\ AtJournal(d)' => /\ kept'[<<RawName(d), "-wal">>] = Missing
                                 /\ Clean(d)' => kept'[<<RawName(d), "main">>] = [ver |-> db'[d].main, base |-> 0]
             /\ Behind(d)' /\ Clean(d)' => Content(Kept(d))' \in 2 .. Latest(d)'
  <2>1. Content(Kept(d))' = Content(Kept(d))
    BY <1>5, KeptSame
  <2>2. Behind(d)' /\ Clean(d)' => Content(Kept(d))' \in 2 .. Latest(d)'
    BY <1>1, <1>2, <1>5, <2>1
  <2>. QED
    BY <1>1, <1>2, <1>3, <1>4, <1>5, <2>2
<1>6. CASE ~Skip /\ ~ReadFile /\ ~CopyFails
  <2>1. \A s \in Suffix : kept'[<<RawName(d), s>>] = kept[<<RawName(d), s>>]
    BY <1>6, OtherCopies
  <2>2. /\ Ahead(d)' => Ahead(d)
        /\ AtJournal(d)' => AtJournal(d)
        /\ Behind(d)' => Behind(d)
    BY <1>6, OtherMoves
  <2>. QED
    BY <1>5, <2>1, <2>2
<1>7. CASE Skip \/ ReadFile \/ CopyFails
  <2>1. /\ Fetching /\ spec \in DOMAIN Specs(at) /\ pc' = "copy" /\ UNCHANGED <<at, found>>
        /\ NextDatabase \/ Sidecars
    BY <1>7, Reads DEF Skip, Copying, Fetching, ReadFile, CopyFails, Lost
  <2>2. /\ Ahead(d)' => Ahead(d) /\ Database # d
        /\ AtJournal(d)' => Database = d /\ suffix = "main" /\ Journalled(d) /\ ~NextDatabase
        /\ Behind(d)' => Behind(d) \/ (Database = d /\ NextDatabase)
    BY <2>1, TurnMoves
  <2>3. Database = d <=> at = d[1] /\ spec = Place(d)
    BY <2>1, AtDatabase
  <2>4. CASE Database # d
    <3>1. \A s \in Suffix : kept'[<<RawName(d), s>>] = kept[<<RawName(d), s>>]
      BY <2>4, OtherCopies
    <3>. QED
      BY <1>5, <2>2, <2>4, <3>1
  <2>5. CASE Database = d
    <3>1. at = d[1] /\ spec = Place(d) /\ suffix \in Suffix
      BY <2>3, <2>5 DEF PlaceType
    <3>2. suffix = "main" => Ahead(d)
      BY <2>1, <3>1 DEF Ahead
    <3>3. suffix = "-wal" => AtJournal(d)
      BY <2>1, <3>1 DEF AtJournal
    <3>4. ~Behind(d)
      <4>1. Place(d) \in Nat /\ d[1] \in Nat
        BY PlaceRange, PlaceOf
      <4>. QED
        BY <2>1, <3>1, <4>1 DEF Behind, Fetched, Left, Fetching, Parsing
    <3>5. db[d] \in Base /\ db'[d] = db[d]
      BY <1>7 DEF HostType, Skip, ReadFile, CopyFails, host
    <3>6. /\ db[d].main \in Nat /\ db[d].wal \in Nat /\ db[d].base \in Nat
      BY <3>5 DEF Base
    <3>7. Latest(d)' = Latest(d) /\ Latest(d) \in Nat
      BY <3>5, <3>6 DEF Latest
    <3>8. Clean(d) => /\ Latest(d) >= 2 /\ db[d].main # 0
                      /\ db[d].wal # 0 => db[d].base = db[d].main
                      /\ ~Journalled(d) => db[d].wal = 0
                      /\ db[d].wal = 0 <=> db[d].base = 0
      BY DEF Clean, HostInv
    <3>9. CASE Skip
      <4>1. ~IsThere(d, suffix) /\ File(d, suffix) = Missing
        BY <2>5, <3>9 DEF Skip, IsThere
      <4>2. CASE suffix = "main"
        <5>1. db[d].main = 0 /\ NextDatabase
          BY <3>9, <4>1, <4>2 DEF Skip, File, Missing
        <5>. QED
          BY <1>2, <2>2, <2>5, <3>8, <5>1
      <4>3. CASE suffix = "-wal"
        <5>1. db[d].wal = 0
          BY <4>1, <4>3 DEF File, Missing
        <5>2. \A s \in Suffix : kept'[<<RawName(d), s>>] = kept[<<RawName(d), s>>]
          BY <3>9 DEF Skip, out
        <5>3. Content(Kept(d))' = Content(Kept(d))
          BY <5>2, KeptSame
        <5>4. ASSUME Clean(d)' PROVE Content(Kept(d)) = db[d].main
          <6>1. /\ Kept(d)["-wal"] = Missing
                /\ Kept(d)["main"] = [ver |-> db[d].main, base |-> 0]
            BY <1>1, <1>2, <1>4, <3>3, <4>3, <5>4 DEF Kept
          <6>. QED
            BY <6>1 DEF Content
        <5>5. Latest(d) = db[d].main
          BY <5>1 DEF Latest
        <5>. QED
          BY <1>2, <2>2, <2>5, <3>7, <3>8, <4>3, <5>3, <5>4, <5>5
      <4>. QED
        BY <3>1, <4>2, <4>3 DEF Suffix
    <3>10. CASE CopyFails \/ (ReadFile /\ ~IsThere(Database, suffix))
      <4>1. ~Clean(d)' /\ Lost
        BY <2>5, <3>10, LostNoted
      <4>2. NextDatabase
        BY <3>1, <4>1 DEF Lost, Sidecars, Suffix
      <4>. QED
        BY <2>2, <2>5, <4>1, <4>2
    <3>11. CASE ReadFile /\ IsThere(Database, suffix)
      <4>1. /\ kept' = [kept EXCEPT ![<<RawName(d), suffix>>] = File(d, suffix)] /\ Sidecars
            /\ File(d, suffix) # Missing
        BY <2>5, <3>11 DEF ReadFile, IsThere
      <4>2. CASE suffix = "main"
        <5>1. /\ kept'[<<RawName(d), "main">>] = [ver |-> db[d].main, base |-> 0]
              /\ kept'[<<RawName(d), "-wal">>] = Missing
          <6>1. <<RawName(d), "main">> \in Shelf /\ <<RawName(d), "main">> # <<RawName(d), "-wal">>
            BY <1>4, ShelfOf
          <6>2. kept[<<RawName(d), "-wal">>] = Missing
            BY <1>1, <1>4, <3>2, <4>2
          <6>3. DEFINE x == <<RawName(d), "main">>
                       w == <<RawName(d), "-wal">>
                       y == [ver |-> db[d].main, base |-> 0]
          <6>4. kept' = [kept EXCEPT ![x] = y] /\ x \in DOMAIN kept /\ x # w
            BY <4>1, <4>2, <6>1 DEF File, KeptType
          <6>. HIDE DEF x, w, y
          <6>5. kept'[x] = y /\ kept'[w] = kept[w]
            BY <6>4
          <6>. QED
            BY <6>2, <6>5 DEF x, w, y
        <5>2. Content(Kept(d))' = db[d].main
          <6>1. Kept(d)'["-wal"] = Missing /\ Kept(d)'["main"].ver = db[d].main
            BY <1>4, <5>1 DEF Kept
          <6>. QED
            BY <6>1 DEF Content, Missing
        <5>3. Behind(d)' => ~Journalled(d)
          BY <2>2, <3>4, <4>1, <4>2 DEF NextDatabase, Sidecars
        <5>4. Behind(d)' /\ Clean(d)' => Latest(d) = db[d].main
          BY <1>2, <3>8, <5>3 DEF Latest
        <5>. QED
          BY <1>2, <2>2, <2>5, <3>5, <3>7, <3>8, <5>1, <5>2, <5>4
      <4>3. CASE suffix = "-wal"
        <5>1. /\ kept'[<<RawName(d), "main">>] = kept[<<RawName(d), "main">>]
              /\ kept'[<<RawName(d), "-wal">>] = [ver |-> db[d].wal, base |-> db[d].base]
          <6>1. <<RawName(d), "-wal">> \in Shelf /\ <<RawName(d), "main">> # <<RawName(d), "-wal">>
            BY <1>4, ShelfOf
          <6>3. DEFINE x == <<RawName(d), "-wal">>
                       w == <<RawName(d), "main">>
                       y == [ver |-> db[d].wal, base |-> db[d].base]
          <6>4. kept' = [kept EXCEPT ![x] = y] /\ x \in DOMAIN kept /\ x # w
            BY <4>1, <4>3, <6>1 DEF File, KeptType
          <6>. HIDE DEF x, w, y
          <6>5. kept'[x] = y /\ kept'[w] = kept[w]
            BY <6>4
          <6>. QED
            BY <6>5 DEF x, w, y
        <5>2. db[d].wal # 0 \/ db[d].base # 0
          BY <4>1, <4>3 DEF File, Missing
        <5>3. ASSUME Clean(d)' PROVE Content(Kept(d))' = Latest(d)
          <6>1. db[d].wal # 0 /\ db[d].base = db[d].main
            BY <1>2, <3>8, <5>2, <5>3
          <6>2. kept[<<RawName(d), "main">>] = [ver |-> db[d].main, base |-> 0]
            BY <1>1, <1>2, <3>3, <4>3, <5>3
          <6>3. /\ Kept(d)'["-wal"] = [ver |-> db[d].wal, base |-> db[d].base]
                /\ Kept(d)'["main"] = [ver |-> db[d].main, base |-> 0]
            BY <1>4, <5>1, <6>2 DEF Kept
          <6>4. [ver |-> db[d].wal, base |-> db[d].base] # Missing
            <7>1. [ver |-> db[d].wal, base |-> db[d].base].ver # Missing.ver
              BY <6>1 DEF Missing
            <7>. QED
              BY <7>1
          <6>5. /\ Kept(d)'["-wal"].ver = db[d].wal /\ Kept(d)'["-wal"].base = db[d].base
                /\ Kept(d)'["main"].ver = db[d].main /\ Kept(d)'["-wal"] # Missing
            BY <6>3, <6>4
          <6>. QED
            BY <6>1, <6>5 DEF Content, Latest, Missing
        <5>. QED
          BY <1>2, <2>2, <2>5, <3>7, <3>8, <4>3, <5>3
      <4>. QED
        BY <3>1, <4>2, <4>3 DEF Suffix
    <3>. QED
      BY <1>7, <3>9, <3>10, <3>11
  <2>. QED
    BY <2>4, <2>5
<1>. QED
  BY <1>6, <1>7

----------------------------------------------------------------------------
(* The temporary directory.                                                *)

TableName == {"history", "downloads", "cookies", "bookmarks"}

\* The tables of a database are up to three.
LEMMA TablesShape ==
  ASSUME NEW f
  PROVE  /\ Tables(f) \in Seq(TableName)
         /\ \A k \in 1 .. Len(Tables(f)) :
              Tables(f)[k] = "history" => f \in {"History", "places.sqlite"}
<1>. DEFINE a == "history"
            b == "downloads"
            c == "cookies"
            e == "bookmarks"
<1>1. a \in TableName /\ b \in TableName /\ c \in TableName /\ e \in TableName
  BY DEF TableName
<1>2. e # a /\ c # a
  OBVIOUS
<1>3. /\ f = "History" => Tables(f) = <<a, b>>
      /\ f = "places.sqlite" => Tables(f) = <<a, b, e>>
      /\ f = "Bookmarks" => Tables(f) = <<e>>
      /\ f \notin {"History", "places.sqlite", "Bookmarks"} => Tables(f) = <<c>>
  BY DEF Tables
<1>. HIDE DEF a, b, c, e
<1>4. /\ <<a, b>> \in Seq(TableName) /\ <<a, b, e>> \in Seq(TableName)
      /\ <<e>> \in Seq(TableName) /\ <<c>> \in Seq(TableName)
  BY <1>1
<1>5. /\ \A k \in 1 .. Len(<<e>>) : <<e>>[k] # a
      /\ \A k \in 1 .. Len(<<c>>) : <<c>>[k] # a
  BY <1>2
<1>6. Tables(f) \in Seq(TableName)
  BY <1>3, <1>4
<1>7. \A k \in 1 .. Len(Tables(f)) : Tables(f)[k] = a => f \in {"History", "places.sqlite"}
  BY <1>3, <1>5
<1>. QED
  BY <1>6, <1>7 DEF a

\* The database that is parsed is a matter of what was copied.
LEMMA SourceStays ==
  ASSUME copied' = copied
  PROVE  Source' = Source
<1>1. \A d : Place(d)' = Place(d)
  BY DEF Place, Specs
<1>. QED
  BY <1>1, Zenon DEF Source

\* What is left of the tables.
LEMMA TailTables ==
  ASSUME tables \in Seq(TableName), tables # <<>>
  PROVE  /\ Head(tables) = tables[1] /\ 1 \in 1 .. Len(tables) /\ Head(tables) \in TableName
         /\ Tail(tables) \in Seq(TableName) /\ Len(Tail(tables)) = Len(tables) - 1
         /\ \A j \in 1 .. Len(Tail(tables)) : Tail(tables)[j] = tables[j + 1] /\ j + 1 \in 1 .. Len(tables)
OBVIOUS

\* What lies in the temporary directory stays there as long as it is read.
LEMMA StagedStays ==
  ASSUME StagedInv, pc = "rows", pc' = "rows",
         UNCHANGED <<at, copied, staged, profiles, kept>>,
         tables' = tables \/ (tables # <<>> /\ tables' = Tail(tables))
  PROVE  StagedInv'
<1>1. Source' = Source /\ Kept(Source)' = Kept(Source)
  BY SourceStays DEF Kept
<1>2. Mine(Suffix)' = Mine(Suffix) /\ Mine({"main"})' = Mine({"main"})
  BY DEF Mine
<1>3. /\ copied \subseteq Mine(Suffix) /\ copied \subseteq Mine({"main"})
      /\ at \in DOMAIN profiles /\ copied \subseteq profiles[at]
      /\ copied # {} /\ staged = Kept(Source) /\ tables \in Seq(TableName)
      /\ \A k \in 1 .. Len(tables) : \E j \in 1 .. Len(Tables(Source[2])) : Tables(Source[2])[j] = tables[k]
  BY DEF StagedInv, Fetching, Parsing, TableName
<1>4. /\ tables' \in Seq(TableName)
      /\ \A k \in 1 .. Len(tables') : \E j \in 1 .. Len(Tables(Source[2])) : Tables(Source[2])[j] = tables'[k]
  <2>1. CASE tables' = tables
    BY <1>3, <2>1
  <2>2. CASE tables # <<>> /\ tables' = Tail(tables)
    <3>1. tables' \in Seq(TableName) /\ \A k \in 1 .. Len(tables') : tables'[k] = tables[k + 1] /\ k + 1 \in 1 .. Len(tables)
      BY <1>3, <2>2, TailTables
    <3>. QED
      BY <1>3, <3>1
  <2>. QED
    BY <2>1, <2>2
<1>5. Tables(Source[2])' = Tables(Source[2])
  BY <1>1 DEF Tables
<1>6. \A k \in 1 .. Len(tables') : \E j \in 1 .. Len(Tables(Source[2])') : Tables(Source[2])'[j] = tables'[k]
  BY <1>4, <1>5
<1>. QED
  BY <1>1, <1>2, <1>3, <1>4, <1>6 DEF StagedInv, Fetching, Parsing, TableName

LEMMA StagedInvStep ==
  ASSUME PlaceType, Cleared, StagedInv, Next PROVE StagedInv'
<1>1. CASE HostStep
  <2>1. UNCHANGED <<pc, at, copied, staged, tables, profiles, kept>>
    BY <1>1 DEF HostStep, place, parse, out
  <2>2. CASE pc = "rows"
    BY <2>1, <2>2, StagedStays
  <2>3. CASE pc # "rows"
    <3>1. Mine(Suffix)' = Mine(Suffix) /\ Mine({"main"})' = Mine({"main"})
      BY <2>1 DEF Mine
    <3>. QED
      BY <2>1, <2>3, <3>1 DEF StagedInv, Fetching, Parsing
  <2>. QED
    BY <2>2, <2>3
<1>2. CASE Discover \/ EndDiscover \/ WriteAbsents \/ Interrupt \/ End \/ WriteFails \/ EndProfile
  <2>1. pc' \in {"discover", "absent", "profile", "done"}
    BY <1>2 DEF Discover, EndDiscover, WriteAbsents, Interrupt, End, WriteFails, EndProfile, Return
  <2>. QED
    BY <2>1 DEF StagedInv, Fetching, Parsing
<1>3. CASE BeginProfile
  <2>1. copied' = {} /\ pc' \in {"profile", "copy"}
    BY <1>3 DEF BeginProfile
  <2>. QED
    BY <2>1 DEF StagedInv, Fetching, Parsing
<1>4. CASE Skip \/ SeeFile \/ ReadFile \/ CopyFails
  <2>1. /\ pc' \in {"copy", "read"} /\ Fetching /\ at' = at /\ spec \in DOMAIN Specs(at)
        /\ copied' = copied \/ copied' = copied \union {<<Database, suffix>>}
        /\ ReadFile \/ copied' = copied
    BY <1>4, Reads DEF Skip, SeeFile, ReadFile, CopyFails, Copying, Fetching, place, parse
  <2>2. Mine(Suffix)' = Mine(Suffix) /\ copied \subseteq Mine(Suffix)
    BY <2>1 DEF Mine, StagedInv
  <2>3. ReadFile => <<Database, suffix>> \in Mine(Suffix)
    <3>1. ReadFile => Database \in Known /\ Database[1] = at /\ suffix \in Suffix
      BY Reads DEF Database
    <3>. QED
      BY <3>1 DEF Mine
  <2>4. copied' \subseteq Mine(Suffix)'
    BY <2>1, <2>2, <2>3
  <2>. QED
    BY <2>1, <2>4 DEF StagedInv, Fetching, Parsing
<1>5. CASE WriteProfile
  <2>1. /\ pc' = "stage" /\ at' = at /\ copied' = {c \in copied : c[2] = "main"}
        /\ profiles' = [p \in DOMAIN profiles \union {at} |-> IF p = at THEN copied ELSE profiles[p]]
        /\ Fetching
    BY <1>5 DEF WriteProfile, place, Fetching
  <2>2. copied \subseteq Mine(Suffix)
    BY <2>1 DEF StagedInv
  <2>3. /\ Mine(Suffix)' = Mine(Suffix) /\ Mine({"main"})' = Mine({"main"})
    BY <2>1 DEF Mine
  <2>4. copied' \subseteq Mine({"main"}) /\ copied' \subseteq Mine(Suffix)
    <3>1. \A c \in Mine(Suffix) : c[1] \in Known /\ c[1][1] = at /\ c = <<c[1], c[2]>>
      BY CopyOf
    <3>2. \A c \in copied' : c \in copied /\ c[2] = "main"
      BY <2>1
    <3>3. \A c \in copied' : c = <<c[1], "main">> /\ c[1] \in Known /\ c[1][1] = at
      BY <2>2, <3>1, <3>2
    <3>. QED
      BY <2>2, <3>2, <3>3 DEF Mine
  <2>5. at' \in DOMAIN profiles' /\ profiles'[at'] = copied /\ copied' \subseteq copied
    BY <2>1
  <2>. QED
    BY <2>1, <2>3, <2>4, <2>5 DEF StagedInv, Fetching, Parsing
<1>6. CASE StageFamily
  <2>1. /\ pc = "stage" /\ pc' = "rows" /\ copied # {} /\ UNCHANGED <<at, copied, kept, profiles>>
        /\ staged' = Kept(Source) /\ tables' = Tables(Source[2])
    BY <1>6 DEF StageFamily, Stage, place, out
  <2>2. /\ copied \subseteq Mine(Suffix) /\ copied \subseteq Mine({"main"})
        /\ at \in DOMAIN profiles /\ copied \subseteq profiles[at]
    BY <2>1 DEF StagedInv, Parsing
  <2>3. Source' = Source
    BY <2>1, SourceStays
  <2>4. Kept(Source)' = Kept(Source)
    BY <2>1, <2>3 DEF Kept
  <2>5. Tables(Source[2])' = tables' /\ tables' \in Seq(TableName)
    BY <2>1, <2>3, TablesShape DEF Tables
  <2>6. Mine(Suffix)' = Mine(Suffix) /\ Mine({"main"})' = Mine({"main"})
    BY <2>1 DEF Mine
  <2>7. \A k \in 1 .. Len(tables') : \E j \in 1 .. Len(Tables(Source[2])') : Tables(Source[2])'[j] = tables'[k]
    BY <2>5
  <2>. QED
    BY <2>1, <2>2, <2>4, <2>5, <2>6, <2>7 DEF StagedInv, Fetching, Parsing, TableName
<1>7. CASE StageFails \/ EndRows
  <2>1. /\ pc \in {"stage", "rows"} /\ pc' = "stage" /\ UNCHANGED <<at, profiles>> /\ copied' \subseteq copied
    BY <1>7 DEF StageFails, EndRows, Parsed, place, out
  <2>2. Mine(Suffix)' = Mine(Suffix) /\ Mine({"main"})' = Mine({"main"})
    BY <2>1 DEF Mine
  <2>. QED
    BY <2>1, <2>2 DEF StagedInv, Fetching, Parsing
<1>8. CASE TableFails \/ EmitHistory \/ EmitDownloads \/ EmitCookies \/ EmitBookmarks
  <2>1. /\ pc = "rows" /\ pc' = "rows" /\ tables # <<>> /\ tables' = Tail(tables)
        /\ UNCHANGED <<at, copied, staged, profiles, kept>>
    BY <1>8 DEF TableFails, EmitHistory, EmitDownloads, EmitCookies, EmitBookmarks, Emit, place, out
  <2>. QED
    BY <2>1, StagedStays
<1>. QED
  BY <1>1, <1>2, <1>3, <1>4, <1>5, <1>6, <1>7, <1>8 DEF Next, Collect

----------------------------------------------------------------------------
(* Rows.                                                                   *)

\* A row is of the database that lies in the temporary directory, and of the
\* first of its tables that are left.
NewRow  == [of |-> Source, table |-> Head(tables), ver |-> Content(staged)]
Visits(d) == <<Profile[d[1]].browser, Profile[d[1]].user, Profile[d[1]].name>>

LEMMA RowsShape ==
  ASSUME Next
  PROVE  \/ UNCHANGED <<rows, listing>>
         \/ /\ pc = "rows" /\ pc' = "rows" /\ tables # <<>> /\ tables' = Tail(tables)
            /\ UNCHANGED <<host, place, copied, staged, kept, profiles, noted, ret>>
            /\ rows' = rows \union {NewRow}
            /\ \/ /\ Head(tables) = "history"
                  /\ listing' = [listing EXCEPT ![Visits(Source)] = Content(staged)]
               \/ Head(tables) # "history" /\ listing' = listing
<1>1. CASE HostStep \/ Discover \/ EndDiscover \/ WriteAbsents \/ BeginProfile \/ Interrupt \/ End
  BY <1>1 DEF HostStep, Discover, EndDiscover, WriteAbsents, BeginProfile, Interrupt, End, out
<1>2. CASE Skip \/ SeeFile \/ ReadFile \/ CopyFails \/ WriteProfile
  BY <1>2 DEF Skip, SeeFile, ReadFile, CopyFails, WriteProfile, out
<1>3. CASE StageFamily \/ StageFails \/ TableFails \/ EndRows \/ EndProfile \/ WriteFails
  BY <1>3 DEF StageFamily, StageFails, TableFails, EndRows, EndProfile, WriteFails, out
<1>4. CASE EmitHistory
  BY <1>4 DEF EmitHistory, Emit, NewRow, Visits
<1>5. CASE EmitDownloads
  BY <1>5 DEF EmitDownloads, Emit, NewRow
<1>6. CASE EmitCookies
  BY <1>6 DEF EmitCookies, Emit, NewRow
<1>7. CASE EmitBookmarks
  BY <1>7 DEF EmitBookmarks, Emit, NewRow
<1>. QED
  BY <1>1, <1>2, <1>3, <1>4, <1>5, <1>6, <1>7 DEF Next, Collect

\* The record of a profile is written once its databases are copied.
LEMMA ProfilesShape ==
  ASSUME Next
  PROVE  \/ profiles' = profiles
         \/ /\ WriteProfile /\ Fetching /\ UNCHANGED <<at, rows>>
            /\ profiles' = [p \in DOMAIN profiles \union {at} |-> IF p = at THEN copied ELSE profiles[p]]
<1>1. CASE HostStep \/ Discover \/ EndDiscover \/ WriteAbsents \/ BeginProfile \/ Interrupt \/ End
  BY <1>1 DEF HostStep, Discover, EndDiscover, WriteAbsents, BeginProfile, Interrupt, End, out
<1>2. CASE Skip \/ SeeFile \/ ReadFile \/ CopyFails
  BY <1>2 DEF Skip, SeeFile, ReadFile, CopyFails, out
<1>3. CASE StageFamily \/ StageFails \/ TableFails \/ EndRows \/ EndProfile \/ WriteFails
  BY <1>3 DEF StageFamily, StageFails, TableFails, EndRows, EndProfile, WriteFails, out
<1>4. CASE EmitHistory \/ EmitDownloads \/ EmitCookies \/ EmitBookmarks
  BY <1>4 DEF EmitHistory, EmitDownloads, EmitCookies, EmitBookmarks, Emit
<1>5. CASE WriteProfile
  BY <1>5 DEF WriteProfile, Fetching, place
<1>. QED
  BY <1>1, <1>2, <1>3, <1>4, <1>5 DEF Next, Collect

\* The database of a new row was copied, and is listed.
LEMMA NewRowOf ==
  ASSUME StagedInv, pc = "rows"
  PROVE  /\ Source \in Known /\ Source[1] = at /\ <<Source, "main">> \in copied
         /\ at \in DOMAIN profiles /\ <<Source, "main">> \in profiles[at]
         /\ staged = Kept(Source) /\ tables \in Seq(TableName)
         /\ \A k \in 1 .. Len(tables) :
              \E j \in 1 .. Len(Tables(Source[2])) : Tables(Source[2])[j] = tables[k]
<1>1. /\ copied \subseteq Mine({"main"}) /\ copied # {}
      /\ at \in DOMAIN profiles /\ copied \subseteq profiles[at] /\ staged = Kept(Source)
      /\ tables \in Seq(TableName)
      /\ \A k \in 1 .. Len(tables) :
           \E j \in 1 .. Len(Tables(Source[2])) : Tables(Source[2])[j] = tables[k]
  BY DEF StagedInv, Parsing, TableName
<1>. QED
  BY <1>1, SourceCopied

LEMMA RowTypeStep ==
  ASSUME PlaceType, StagedInv, RowType, RowsInv, Next PROVE RowType'
<1>. SUFFICES ASSUME NEW r \in rows'
              PROVE  r.of \in Known /\ r.of[1] \in DOMAIN profiles' /\ <<r.of, "main">> \in profiles'[r.of[1]]
  BY DEF RowType
<1>1. CASE r \in rows
  <2>1. r.of \in Known /\ r.of[1] \in DOMAIN profiles /\ <<r.of, "main">> \in profiles[r.of[1]]
    BY <1>1 DEF RowType
  <2>2. CASE profiles' = profiles
    BY <2>1, <2>2
  <2>3. CASE profiles' # profiles
    <3>1. /\ Fetching
          /\ profiles' = [p \in DOMAIN profiles \union {at} |-> IF p = at THEN copied ELSE profiles[p]]
      BY <2>3, ProfilesShape
    <3>2. r.of[1] < at
      BY <1>1, <3>1 DEF RowsInv, Fetching, Parsing
    <3>3. r.of[1] # at
      BY <2>1, <3>2, PlaceOf DEF PlaceType
    <3>. QED
      BY <2>1, <3>1, <3>3
  <2>. QED
    BY <2>2, <2>3
<1>2. CASE r \notin rows
  <2>1. pc = "rows" /\ profiles' = profiles /\ r = NewRow
    BY <1>2, RowsShape
  <2>2. r.of = Source
    BY <2>1 DEF NewRow
  <2>. QED
    BY <2>1, <2>2, NewRowOf
<1>. QED
  BY <1>1, <1>2

\* What the content of a copy may be.
LEMMA ContentType ==
  ASSUME KeptType, NEW d \in Known
  PROVE  Content(Kept(d)) \in 0 .. MaxChanges
<1>1. \A s \in Suffix : Kept(d)[s] \in Contents
  BY ShelfOf DEF Kept, KeptType
<1>2. "main" \in Suffix /\ "-wal" \in Suffix
  BY DEF Suffix
<1>3. Kept(d)["main"].ver \in 0 .. MaxChanges /\ Kept(d)["-wal"].ver \in 0 .. MaxChanges
  BY <1>1, <1>2 DEF Contents
<1>4. 0 \in 0 .. MaxChanges
  BY BrowserBoundAssumption
<1>. QED
  BY <1>3, <1>4 DEF Content

\* The copies a row refers to are not touched any more, if the name is theirs.
LEMMA RowKept ==
  ASSUME PlaceType, RowsInv, RowType, Next, NEW r \in rows, Alone(r.of)
  PROVE  Content(Kept(r.of))' = Content(Kept(r.of))
<1>1. PICK d \in Known : d = r.of
  BY DEF RowType
<1>2. ReadFile \/ CopyFails => Database # d
  <2>1. SUFFICES ASSUME ReadFile \/ CopyFails PROVE Database # d
    OBVIOUS
  <2>2. Fetching /\ Database[1] = at
    BY <2>1, Reads DEF Database
  <2>3. r.of[1] < at
    BY <2>2 DEF RowsInv, Fetching, Parsing
  <2>4. d[1] # at
    BY <1>1, <2>3, PlaceOf DEF PlaceType
  <2>. QED
    BY <2>2, <2>4
<1>3. \A s \in Suffix : kept'[<<RawName(d), s>>] = kept[<<RawName(d), s>>]
  BY <1>1, <1>2, OtherCopies
<1>4. Content(Kept(d))' = Content(Kept(d))
  BY <1>3, KeptSame
<1>. QED
  BY <1>1, <1>4

\* Visits of one list are those of one database, if its name is its own.
LEMMA OneHistory ==
  ASSUME NEW d \in Known, NEW e \in Known, Alone(d), Visits(d) = Visits(e),
         d[2] \in {"History", "places.sqlite"}, e[2] \in {"History", "places.sqlite"}
  PROVE  d = e
<1>1. /\ Profile[d[1]].browser = Profile[e[1]].browser /\ Profile[d[1]].user = Profile[e[1]].user
      /\ Profile[d[1]].name = Profile[e[1]].name
  BY DEF Visits
<1>2. ASSUME NEW o \in Known, o[2] \in {"History", "places.sqlite"}
      PROVE  o[2] = IF Profile[o[1]].browser = "firefox" THEN "places.sqlite" ELSE "History"
  <2>1. PICK k \in DOMAIN Specs(o[1]) : Specs(o[1])[k] = o[2]
    BY PlaceOf
  <2>2. CASE Profile[o[1]].browser = "firefox"
    <3>1. Specs(o[1]) = <<"places.sqlite", "cookies.sqlite">>
      BY <2>2 DEF Specs
    <3>2. o[2] # "History"
      BY <2>1, <3>1
    <3>. QED
      BY <1>2, <2>2, <3>2
  <2>3. CASE Profile[o[1]].browser # "firefox"
    <3>1. Specs(o[1]) = <<"History", "Cookies", "Network/Cookies", "Bookmarks">>
      BY <2>3 DEF Specs
    <3>2. o[2] # "places.sqlite"
      BY <2>1, <3>1
    <3>. QED
      BY <1>2, <2>3, <3>2
  <2>. QED
    BY <2>2, <2>3
<1>3. d[2] = e[2]
  BY <1>1, <1>2
<1>4. RawName(d) = RawName(e)
  BY <1>1, <1>3 DEF RawName
<1>. QED
  BY <1>4, OwnCopies

\* Rows are of databases that came before, or of the one that is read.
LEMMA RowsBehind ==
  ASSUME PlaceType, StagedInv, RowType, RowsInv, Next
  PROVE  /\ pc' \in {"discover", "absent"} => rows' = {}
         /\ pc' # "done" => \A r \in rows' : r.of[1] < at' \/ (r.of[1] = at' /\ Parsing')
<1>0. \A r \in rows : r.of[1] \in Nat
  <2>1. \A d \in Known : d[1] \in 1 .. Len(Profile)
    BY PlaceOf
  <2>2. Len(Profile) \in Nat
    BY ProfileAssumption
  <2>3. \A d \in Known : d[1] \in Nat
    BY <2>1, <2>2
  <2>. QED
    BY <2>3 DEF RowType
<1>1. CASE HostStep \/ SeeFile \/ Skip \/ ReadFile \/ CopyFails
  <2>1. UNCHANGED <<at, rows>> /\ (pc' = pc \/ {pc, pc'} \subseteq {"copy", "read"})
    BY <1>1 DEF HostStep, SeeFile, Skip, ReadFile, CopyFails, Copying, place, out
  <2>. QED
    BY <2>1 DEF RowsInv, Parsing
<1>2. CASE Discover \/ EndDiscover
  <2>1. pc = "discover" /\ rows' = rows
    BY <1>2 DEF Discover, EndDiscover, out
  <2>. QED
    BY <2>1 DEF RowsInv
<1>3. CASE WriteAbsents \/ Interrupt \/ End \/ WriteFails
  BY <1>3 DEF WriteAbsents, Interrupt, End, WriteFails, Return
<1>4. CASE BeginProfile
  <2>1. /\ pc = "profile" /\ rows' = rows /\ (at' = at \/ at' = at + 1) /\ at \in Nat
        /\ pc' \in {"profile", "copy"}
    BY <1>4 DEF BeginProfile, out, PlaceType
  <2>2. \A r \in rows : r.of[1] < at
    BY <2>1 DEF RowsInv, Parsing
  <2>. QED
    BY <1>0, <2>1, <2>2
<1>5. CASE WriteProfile
  <2>1. pc = "copy" /\ rows' = rows /\ at' = at /\ pc' = "stage"
    BY <1>5 DEF WriteProfile, place
  <2>. QED
    BY <2>1 DEF RowsInv, Parsing
<1>6. CASE StageFamily \/ StageFails \/ TableFails \/ EndRows
  <2>1. rows' = rows /\ at' = at /\ Parsing /\ Parsing' /\ pc \in {"stage", "rows"} /\ pc' \in {"stage", "rows"}
    BY <1>6 DEF StageFamily, StageFails, TableFails, EndRows, place, out, Parsing
  <2>. QED
    BY <2>1 DEF RowsInv
<1>7. CASE EmitHistory \/ EmitDownloads \/ EmitCookies \/ EmitBookmarks
  <2>1. /\ rows' = rows \union {NewRow} /\ at' = at /\ Parsing /\ Parsing' /\ pc = "rows" /\ pc' = "rows"
    BY <1>7 DEF EmitHistory, EmitDownloads, EmitCookies, EmitBookmarks, Emit, NewRow, place, Parsing
  <2>2. NewRow.of = Source /\ Source[1] = at
    BY <2>1, NewRowOf DEF NewRow
  <2>. QED
    BY <2>1, <2>2 DEF RowsInv
<1>8. CASE EndProfile
  <2>1. pc = "stage" /\ pc' = "profile" /\ at' = at + 1 /\ at \in Nat /\ rows' = rows
    BY <1>8 DEF EndProfile, out, PlaceType
  <2>2. \A r \in rows : r.of[1] < at \/ r.of[1] = at
    BY <2>1 DEF RowsInv
  <2>. QED
    BY <1>0, <2>1, <2>2
<1>. QED
  BY <1>1, <1>2, <1>3, <1>4, <1>5, <1>6, <1>7, <1>8 DEF Next, Collect

\* Rows agree with the copies and with the list, and keep doing so.
LEMMA RowsAgreeStep ==
  ASSUME PlaceType, KeptType, StagedInv, RowType, RowsInv, Next
  PROVE  RowsComeFromTheirCopies'
<1>. SUFFICES ASSUME NEW r \in rows', Alone(r.of)
              PROVE  /\ r.ver = Content(Kept(r.of))'
                     /\ r.table = "history" => listing'[Visits(r.of)] = r.ver
  BY DEF RowsComeFromTheirCopies, Visits, Alone
<1>1. ASSUME r \in rows
      PROVE  /\ r.ver = Content(Kept(r.of))'
             /\ r.table = "history" => listing[Visits(r.of)] = r.ver
  <2>1. /\ r.ver = Content(Kept(r.of))
        /\ r.table = "history" => listing[Visits(r.of)] = r.ver
    BY <1>1 DEF RowsInv, RowsComeFromTheirCopies, Visits
  <2>. QED
    BY <1>1, <2>1, RowKept
<1>2. CASE UNCHANGED <<rows, listing>>
  BY <1>1, <1>2
<1>3. CASE /\ pc = "rows" /\ tables # <<>>
           /\ UNCHANGED <<copied, staged, kept>>
           /\ rows' = rows \union {NewRow}
           /\ \/ /\ Head(tables) = "history"
                 /\ listing' = [listing EXCEPT ![Visits(Source)] = Content(staged)]
              \/ Head(tables) # "history" /\ listing' = listing
  <2>1. PICK d \in Known : d = Source
    BY <1>3, NewRowOf
  <2>2. Content(staged) = Content(Kept(d)) /\ Content(Kept(d))' = Content(Kept(d))
    BY <1>3, <2>1, NewRowOf, KeptSame
  <2>3. PICK v : v = Content(Kept(d))
    OBVIOUS
  <2>4. NewRow = [of |-> d, table |-> Head(tables), ver |-> v]
    BY <2>1, <2>2, <2>3 DEF NewRow
  <2>5. Visits(d) \in DOMAIN listing
    <3>1. d[1] \in DOMAIN Profile
      BY PlaceOf, ProfileAssumption
    <3>. QED
      BY <3>1 DEF RowsInv, Visits, Listings
  <2>6. Head(tables) = "history" => listing' = [listing EXCEPT ![Visits(d)] = v]
    BY <1>3, <2>1, <2>2, <2>3
  <2>7. CASE r = NewRow
    <3>1. r.of = d /\ r.table = Head(tables) /\ r.ver = v
      BY <2>4, <2>7
    <3>2. Head(tables) = "history" => listing'[Visits(d)] = v
      BY <2>5, <2>6
    <3>. QED
      BY <2>2, <2>3, <3>1, <3>2
  <2>8. CASE r \in rows
    <3>1. CASE Head(tables) # "history" \/ r.table # "history"
      BY <1>1, <1>3, <2>8, <3>1
    <3>2. CASE Head(tables) = "history" /\ r.table = "history"
      <4>1. PICK e \in Known : e = r.of
        BY <2>8 DEF RowType
      <4>2. e[2] \in {"History", "places.sqlite"}
        BY <2>8, <3>2, <4>1 DEF RowsInv
      <4>3. d[2] \in {"History", "places.sqlite"}
        <5>1. Head(tables) = tables[1] /\ 1 \in 1 .. Len(tables)
          BY <1>3, NewRowOf, TailTables
        <5>2. PICK j \in 1 .. Len(Tables(d[2])) : Tables(d[2])[j] = tables[1]
          BY <1>3, <2>1, <5>1, NewRowOf
        <5>. QED
          BY <3>2, <5>1, <5>2, TablesShape
      <4>4. CASE Visits(e) = Visits(d)
        <5>1. e = d
          BY <4>1, <4>2, <4>3, <4>4, OneHistory
        <5>2. listing'[Visits(d)] = v
          BY <2>5, <2>6, <3>2
        <5>3. r.ver = v
          BY <1>1, <2>2, <2>3, <2>8, <4>1, <5>1
        <5>. QED
          BY <1>1, <2>8, <4>1, <5>1, <5>2, <5>3
      <4>5. CASE Visits(e) # Visits(d)
        <5>1. PICK x, y : x = Visits(d) /\ y = Visits(e)
          OBVIOUS
        <5>2. listing' = [listing EXCEPT ![x] = v] /\ x # y /\ y \in DOMAIN listing
          <6>1. e[1] \in DOMAIN Profile
            BY PlaceOf, ProfileAssumption
          <6>2. Visits(e) \in DOMAIN listing
            BY <6>1 DEF RowsInv, Visits, Listings
          <6>. QED
            BY <2>6, <3>2, <4>5, <5>1, <6>2
        <5>3. listing'[y] = listing[y]
          BY <5>2
        <5>. QED
          BY <1>1, <2>8, <4>1, <5>1, <5>3
      <4>. QED
        BY <4>4, <4>5
    <3>. QED
      BY <3>1, <3>2
  <2>. QED
    BY <1>3, <2>7, <2>8
<1>. QED
  BY <1>2, <1>3, RowsShape

\* A row is what was committed: when it was read, its copies were.
LEMMA RowsCommittedStep ==
  ASSUME HostType, PlaceType, HostInv, CopiesInv, StagedInv, RowType, RowsInv, Next
  PROVE  RowsWereCommitted'
<1>. SUFFICES ASSUME NEW r \in rows', Alone(r.of), Clean(r.of)'
              PROVE  r.ver >= 2
  BY DEF RowsWereCommitted, Clean, Noted, Alone
<1>1. CASE r \in rows
  <2>1. PICK d \in Known : d = r.of
    BY <1>1 DEF RowType
  <2>2. Clean(d)
    BY <2>1, CleanBefore
  <2>. QED
    BY <1>1, <2>1, <2>2 DEF RowsInv, RowsWereCommitted, Clean, Noted
<1>2. CASE r \notin rows
  <2>1. pc = "rows" /\ r = NewRow
    BY <1>2, RowsShape
  <2>2. PICK d \in Known : d = Source
    BY <2>1, NewRowOf
  <2>3. r.of = d /\ r.ver = Content(Kept(d)) /\ d[1] = at
    BY <2>1, <2>2, NewRowOf DEF NewRow
  <2>4. Behind(d)
    BY <2>1, <2>3 DEF Behind, Parsing, PlaceType
  <2>5. Clean(d) /\ Latest(d) \in Nat
    BY <2>3, CleanBefore
  <2>6. Content(Kept(d)) \in 2 .. Latest(d)
    BY <2>3, <2>4, <2>5 DEF CopiesInv
  <2>. QED
    BY <2>3, <2>5, <2>6
<1>. QED
  BY <1>1, <1>2

LEMMA RowsInvStep ==
  ASSUME HostType, PlaceType, KeptType, HostInv, CopiesInv, StagedInv, RowType, RowsInv, Next
  PROVE  RowsInv'
<1>1. listing' \in [Listings -> 0 .. MaxChanges]
  <2>1. CASE listing' = listing
    BY <2>1 DEF RowsInv
  <2>2. CASE listing' # listing
    <3>1. pc = "rows" /\ listing' = [listing EXCEPT ![Visits(Source)] = Content(staged)]
      BY <2>2, RowsShape
    <3>2. PICK d \in Known : d = Source
      BY <3>1, NewRowOf
    <3>3. PICK v \in 0 .. MaxChanges : v = Content(staged)
      BY <3>1, <3>2, NewRowOf, ContentType
    <3>4. listing' = [listing EXCEPT ![Visits(d)] = v]
      BY <3>1, <3>2, <3>3
    <3>5. listing \in [Listings -> 0 .. MaxChanges]
      BY DEF RowsInv
    <3>. QED
      BY <3>4, <3>5
  <2>. QED
    BY <2>1, <2>2
<1>2. \A r \in rows' : r.table = "history" => r.of[2] \in {"History", "places.sqlite"}
  <2>. SUFFICES ASSUME NEW r \in rows', r.table = "history"
                PROVE  r.of[2] \in {"History", "places.sqlite"}
    OBVIOUS
  <2>1. CASE r \in rows
    BY <2>1 DEF RowsInv
  <2>2. CASE r \notin rows
    <3>1. pc = "rows" /\ tables # <<>> /\ r = NewRow
      BY <2>2, RowsShape
    <3>2. r.of = Source /\ Head(tables) = "history"
      BY <3>1 DEF NewRow
    <3>3. tables[1] = "history" /\ 1 \in 1 .. Len(tables)
      BY <3>1, <3>2, NewRowOf, TailTables
    <3>4. PICK d \in Known : d = Source
      BY <3>1, NewRowOf
    <3>5. PICK j \in 1 .. Len(Tables(d[2])) : Tables(d[2])[j] = tables[1]
      BY <3>1, <3>3, <3>4, NewRowOf
    <3>. QED
      BY <3>2, <3>3, <3>4, <3>5, TablesShape
  <2>. QED
    BY <2>1, <2>2
<1>. QED
  BY <1>1, <1>2, RowsBehind, RowsAgreeStep, RowsCommittedStep DEF RowsInv

----------------------------------------------------------------------------
(* What is reported.                                                       *)

\* A database that is there was there before.
LEMMA ThereBefore ==
  ASSUME HostType, HostInv, Next, NEW d \in Known, Spared(d)'
  PROVE  Spared(d)
<1>1. CASE HostStep
  <2>1. Noted' = Noted
    BY <1>1 DEF HostStep, noted, Noted
  <2>2. PICK e \in Known, x \in Base :
          /\ db' = [db EXCEPT ![e] = x]
          /\ \/ /\ Journalled(e) /\ db[e].main # 0 /\ x.main = db[e].main /\ x.point = db[e].point
                /\ x.wal = changes' /\ x.base = db[e].main
             \/ /\ ~Journalled(e) /\ db[e].main # 0 /\ x.main = changes' /\ x.point = db[e].point
                /\ x.wal = db[e].wal /\ x.base = db[e].base
             \/ /\ db[e].wal # 0 /\ x.main = db[e].wal /\ x.wal = 0 /\ x.base = 0
                /\ x.point = changes'
             \/ x.main = 0 /\ x.wal = 0 /\ x.base = 0 /\ x.point = 0
    BY <1>1, HostShape
  <2>3. db'[e] = x /\ \A o \in Known \ {e} : db'[o] = db[o]
    BY <2>2 DEF HostType
  <2>4. db[e].main = 0 => db'[e].main = 0
    BY <2>2, <2>3 DEF HostInv
  <2>5. db'[d].main # 0 => db[d].main # 0
    BY <2>3, <2>4
  <2>. QED
    BY <2>1, <2>5 DEF Spared
<1>2. CASE Collect
  BY <1>2, CollectShape DEF Spared, Noted, host
<1>. QED
  BY <1>1, <1>2 DEF Next

\* A profile with a database is found, or it is noted that it was not.
LEMMA FoundStep ==
  ASSUME HostType, PlaceType, HostInv, FoundInv, Next, pc = "absent" => found = {}
  PROVE  FoundInv' /\ (pc' = "absent" => found' = {})
<1>1. SUFFICES ASSUME ret' # "err", NEW d \in Known, Spared(d)'
               PROVE  (pc' = "discover" /\ at' <= d[1]) \/ d[1] \in found'
  <2>1. pc' = "absent" => found' = {}
    <3>1. CASE EndDiscover
      BY <3>1 DEF EndDiscover
    <3>2. CASE ~EndDiscover
      <4>1. pc' = "absent" => pc = "absent" /\ found' = found
        <5>1. CASE HostStep \/ SeeFile
          BY <5>1 DEF HostStep, SeeFile, place
        <5>2. CASE Discover \/ BeginProfile \/ EndProfile
          BY <5>2 DEF Discover, BeginProfile, EndProfile
        <5>3. CASE WriteAbsents \/ Interrupt \/ End \/ WriteFails
          BY <5>3 DEF WriteAbsents, Interrupt, End, WriteFails, Return
        <5>4. CASE Skip \/ ReadFile \/ CopyFails \/ WriteProfile
          BY <5>4 DEF Skip, ReadFile, CopyFails, WriteProfile, Copying
        <5>5. CASE StageFamily \/ StageFails \/ TableFails \/ EndRows
          BY <5>5 DEF StageFamily, StageFails, TableFails, EndRows
        <5>6. CASE EmitHistory \/ EmitDownloads \/ EmitCookies \/ EmitBookmarks
          BY <5>6 DEF EmitHistory, EmitDownloads, EmitCookies, EmitBookmarks, Emit
        <5>. QED
          BY <3>2, <5>1, <5>2, <5>3, <5>4, <5>5, <5>6 DEF Next, Collect
      <4>. QED
        BY <4>1
    <3>. QED
      BY <3>1, <3>2
  <2>. QED
    BY <2>1 DEF FoundInv
<1>2. Spared(d) /\ d[1] \in 1 .. Len(Profile) /\ Len(Profile) \in Nat /\ at \in 1 .. Len(Profile) + 1
  BY <1>1, ThereBefore, PlaceOf, ProfileAssumption DEF PlaceType
<1>3. ret # "err" => (pc = "discover" /\ at <= d[1]) \/ d[1] \in found
  BY <1>2 DEF FoundInv
<1>4. ret = "none"
  <2>1. pc # "done"
    BY DEF Next, Collect, Discover, EndDiscover, WriteAbsents, BeginProfile, Interrupt, End, Skip,
           SeeFile, ReadFile, CopyFails, WriteProfile, StageFamily, StageFails, EmitHistory,
           EmitDownloads, EmitCookies, EmitBookmarks, Emit, TableFails, EndRows, EndProfile,
           WriteFails, Copying
  <2>. QED
    BY <2>1 DEF PlaceType
<1>5. CASE Discover
  <2>1. pc = "discover" /\ pc' = "discover" /\ at' = at + 1
    BY <1>5 DEF Discover
  <2>2. CASE at = d[1]
    <3>1. CASE found' = IF LooksLikeProfile(at) THEN found \union {at} ELSE found
      <4>1. LooksLikeProfile(at)
        BY <1>2, <2>2 DEF LooksLikeProfile, Spared
      <4>. QED
        BY <2>2, <3>1, <4>1
    <3>2. CASE Hush(<<"home", <<at, "profile">>>>)
      <4>1. <<"home", <<at, "profile">>>> \in Noted' /\ <<"home", <<at, "profile">>>>[2] = <<d[1], "profile">>
        BY <2>2, <3>2 DEF Hush, Noted
      <4>. QED
        BY <1>1, <4>1 DEF Spared
    <3>. QED
      BY <1>5, <3>1, <3>2 DEF Discover
  <2>3. CASE at # d[1]
    <3>1. found \subseteq found'
      BY <1>5 DEF Discover
    <3>. QED
      BY <1>2, <1>3, <1>4, <2>1, <2>3, <3>1
  <2>. QED
    BY <2>2, <2>3
<1>6. CASE EndDiscover
  BY <1>2, <1>3, <1>4, <1>6 DEF EndDiscover
<1>7. CASE ~Discover /\ ~EndDiscover
  <2>1. found' = found /\ (pc = "discover" => ret' = "err" \/ (pc' = pc /\ at' = at))
    <3>1. CASE HostStep \/ SeeFile
      BY <3>1 DEF HostStep, SeeFile, place, Copying
    <3>2. CASE BeginProfile \/ EndProfile
      BY <3>2 DEF BeginProfile, EndProfile
    <3>3. CASE WriteAbsents \/ Interrupt \/ End \/ WriteFails
      BY <3>3 DEF WriteAbsents, Interrupt, End, WriteFails, Return, place
    <3>4. CASE Skip \/ ReadFile \/ CopyFails \/ WriteProfile
      BY <3>4 DEF Skip, ReadFile, CopyFails, WriteProfile, Copying, place
    <3>5. CASE StageFamily \/ StageFails \/ TableFails \/ EndRows
      BY <3>5 DEF StageFamily, StageFails, TableFails, EndRows, place
    <3>6. CASE EmitHistory \/ EmitDownloads \/ EmitCookies \/ EmitBookmarks
      BY <3>6 DEF EmitHistory, EmitDownloads, EmitCookies, EmitBookmarks, Emit, place
    <3>. QED
      BY <1>7, <3>1, <3>2, <3>3, <3>4, <3>5, <3>6 DEF Next, Collect
  <2>. QED
    BY <1>1, <1>3, <1>4, <2>1
<1>. QED
  BY <1>5, <1>6, <1>7

\* The rows of a database whose copies are not touched are still what its copies give.
LEMMA RowsStay ==
  ASSUME PlaceType, Next, NEW d \in Known, Alone(d), ReadFile \/ CopyFails => Database # d
  PROVE  /\ \A k : Row(d, k)' = Row(d, k)
         /\ rows \subseteq rows'
         /\ AllRows(d) => AllRows(d)'
<1>1. Content(Kept(d))' = Content(Kept(d))
  BY OtherCopies, KeptSame
<1>2. \A k : Row(d, k)' = Row(d, k)
  BY <1>1 DEF Row
<1>3. rows \subseteq rows'
  BY RowsShape
<1>. QED
  BY <1>2, <1>3 DEF AllRows

\* What was done with the databases that were left is not undone.
LEMMA LeftStays ==
  ASSUME PlaceType, Next, NEW d \in Known, Alone(d), Left(d), Left(d)', Pursued(d)
  PROVE  /\ d[1] \in DOMAIN profiles' /\ <<d, "main">> \in profiles'[d[1]]
         /\ AllRows(d)'
<1>1. d[1] < at /\ d[1] # at
  BY PlaceOf DEF Left, PlaceType
<1>2. ReadFile \/ CopyFails => Database # d
  BY <1>1 DEF Database
<1>3. d[1] \in DOMAIN profiles /\ <<d, "main">> \in profiles[d[1]] /\ AllRows(d)
  BY DEF Pursued
<1>4. d[1] \in DOMAIN profiles' /\ <<d, "main">> \in profiles'[d[1]]
  BY <1>1, <1>3, ProfilesShape
<1>. QED
  BY <1>2, <1>3, <1>4, RowsStay

\* Where nothing is being done with a profile, its databases are only to be
\* pursued if they were left.
LEMMA PursuedIdle ==
  ASSUME NEW d \in Known, pc' \notin {"copy", "read", "stage", "rows"},
         Left(d)' => d[1] \in DOMAIN profiles' /\ <<d, "main">> \in profiles'[d[1]] /\ AllRows(d)'
  PROVE  Pursued(d)'
BY DEF Pursued, AtJournal, Fetched, Fetching, Parsing

\* A database is pursued through the copying of its files.
LEMMA PursuedCopy ==
  ASSUME HostType, PlaceType, HostInv, Skip \/ ReadFile \/ CopyFails, Next,
         NEW d \in Known, Alone(d), Clean(d)', d[1] \in found, Pursued(d)
  PROVE  Pursued(d)'
<1>1. /\ Fetching /\ spec \in DOMAIN Specs(at) /\ pc' = "copy" /\ UNCHANGED <<at, found, profiles>>
      /\ NextDatabase \/ Sidecars
      /\ copied \subseteq copied'
  BY Reads DEF Skip, Copying, Fetching, ReadFile, CopyFails, Lost, out, parse
<1>2. /\ AtJournal(d)' => Database = d /\ suffix = "main" /\ Journalled(d) /\ ~NextDatabase
      /\ Behind(d)' => Behind(d) \/ (Database = d /\ NextDatabase)
  BY <1>1, TurnMoves
<1>3. ~Parsing' /\ pc' # "rows"
  BY <1>1 DEF Parsing
<1>4. /\ Left(d)' <=> Left(d)
      /\ Left(d) => at # d[1]
  <2>1. d[1] \in Nat /\ at \in Nat
    BY PlaceOf DEF PlaceType
  <2>. QED
    BY <1>1, <2>1 DEF Left, Fetching
<1>5. Left(d)' => d[1] \in DOMAIN profiles' /\ <<d, "main">> \in profiles'[d[1]] /\ AllRows(d)'
  BY <1>4, LeftStays
<1>6. AtJournal(d)' \/ Fetched(d)' => <<d, "main">> \in copied'
  <2>1. CASE Database # d
    <3>1. ~AtJournal(d)'
      BY <1>2, <2>1
    <3>2. ASSUME Fetched(d)' PROVE Fetched(d)
      <4>1. Behind(d)'
        BY <1>1, <3>2 DEF Behind
      <4>2. at = d[1]
        BY <1>1, <3>2 DEF Fetched
      <4>. QED
        BY <1>1, <1>2, <1>4, <2>1, <4>1, <4>2 DEF Behind, Fetching, Parsing
    <3>. QED
      BY <1>1, <3>1, <3>2 DEF Pursued
  <2>2. CASE Database = d /\ suffix = "-wal"
    <3>1. AtJournal(d)
      BY <1>1, <2>2, AtDatabase DEF AtJournal
    <3>. QED
      BY <1>1, <3>1 DEF Pursued
  <2>3. CASE Database = d /\ suffix = "main"
    <3>1. CASE Skip
      <4>1. File(d, "main") = Missing
        BY <2>3, <3>1 DEF Skip, IsThere
      <4>2. db[d].main = 0
        BY <4>1 DEF File, Missing
      <4>. QED
        BY <4>2, CleanBefore DEF Clean
    <3>2. CASE CopyFails \/ (ReadFile /\ ~IsThere(Database, suffix))
      BY <2>3, <3>2, LostNoted
    <3>3. CASE ReadFile /\ IsThere(Database, suffix)
      <4>1. copied' = copied \union {<<d, "main">>}
        BY <2>3, <3>3 DEF ReadFile
      <4>. QED
        BY <4>1
    <3>. QED
      BY <3>1, <3>2, <3>3
  <2>. QED
    BY <2>1, <2>2, <2>3 DEF PlaceType, Suffix
<1>. QED
  BY <1>3, <1>5, <1>6 DEF Pursued

\* And through the parsing of the copies.
LEMMA PursuedParse ==
  ASSUME PlaceType, StagedInv, Next, Parsing, Parsing', UNCHANGED <<at, profiles>>,
         NEW d \in Known, Alone(d), Clean(d)', Pursued(d)
  PROVE  Pursued(d)'
<1>1. ~ReadFile /\ ~CopyFails /\ ~Fetching /\ ~Fetching'
  BY DEF Parsing, Fetching, ReadFile, CopyFails
<1>2. \A k : Row(d, k)' = Row(d, k)
  BY <1>1, RowsStay
<1>3. rows \subseteq rows' /\ (AllRows(d) => AllRows(d)')
  BY <1>1, RowsStay
<1>4. Left(d)' <=> Left(d)
  BY DEF Left, Parsing
<1>5. /\ ~AtJournal(d)' /\ ~Fetched(d)'
      /\ Left(d)' => AllRows(d)'
      /\ Left(d)' \/ (Parsing' /\ at' = d[1]) => d[1] \in DOMAIN profiles' /\ <<d, "main">> \in profiles'[d[1]]
  BY <1>1, <1>3, <1>4 DEF AtJournal, Fetched, Pursued
<1>6. SUFFICES /\ at = d[1] => <<d, "main">> \in copied' \/ AllRows(d)'
               /\ pc' = "rows" /\ d = Source' =>
                    \A k \in 1 .. Len(Tables(d[2])) :
                      Row(d, k)' \in rows' \/ \E j \in 1 .. Len(tables') : tables'[j] = Tables(d[2])[k]
  BY <1>5 DEF Pursued
<1>7. /\ at = d[1] => <<d, "main">> \in copied \/ AllRows(d)
      /\ pc = "rows" /\ d = Source =>
           \A k \in 1 .. Len(Tables(d[2])) :
             Row(d, k) \in rows \/ \E j \in 1 .. Len(tables) : tables[j] = Tables(d[2])[k]
  BY DEF Pursued
<1>8. CASE HostStep
  <2>1. UNCHANGED <<pc, copied, tables>> /\ Source' = Source
    BY <1>8, SourceStays DEF HostStep, parse
  <2>. QED
    BY <1>2, <1>3, <1>7, <2>1
<1>9. CASE StageFamily
  <2>1. copied' = copied /\ tables' = Tables(Source[2]) /\ Source' = Source
    BY <1>9, SourceStays DEF StageFamily
  <2>2. d = Source' => tables' = Tables(d[2])
    BY <2>1
  <2>. QED
    BY <1>3, <1>7, <2>1, <2>2
<1>10. CASE StageFails \/ TableFails
  <2>1. Source # d
    <3>1. \E w \in {"stage", "table"} : <<w, Source>> \in Noted'
      BY <1>10 DEF StageFails, TableFails, FailAndReport, Report, Hush, Noted
    <3>2. \A w : <<w, Source>>[2] = Source
      OBVIOUS
    <3>. QED
      BY <3>1, <3>2 DEF Clean
  <2>2. /\ <<d, "main">> \in copied => <<d, "main">> \in copied'
        /\ pc' = "rows" => Source' = Source
    <3>1. CASE StageFails
      <4>1. copied' = copied \ {<<Source, "main">>} /\ pc' = "stage"
        BY <3>1 DEF StageFails, Parsed
      <4>2. <<d, "main">> # <<Source, "main">>
        BY <2>1
      <4>. QED
        BY <4>1, <4>2
    <3>2. CASE TableFails
      BY <3>2, SourceStays DEF TableFails
    <3>. QED
      BY <1>10, <3>1, <3>2
  <2>. QED
    BY <1>3, <1>7, <2>1, <2>2
<1>11. CASE EmitHistory \/ EmitDownloads \/ EmitCookies \/ EmitBookmarks
  <2>1. /\ pc = "rows" /\ tables # <<>> /\ tables' = Tail(tables) /\ copied' = copied
        /\ rows' = rows \union {NewRow}
    BY <1>11 DEF EmitHistory, EmitDownloads, EmitCookies, EmitBookmarks, Emit, NewRow
  <2>2. Source' = Source
    BY <2>1, SourceStays
  <2>3. ASSUME d = Source, NEW k \in 1 .. Len(Tables(d[2]))
        PROVE  Row(d, k)' \in rows' \/ \E j \in 1 .. Len(tables') : tables'[j] = Tables(d[2])[k]
    <3>1. CASE Row(d, k) \in rows
      BY <1>2, <1>3, <3>1
    <3>2. CASE Row(d, k) \notin rows
      <4>1. PICK j \in 1 .. Len(tables) : tables[j] = Tables(d[2])[k]
        BY <1>7, <2>1, <2>3, <3>2
      <4>2. /\ tables \in Seq(TableName) /\ staged = Kept(d)
        BY <2>1, <2>3, NewRowOf
      <4>3. CASE j = 1
        <5>1. Head(tables) = Tables(d[2])[k]
          BY <2>1, <4>1, <4>2, <4>3, TailTables
        <5>2. NewRow = Row(d, k)
          BY <2>3, <4>2, <5>1 DEF NewRow, Row
        <5>. QED
          BY <1>2, <2>1, <5>2
      <4>4. CASE j # 1
        <5>1. /\ Len(tables') = Len(tables) - 1 /\ Len(tables) \in Nat
              /\ \A i \in 1 .. Len(tables') : tables'[i] = tables[i + 1]
          BY <2>1, <4>2, TailTables
        <5>2. j - 1 \in 1 .. Len(tables') /\ (j - 1) + 1 = j
          BY <4>4, <5>1
        <5>3. tables'[j - 1] = Tables(d[2])[k]
          BY <4>1, <5>1, <5>2
        <5>. QED
          BY <5>2, <5>3
      <4>. QED
        BY <4>3, <4>4
    <3>. QED
      BY <3>1, <3>2
  <2>. QED
    BY <1>3, <1>7, <2>1, <2>2, <2>3
<1>12. CASE EndRows
  <2>1. pc = "rows" /\ tables = <<>> /\ copied' = copied \ {<<Source, "main">>} /\ pc' = "stage"
    BY <1>12 DEF EndRows, Parsed
  <2>2. CASE d = Source
    <3>1. \A k \in 1 .. Len(Tables(d[2])) : Row(d, k) \in rows
      BY <1>7, <2>1, <2>2
    <3>2. AllRows(d)
      BY <3>1 DEF AllRows
    <3>. QED
      BY <1>3, <2>1, <3>2
  <2>3. CASE d # Source
    <3>1. <<d, "main">> # <<Source, "main">>
      BY <2>3
    <3>. QED
      BY <1>3, <1>7, <2>1, <3>1
  <2>. QED
    BY <2>2, <2>3
<1>13. CASE \/ Discover \/ EndDiscover \/ WriteAbsents \/ BeginProfile \/ Interrupt \/ End
            \/ Skip \/ SeeFile \/ ReadFile \/ CopyFails \/ WriteProfile \/ EndProfile \/ WriteFails
  <2>1. ~Parsing \/ ~Parsing'
    BY <1>13 DEF Discover, EndDiscover, WriteAbsents, BeginProfile, Interrupt, End, Skip, SeeFile,
                 ReadFile, CopyFails, WriteProfile, EndProfile, WriteFails, Copying, Return, Parsing
  <2>. QED
    BY <2>1
<1>. QED
  BY <1>8, <1>9, <1>10, <1>11, <1>12, <1>13 DEF Next, Collect

\* A database that is clean is pursued, whatever step is taken.
LEMMA PursuedStep ==
  ASSUME HostType, PlaceType, HostInv, StagedInv, Next, NEW d \in Known, Alone(d), Clean(d)',
         d[1] \in found', d[1] \in found => Pursued(d)
  PROVE  Pursued(d)'
<1>1. d[1] \in Nat /\ at \in Nat /\ 1 <= d[1]
  BY PlaceOf DEF PlaceType
<1>2. CASE Discover \/ EndDiscover \/ WriteAbsents \/ Interrupt \/ End \/ WriteFails
  <2>1. pc' \notin {"copy", "read", "stage", "rows"} /\ (pc' = "profile" => at' = 1)
    BY <1>2 DEF Discover, EndDiscover, WriteAbsents, Interrupt, End, WriteFails, Return
  <2>2. ~Left(d)'
    BY <1>1, <1>2, <2>1 DEF Left, Discover, EndDiscover, WriteAbsents, Interrupt, End, WriteFails, Return
  <2>. QED
    BY <2>1, <2>2, PursuedIdle
<1>3. CASE ~(Discover \/ EndDiscover \/ WriteAbsents \/ Interrupt \/ End \/ WriteFails)
  <2>1. found' = found
    <3>1. CASE HostStep \/ SeeFile \/ BeginProfile \/ EndProfile
      BY <3>1 DEF HostStep, SeeFile, BeginProfile, EndProfile, place
    <3>2. CASE Skip \/ ReadFile \/ CopyFails \/ WriteProfile
      BY <3>2 DEF Skip, ReadFile, CopyFails, WriteProfile, place
    <3>3. CASE StageFamily \/ StageFails \/ TableFails \/ EndRows
      BY <3>3 DEF StageFamily, StageFails, TableFails, EndRows, place
    <3>4. CASE EmitHistory \/ EmitDownloads \/ EmitCookies \/ EmitBookmarks
      BY <3>4 DEF EmitHistory, EmitDownloads, EmitCookies, EmitBookmarks, Emit, place
    <3>. QED
      BY <1>3, <3>1, <3>2, <3>3, <3>4 DEF Next, Collect
  <2>2. Pursued(d) /\ d[1] \in found
    BY <2>1
  <2>3. Left(d) /\ Left(d)' => d[1] \in DOMAIN profiles' /\ <<d, "main">> \in profiles'[d[1]] /\ AllRows(d)'
    BY <2>2, LeftStays
  <2>4. CASE (HostStep \/ SeeFile) /\ ~Parsing
    <3>1. /\ UNCHANGED <<at, found, spec, suffix, copied, profiles>>
          /\ pc' = pc \/ (pc = "copy" /\ pc' = "read")
      BY <2>4 DEF HostStep, SeeFile, place, parse, out, Copying
    <3>2. Place(d)' = Place(d)
      BY DEF Place, Specs
    <3>3. /\ ~Parsing' /\ (Left(d)' => Left(d)) /\ (AtJournal(d)' => AtJournal(d)) /\ (Fetched(d)' => Fetched(d))
      BY <2>4, <3>1, <3>2 DEF Parsing, Left, AtJournal, Fetched, Fetching
    <3>. QED
      BY <2>2, <2>3, <3>1, <3>3 DEF Pursued, Parsing
  <2>5. CASE BeginProfile
    <3>1. /\ pc = "profile" /\ UNCHANGED profiles /\ pc' \in {"profile", "copy"}
          /\ pc' = "copy" => spec' = 1 /\ suffix' = "main"
          /\ at' = at \/ (at' = at + 1 /\ at \notin found)
      BY <2>5 DEF BeginProfile, out
    <3>2. 1 <= Place(d) /\ Place(d) \in Nat /\ Place(d)' = Place(d)
      BY PlaceRange DEF Place, Specs
    <3>3. ~Parsing' /\ ~AtJournal(d)' /\ ~Fetched(d)'
      BY <3>1, <3>2 DEF Parsing, AtJournal, Fetched, Fetching
    <3>4. Left(d)' => Left(d)
      BY <1>1, <2>2, <3>1 DEF Left
    <3>. QED
      BY <2>3, <3>3, <3>4 DEF Pursued, Parsing
  <2>6. CASE Skip \/ ReadFile \/ CopyFails
    BY <2>2, <2>6, PursuedCopy
  <2>7. CASE WriteProfile
    <3>1. /\ pc = "copy" /\ pc' = "stage" /\ UNCHANGED <<at, found, spec, suffix>>
          /\ spec \notin DOMAIN Specs(at)
          /\ copied' = {c \in copied : c[2] = "main"}
          /\ profiles' = [p \in DOMAIN profiles \union {at} |-> IF p = at THEN copied ELSE profiles[p]]
      BY <2>7 DEF WriteProfile, place
    <3>2. /\ Left(d)' <=> Left(d)
          /\ Left(d)' => d[1] # at
          /\ ~AtJournal(d)' /\ ~Fetched(d)'
      BY <1>1, <3>1 DEF Left, AtJournal, Fetched, Fetching
    <3>3. ASSUME at = d[1]
          PROVE  /\ <<d, "main">> \in copied'
                 /\ d[1] \in DOMAIN profiles' /\ <<d, "main">> \in profiles'[d[1]]
      <4>1. Place(d) \in DOMAIN Specs(at)
        BY <3>3, PlaceOf
      <4>2. DOMAIN Specs(at) = 1 .. 2 \/ DOMAIN Specs(at) = 1 .. 4
        BY SpecsShape
      <4>3. spec \in Nat \ {0}
        BY DEF PlaceType
      <4>4. Place(d) < spec
        BY <3>1, <4>1, <4>2, <4>3
      <4>5. Fetched(d)
        BY <3>1, <3>3, <4>4 DEF Fetched, Fetching
      <4>6. <<d, "main">> \in copied /\ <<d, "main">>[2] = "main"
        BY <2>2, <4>5 DEF Pursued
      <4>. QED
        BY <3>1, <3>3, <4>6
    <3>. QED
      BY <2>3, <3>1, <3>2, <3>3 DEF Pursued, Parsing
  <2>8. CASE EndProfile
    <3>1. pc = "stage" /\ pc' = "profile" /\ at' = at + 1 /\ copied = {} /\ profiles' = profiles
      BY <2>8 DEF EndProfile, out
    <3>2. CASE at = d[1]
      <4>1. d[1] \in DOMAIN profiles /\ <<d, "main">> \in profiles[d[1]] /\ AllRows(d)
        BY <2>2, <3>1, <3>2 DEF Pursued, Parsing
      <4>2. ~ReadFile /\ ~CopyFails
        BY <3>1 DEF ReadFile, CopyFails
      <4>. QED
        BY <3>1, <4>1, <4>2, RowsStay, PursuedIdle
    <3>3. CASE at # d[1]
      <4>1. Left(d)' => Left(d)
        BY <1>1, <3>1, <3>3 DEF Left
      <4>. QED
        BY <2>3, <3>1, <4>1, PursuedIdle
    <3>. QED
      BY <3>2, <3>3
  <2>9. CASE \/ HostStep /\ Parsing
             \/ StageFamily \/ StageFails \/ TableFails \/ EndRows
             \/ EmitHistory \/ EmitDownloads \/ EmitCookies \/ EmitBookmarks
    <3>1. Parsing /\ Parsing' /\ UNCHANGED <<at, profiles>>
      BY <2>9 DEF HostStep, StageFamily, StageFails, TableFails, EndRows, EmitHistory, EmitDownloads,
                  EmitCookies, EmitBookmarks, Emit, place, out, Parsing
    <3>. QED
      BY <2>2, <3>1, PursuedParse
  <2>10. SeeFile => ~Parsing
    BY DEF SeeFile, Copying, Parsing
  <2>. QED
    BY <1>3, <2>4, <2>5, <2>6, <2>7, <2>8, <2>9, <2>10 DEF Next, Collect
<1>. QED
  BY <1>2, <1>3

\* What nobody touched is reported when the run ends well.
LEMMA ReportedStep ==
  ASSUME HostType, PlaceType, HostInv, CopiesInv, ReportInv, Next
  PROVE  UndisturbedReported'
<1>. SUFFICES ASSUME ret' = "ok", NEW d \in Known, Undisturbed(d)', Alone(d)
              PROVE  /\ Content(Kept(d))' = 2
                     /\ d[1] \in DOMAIN profiles' /\ <<d, "main">> \in profiles'[d[1]]
                     /\ \A k \in DOMAIN Tables(d[2]) :
                          [of |-> d, table |-> Tables(d[2])[k], ver |-> 2] \in rows'
  BY DEF UndisturbedReported, Alone
<1>1. WriteAbsents \/ End
  <2>1. pc # "done"
    BY DEF Next, Collect, Discover, EndDiscover, WriteAbsents, BeginProfile, Interrupt, End, Skip,
           SeeFile, ReadFile, CopyFails, WriteProfile, StageFamily, StageFails, EmitHistory,
           EmitDownloads, EmitCookies, EmitBookmarks, Emit, TableFails, EndRows, EndProfile,
           WriteFails, Copying
  <2>2. ret = "none"
    BY <2>1 DEF PlaceType
  <2>3. CASE HostStep \/ Discover \/ EndDiscover \/ BeginProfile \/ Skip \/ SeeFile \/ ReadFile \/ CopyFails
    BY <2>2, <2>3 DEF HostStep, Discover, EndDiscover, BeginProfile, Skip, SeeFile, ReadFile, CopyFails
  <2>4. CASE WriteProfile \/ StageFamily \/ StageFails \/ TableFails \/ EndRows \/ EndProfile
    BY <2>2, <2>4 DEF WriteProfile, StageFamily, StageFails, TableFails, EndRows, EndProfile
  <2>5. CASE EmitHistory \/ EmitDownloads \/ EmitCookies \/ EmitBookmarks
    BY <2>2, <2>5 DEF EmitHistory, EmitDownloads, EmitCookies, EmitBookmarks, Emit
  <2>6. CASE Interrupt \/ WriteFails
    BY <2>6 DEF Interrupt, WriteFails, Return
  <2>. QED
    BY <2>3, <2>4, <2>5, <2>6 DEF Next, Collect
<1>2. UNCHANGED <<db, kept, profiles, rows, errors, silent>> /\ ret = "none" /\ pc \in {"absent", "profile"}
  BY <1>1 DEF WriteAbsents, End, host, out, noted, PlaceType
<1>3. /\ db[d].main # 0 /\ db[d].point = 0 /\ db[d].main <= 2 /\ db[d].wal <= 2
      /\ \A e \in Noted : e[2] \notin {d, <<d[1], "profile">>}
  BY <1>2 DEF Undisturbed, Noted
<1>4. Clean(d) /\ Spared(d)
  BY <1>3 DEF Clean, Spared
<1>5. d[1] \in found
  BY <1>2, <1>4 DEF ReportInv, FoundInv
<1>6. End
  BY <1>1, <1>5 DEF ReportInv, WriteAbsents
<1>7. Left(d)
  <2>1. pc = "profile" /\ at > Len(Profile) /\ d[1] \in 1 .. Len(Profile) /\ Len(Profile) \in Nat /\ at \in Nat
    BY <1>6, PlaceOf, ProfileAssumption DEF End, PlaceType
  <2>. QED
    BY <2>1 DEF Left
<1>8. /\ AllRows(d) /\ d[1] \in DOMAIN profiles /\ <<d, "main">> \in profiles[d[1]]
  BY <1>4, <1>5, <1>7 DEF ReportInv, Pursued
<1>9. Content(Kept(d)) = 2
  <2>1. Content(Kept(d)) \in 2 .. Latest(d)
    BY <1>4, <1>5, <1>7 DEF CopiesInv, Behind
  <2>2. Latest(d) <= 2 /\ Latest(d) \in Nat
    <3>1. db[d] \in Base
      BY DEF HostType
    <3>. QED
      BY <1>3, <3>1 DEF Latest, Base
  <2>. QED
    BY <2>1, <2>2
<1>10. Content(Kept(d))' = 2
  BY <1>2, <1>9, KeptSame
<1>11. \A k \in 1 .. Len(Tables(d[2])) : [of |-> d, table |-> Tables(d[2])[k], ver |-> 2] \in rows
  BY <1>8, <1>9 DEF AllRows, Row
<1>12. DOMAIN Tables(d[2]) = 1 .. Len(Tables(d[2]))
  BY TablesShape
<1>. QED
  BY <1>2, <1>8, <1>10, <1>11, <1>12

LEMMA ReportInvStep ==
  ASSUME HostType, PlaceType, HostInv, CopiesInv, StagedInv, ReportInv, Next PROVE ReportInv'
<1>1. FoundInv' /\ (pc' = "absent" => found' = {})
  BY FoundStep DEF ReportInv
<1>2. ASSUME NEW d \in Known, Alone(d), Clean(d)', d[1] \in found' PROVE Pursued(d)'
  <2>1. d[1] \in found => Pursued(d)
    BY <1>2, CleanBefore DEF ReportInv
  <2>. QED
    BY <1>2, <2>1, PursuedStep
<1>3. \A d \in Known : Alone(d)' <=> Alone(d)
  BY DEF Alone
<1>. QED
  BY <1>1, <1>2, <1>3, ReportedStep DEF ReportInv

----------------------------------------------------------------------------
(* The theorems.                                                           *)

LEMMA BrowserInit ==
  ASSUME Init PROVE BrowserInv
<1>1. 0 \in 0 .. MaxChanges /\ 1 \in 0 .. MaxChanges /\ 2 \in 0 .. MaxChanges /\ 0 \in 0 .. MaxFaults
  BY BrowserBoundAssumption
<1>2. Gone = [main |-> 0, wal |-> 0, base |-> 0, point |-> 0]
  BY DEF Gone
<1>3. /\ Gone \in Base
      /\ [Gone EXCEPT !.main = 2] = [main |-> 2, wal |-> 0, base |-> 0, point |-> 0]
  <2>1. Gone \in Base
    BY <1>1, <1>2 DEF Base
  <2>2. [Gone EXCEPT !.main = 2] = [main |-> 2, wal |-> 0, base |-> 0, point |-> 0]
    BY <1>2
  <2>. QED
    BY <2>1, <2>2
<1>4. \A d \in Known : db[d] \in {[main |-> 0, wal |-> 0, base |-> 0, point |-> 0],
                                  [main |-> 2, wal |-> 0, base |-> 0, point |-> 0],
                                  [main |-> 1, wal |-> 2, base |-> 1, point |-> 0]}
  BY <1>2, <1>3 DEF Init
<1>5. HostType
  <2>1. /\ [main |-> 2, wal |-> 0, base |-> 0, point |-> 0] \in Base
        /\ [main |-> 1, wal |-> 2, base |-> 1, point |-> 0] \in Base
    BY <1>1 DEF Base
  <2>2. db \in [Known -> Base]
    BY <1>2, <1>3, <2>1 DEF Init
  <2>. QED
    BY <2>2, BrowserBoundAssumption DEF Init, HostType
<1>6. HostInv
  <2>. SUFFICES ASSUME NEW d \in Known
                PROVE  /\ db[d].main <= changes /\ db[d].wal <= changes
                       /\ db[d].wal = 0 <=> db[d].base = 0
                       /\ db[d].wal # 0 => db[d].main # 0 /\ db[d].base = db[d].main /\ db[d].wal >= 2
                       /\ ~Journalled(d) => db[d].wal = 0
                       /\ db[d].main # 0 /\ db[d].point = 0 => Latest(d) >= 2
    BY DEF HostInv
  <2>1. changes = 2 /\ (~Journalled(d) => db[d].wal = 0)
    BY DEF Init
  <2>. QED
    BY <1>4, <2>1 DEF Latest
<1>7. /\ pc = "discover" /\ at = 1 /\ found = {} /\ spec = 1 /\ suffix = "main" /\ copied = {}
      /\ ret = "none" /\ rows = {} /\ errors = {} /\ silent = {} /\ faults = 0
      /\ kept = [x \in Shelf |-> Missing] /\ listing = [x \in Listings |-> 0]
      /\ staged = [s \in Suffix |-> Missing]
  BY DEF Init
<1>8. TypeInv
  <2>1. PlaceType
    <3>1. Len(Profile) \in Nat
      BY ProfileAssumption
    <3>. QED
      BY <1>7, <3>1 DEF PlaceType, Phase, Fetching, Parsing, Suffix
  <2>2. KeptType /\ Cleared /\ RowType
    BY <1>1, <1>7 DEF KeptType, Contents, Missing, Cleared, RowType
  <2>. QED
    BY <1>5, <2>1, <2>2, TypeParts
<1>9. CopiesInv
  BY <1>7, ShelfOf DEF CopiesInv, AtJournal, Behind, Fetching
<1>10. StagedInv
  BY <1>7 DEF StagedInv, Fetching, Parsing
<1>11. RowsInv
  BY <1>1, <1>7 DEF RowsInv, RowsComeFromTheirCopies, RowsWereCommitted
<1>12. ReportInv
  <2>1. \A d \in Known : 1 <= d[1]
    BY PlaceOf
  <2>. QED
    BY <1>7, <2>1 DEF ReportInv, FoundInv, UndisturbedReported
<1>. QED
  BY <1>6, <1>8, <1>9, <1>10, <1>11, <1>12 DEF BrowserInv

LEMMA BrowserStep ==
  ASSUME BrowserInv, [Next]_vars PROVE BrowserInv'
<1>1. /\ HostType /\ PlaceType /\ KeptType /\ Cleared /\ RowType
      /\ HostInv /\ CopiesInv /\ StagedInv /\ RowsInv /\ ReportInv
  BY TypeParts DEF BrowserInv
<1>2. CASE Next
  <2>1. HostType' /\ PlaceType' /\ KeptType' /\ Cleared' /\ RowType'
    BY <1>1, <1>2, HostTypeStep, PlaceStep, KeptTypeStep, ClearedStep, RowTypeStep
  <2>2. TypeInv'
    BY <2>1 DEF TypeInv, TypeOK, HostType, Base, PlaceType, KeptType, Contents, Cleared, RowType
  <2>. QED
    BY <1>1, <1>2, <2>2, HostInvStep, CopiesInvStep, StagedInvStep, RowsInvStep, ReportInvStep DEF BrowserInv
<1>3. CASE UNCHANGED vars
  <2>1. /\ UNCHANGED <<db, changes, pc, at, found, spec, suffix, copied, tables, staged>>
        /\ UNCHANGED <<kept, profiles, rows, listing, absents, errors, silent, faults, ret>>
    BY <1>3 DEF vars, host, place, parse, out, noted
  <2>2. Source' = Source /\ Database' = Database
    BY <2>1, SourceStays DEF Database
  <2>3. \A d : /\ Place(d)' = Place(d) /\ Content(Kept(d))' = Content(Kept(d)) /\ Latest(d)' = Latest(d)
               /\ Kept(d)' = Kept(d)
    BY <2>1 DEF Place, Specs, Kept, Content, Latest
  <2>4. TypeInv' /\ HostInv'
    BY <1>1, <2>1, <2>2, <2>3 DEF BrowserInv, TypeInv, TypeOK, HostType, PlaceType, KeptType,
       Contents, Base, Cleared, RowType, HostInv, Fetching, Parsing, Journalled
  <2>5. CopiesInv'
    BY <1>1, <2>1, <2>3 DEF CopiesInv, Alone, Ahead, AtJournal, Behind, Fetched, Left, Fetching,
       Parsing, Clean, Noted
  <2>6. StagedInv'
    <3>1. Mine(Suffix)' = Mine(Suffix) /\ Mine({"main"})' = Mine({"main"})
      BY <2>1 DEF Mine
    <3>2. Kept(Source)' = Kept(Source) /\ Tables(Source[2])' = Tables(Source[2])
      BY <2>1, <2>2 DEF Kept, Tables
    <3>. QED
      BY <1>1, <2>1, <3>1, <3>2 DEF StagedInv, Fetching, Parsing
  <2>7. RowsInv'
    <3>1. RowsComeFromTheirCopies'
      <4>. SUFFICES ASSUME NEW r \in rows, Alone(r.of)
                    PROVE  /\ r.ver = Content(Kept(r.of))'
                           /\ r.table = "history" => listing'[Visits(r.of)] = r.ver
        BY <2>1 DEF RowsComeFromTheirCopies, Visits, Alone
      <4>1. /\ r.ver = Content(Kept(r.of))
            /\ r.table = "history" => listing[Visits(r.of)] = r.ver
        BY <1>1 DEF RowsInv, RowsComeFromTheirCopies, Visits
      <4>. QED
        BY <2>1, <2>3, <4>1
    <3>2. RowsWereCommitted'
      BY <1>1, <2>1 DEF RowsInv, RowsWereCommitted, Alone
    <3>. QED
      BY <1>1, <2>1, <3>1, <3>2 DEF RowsInv, Parsing
  <2>8. ReportInv'
    <3>1. FoundInv'
      BY <1>1, <2>1 DEF ReportInv, FoundInv, Spared, Noted
    <3>2. \A d \in Known : Clean(d)' => Clean(d)
      BY <2>1 DEF Clean, Noted
    <3>3. \A d \in Known : Pursued(d) => Pursued(d)'
      <4>. SUFFICES ASSUME NEW d \in Known, Pursued(d) PROVE Pursued(d)'
        OBVIOUS
      <4>1. /\ AtJournal(d)' <=> AtJournal(d)
            /\ Fetched(d)' <=> Fetched(d)
            /\ Left(d)' <=> Left(d)
            /\ Parsing' <=> Parsing
        BY <2>1, <2>3 DEF AtJournal, Fetched, Left, Fetching, Parsing
      <4>2. \A k : Row(d, k)' = Row(d, k)
        BY <2>3 DEF Row
      <4>3. AllRows(d)' <=> AllRows(d)
        BY <2>1, <4>2 DEF AllRows
      <4>. QED
        BY <2>1, <2>2, <4>1, <4>2, <4>3 DEF Pursued
    <3>4. UndisturbedReported'
      <4>. SUFFICES ASSUME ret = "ok", NEW d \in Known, Undisturbed(d), Alone(d)
                    PROVE  /\ Content(Kept(d))' = 2
                           /\ d[1] \in DOMAIN profiles /\ <<d, "main">> \in profiles[d[1]]
                           /\ \A k \in DOMAIN Tables(d[2]) :
                                [of |-> d, table |-> Tables(d[2])[k], ver |-> 2] \in rows
        BY <2>1 DEF UndisturbedReported, Undisturbed, Alone
      <4>. QED
        BY <1>1, <2>3 DEF ReportInv, UndisturbedReported
    <3>5. \A d \in Known : Alone(d)' <=> Alone(d)
      BY DEF Alone
    <3>. QED
      BY <1>1, <2>1, <3>1, <3>2, <3>3, <3>4, <3>5 DEF ReportInv
  <2>. QED
    BY <2>4, <2>5, <2>6, <2>7, <2>8 DEF BrowserInv
<1>. QED
  BY <1>2, <1>3

LEMMA BrowserInvariant == Spec => []BrowserInv
BY BrowserInit, BrowserStep, PTL DEF Spec

\* Everything keeps its type, nothing is left in the temporary directory, and a
\* profile is recorded before any of its rows (collectProfile).
THEOREM BrowsersTyped == Spec => []TypeOK
<1>1. BrowserInv => TypeOK
  BY DEF BrowserInv, TypeInv
<1>. QED
  BY <1>1, BrowserInvariant, PTL

\* The rows of a database whose copies have a name of their own are what the
\* copies in the package give, and the list of visits agrees (parseRawCopy,
\* emitHistoryRows).
THEOREM RowsMatchCopies == Spec => []RowsComeFromTheirCopies
<1>1. BrowserInv => RowsComeFromTheirCopies
  BY DEF BrowserInv, RowsInv
<1>. QED
  BY <1>1, BrowserInvariant, PTL

\* They are a state the browser committed, and none older than the beginning, if
\* no journal was moved into the database and nothing about it is noted
\* (copyArtifacts).
THEOREM RowsAreCommitted == Spec => []RowsWereCommitted
<1>1. BrowserInv => RowsWereCommitted
  BY DEF BrowserInv, RowsInv
<1>. QED
  BY <1>1, BrowserInvariant, PTL

\* A run that ends well kept and reported every database nobody touched (Collect).
THEOREM UndisturbedIsReported == Spec => []UndisturbedReported
<1>1. BrowserInv => UndisturbedReported
  BY DEF BrowserInv, ReportInv
<1>. QED
  BY <1>1, BrowserInvariant, PTL
=============================================================================
