---------------------------- MODULE BrowserCopies ----------------------------
(***************************************************************************)
(* The browser collector (internal/collectors/browser): it finds profiles, *)
(* copies the databases of each into the package, a database and its       *)
(* journals one after the other, copies them once more from the package to *)
(* a temporary directory and reads the rows there.  The browsers go on     *)
(* working: they commit to the journal, move the journal into the database *)
(* and remove both.                                                        *)
(*                                                                         *)
(* The content of a database is the number of the last commit in it; 2     *)
(* stands for what was committed when the collector began and 1 for what   *)
(* was there before that, so a database may begin as 1 with a journal that *)
(* makes it 2.  Rows that are no state the browser ever committed are 0.   *)
(* The index of the journal (-shm), which is copied too, is left out: it   *)
(* is made anew from the journal when the copy is opened.                  *)
(***************************************************************************)
EXTENDS Integers, Sequences, FiniteSets

CONSTANTS
  Profile,    \* the profiles that may exist, in the order of the collector:
              \* [home, browser, user, name], each as the package names it
  Known,      \* pairs <<position of a profile, file>> of what may be in them
  Busy,       \* those of them whose browser is running
  MaxChanges, \* bound on the changes of the browsers
  MaxFaults   \* bound on failing calls

ASSUME ProfileAssumption ==
  /\ Profile \in Seq([home : STRING, browser : {"chrome", "chromium", "firefox"},
                      user : STRING, name : STRING])
  /\ Busy \subseteq Known
ASSUME BrowserBoundAssumption == MaxChanges \in Nat \ {0, 1} /\ MaxFaults \in Nat

VARIABLES
  db,       \* the host: <<profile, file>> -> [main, wal, base, point]
  changes,  \* number of the last change
  pc,       \* where the collector is
  at,       \* position in Profile
  found,    \* profiles that were discovered
  spec,     \* position in the list of the profile's databases
  suffix,   \* the file of the family that is being copied: "main", which has no
            \* suffix in the code, or "-wal"
  copied,   \* the files of this profile that were copied: pairs <<database, suffix>>
  tables,   \* what is still to be read from the first of their databases
  staged,   \* the family of the first of them in the temporary directory
  kept,     \* the package: <<raw name, suffix>> -> content
  profiles, \* records of profiles: position -> the files it says were copied
  rows,     \* rows: [of, table, ver]
  listing,  \* legacy list of visits: <<browser, user, name>> -> content
  absents,  \* the records that there is no browser
  errors,   \* error events: pairs <<what, database>>
  silent,   \* failures that leave no trace: pairs <<what, database>> (history)
  ret,      \* "none" while the collector runs, then "ok" or "err"
  faults    \* failures so far

host  == <<db, changes>>
place == <<at, found, spec, suffix>>
parse == <<copied, tables, staged>>
out   == <<kept, profiles, rows, listing, absents>>
noted == <<errors, silent, faults>>
vars  == <<host, pc, place, parse, out, noted, ret>>

----------------------------------------------------------------------------
(* The browsers.                                                           *)

Gone   == [main |-> 0, wal |-> 0, base |-> 0, point |-> 0]
Nobody == <<0, "profile">>
Journalled(d) == d[2] # "Bookmarks"

Commit(d) ==
  /\ db[d].main # 0
  /\ db' = [db EXCEPT ![d] =
       IF Journalled(d) THEN [@ EXCEPT !.wal = changes', !.base = db[d].main]
                        ELSE [@ EXCEPT !.main = changes']]

\* The journal goes into the database; point says that it has happened.
Checkpoint(d) ==
  /\ db[d].wal # 0
  /\ db' = [db EXCEPT ![d] = [main |-> @.wal, wal |-> 0, base |-> 0, point |-> changes']]

Remove(d) ==
  /\ db[d].main # 0
  /\ db' = [db EXCEPT ![d] = Gone]

HostStep ==
  /\ changes < MaxChanges /\ changes' = changes + 1
  /\ \E d \in Busy : Commit(d) \/ Checkpoint(d) \/ Remove(d)
  /\ UNCHANGED <<pc, place, parse, out, noted, ret>>

----------------------------------------------------------------------------
(* Families of files, and what reading one of them gives.                  *)

\* artifactSpecs
Specs(p) == IF Profile[p].browser = "firefox" THEN <<"places.sqlite", "cookies.sqlite">>
            ELSE <<"History", "Cookies", "Network/Cookies", "Bookmarks">>
Place(d) == CHOOSE k \in DOMAIN Specs(d[1]) : Specs(d[1])[k] = d[2]
ASSUME KnownAssumption ==
  Known \subseteq UNION {{<<p, Specs(p)[k]>> : k \in DOMAIN Specs(p)} : p \in DOMAIN Profile}

Tables(file) == CASE file = "History"       -> <<"history", "downloads">>
                  [] file = "places.sqlite" -> <<"history", "downloads", "bookmarks">>
                  [] file = "Bookmarks"     -> <<"bookmarks">>
                  [] OTHER                  -> <<"cookies">>

Missing == [ver |-> 0, base |-> 0]
File(d, s) == IF s = "main" THEN [ver |-> db[d].main, base |-> 0]
                        ELSE [ver |-> db[d].wal, base |-> db[d].base]

\* What a database and a journal are together.  A journal belongs to the content
\* it was begun on; on any other it gives a mixture.
Content(f) == IF f["-wal"] = Missing THEN f["main"].ver
              ELSE IF f["-wal"].base = f["main"].ver THEN f["-wal"].ver ELSE 0

\* Bug: the raw name leaves out the name of the profile.
RawNameOfUser(d) == LET p == Profile[d[1]] IN <<p.browser, p.user, d[2]>>

\* rawCopyName, below the directories of the browser, the user and the profile.
RawName(d) == LET p == Profile[d[1]] IN <<p.browser, p.user, p.name, d[2]>>

Alone(d) == LET p == Profile[d[1]] IN
  \A e \in Known \ {d} : LET q == Profile[e[1]] IN
    <<q.browser, q.user, q.name, e[2]>> # <<p.browser, p.user, p.name, d[2]>>

Suffix == {"main", "-wal"}
Listings == {<<Profile[p].browser, Profile[p].user, Profile[p].name>> : p \in DOMAIN Profile}
Shelf  == {RawName(d) : d \in Known} \X Suffix
Kept(d) == [s \in Suffix |-> kept[<<RawName(d), s>>]]

Fault          == faults < MaxFaults /\ faults' = faults + 1
Return(result) == pc' = "done" /\ ret' = result
Hush(e)        == silent' = silent \union {e} /\ UNCHANGED errors

\* recordError, whose own failure is dropped.
Report(e) == \/ errors' = errors \union {e} /\ UNCHANGED <<silent, faults>>
             \/ Fault /\ Hush(e)

\* The same after a call that failed.
FailAndReport(e) ==
  /\ faults < MaxFaults
  /\ \/ errors' = errors \union {e} /\ faults' = faults + 1 /\ UNCHANGED silent
     \/ faults + 1 < MaxFaults /\ faults' = faults + 2 /\ Hush(e)

Init ==
  /\ db \in [Known -> {Gone, [Gone EXCEPT !.main = 2],
                       [main |-> 1, wal |-> 2, base |-> 1, point |-> 0]}]
  /\ \A d \in Known : ~Journalled(d) => db[d].wal = 0
  /\ changes = 2
  /\ pc = "discover" /\ at = 1 /\ found = {} /\ spec = 1 /\ suffix = "main"
  /\ copied = {} /\ tables = <<>> /\ staged = [s \in Suffix |-> Missing]
  /\ kept = [x \in Shelf |-> Missing]
  /\ profiles = [p \in {} |-> {}] /\ rows = {} /\ listing = [x \in Listings |-> 0] /\ absents = {}
  /\ errors = {} /\ silent = {} /\ faults = 0
  /\ ret = "none"

----------------------------------------------------------------------------
(* DiscoverProfiles and Collect.                                           *)

LooksLikeProfile(p) == \E d \in Known : d[1] = p /\ db[d].main # 0

\* A passwd or a directory that cannot be read leaves its profiles out.
Discover ==
  /\ pc = "discover" /\ at <= Len(Profile)
  /\ at' = at + 1
  /\ \/ found' = (IF LooksLikeProfile(at) THEN found \union {at} ELSE found) /\ UNCHANGED noted
     \/ Fault /\ Hush(<<"home", <<at, "profile">>>>) /\ UNCHANGED found
  /\ UNCHANGED <<host, pc, spec, suffix, parse, out, ret>>

EndDiscover ==
  /\ pc = "discover" /\ at > Len(Profile)
  /\ at' = 1
  /\ pc' = IF found = {} THEN "absent" ELSE "profile"
  /\ UNCHANGED <<host, found, spec, suffix, parse, out, noted, ret>>

\* writeAbsentProfile and its four siblings.
WriteAbsents ==
  /\ pc = "absent"
  /\ absents' = {"profiles", "history", "downloads", "cookies", "bookmarks"}
  /\ Return("ok")
  /\ UNCHANGED <<host, place, parse, kept, profiles, rows, listing, noted>>

BeginProfile ==
  /\ pc = "profile" /\ at <= Len(Profile)
  /\ IF at \in found THEN pc' = "copy" /\ spec' = 1 /\ suffix' = "main" /\ UNCHANGED at
                     ELSE at' = at + 1 /\ UNCHANGED <<pc, spec, suffix>>
  /\ copied' = {} /\ UNCHANGED <<tables, staged>>
  /\ UNCHANGED <<host, found, out, noted, ret>>

\* The context is looked at first, and before each profile.
Interrupt ==
  /\ \/ pc = "discover" /\ at = 1
     \/ pc = "profile" /\ at \in found
  /\ Return("err")
  /\ UNCHANGED <<host, place, parse, out, noted>>

End ==
  /\ pc = "profile" /\ at > Len(Profile)
  /\ Return("ok")
  /\ UNCHANGED <<host, place, parse, out, noted>>

----------------------------------------------------------------------------
(* copyArtifacts and copyOne.                                              *)

Database   == <<at, Specs(at)[spec]>>
Copying    == pc = "copy" /\ spec \in DOMAIN Specs(at)
IsThere(d, s) == d \in Known /\ File(d, s) # Missing

NextDatabase == spec' = spec + 1 /\ suffix' = "main"

\* Bug: a journal is not copied when its database has been.
NoSidecars == NextDatabase

\* The journals follow a database that was copied; bookmarks have none.
Sidecars == IF suffix = "-wal" \/ ~Journalled(Database) THEN NextDatabase
            ELSE suffix' = "-wal" /\ UNCHANGED spec

\* What is not there is passed over; a database without its main file is too.
Skip ==
  /\ Copying /\ ~IsThere(Database, suffix)
  /\ IF suffix = "main" THEN NextDatabase ELSE Sidecars
  /\ UNCHANGED <<host, pc, at, found, parse, out, noted, ret>>

\* The collector has seen the file; what it reads may be another one by now.
SeeFile ==
  /\ Copying /\ IsThere(Database, suffix)
  /\ pc' = "read"
  /\ UNCHANGED <<host, place, parse, out, noted, ret>>

Lost == IF suffix = "main" THEN NextDatabase ELSE Sidecars

ReadFile ==
  /\ pc = "read"
  /\ pc' = "copy"
  /\ LET d == Database IN
     IF IsThere(d, suffix)
     THEN /\ kept' = [kept EXCEPT ![<<RawName(d), suffix>>] = File(d, suffix)]
          /\ copied' = copied \union {<<d, suffix>>}
          /\ Sidecars /\ UNCHANGED noted
     ELSE Lost /\ Report(<<"copy", d>>) /\ UNCHANGED <<kept, copied>>
  /\ UNCHANGED <<host, at, found, tables, staged, profiles, rows, listing, absents, ret>>

\* It cannot be read, is too large, or one of its copies cannot be written: the
\* copy in the package may be there when the legacy copy fails.
CopyFails ==
  /\ pc = "read"
  /\ FailAndReport(<<"copy", Database>>)
  /\ \/ UNCHANGED kept
     \/ /\ IsThere(Database, suffix)
        /\ kept' = [kept EXCEPT ![<<RawName(Database), suffix>>] = File(Database, suffix)]
  /\ pc' = "copy" /\ Lost
  /\ UNCHANGED <<host, at, found, parse, profiles, rows, listing, absents, ret>>

\* The record of the profile lists the copies.
WriteProfile ==
  /\ pc = "copy" /\ spec \notin DOMAIN Specs(at)
  /\ profiles' = [p \in DOMAIN profiles \union {at} |->
                    IF p = at THEN copied ELSE profiles[p]]
  /\ copied' = {c \in copied : c[2] = "main"}
  /\ pc' = "stage"
  /\ UNCHANGED <<host, place, tables, staged, kept, rows, listing, absents, noted, ret>>

----------------------------------------------------------------------------
(* parseRawCopy.                                                           *)

\* The first in the order of copying; the journals are passed over.
Source == CHOOSE d \in Known : /\ <<d, "main">> \in copied
                               /\ \A o \in Known : <<o, "main">> \in copied => Place(d) <= Place(o)
Parsed == copied' = copied \ {<<Source, "main">>}

\* Bug: the rows are read from the browser's own files.
StageLive(d) == [s \in Suffix |-> File(d, s)]

\* stageSQLiteFamily: whatever of the family lies in the package.
Stage(d) == Kept(d)

StageFamily ==
  /\ pc = "stage" /\ copied # {}
  /\ staged' = Stage(Source) /\ tables' = Tables(Source[2]) /\ pc' = "rows"
  /\ UNCHANGED <<host, place, copied, out, noted, ret>>

StageFails ==
  /\ pc = "stage" /\ copied # {} /\ Journalled(Source)
  /\ FailAndReport(<<"stage", Source>>)
  /\ Parsed
  /\ UNCHANGED <<host, pc, place, tables, staged, out, ret>>

\* The rows of one table are written.
Emit(table) ==
  /\ pc = "rows" /\ tables # <<>> /\ Head(tables) = table
  /\ rows' = rows \union {[of |-> Source, table |-> table, ver |-> Content(staged)]}
  /\ tables' = Tail(tables)
  /\ UNCHANGED <<host, pc, place, copied, staged, kept, profiles, absents, noted, ret>>

\* The visits are listed in a legacy file of the profile as well.
EmitHistory ==
  /\ Emit("history")
  /\ LET p == Profile[Source[1]] IN
     listing' = [listing EXCEPT ![<<p.browser, p.user, p.name>>] = Content(staged)]

EmitDownloads == Emit("downloads") /\ UNCHANGED listing
EmitCookies   == Emit("cookies")   /\ UNCHANGED listing
EmitBookmarks == Emit("bookmarks") /\ UNCHANGED listing

\* The copy cannot be opened or queried.  A table that cannot be asked for
\* counts as one that is not there, and of that nothing is said.
TableFails ==
  /\ pc = "rows" /\ tables # <<>>
  /\ \/ FailAndReport(<<"table", Source>>)
     \/ Fault /\ Hush(<<"table", Source>>)
     \/ Content(staged) = 0 /\ Hush(<<"table", Source>>) /\ UNCHANGED faults
     \/ Content(staged) = 0 /\ Report(<<"table", Source>>)
  /\ tables' = Tail(tables)
  /\ UNCHANGED <<host, pc, place, copied, staged, out, ret>>

\* Bug: the temporary directory is left behind.
EndRowsUncleaned ==
  /\ pc = "rows" /\ tables = <<>>
  /\ Parsed /\ pc' = "stage"
  /\ UNCHANGED <<host, place, tables, staged, out, noted, ret>>

\* The temporary directory is removed.
EndRows ==
  /\ pc = "rows" /\ tables = <<>>
  /\ Parsed /\ staged' = [s \in Suffix |-> Missing]
  /\ pc' = "stage"
  /\ UNCHANGED <<host, place, tables, out, noted, ret>>

EndProfile ==
  /\ pc = "stage" /\ copied = {}
  /\ at' = at + 1 /\ pc' = "profile"
  /\ UNCHANGED <<host, found, spec, suffix, parse, out, noted, ret>>

\* Every write of a record is checked, as is that of the legacy history.
WriteFails ==
  /\ \/ pc = "absent"
     \/ pc = "copy" /\ spec \notin DOMAIN Specs(at)
     \/ pc = "rows" /\ tables # <<>>
  /\ Fault
  /\ Return("err")
  /\ UNCHANGED <<host, place, parse, out, errors, silent>>

Collect ==
  \/ Discover \/ EndDiscover \/ WriteAbsents \/ BeginProfile \/ Interrupt \/ End
  \/ Skip \/ SeeFile \/ ReadFile \/ CopyFails \/ WriteProfile
  \/ StageFamily \/ StageFails \/ EmitHistory \/ EmitDownloads \/ EmitCookies
  \/ EmitBookmarks \/ TableFails \/ EndRows \/ EndProfile \/ WriteFails

Next == Collect \/ (pc # "done" /\ HostStep)

Spec == Init /\ [][Next]_vars

----------------------------------------------------------------------------
(* Properties.                                                             *)

\* Every variable has its type; what is being read lies in the temporary
\* directory, and nothing is left there afterwards; a profile is recorded once
\* it is copied and before any of its rows (collectProfile).
TypeOK ==
  /\ db \in [Known -> [main : 0 .. MaxChanges, wal : 0 .. MaxChanges, base : 0 .. MaxChanges,
                       point : 0 .. MaxChanges]]
  /\ changes \in 2 .. MaxChanges /\ faults \in 0 .. MaxFaults
  /\ ret \in {"none", "ok", "err"} /\ (pc = "done" <=> ret # "none")
  /\ at \in 1 .. Len(Profile) + 1 /\ found \subseteq DOMAIN Profile /\ suffix \in Suffix
  /\ kept \in [Shelf -> [ver : 0 .. MaxChanges, base : 0 .. MaxChanges]]
  /\ pc \notin {"rows", "done"} => staged = [s \in Suffix |-> Missing]
  /\ \A r \in rows : r.of \in Known /\ r.of[1] \in DOMAIN profiles /\ <<r.of, "main">> \in profiles[r.of[1]]

\* The rows of a database are what its files in the package give, from the
\* moment they are written on: whoever opens the files a row refers to finds the
\* row, and the legacy list of visits shows the same state.  This needs the name
\* of the files to be theirs alone; two homes whose profiles have one user name,
\* or names that differ in a replaced character only, share it, and there the
\* later copy replaces the earlier one.
RowsComeFromTheirCopies ==
  \A r \in rows : Alone(r.of) =>
    LET p == Profile[r.of[1]] IN
    /\ r.ver = Content(Kept(r.of))
    /\ r.table = "history" => listing[<<p.browser, p.user, p.name>>] = r.ver

\* The rows are a state the browser committed, and none older than what was
\* committed when the collector began, although the database and its journal are
\* copied one after the other while the browser writes: only a journal that was
\* moved into the database in between, a removed one or a copy that failed, and
\* is noted, makes a difference.
RowsWereCommitted ==
  \A r \in rows :
    Alone(r.of) /\ db[r.of].main # 0 /\ db[r.of].point = 0
    /\ (\A e \in errors \union silent : e[2] # r.of) => r.ver >= 2

\* Nothing was done to a database, and nothing went wrong with it.
Undisturbed(d) ==
  /\ db[d].main # 0 /\ db[d].point = 0 /\ db[d].main <= 2 /\ db[d].wal <= 2
  /\ \A e \in errors \union silent : e[2] \notin {d, <<d[1], "profile">>}

\* A run that ended well kept every database nobody touched, with its journal,
\* and has the rows of each of its tables as of the last commit.
UndisturbedReported ==
  ret = "ok" => \A d \in Known : Undisturbed(d) /\ Alone(d) =>
    /\ Content(Kept(d)) = 2
    /\ d[1] \in DOMAIN profiles /\ <<d, "main">> \in profiles[d[1]]
    /\ \A k \in DOMAIN Tables(d[2]) : [of |-> d, table |-> Tables(d[2])[k], ver |-> 2] \in rows
=============================================================================
