--------------------------- MODULE PersistenceWalk ---------------------------
(***************************************************************************)
(* The persistence collector (internal/collectors/persistence).  It goes   *)
(* down one list of files, directories, globs and per-user paths, records  *)
(* every file it meets, keeps a legacy copy of it, parses it, and looks at *)
(* the files its lines name.  Everything is looked at by path, several     *)
(* times, while the host goes on changing.                                 *)
(*                                                                         *)
(* The list is the whole of the source's; the instance says which of its   *)
(* paths can exist, and the other entries are left out of the agenda.  The *)
(* content of a file is the number of the change that made it; 1 stands    *)
(* for everything that was there when the collector began.                 *)
(***************************************************************************)
EXTENDS Integers, Sequences, FiniteSets

CONSTANTS
  Sorted,      \* the paths that may exist, in the order in which a walk meets them
  Up,          \* path -> the directory it is in, or "/"
  First,       \* the trees that may be there at first
  May,         \* path -> what may be there later, nothing for what stays as it is
  LinkTo,      \* path -> what it points to when it is a link
  Names,       \* path -> the paths its text names, in order
  KeyName,     \* paths whose name is that of a private key
  Long,        \* paths whose text begins with a line of 64 KiB and more
  MayHoldKey,  \* paths whose content may look like one
  UserOrder,   \* the users that may be in /etc/passwd, by name
  Always,      \* those of them that are always there
  In,          \* <<user, relative path>> -> path
  Globbed,     \* pattern -> the paths it matches
  Candidates,  \* where a PAM module is looked for, in order
  MaxChanges,  \* bound on the changes of the host
  MaxFaults    \* bound on failing calls

Node == {Sorted[k] : k \in DOMAIN Sorted}
User == {UserOrder[k] : k \in DOMAIN UserOrder}
Kind == {"none", "file", "dir", "link"}

NoPath == "-"
NoUser == "-"

Nothing == [kind |-> "none", ver |-> 0, key |-> FALSE]

\* Paths are distinct, and a directory comes before what is in it, all of which
\* comes together.
ASSUME PathAssumption ==
  /\ Sorted \in Seq(Node) \ {<<>>}
  /\ \A j, k \in DOMAIN Sorted : Sorted[j] = Sorted[k] => j = k
  /\ {"/", NoPath} \intersect Node = {} /\ Up \in [Node -> Node \union {"/"}]
  /\ \A k \in DOMAIN Sorted : Up[Sorted[k]] # "/" =>
       \E j \in 1 .. k - 1 : /\ Sorted[j] = Up[Sorted[k]]
                            /\ \A i \in j + 1 .. k - 1 : \E h \in j .. i - 1 : Sorted[h] = Up[Sorted[i]]
\* What is there, what may come, and where the links lead.
ASSUME HostAssumption ==
  /\ \A t \in First :
       /\ t \in [Node -> [kind : Kind, ver : {0, 1}, key : BOOLEAN]]
       /\ \A n \in Node : /\ t[n] = Nothing \/ (t[n].kind # "none" /\ t[n].ver = 1)
                          /\ t[n].kind # "none" /\ Up[n] # "/" => t[Up[n]].kind = "dir"
                          /\ n \in DOMAIN LinkTo => t[LinkTo[n]].kind # "link"
  /\ May \in [Node -> SUBSET (Kind \ {"none"})]
  /\ \A n \in Node : n \in DOMAIN LinkTo => LinkTo[n] \in Node /\ "link" \notin May[LinkTo[n]]
  /\ KeyName \union MayHoldKey \union Long \subseteq Node
  /\ UserOrder \in Seq(User) /\ NoUser \notin User /\ Always \subseteq User
  /\ Names \in [Node -> Seq(Node)] /\ Candidates \in Seq(Node)
  /\ \A j, k \in DOMAIN Candidates : Candidates[j] = Candidates[k] => j = k
ASSUME WalkBoundAssumption == MaxChanges \in Nat \ {0} /\ MaxFaults \in Nat

VARIABLES
  tree,     \* the host: path -> [kind, ver, key]
  listed,   \* user -> the change that put them into /etc/passwd, 0 if not there
  changes,  \* number of the last change
  pc,       \* where the collector is
  at,       \* position in the agenda
  known,    \* what the two readings of /etc/passwd gave
  queue,    \* matches of a glob that are still to be scanned, a set
  base,     \* the directory that is being scanned
  pending,  \* entries the walk has listed and not yet left: a set of [node, dir]
  cur,      \* the path that is being recorded
  use,      \* what for: "dir", "text" or "pam"
  got,      \* its record so far
  data,     \* the content that was read, and whether it looks like a key
  todo,     \* the items its text gives that are still to be written
  item,     \* the item in progress
  files,    \* path -> its records in entities/persistence_file, in order
  items,    \* the items that were written
  absents,  \* paths with an item that they are absent
  copies,   \* path -> content of its legacy copy
  errors,   \* error events: pairs <<what, path>>
  silent,   \* failures that leave no trace: pairs <<what, path>> (history)
  ret,      \* "none" while the collector runs, then "ok" or "err"
  faults    \* failures so far

host    == <<tree, listed, changes>>
place   == <<at, known, queue, base, pending>>
record  == <<cur, use, got, data>>
parsing == <<todo, item>>
output  == <<files, items, absents, copies>>
noted   == <<errors, silent, faults>>
vars    == <<host, pc, place, record, parsing, output, noted, ret>>

----------------------------------------------------------------------------
(* The host.                                                               *)

Unread    == [ver |-> 0, key |-> FALSE]
Parent(n) == Up[n] # "/" => tree[Up[n]].kind = "dir"
Empty(n)  == \A m \in Node : Up[m] = n => tree[m].kind = "none"
MayBeKey(n) == IF n \in MayHoldKey THEN BOOLEAN ELSE {FALSE}

Create(n) ==
  /\ tree[n].kind = "none" /\ Parent(n)
  /\ \E k \in May[n] : \E b \in (IF k = "file" THEN MayBeKey(n) ELSE {FALSE}) :
       tree' = [tree EXCEPT ![n] = [kind |-> k, ver |-> changes', key |-> b]]
  /\ UNCHANGED listed

Modify(n) ==
  /\ tree[n].kind = "file" /\ "file" \in May[n]
  /\ \E b \in MayBeKey(n) : tree' = [tree EXCEPT ![n] = [kind |-> "file", ver |-> changes', key |-> b]]
  /\ UNCHANGED listed

Unlink(n) ==
  /\ tree[n].kind # "none" /\ May[n] # {} /\ Empty(n)
  /\ tree' = [tree EXCEPT ![n] = Nothing]
  /\ UNCHANGED listed

\* A user is added or removed.
EditUsers(u) ==
  /\ listed' = [listed EXCEPT ![u] = IF @ = 0 THEN changes' ELSE 0]
  /\ UNCHANGED tree

HostStep ==
  /\ changes < MaxChanges /\ changes' = changes + 1
  /\ \/ \E n \in Node : Create(n) \/ Modify(n) \/ Unlink(n)
     \/ \E u \in User \ Always : EditUsers(u)
  /\ UNCHANGED <<pc, place, record, parsing, output, noted, ret>>

----------------------------------------------------------------------------
(* The list.  An entry is a file, a directory, a glob or the PAM directory, *)
(* with what its text is parsed as, what is passed over, and for whom.     *)

Source(kind, path, parse, skip, r, u) ==
  [kind |-> kind, path |-> path, parse |-> parse, skip |-> skip, reading |-> r, user |-> u]
Entry(kind, path, parse, skip) == Source(kind, path, parse, skip, 0, NoUser)
Files(paths, parse) == [k \in DOMAIN paths |-> Entry("file", paths[k], parse, {})]
Trees(paths, parse) == [k \in DOMAIN paths |-> Entry("tree", paths[k], parse, {})]
Check == <<Entry("check", NoPath, "none", {})>>
Reading(r) == <<Source("users", "/etc/passwd", "none", {}, r, NoUser)>>
Ran(s) == {s[k] : k \in DOMAIN s}

\* One entry per user and relative path, for the users of a reading.
PerUser(kind, rels, parse, r) ==
  LET n == Len(rels) IN
  [k \in 1 .. Len(UserOrder) * n |->
     LET u == UserOrder[((k - 1) \div n) + 1] IN
     Source(kind, In[<<u, rels[((k - 1) % n) + 1]>>], parse, {}, r, u)]

\* Directories of the spool that have entries of their own.
\* Bug: they are walked with the spool as well.
SpoolExcludesNothing == {}

SpoolExcluded == {"/var/spool/cron/crontabs", "/var/spool/cron/atjobs"}

ScanCron ==
  LET tables == <<"/etc/crontab">>
      lists == <<"/etc/cron.allow", "/etc/cron.deny">>
      daily == <<"/etc/cron.hourly", "/etc/cron.daily", "/etc/cron.weekly", "/etc/cron.monthly">> IN
  Files(tables, "cron") \o Files(lists, "none")
  \o Trees(<<"/etc/cron.d">>, "cron") \o Trees(daily, "periodic")
  \o <<Entry("tree", "/var/spool/cron", "cron", SpoolExcluded)>>
  \o Trees(<<"/var/spool/cron/crontabs", "/var/cron/tabs">>, "cron")
  \o <<Entry("glob", "/etc/cron*", "cron",
             Ran(tables \o lists \o daily) \union {"/etc/cron.d"})>>

ScanAnacron == Files(<<"/etc/anacrontab">>, "anacron")

ScanRcInit ==
  LET dirs == <<"/etc/init", "/etc/init.d", "/etc/rc0.d", "/etc/rc1.d", "/etc/rc2.d", "/etc/rc3.d",
                "/etc/rc4.d", "/etc/rc5.d", "/etc/rc6.d">> IN
  Files(<<"/etc/rc.local", "/etc/inittab">>, "rc") \o Trees(dirs, "init")
  \o <<Entry("glob", "/etc/rc*", "rc", {"/etc/rc.local"} \union Ran(dirs))>>

\* The users are read anew.
ScanSystemd ==
  Trees(<<"/etc/systemd/system", "/lib/systemd/system", "/usr/lib/systemd/system",
          "/run/systemd/system", "/etc/systemd/user", "/lib/systemd/user",
          "/usr/lib/systemd/user", "/run/systemd/user">>, "unit")
  \o Reading(2) \o PerUser("tree", <<".config/systemd/user">>, "unit", 2)

ScanSSH == Trees(<<"/etc/ssh">>, "ssh") \o PerUser("tree", <<".ssh">>, "ssh", 1)

ScanProfiles ==
  Files(<<"/etc/profile", "/etc/bash.bashrc", "/etc/zsh/zshenv", "/etc/zsh/zprofile">>, "profile")
  \o Trees(<<"/etc/profile.d">>, "profile")
  \o PerUser("file", <<".profile", ".bashrc", ".bash_profile", ".bash_login", ".zshrc", ".zprofile",
                       ".zshenv", ".config/fish/config.fish">>, "profile", 1)

ScanLoader == Files(<<"/etc/ld.so.preload", "/etc/ld.so.conf">>, "loader")
              \o Trees(<<"/etc/ld.so.conf.d">>, "loader")

ScanSudoers == Files(<<"/etc/sudoers">>, "sudoers") \o Trees(<<"/etc/sudoers.d">>, "sudoers")

ScanPAM == <<Entry("pam", "/etc/pam.d", "pam", {})>>

ScanAt == Files(<<"/etc/at.allow", "/etc/at.deny">>, "none")
          \o Trees(<<"/var/spool/at", "/var/spool/atjobs", "/var/spool/cron/atjobs", "/var/at/jobs">>, "at")

ScanCronLog == Files(<<"/var/log/cron">>, "none")

ScanXDG == Trees(<<"/etc/xdg/autostart">>, "desktop")
           \o PerUser("tree", <<".config/autostart">>, "desktop", 1)

\* Collect, with the places where it looks at the run's context.
Whole == Check \o Reading(1) \o ScanCron \o ScanAnacron \o Check \o ScanRcInit \o ScanSystemd
         \o Check \o ScanSSH \o ScanProfiles \o ScanLoader \o Check \o ScanSudoers \o ScanPAM
         \o ScanAt \o ScanCronLog \o ScanXDG

\* The entries some path of the instance may matter to, and the next of them.
Relevant(e) == \/ e.kind \in {"check", "users"}
               \/ e.kind = "glob" /\ Globbed[e.path] # {}
               \/ e.kind \notin {"check", "users", "glob"} /\ e.path \in Node

Positions == {k \in DOMAIN Whole : Relevant(Whole[k])}
Following == [k \in 0 .. Len(Whole) |->
                IF \E j \in Positions : j > k
                THEN CHOOSE j \in Positions : j > k /\ \A i \in Positions : i > k => j <= i
                ELSE Len(Whole) + 1]

----------------------------------------------------------------------------
(* What the collector does with a path, and the records it makes.          *)

Asked    == Whole[at]
Finished == at > Len(Whole)
Applies  == Asked.reading # 0 => Asked.user \in known[Asked.reading]

NoItem == [kind |-> "none", path |-> Sorted[1], src |-> 0, text |-> 0,
           target |-> NoPath, tver |-> 0, script |-> NoPath, sver |-> 0]
Blank(state) == [state |-> state, kind |-> "none", ver |-> 0, hash |-> 0, link |-> FALSE,
                 key |-> FALSE, copied |-> FALSE]
NoFile  == Blank("none")
Absence == Blank("absent")

Fault          == faults < MaxFaults /\ faults' = faults + 1
Return(result) == pc' = "done" /\ ret' = result
Hush(e)        == silent' = silent \union {e} /\ UNCHANGED errors

\* out.Error, whose own failure is dropped.
Report(e) == \/ errors' = errors \union {e} /\ UNCHANGED <<silent, faults>>
             \/ Fault /\ Hush(e)

\* The same after a call that failed.
FailAndReport(e) ==
  /\ faults < MaxFaults
  /\ \/ errors' = errors \union {e} /\ faults' = faults + 1 /\ UNCHANGED silent
     \/ faults + 1 < MaxFaults /\ faults' = faults + 2 /\ Hush(e)

\* What a path leads to: Stat and ReadFile follow a link, Lstat does not.
Follow(n) == IF tree[n].kind # "link" THEN tree[n]
             ELSE IF n \in DOMAIN LinkTo THEN tree[LinkTo[n]] ELSE Nothing

Init ==
  /\ tree \in First
  /\ listed \in {l \in [User -> {0, 1}] : \A u \in Always : l[u] = 1}
  /\ changes = 1
  /\ pc = "agenda" /\ at = Following[0] /\ known = [r \in {1, 2} |-> {}]
  /\ queue = {} /\ base = Sorted[1] /\ pending = {}
  /\ cur = Sorted[1] /\ use = "text" /\ got = NoFile /\ data = Unread
  /\ todo = <<>> /\ item = NoItem
  /\ files = [n \in Node |-> <<>>] /\ items = {} /\ absents = {}
  /\ copies = [n \in Node |-> Unread]
  /\ errors = {} /\ silent = {} /\ faults = 0
  /\ ret = "none"

----------------------------------------------------------------------------
(* One entry of the agenda after the other.                                *)

NextEntry == at' = Following[at] /\ pc' = "agenda"

\* After a file or a directory of a glob comes its next match.
Leave == IF Asked.kind = "glob" THEN pc' = "glob" /\ UNCHANGED at ELSE NextEntry

PassCheck ==
  /\ pc = "agenda" /\ ~Finished /\ Asked.kind = "check"
  /\ NextEntry
  /\ UNCHANGED <<host, known, queue, base, pending, record, parsing, output, noted, ret>>

Interrupt ==
  /\ pc = "agenda" /\ ~Finished /\ Asked.kind = "check"
  /\ Return("err")
  /\ UNCHANGED <<host, place, record, parsing, output, noted>>

\* discoverUsers: unread, the list has no users.
ReadUsers ==
  /\ pc = "agenda" /\ ~Finished /\ Asked.kind = "users"
  /\ NextEntry
  /\ \/ known' = [known EXCEPT ![Asked.reading] = {u \in User : listed[u] # 0}]
        /\ UNCHANGED noted
     \/ Fault /\ Hush(<<"passwd", Asked.path>>) /\ UNCHANGED known
  /\ UNCHANGED <<host, queue, base, pending, record, parsing, output, ret>>

Reads == ~Finished /\ Asked.kind \notin {"check", "users"}

NotForUs ==
  /\ pc = "agenda" /\ Reads /\ ~Applies
  /\ NextEntry
  /\ UNCHANGED <<host, known, queue, base, pending, record, parsing, output, noted, ret>>

BeginEntry ==
  /\ pc = "agenda" /\ Reads /\ Applies
  /\ CASE Asked.kind = "file" -> /\ cur' = Asked.path /\ use' = "text" /\ pc' = "look"
                                 /\ UNCHANGED <<base, queue>>
       [] Asked.kind = "glob" ->
            /\ queue' = {n \in Node : /\ n \in Globbed[Asked.path] \ Asked.skip
                                    /\ tree[n].kind # "none"}
            /\ pc' = "glob"
            /\ UNCHANGED <<base, cur, use>>
       [] OTHER -> base' = Asked.path /\ pc' = "root" /\ UNCHANGED <<queue, cur, use>>
  /\ UNCHANGED <<host, at, known, pending, got, data, parsing, output, noted, ret>>

Position    == [n \in Node |-> CHOOSE k \in DOMAIN Sorted : Sorted[k] = n]
Foremost(S) == CHOOSE n \in S : \A m \in S : Position[n] <= Position[m]

\* scanGlobExtras looks at each match again.
Match ==
  /\ pc = "glob" /\ queue # {}
  /\ queue' = queue \ {Foremost(queue)}
  /\ LET n == Foremost(queue) IN
     CASE tree[n].kind = "dir"  -> base' = n /\ pc' = "root" /\ UNCHANGED <<cur, use, noted>>
       [] tree[n].kind = "none" -> Report(<<"match", n>>) /\ UNCHANGED <<pc, base, cur, use>>
       [] OTHER -> cur' = n /\ use' = "text" /\ pc' = "look" /\ UNCHANGED <<base, noted>>
  /\ UNCHANGED <<host, at, known, pending, got, data, parsing, output, ret>>

MatchFails ==
  /\ pc = "glob" /\ queue # {}
  /\ FailAndReport(<<"match", Foremost(queue)>>)
  /\ queue' = queue \ {Foremost(queue)}
  /\ UNCHANGED <<host, pc, at, known, base, pending, record, parsing, output, ret>>

MatchesDone ==
  /\ pc = "glob" /\ queue = {}
  /\ NextEntry
  /\ UNCHANGED <<host, known, queue, base, pending, record, parsing, output, noted, ret>>

End ==
  /\ pc = "agenda" /\ Finished
  /\ Return("ok")
  /\ UNCHANGED <<host, place, record, parsing, output, noted>>

----------------------------------------------------------------------------
(* scanDirectoryEx, and scanPAM, which walks for itself.                   *)

LookAtRoot ==
  /\ pc = "root"
  /\ CASE tree[base].kind = "none" -> pc' = "absent" /\ UNCHANGED <<cur, use>>
       [] tree[base].kind = "dir"  -> pc' = "begin" /\ UNCHANGED <<cur, use>>
       [] OTHER -> /\ cur' = base /\ pc' = "look"
                   /\ use' = IF Asked.kind = "pam" THEN "pam" ELSE "text"
  /\ UNCHANGED <<host, place, got, data, parsing, output, noted, ret>>

\* Every directory is optional: that it could not be looked at is said in the
\* record of its absence only.
RootFails ==
  /\ pc = "root"
  /\ Fault /\ Hush(<<"root", base>>)
  /\ pc' = "absent"
  /\ UNCHANGED <<host, place, record, parsing, output, ret>>

WriteAbsent ==
  /\ pc = "absent"
  /\ files' = [files EXCEPT ![base] = Append(@, Absence)]
  /\ absents' = absents \union {base}
  /\ Leave
  /\ UNCHANGED <<host, known, queue, base, pending, record, parsing, items, copies, noted, ret>>

\* WalkDir looks at its root for itself.
BeginWalk ==
  /\ pc = "begin"
  /\ IF tree[base].kind = "none"
     THEN Report(<<"walk", base>>) /\ Leave /\ UNCHANGED pending
     ELSE /\ pending' = {[node |-> base, dir |-> tree[base].kind = "dir"]}
          /\ pc' = "walk" /\ UNCHANGED <<at, noted>>
  /\ UNCHANGED <<host, known, queue, base, record, parsing, output, ret>>

BeginFails ==
  /\ pc = "begin"
  /\ FailAndReport(<<"walk", base>>)
  /\ Leave
  /\ UNCHANGED <<host, known, queue, base, pending, record, parsing, output, ret>>

\* What the walk meets next, or has met and not left.
Met     == CHOOSE x \in pending : \A y \in pending : Position[x.node] <= Position[y.node]
Rest    == pending \ {Met}

\* Bug: the excluded directories are passed over in every walk.
PassedOverAlways == Met.dir /\ Met.node \in SpoolExcluded

\* Only the entry's own walk passes directories over.
PassedOver == Asked.kind = "tree" /\ Met.dir /\ Met.node # base /\ Met.node \in Asked.skip

Meet ==
  /\ pc = "walk" /\ pending # {}
  /\ IF PassedOver
     THEN pending' = Rest /\ UNCHANGED <<pc, cur, use>>
     ELSE /\ cur' = Met.node /\ pc' = "look" /\ UNCHANGED pending
          /\ use' = IF Met.node = base \/ Met.dir THEN "dir"
                    ELSE IF Asked.kind = "pam" THEN "pam" ELSE "text"
  /\ UNCHANGED <<host, at, known, queue, base, got, data, parsing, output, noted, ret>>

ListDir ==
  /\ pc = "list"
  /\ pc' = "walk"
  /\ IF tree[Met.node].kind = "dir"
     THEN /\ pending' = Rest \union {[node |-> m, dir |-> tree[m].kind = "dir"] :
                                      m \in {x \in Node : Up[x] = Met.node /\ tree[x].kind # "none"}}
          /\ UNCHANGED noted
     ELSE pending' = Rest /\ Report(<<"walk", Met.node>>)
  /\ UNCHANGED <<host, at, known, queue, base, record, parsing, output, ret>>

ListFails ==
  /\ pc = "list"
  /\ FailAndReport(<<"walk", Met.node>>)
  /\ pc' = "walk" /\ pending' = Rest
  /\ UNCHANGED <<host, at, known, queue, base, record, parsing, output, ret>>

EndWalk ==
  /\ pc = "walk" /\ pending = {}
  /\ Leave
  /\ UNCHANGED <<host, known, queue, base, pending, record, parsing, output, noted, ret>>

\* Back from a path: to the walk that met it, or out of the entry.
Back == IF pending = {} THEN Leave /\ UNCHANGED pending
        ELSE /\ UNCHANGED at
             /\ IF Met.dir THEN pc' = "list" /\ UNCHANGED pending
                           ELSE pc' = "walk" /\ pending' = Rest

----------------------------------------------------------------------------
(* recordFile.                                                             *)

Append1(n, r) == files' = [files EXCEPT ![n] = Append(@, r)]

\* Bug: the record of an absence repeats what the last record said.
RecordAbsentOverOld ==
  /\ Append1(cur, [got EXCEPT !.state = "absent"])
  /\ absents' = IF use = "text" THEN absents \union {cur} ELSE absents
  /\ Back

\* What cannot be looked at counts as absent.  Only a directory inside a walk
\* is not optional.
RecordAbsent ==
  /\ Append1(cur, Absence)
  /\ absents' = IF use = "text" THEN absents \union {cur} ELSE absents
  /\ Back
Loud == use = "dir" /\ Asked.kind # "pam"

\* What Lstat gives.
There(f) == [state |-> "there", kind |-> f.kind, ver |-> f.ver, hash |-> 0, link |-> FALSE,
             key |-> FALSE, copied |-> FALSE]

Look ==
  /\ pc = "look"
  /\ LET f == tree[cur] IN
     IF f.kind = "none"
     THEN /\ RecordAbsent
          /\ IF Loud THEN Report(<<"look", cur>>) ELSE UNCHANGED noted
          /\ UNCHANGED <<got, data>>
     ELSE /\ got' = There(f)
          /\ data' = Unread
          /\ pc' = CASE f.kind = "link" -> "readlink" [] f.kind = "file" -> "read" [] OTHER -> "save"
          /\ UNCHANGED <<at, pending, files, absents, noted>>
  /\ UNCHANGED <<host, known, queue, base, cur, use, parsing, items, copies, ret>>

LookFails ==
  /\ pc = "look"
  /\ IF Loud THEN FailAndReport(<<"look", cur>>) ELSE Fault /\ Hush(<<"look", cur>>)
  /\ RecordAbsent
  /\ UNCHANGED <<host, known, queue, base, record, parsing, items, copies, ret>>

ReadLink ==
  /\ pc = "readlink"
  /\ pc' = "stat"
  /\ \/ got' = [got EXCEPT !.link = (tree[cur].kind = "link")] /\ UNCHANGED noted
     \/ Fault /\ Hush(<<"readlink", cur>>) /\ UNCHANGED got
  /\ UNCHANGED <<host, place, cur, use, data, parsing, output, ret>>

StatTarget ==
  /\ pc = "stat"
  /\ \/ pc' = (IF Follow(cur).kind = "file" THEN "read" ELSE "save") /\ UNCHANGED noted
     \/ Fault /\ Hush(<<"stat", cur>>) /\ pc' = "save"
  /\ UNCHANGED <<host, place, record, parsing, output, ret>>

\* isPrivateKeyPath, or looksLikePrivateKey of what was read.
Sensitive(n, d) == n \in KeyName \/ d.key

\* The hash, the copy and the items are all made of what this read gives.
ReadFile ==
  /\ pc = "read"
  /\ pc' = "save"
  /\ LET f == Follow(cur) IN
     IF f.kind = "file"
     THEN LET d == [ver |-> f.ver, key |-> f.key] IN
          /\ data' = d
          /\ got' = [got EXCEPT !.hash = d.ver, !.key = Sensitive(cur, d)]
          /\ UNCHANGED noted
     ELSE Report(<<"read", cur>>) /\ UNCHANGED <<got, data>>
  /\ UNCHANGED <<host, place, cur, use, parsing, output, ret>>

ReadFails ==
  /\ pc = "read"
  /\ FailAndReport(<<"read", cur>>)
  /\ pc' = "save"
  /\ UNCHANGED <<host, place, record, parsing, output, ret>>

Copied == use # "dir" /\ got.hash # 0 /\ ~got.key

\* What the parsers make of the text: one item stands for those of its lines, and
\* comes before the script of the file itself where there is one.  The parsers
\* that go through the text with a Scanner end, without a word, at a line that is
\* too long for it.
Scanned(kind) == IF data.ver = 0 \/ cur \in Long THEN <<>> ELSE <<kind>>

CronItems      == Scanned("cron_entry")
AnacronItems   == Scanned("anacron_job")
RcItems        == Scanned("rc_command")
ProfileItems   == Scanned("profile_command")
SudoersItems   == Scanned("sudoers_rule")
LoaderItems    == Scanned("ld_so_path")
DesktopItems   == Scanned("desktop_autostart")
PAMItems       == Scanned("pam_record")
SSHConfigItems == Scanned("ssh_config_directive")
AuthorizedKeys == Scanned("authorized_key")

\* A job is an item even when nothing of it could be read, and so is a unit.
AtItems   == IF data.ver = 0 THEN <<"at_unread">> ELSE <<"at_job">>
UnitItems == IF got.link THEN <<"unit_symlink", "unit">> ELSE <<"unit">>
SSHItems  == IF cur \in KeyName \/ got.key THEN <<"private_key">>
             ELSE IF Asked.user = NoUser THEN SSHConfigItems ELSE AuthorizedKeys

ItemsOf(parse) ==
  CASE parse = "periodic" -> <<"periodic_script">>
    [] parse = "init"     -> <<"init_script">> \o RcItems
    [] parse = "unit"     -> UnitItems
    [] parse = "at"       -> AtItems
    [] parse = "cron"     -> CronItems
    [] parse = "anacron"  -> AnacronItems
    [] parse = "rc"       -> RcItems
    [] parse = "desktop"  -> DesktopItems
    [] parse = "loader"   -> LoaderItems
    [] parse = "pam"      -> PAMItems
    [] parse = "ssh"      -> SSHItems
    [] parse = "profile"  -> ProfileItems
    [] parse = "sudoers"  -> SudoersItems
    [] OTHER              -> <<>>

\* Items with a command, and items that are a script themselves.
WithCommand == {"cron_entry", "anacron_job", "rc_command", "desktop_autostart", "at_job"}
Scripts     == {"periodic_script", "init_script"}

\* Bug: the copy is made by reading the file a second time.
SaveCopyOfNow ==
  /\ pc = "save"
  /\ copies' = IF Copied /\ Follow(cur).kind = "file"
               THEN [copies EXCEPT ![cur] = [ver |-> Follow(cur).ver, key |-> Follow(cur).key]]
               ELSE copies
  /\ Append1(cur, [got EXCEPT !.copied = Copied])
  /\ IF use = "dir" THEN Back /\ UNCHANGED todo
     ELSE pc' = "items" /\ todo' = ItemsOf(Asked.parse) /\ UNCHANGED <<at, pending>>
  /\ UNCHANGED <<host, known, queue, base, record, item, items, absents, noted, ret>>

\* The copy, then the record, then the items.
Save ==
  /\ pc = "save"
  /\ copies' = IF Copied THEN [copies EXCEPT ![cur] = data] ELSE copies
  /\ Append1(cur, [got EXCEPT !.copied = Copied])
  /\ IF use = "dir" THEN Back /\ UNCHANGED todo
     ELSE pc' = "items" /\ todo' = ItemsOf(Asked.parse) /\ UNCHANGED <<at, pending>>
  /\ UNCHANGED <<host, known, queue, base, record, item, items, absents, noted, ret>>

\* The copy may be in place when its record fails.
SaveFails ==
  /\ pc = "save"
  /\ Fault
  /\ copies' \in {copies} \union (IF Copied THEN {[copies EXCEPT ![cur] = data]} ELSE {})
  /\ Return("err")
  /\ UNCHANGED <<host, place, record, parsing, files, items, absents, errors, silent>>

----------------------------------------------------------------------------
(* The items, and the files they name.                                     *)

NewItem(kind, target, script) ==
  [kind |-> kind, path |-> cur, src |-> got.hash, text |-> data.ver,
   target |-> target, tver |-> 0, script |-> script, sver |-> 0]

\* The source looks up the files of all items of a text and then writes the
\* items one by one; here each is written as soon as its files are looked up.
NextItem ==
  /\ pc = "items" /\ todo # <<>>
  /\ todo' = Tail(todo)
  /\ LET k == Head(todo)
         names == Names[cur] IN
     CASE k \in Scripts -> /\ item' = NewItem(k, cur, cur)
                           /\ pc' = "target"
       [] k \in WithCommand /\ names # <<>> -> item' = NewItem(k, NoPath, NoPath) /\ pc' = "score"
       [] k = "ld_so_path" /\ names # <<>> ->
            item' = NewItem(k, Head(names), NoPath) /\ pc' = "target"
       [] k = "pam_record" /\ Candidates # <<>> ->
            item' = NewItem(k, Head(Candidates), NoPath) /\ pc' = "module"
       [] OTHER -> item' = NewItem(k, NoPath, NoPath) /\ pc' = "write"
  /\ UNCHANGED <<host, place, record, output, noted, ret>>

ItemsDone ==
  /\ pc = "items" /\ todo = <<>>
  /\ Back
  /\ UNCHANGED <<host, known, queue, base, record, parsing, output, noted, ret>>

\* commandPathScore, and the first of the best.
Score(n) == CASE tree[n].kind = "file" -> 80 [] tree[n].kind = "dir" -> 60 [] OTHER -> 50

\* Bug: the first path of the command is its target.
FirstOf(names) == 1

Best(names) == CHOOSE k \in DOMAIN names :
                 \A j \in DOMAIN names : \/ Score(names[k]) > Score(names[j])
                                         \/ Score(names[k]) = Score(names[j]) /\ k <= j

ChooseTarget ==
  /\ pc = "score"
  /\ item' = [item EXCEPT !.target = Names[cur][Best(Names[cur])]]
  /\ pc' = "target"
  /\ UNCHANGED <<host, place, record, todo, output, noted, ret>>

AfterTarget == CASE item.kind \in Scripts -> "script" [] item.kind \in WithCommand -> "fallback"
                 [] OTHER -> "write"

\* enrichTargetFileMetadata: a look, then the content of what was a file.
LookAtTarget ==
  /\ pc = "target"
  /\ \/ pc' = (IF tree[item.target].kind = "file" THEN "readtarget" ELSE AfterTarget)
        /\ UNCHANGED noted
     \/ Fault /\ Hush(<<"target", item.target>>) /\ pc' = AfterTarget
  /\ UNCHANGED <<host, place, record, parsing, output, ret>>

Content(n) == IF Follow(n).kind = "file" THEN Follow(n).ver ELSE 0

ReadTarget ==
  /\ pc = "readtarget"
  /\ pc' = AfterTarget
  /\ \/ item' = [item EXCEPT !.tver = Content(item.target)] /\ UNCHANGED noted
     \/ Fault /\ Hush(<<"target", item.target>>) /\ UNCHANGED item
  /\ UNCHANGED <<host, place, record, todo, output, ret>>

\* scriptFallback: a directory is no script.
Fallback ==
  /\ pc = "fallback"
  /\ IF tree[item.target].kind = "dir" THEN pc' = "write" /\ UNCHANGED item
     ELSE pc' = "script" /\ item' = [item EXCEPT !.script = item.target]
  /\ UNCHANGED <<host, place, record, todo, output, noted, ret>>

\* enrichScriptFileMetadata, which looks and reads for itself.
LookAtScript ==
  /\ pc = "script"
  /\ \/ pc' = (IF tree[item.script].kind = "file" THEN "readscript" ELSE "write") /\ UNCHANGED noted
     \/ Fault /\ Hush(<<"script", item.script>>) /\ pc' = "write"
  /\ UNCHANGED <<host, place, record, parsing, output, ret>>

ReadScript ==
  /\ pc = "readscript"
  /\ pc' = "write"
  /\ \/ item' = [item EXCEPT !.sver = Content(item.script)] /\ UNCHANGED noted
     \/ Fault /\ Hush(<<"script", item.script>>) /\ UNCHANGED item
  /\ UNCHANGED <<host, place, record, todo, output, ret>>

\* resolvePAMModule: the first candidate that is there.
NextCandidate ==
  LET k == CHOOSE j \in DOMAIN Candidates : Candidates[j] = item.target IN
  IF k < Len(Candidates)
  THEN item' = [item EXCEPT !.target = Candidates[k + 1]] /\ UNCHANGED pc
  ELSE item' = [item EXCEPT !.target = NoPath] /\ pc' = "write"

ResolveModule ==
  /\ pc = "module"
  /\ \/ tree[item.target].kind = "none" /\ NextCandidate /\ UNCHANGED noted
     \/ /\ tree[item.target].kind # "none"
        /\ pc' = (IF Follow(item.target).kind = "file" THEN "readtarget" ELSE "write")
        /\ UNCHANGED <<item, noted>>
     \/ Fault /\ Hush(<<"module", item.target>>) /\ NextCandidate
  /\ UNCHANGED <<host, place, record, todo, output, ret>>

WriteItem ==
  /\ pc = "write"
  /\ items' = items \union {item}
  /\ pc' = "items"
  /\ UNCHANGED <<host, place, record, parsing, files, absents, copies, noted, ret>>

\* Every other write is checked too: of an absence, of an item.
WriteFails ==
  /\ \/ pc \in {"absent", "write"}
     \/ pc = "look" /\ tree[cur].kind = "none"
  /\ Fault
  /\ Return("err")
  /\ UNCHANGED <<host, place, record, parsing, output, errors, silent>>

----------------------------------------------------------------------------

Collect ==
  \/ PassCheck \/ Interrupt \/ ReadUsers \/ NotForUs \/ BeginEntry
  \/ Match \/ MatchFails \/ MatchesDone \/ End
  \/ LookAtRoot \/ RootFails \/ WriteAbsent \/ BeginWalk \/ BeginFails
  \/ Meet \/ ListDir \/ ListFails \/ EndWalk
  \/ Look \/ LookFails \/ ReadLink \/ StatTarget \/ ReadFile \/ ReadFails \/ Save \/ SaveFails
  \/ NextItem \/ ItemsDone \/ ChooseTarget \/ LookAtTarget \/ ReadTarget
  \/ Fallback \/ LookAtScript \/ ReadScript \/ ResolveModule \/ WriteItem \/ WriteFails

Next == Collect \/ (pc # "done" /\ HostStep)

Spec == Init /\ [][Next]_vars

----------------------------------------------------------------------------
(* Properties.                                                             *)

Record == [state : {"there", "absent"}, kind : Kind, ver : Nat, hash : Nat, link : BOOLEAN,
           key : BOOLEAN, copied : BOOLEAN]

\* Every variable has its type; the walk is inside an entry only; a record that
\* says a path is absent says nothing else about it (recordFile, writeAbsentFile).
TypeOK ==
  /\ tree \in [Node -> [kind : Kind, ver : 0 .. MaxChanges, key : BOOLEAN]]
  /\ listed \in [User -> 0 .. MaxChanges] /\ changes \in 1 .. MaxChanges
  /\ faults \in 0 .. MaxFaults /\ ret \in {"none", "ok", "err"} /\ (pc = "done" <=> ret # "none")
  /\ at \in Positions \union {Len(Whole) + 1} /\ known \in [{1, 2} -> SUBSET User]
  /\ queue \subseteq Node /\ base \in Node /\ cur \in Node
  /\ pending \subseteq [node : Node, dir : BOOLEAN]
  /\ pc \in {"agenda", "glob", "root", "begin"} => pending = {}
  /\ pc = "list" => pending # {} /\ Met.dir
  /\ \A n \in Node : \A r \in Ran(files[n]) :
       r \in Record /\ (r.state = "absent" => r = Absence)
  /\ copies \in [Node -> [ver : 0 .. MaxChanges, key : BOOLEAN]] /\ absents \subseteq Node

\* The legacy copy of a file is what the last record that claims a copy gives the
\* hash of, even when the file was scanned twice and changed in between; the
\* items of a text carry the hash of the text they were taken from, and a record
\* of that file gives it too; and no private key is ever copied, by its name or
\* by what it holds at the moment it is read (recordFile, processTextFile).
CopyMatchesRecord ==
  /\ ret # "err" => \A n \in Node : copies[n].ver # 0 =>
       \E k \in DOMAIN files[n] : /\ files[n][k].copied /\ files[n][k].hash = copies[n].ver
                                 /\ \A j \in DOMAIN files[n] : j > k => ~files[n][j].copied
  /\ \A i \in items : /\ i.text = i.src
                       /\ \E r \in Ran(files[i.path]) : r.state = "there" /\ r.hash = i.src
  /\ \A n \in Node : ~copies[n].key /\ (copies[n].ver # 0 => n \notin KeyName)

\* The path and the directories it is in.
Above[n \in Node] == {n} \union (IF Up[n] = "/" THEN {} ELSE Above[Up[n]])

Steady(n)  == tree[n].ver = 1 /\ Follow(n).kind = "file" /\ Follow(n).ver = 1
Quiet(n)   == \A e \in errors \union silent : e[2] \notin Above[n] \union {"/etc/passwd"}
Reaches(e, n) ==
  CASE e.kind = "file" -> e.path = n
    [] e.kind = "glob" -> Above[n] \intersect (Globbed[e.path] \ e.skip) # {}
    [] e.kind \in {"tree", "pam"} -> e.path \in Above[n] /\ Above[n] \intersect e.skip = {}
    [] OTHER -> FALSE
Covers(e, n) == (e.reading # 0 => e.user \in User /\ listed[e.user] = 1) /\ Reaches(e, n)

\* A run that ended well reported every file in its places that nobody touched,
\* under its right content, with a copy unless it is a key, and with what its
\* text is parsed into, or noted a failure on the way to it; only of a text with a
\* line too long for the parsers there may be nothing.  Changes of other files, and
\* of the directories beside it, take nothing away from it.
StableEntryReported ==
  ret = "ok" => \A n \in Node : \A k \in Positions :
    Steady(n) /\ Covers(Whole[k], n) /\ Quiet(n) =>
      LET key == n \in KeyName \/ Follow(n).key IN
      /\ \E r \in Ran(files[n]) : r.hash = 1 /\ r.key = key /\ r.copied = ~key
      /\ key \/ copies[n].ver = 1
      /\ Whole[k].parse # "none" /\ n \notin Long => \E i \in items : i.path = n /\ i.src = 1

\* A file of a spool, of a glob or of a user's directory is scanned once for every
\* user of the collector's list whose home it is in, and once where no user is
\* concerned, although the source's places overlap: the excluded directories, and
\* the list the globs pass over, see to it (scanCron, scanRcInit).  A place that is
\* itself a file where a directory is expected is left out.
Scanning(n) == {k \in Positions : /\ Whole[k].reading # 0 => Whole[k].user \in known[Whole[k].reading]
                                 /\ Reaches(Whole[k], n)}
NothingTwice ==
  \A n \in Node :
    Len(files[n]) > 1 /\ Steady(n) /\ tree[n].kind = "file" /\ (\A k \in Positions : Whole[k].path # n) =>
    Len(files[n]) <= Cardinality({Whole[k].user : k \in Scanning(n)} \union {NoUser})

OnlyDir(n) == (\A t \in First : t[n].kind \in {"none", "dir"}) /\ May[n] \subseteq {"dir"}

\* What an item says of an untouched file its line names is that file's content,
\* read from the target and from the script alike; the target of a command is
\* its first file when directories come before it; and a PAM module is found
\* when a place for it holds one (enrichTargetFileMetadata,
\* enrichScriptFileMetadata, cronCommandTargets, resolvePAMModule).
NamedFilesAgree ==
  \A i \in items :
    LET Plain(n) == n \in Node /\ tree[n].kind = "file" /\ tree[n].ver = 1 /\ Quiet(n)
        names == Names[i.path] IN
    /\ Plain(i.target) => i.tver = 1
    /\ Plain(i.script) => i.sver = 1
    /\ i.kind \in WithCommand => \A k \in DOMAIN names :
         Plain(names[k]) /\ (\A j \in 1 .. k - 1 : OnlyDir(names[j])) => i.target = names[k]
    /\ i.kind = "pam_record" => \A k \in DOMAIN Candidates :
         Plain(Candidates[k]) => i.target # NoPath /\ (k = 1 => i.target = Candidates[1] /\ i.tver = 1)
=============================================================================
