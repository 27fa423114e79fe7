-------------------------- MODULE MCCollectionRun --------------------------
(***************************************************************************)
(* Small instances of CollectionRun and of its refinement for TLC.  host   *)
(* and packages are registered collectors, ghost is a name no registry     *)
(* knows, and a profile may also list the pseudo collectors session and    *)
(* scanner, which the loop passes over.                                    *)
(***************************************************************************)
EXTENDS CollectionRefinement

MCCollector  == {"host", "packages", "ghost", "session", "scanner"}
MCHostOnly   == {"host"}
MCTwo        == {"host", "packages"}
MCNone       == {}
MCUndying    == {"packages"}

MCStatusPath == [u \in Collector \union {ScannerPhase} |->
                   "legacy/collector_status/" \o u \o ".out"]
MCMissing    == "legacy/command_not_found.out"
MCSummary    == "legacy/SUMMARY"
MCLegacy     == {MCMissing, MCSummary, "legacy/data"}
                \union {MCStatusPath[u] : u \in DOMAIN MCStatusPath}
MCRaw        == {"ai/raw/data"}

\* Two writers of one path that disagree on everything the merge compares.
MCProv == {[source |-> "/proc/x", type |-> "procfs", trust |-> "medium"],
           [source |-> "legacy/data", type |-> "generated", trust |-> "high"]}
MCOneProv == {[source |-> "/proc/x", type |-> "procfs", trust |-> "medium"]}

Command(p, s, t) == [profile |-> p, scan |-> s, timeout |-> t]

\* One run: a collector between a skipped name and an unregistered one, with
\* scanner and deadline; packages, which runs a command that no deadline ends,
\* without a scanner, with and without deadline.
MCOneRun == {Command(<<"session", "host", "ghost">>, TRUE, TRUE)}
            \union {Command(<<"ghost", "packages", "scanner">>, FALSE, t) : t \in BOOLEAN}
\* Several runs in one root: the shortest profile that still does everything.
MCRerun  == {Command(<<"host">>, FALSE, TRUE)}
=============================================================================
