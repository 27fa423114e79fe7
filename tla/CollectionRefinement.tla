------------------------ MODULE CollectionRefinement ------------------------
(***************************************************************************)
(* The collector implements EvidencePackage.  A package is sealed from the *)
(* rename of this session's manifest on, and packed from the rename of its *)
(* tarball on.                                                             *)
(***************************************************************************)
EXTENDS CollectionRun

File == Path \ {ManifestFile}
Restrict2File(f) == [p \in File |-> f[p]]

PackageState ==
  CASE pc = "down"                    -> "empty"
    [] pc = "exited" /\ exit = "ok"   -> "delivered"
    [] pc = "exited" /\ exit # "ok"   -> "abandoned"
    [] Running /\ manifest.sess # run -> "gathering"
    [] Running /\ manifest.sess = run /\ archive.sess # run -> "sealed"
    [] Running /\ archive.sess = run  -> "packed"

EP == INSTANCE EvidencePackage WITH
        File    <- File,
        state   <- PackageState,
        content <- Restrict2File(disk),
        seal    <- Restrict2File(manifest.entries),
        tarball <- Restrict2File(archive.holds)

\* The run refines the package it promises: nothing changes a sealed package,
\* and what is packed was sealed.
ImplementsPackage == EP!Spec
=============================================================================
