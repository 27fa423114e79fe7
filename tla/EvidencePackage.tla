-------------------------- MODULE EvidencePackage --------------------------
(***************************************************************************)
(* What a run of the collector promises about the package it leaves, with  *)
(* the program taken away: evidence is gathered, sealed once, packed once, *)
(* and delivered; a sealed package does not change until another run       *)
(* starts in the same place, and what is packed is what was sealed.        *)
(***************************************************************************)
EXTENDS Naturals

CONSTANTS File  \* the files of a package, its manifest excepted

VARIABLES
  state,    \* "empty", "gathering", "sealed", "packed", "delivered", "abandoned"
  content,  \* File -> version, 0 when absent
  seal,     \* File -> version listed by the last seal, 0 when not listed
  tarball   \* the last packed content

evars == <<state, content, seal, tarball>>

Nothing == [f \in File |-> 0]

Init == state = "empty" /\ content = Nothing /\ seal = Nothing /\ tarball = Nothing

Begin ==
  /\ state \in {"empty", "delivered", "abandoned"}
  /\ state' \in {"gathering", "abandoned"}
  /\ UNCHANGED <<content, seal, tarball>>

\* One file at a time changes, and only while evidence is gathered.
Gather ==
  /\ state = "gathering"
  /\ \E f \in File : content' = [content EXCEPT ![f] = @ + 1]
  /\ UNCHANGED <<state, seal, tarball>>

\* The seal lists files that are there, each with its present content.
Seal ==
  /\ state = "gathering"
  /\ state' = "sealed"
  /\ \A f \in File : seal'[f] \in {0, content[f]}
  /\ DOMAIN seal' = File
  /\ UNCHANGED <<content, tarball>>

\* Packing takes a file as it is or leaves it out.
Pack ==
  /\ state = "sealed"
  /\ state' = "packed"
  /\ \A f \in File : tarball'[f] \in {0, content[f]}
  /\ DOMAIN tarball' = File
  /\ UNCHANGED <<content, seal>>

Deliver ==
  /\ state = "packed"
  /\ state' = "delivered"
  /\ UNCHANGED <<content, seal, tarball>>

Abandon ==
  /\ state \in {"gathering", "sealed", "packed"}
  /\ state' = "abandoned"
  /\ UNCHANGED <<content, seal, tarball>>

Next == Begin \/ Gather \/ Seal \/ Pack \/ Deliver \/ Abandon

Spec == Init /\ [][Next]_evars
=============================================================================
