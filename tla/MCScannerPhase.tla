--------------------------- MODULE MCScannerPhase ---------------------------
(***************************************************************************)
(* Small instances of ScannerPhase.                                        *)
(***************************************************************************)
EXTENDS ScannerPhase

MCModes  == {"none", "tmbrfix", "yara"}
MCCleans == {"disabled", "confirm", "force"}
MCYara   == {"yara"}
=============================================================================
