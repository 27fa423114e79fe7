-------------------------- MODULE MCFileInventory --------------------------
(***************************************************************************)
(* A small instance of FileInventory: a tree with what the collector       *)
(* itself left and a directory with a file.  The directory is named        *)
(* without a look, then walked quietly and not deeply, and then the whole  *)
(* tree is walked aloud.                                                   *)
(***************************************************************************)
EXTENDS FileInventory

MCSorted == <<"tmp", "tmp/a", "tmp/d", "tmp/d/b">>
MCUp     == [n \in Node |-> CASE n = "tmp" -> "/"
                              [] n = "tmp/d/b" -> "tmp/d"
                              [] OTHER -> "tmp"]
Ask(k, r, d, l) == [kind |-> k, root |-> r, depth |-> d, loud |-> l]
MCAgenda == <<Ask("kernel", "tmp", 0, TRUE), Ask("open", "tmp", 0, FALSE),
              Ask("path", "tmp/d", 0, FALSE), Ask("walk", "tmp/d", 0, FALSE),
              Ask("walk", "tmp", 2, TRUE)>>
MCMay    == [n \in Node |-> CASE n = "tmp" -> {"dir"}
                              [] n = "tmp/a" -> {"dir", "file"}
                              [] n = "tmp/d" -> {"dir", "link"}
                              [] OTHER -> {"file"}]
=============================================================================
