------------------------- MODULE MCSocketInventory -------------------------
(***************************************************************************)
(* Small instances of SocketInventory.                                     *)
(***************************************************************************)
EXTENDS SocketInventory

MCOnePid  == {1}
MCTwoPids == {1, 2}
MCSock    == {"s1", "s2"}
MCTables  == <<"tcp", "unix">>
MCTcp     == <<"tcp">>
MCSplit   == [s \in Sock |-> IF s = "s1" THEN "tcp" ELSE "unix"]
MCAllTcp  == [s \in Sock |-> "tcp"]
=============================================================================
