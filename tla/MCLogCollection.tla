-------------------------- MODULE MCLogCollection --------------------------
(***************************************************************************)
(* A small instance of LogCollection: the log, two rotated files whose     *)
(* paths sort against their age, as those of .9 and .10 do, and a file of  *)
(* login accounting.                                                       *)
(***************************************************************************)
EXTENDS LogCollection

MCChain      == <<"syslog", "syslog.9", "syslog.10">>
MCAccounting == {"wtmp"}
MCSorted     == <<"syslog", "syslog.10", "syslog.9", "wtmp">>
MCPrimary    == {"syslog", "wtmp"}
MCRawOf      == [n \in Name |-> n]
=============================================================================
