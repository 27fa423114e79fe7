------------------------- MODULE MCPersistenceWalk -------------------------
(***************************************************************************)
(* A small instance of PersistenceWalk: the spool with a directory of its  *)
(* own in it, a job named by a crontab, a directory that only the glob     *)
(* reaches, and a key and a profile in a home that two users share.        *)
(***************************************************************************)
EXTENDS PersistenceWalk

MCSorted == <<"/etc/cron.daily", "/etc/cron.daily/job", "/etc/cron.extra", "/etc/cron.yearly",
              "/etc/ld.so.preload", "/etc/pam.d", "/etc/pam.d/sshd", "/etc/systemd/system",
              "/opt/dir", "/opt/job", "/opt/mod", "/root/.bashrc", "/root/.ssh", "/root/.ssh/id",
              "/var/spool/cron", "/var/spool/cron/crontabs", "/var/spool/cron/crontabs/u">>
MCUp == [n \in Node |-> CASE n = "/etc/cron.daily/job" -> "/etc/cron.daily"
                          [] n = "/etc/pam.d/sshd" -> "/etc/pam.d"
                          [] n = "/root/.ssh/id" -> "/root/.ssh"
                          [] n = "/var/spool/cron/crontabs" -> "/var/spool/cron"
                          [] n = "/var/spool/cron/crontabs/u" -> "/var/spool/cron/crontabs"
                          [] OTHER -> "/"]
Dirs == {"/etc/cron.daily", "/etc/cron.yearly", "/etc/pam.d", "/opt/dir", "/root/.ssh",
         "/var/spool/cron", "/var/spool/cron/crontabs"}
AtFirst(n) == CASE n = "/etc/systemd/system" -> "link" [] n = "/opt/mod" -> "none"
                [] n \in Dirs -> "dir" [] OTHER -> "file"
\* The identity file is a key or is none.
MCFirst == {[n \in Node |-> IF AtFirst(n) = "none" THEN Nothing
                            ELSE [kind |-> AtFirst(n), ver |-> 1, key |-> b /\ n = "/root/.ssh/id"]] :
             b \in BOOLEAN}
MCMay == [n \in Node |-> CASE n \in {"/etc/systemd/system", "/var/spool/cron/crontabs"} -> {"dir"}
                           [] n \in {"/etc/cron.extra", "/opt/job", "/root/.bashrc", "/root/.ssh/id",
                                    "/var/spool/cron/crontabs/u"} -> {"file"}
                           [] OTHER -> {}]
MCLinkTo == [n \in {"/etc/systemd/system"} |-> "/opt/job"]
MCNames == [n \in Node |-> CASE n = "/var/spool/cron/crontabs/u" -> <<"/opt/dir", "/opt/job">>
                             [] n = "/etc/ld.so.preload" -> <<"/opt/job">>
                             [] OTHER -> <<>>]
MCUsers == <<"root", "toor">>
MCIn == [x \in {"root", "toor"} \X {".config/systemd/user", ".config/autostart", ".ssh", ".profile",
                ".bashrc", ".bash_profile", ".bash_login", ".zshrc", ".zprofile", ".zshenv",
                ".config/fish/config.fish"} |->
           CASE x[2] = ".bashrc" -> "/root/.bashrc"
             [] x[2] = ".ssh" -> "/root/.ssh"
             [] OTHER -> "elsewhere"]
MCGlobbed == [p \in {"/etc/cron*", "/etc/rc*"} |->
                IF p = "/etc/cron*" THEN {"/etc/cron.daily", "/etc/cron.extra", "/etc/cron.yearly"} ELSE {}]
MCCandidates == <<"/opt/mod", "/opt/job">>
=============================================================================
