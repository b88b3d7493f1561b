----------------------------- MODULE MCBackupAudit -----------------------------
(***************************************************************************)
(* One rule on a table and one on a section of settings, by the same key.  *)
(***************************************************************************)
EXTENDS BackupAudit

MCSectionOf == [rule \in {"mgmt", "tls"} |-> IF rule = "mgmt" THEN "interface" ELSE "global"]
MCKeyOf == [rule \in {"mgmt", "tls"} |-> "key"]
=============================================================================
