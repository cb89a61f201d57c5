----------------------------- MODULE MCDeployment -----------------------------
(* Every database a service may be brought up on, with two accounts, one      *)
(* request and the repair script.                                             *)
EXTENDS Encryption

AllDatabases == {"empty", "before the buffer column", "migrated"}
MCAccounts == {"ana", "ben"}
===============================================================================
