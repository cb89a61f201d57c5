--------------------------- MODULE MCNotifications ---------------------------
(***************************************************************************)
(* Instance of Notifications for TLC: Alice has two notifications and two  *)
(* sockets, Bob, who has one of each, shares bulk creations with her.      *)
(***************************************************************************)
EXTENDS Notifications, TLC

CONSTANTS w1, w2, n1, n2, n3, s1, s2, s3

MCUsers == {"alice", "bob"}
MCNotifications == {n1, n2, n3}
MCRecipient == [n \in MCNotifications |-> IF n = n3 THEN "bob" ELSE "alice"]
MCSockets == {s1, s2, s3}
MCUserOf == [s \in MCSockets |-> IF s = s3 THEN "bob" ELSE "alice"]
MCWorkers == {w1, w2}

\* Handlers differ in nothing, and Alice's notifications and sockets only in their names.
AnySymmetry == Permutations(MCWorkers) \cup Permutations({n1, n2}) \cup Permutations({s1, s2})
==============================================================================
