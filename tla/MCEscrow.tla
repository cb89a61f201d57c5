------------------------------ MODULE MCEscrow ------------------------------
(***************************************************************************)
(* Instance of Escrow for TLC.  Alice can afford either of her two         *)
(* agreements, with Bob and with Carol, but not both: both may be agreed,  *)
(* one at a time can be funded.  Bob's escrow has two milestones and may   *)
(* collect two proofs, Carol's one of each; each is a stranger to the      *)
(* other's.                                                                *)
(***************************************************************************)
EXTENDS Escrow

MCUsers == {"alice", "bob", "carol"}
MCEscrows == {"e1", "e2"}
MCBuyer == [e1 |-> "alice", e2 |-> "alice"]
MCSeller == [e1 |-> "bob", e2 |-> "carol"]
MCTotal == [e1 |-> 3, e2 |-> 2]
MCMilestones == {"m1", "m2", "m3"}
MCMilestoneOf == [m1 |-> "e1", m2 |-> "e1", m3 |-> "e2"]
MCProofs == {"p1", "p2", "p3"}
MCProofOf == [p1 |-> "e1", p2 |-> "e1", p3 |-> "e2"]
MCInitialBalance == [alice |-> 4, bob |-> 0, carol |-> 0]

\* The instance for the release job: one milestone and one proof, Alice can afford both.
JobMilestones == {"m1"}
JobMilestoneOf == [m1 |-> "e1"]
JobProofs == {"p1"}
JobProofOf == [p1 |-> "e1"]
JobInitialBalance == [alice |-> 5, bob |-> 0, carol |-> 0]
==============================================================================
