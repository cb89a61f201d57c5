------------------------------ MODULE MCDispute ------------------------------
(***************************************************************************)
(* Instance of Dispute for TLC: one escrow between Alice and Bob, two      *)
(* disputes about it, which is possible if they are created at the same    *)
(* time.                                                                   *)
(***************************************************************************)
EXTENDS Dispute

MCUsers == {"alice", "bob"}
MCEscrows == {"e1"}
MCBuyer == [e1 |-> "alice"]
MCSeller == [e1 |-> "bob"]
MCTotal == [e1 |-> 3]
MCMilestones == {"m1"}
MCMilestoneOf == [m \in MCMilestones |-> "e1"]
MCProofs == {}
MCProofOf == [p \in MCProofs |-> "e1"]
MCInitialBalance == [alice |-> 3, bob |-> 0]
MCDisputes == {"d1", "d2"}
MCDisputeOf == [d1 |-> "e1", d2 |-> "e1"]
MCCaller == [u \in MCUsers |-> u]
==============================================================================
