---------------------------- MODULE MCAdminDesk ----------------------------
(***************************************************************************)
(* Instance of AdminDesk for TLC: one escrow of three cents, which may be *)
(* disputed, and one administrator.                                        *)
(***************************************************************************)
EXTENDS AdminDesk

MCUsers == {"alice", "bob"}
MCEscrows == {"e1"}
MCBuyer == [e1 |-> "alice"]
MCSeller == [e1 |-> "bob"]
MCTotal == [e1 |-> 3]
MCMilestones == {}
MCMilestoneOf == [m \in MCMilestones |-> "e1"]
MCProofs == {"p1"}
MCProofOf == [p1 |-> "e1"]
MCInitialBalance == [alice |-> 3, bob |-> 0]
MCDisputes == {"d1"}
MCDisputeOf == [d1 |-> "e1"]
MCCaller == [u \in MCUsers |-> u]
==============================================================================
