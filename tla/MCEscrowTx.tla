----------------------------- MODULE MCEscrowTx -----------------------------
(***************************************************************************)
(* Instances of EscrowTx for TLC: which escrows are funded when requests   *)
(* arrive, and which requests may arrive.  Alice buys from Bob (e1) and    *)
(* from Carol (e2).                                                        *)
(***************************************************************************)
EXTENDS EscrowTx, TLC

MCUsers == {"alice", "bob", "carol"}
MCBuyer == [e1 |-> "alice", e2 |-> "alice"]
MCSeller == [e1 |-> "bob", e2 |-> "carol"]
MCTotal == [e1 |-> 3, e2 |-> 2]
MCMilestoneOf == [m1 |-> "e1", m2 |-> "e2", m3 |-> "e2"]
MCProofOf == [p1 |-> "e1", p2 |-> "e1", p3 |-> "e2"]
\* Enough for both escrows, or one cent short of that.
MCRich == [alice |-> 5, bob |-> 0, carol |-> 0]
MCShort == [alice |-> 4, bob |-> 0, carol |-> 0]

On(kind, escrows) == {Request(kind, e, None, None) : e \in escrows}
Review(kind, proofs) == {Request(kind, MCProofOf[p], p, None) : p \in proofs}
Mark(milestones, to) == {Request("milestone", MCMilestoneOf[m], m, to) : m \in milestones}

\* Everything, on e1, which is funded, on e2, which is not, and on Alice's wallet.  The only
\* milestone of e1 completes it; of e2 it takes both.
AllRequests ==
  On("fund", {"e1", "e2"}) \cup On("cancel", {"e1", "e2"}) \cup On("complete", {"e1", "e2"})
  \cup On("release", {"e1", "e2"}) \cup On("dispute", {"e1", "e2"})
  \cup Review("accept", {"p1", "p2", "p3"}) \cup Review("reject", {"p1"})
  \cup Mark({"m1", "m2", "m3"}, "COMPLETED") \cup Mark({"m1"}, "DISPUTED")

TwoProofRequests == Review("accept", {"p1", "p2"})

\* Workers are interchangeable.
WorkerSymmetry == Permutations(Workers)
==============================================================================
