\* EscrowTx, two proofs of one escrow accepted at once.
SPECIFICATION Spec
CONSTANTS
  None = None
  Users <- MCUsers
  Escrows = {"e1", "e2"}
  Buyer <- MCBuyer
  Seller <- MCSeller
  Total <- MCTotal
  Milestones = {"m1", "m2", "m3"}
  MilestoneOf <- MCMilestoneOf
  Proofs = {"p1", "p2", "p3"}
  ProofOf <- MCProofOf
  InitialBalance <- MCRich
  Funded = {"e1"}
  Workers = {w1, w2}
  Offered <- TwoProofRequests
INVARIANTS
  PaidOnce
\* every request may have ended
CHECK_DEADLOCK FALSE
