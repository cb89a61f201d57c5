\* EscrowTx, three requests interleaving statement by statement, with crashes.
SPECIFICATION Spec
CONSTANTS
  None = None
  Users <- MCUsers
  Escrows = {"e1", "e2"}
  Buyer <- MCBuyer
  Seller <- MCSeller
  Total <- MCTotal
  Milestones = {"m1", "m2", "m3"}
  MilestoneOf <- MCMilestoneOf
  Proofs = {"p1", "p2", "p3"}
  ProofOf <- MCProofOf
  InitialBalance <- MCShort
  Funded = {"e1"}
  Workers = {w1, w2, w3}
  Offered <- AllRequests
INVARIANTS
  TypeOK
  AcceptedProofWasPaid
  AcceptedOncePerFunding
  NoDeadlock
  AllMilestonesCompleteEscrow
PROPERTY
  KeepsPromise
  DisputeBlocksLaterRequests
SYMMETRY WorkerSymmetry
\* every request may have ended
CHECK_DEADLOCK FALSE
