\* Dispute, its invariants and the deadline job's progress.
SPECIFICATION FairDisputeSpec
CONSTANTS
  Users <- MCUsers
  Escrows <- MCEscrows
  Buyer <- MCBuyer
  Seller <- MCSeller
  Total <- MCTotal
  InitialBalance <- MCInitialBalance
  Milestones <- MCMilestones
  MilestoneOf <- MCMilestoneOf
  Proofs <- MCProofs
  ProofOf <- MCProofOf
  Disputes <- MCDisputes
  DisputeOf <- MCDisputeOf
  Caller <- MCCaller
  Undefined = Undefined
INVARIANT
  DeliveryWasPaid
PROPERTY
  DisputesKeepPromise
  ExpiredDisputesReviewed
  ResolvedUnlessStaleRow
