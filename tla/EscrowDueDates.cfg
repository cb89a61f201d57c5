\* Escrow, the documented condition of an automatic release.
SPECIFICATION Spec
CONSTANTS
  Users <- MCUsers
  Escrows <- MCEscrows
  Buyer <- MCBuyer
  Seller <- MCSeller
  Total <- MCTotal
  Milestones <- JobMilestones
  MilestoneOf <- JobMilestoneOf
  Proofs <- JobProofs
  ProofOf <- JobProofOf
  InitialBalance <- JobInitialBalance
PROPERTY
  OnlyDueEscrowsReleased
