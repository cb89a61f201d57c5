\* Administrators among the parties and the jobs.
SPECIFICATION AdminSpec
CONSTANTS
  Users <- MCUsers
  Escrows <- MCEscrows
  Buyer <- MCBuyer
  Seller <- MCSeller
  Total <- MCTotal
  Milestones <- MCMilestones
  MilestoneOf <- MCMilestoneOf
  Proofs <- MCProofs
  ProofOf <- MCProofOf
  InitialBalance <- MCInitialBalance
  Disputes <- MCDisputes
  DisputeOf <- MCDisputeOf
  Caller <- MCCaller
  Undefined = Undefined
  Admins = {root}
  Overshoot = 1
  Idle = Idle
INVARIANTS
  AdminTypeOK
  DeliveryWasPaid
