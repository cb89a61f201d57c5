\* Escrow, its invariants, the refinement of EscrowPromise and the release job's progress.
SPECIFICATION FairSpec
CONSTANTS
  Users <- MCUsers
  Escrows <- MCEscrows
  Buyer <- MCBuyer
  Seller <- MCSeller
  Total <- MCTotal
  Milestones <- MCMilestones
  MilestoneOf <- MCMilestoneOf
  Proofs <- MCProofs
  ProofOf <- MCProofOf
  InitialBalance <- MCInitialBalance
INVARIANTS
  TypeOK
  MoneyConserved
  PaymentFollowsEscrow
  DeliverySettlesEscrow
PROPERTIES
  KeepsPromise
  ReleaseRunDrains
