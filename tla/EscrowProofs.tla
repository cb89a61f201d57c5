---------------------------- MODULE EscrowProofs ----------------------------
(***************************************************************************)
(* Theorems about Escrow for any users, escrows, milestones, proofs and    *)
(* amounts.                                                                *)
(***************************************************************************)
EXTENDS Escrow, FiniteSetTheorems, TLAPS

LEMMA TypeStep == TypeOK /\ [Next]_vars => TypeOK'
<1> USE TermsAssumption DEF TypeOK, EscrowStatus, PaymentStatus, MilestoneStatus, ProofStatus,
                            Absent
<1> SUFFICES ASSUME TypeOK, [Next]_vars PROVE TypeOK'
  OBVIOUS
<1>1. ASSUME NEW e \in Escrows, CreateEscrow(e) PROVE TypeOK'
  BY <1>1 DEF CreateEscrow
<1>2. ASSUME NEW e \in Escrows, NEW u \in Users, FundEscrow(e, u) PROVE TypeOK'
  BY <1>2 DEF FundEscrow
<1>3. ASSUME NEW e \in Escrows, NEW u \in Users, CompleteEscrow(e, u) PROVE TypeOK'
  BY <1>3 DEF CompleteEscrow, PayoutToSeller
<1>4. ASSUME NEW e \in Escrows, NEW u \in Users, CancelEscrow(e, u) PROVE TypeOK'
  BY <1>4 DEF CancelEscrow
<1>5. ASSUME NEW p \in Proofs, NEW u \in Users, SubmitDeliveryProof(p, u) PROVE TypeOK'
  BY <1>5 DEF SubmitDeliveryProof
<1>6. ASSUME NEW p \in Proofs, NEW u \in Users, NEW d \in {"accept", "reject"},
             ReviewDeliveryProof(p, u, d)
      PROVE TypeOK'
  BY <1>6 DEF ReviewDeliveryProof, PayoutToSeller, NoPayout
<1>7. ASSUME NEW m \in Milestones, NEW s \in MilestoneStatus, NEW u \in Users,
             UpdateMilestone(m, u, s)
      PROVE TypeOK'
  BY <1>7 DEF UpdateMilestone, PayoutToSeller, NoPayout
<1>8. ASSUME StartScheduledReleases PROVE TypeOK'
  BY <1>8 DEF StartScheduledReleases, FundedEscrows
<1>9. ASSUME NEW e \in Escrows, ProcessScheduledRelease(e) PROVE TypeOK'
  BY <1>9 DEF ProcessScheduledRelease, PayoutToSeller, NoPayout
<1>10. ASSUME NEW e \in Escrows, ReachReleaseDate(e) PROVE TypeOK'
  BY <1>10 DEF ReachReleaseDate
<1>11. CASE RestartServer
  BY <1>11 DEF RestartServer
<1>12. CASE UNCHANGED vars
  BY <1>12 DEF vars
<1> QED
  BY <1>1, <1>2, <1>3, <1>4, <1>5, <1>6, <1>7, <1>8, <1>9, <1>10, <1>11, <1>12
  DEF Next, UserRequest, Scheduler

\* Type correctness: every request and job keeps statuses, rows and references in their sets,
\* and no sequence of fundings overdraws a wallet.
THEOREM TypeCorrect == Spec => []TypeOK
<1>1. Init => TypeOK
  BY TermsAssumption DEF Init, TypeOK, EscrowStatus, PaymentStatus, MilestoneStatus,
                         ProofStatus, Absent
<1>2. TypeOK /\ [Next]_vars => TypeOK'
  BY TypeStep
<1>3. QED
  BY <1>1, <1>2, PTL DEF Spec

------------------------------------------------------------------------------
(* The three safety invariants are inductive together with TypeOK: a second *)
(* accepted proof or a last milestone needs a funded escrow, which they     *)
(* exclude once a proof is accepted or all milestones are completed.        *)
SafetyInv ==
  /\ TypeOK
  /\ PaymentFollowsEscrow
  /\ AcceptedProofSettlesEscrow
  /\ MilestonesSettleEscrow

\* A step that leaves proofs and milestones alone and takes no escrow out of COMPLETED
\* keeps what the proofs and the milestones say of the escrows.
LEMMA QuietStep ==
  ASSUME AcceptedProofSettlesEscrow, MilestonesSettleEscrow, TermsAssumption,
         UNCHANGED <<proof, milestone>>,
         \A e \in Escrows : status[e] = "COMPLETED" => status'[e] = "COMPLETED"
  PROVE  AcceptedProofSettlesEscrow' /\ MilestonesSettleEscrow'
BY DEF AcceptedProofSettlesEscrow, MilestonesSettleEscrow, TermsAssumption, MilestonesIn

THEOREM SafetyInductive == Spec => []SafetyInv
<1> USE TermsAssumption
<1>1. Init => SafetyInv
  <2> SUFFICES ASSUME Init PROVE SafetyInv
    OBVIOUS
  <2>1. TypeOK
    BY DEF Init, TypeOK, TermsAssumption
  <2>2. PaymentFollowsEscrow /\ AcceptedProofSettlesEscrow
    BY DEF Init, PaymentFollowsEscrow, AcceptedProofSettlesEscrow, TermsAssumption, Absent
  <2>3. MilestonesSettleEscrow
    BY DEF Init, MilestonesSettleEscrow, MilestonesIn, Absent
  <2> QED
    BY <2>1, <2>2, <2>3 DEF SafetyInv
<1>2. SafetyInv /\ TypeOK' /\ [Next]_vars => SafetyInv'
  <2> SUFFICES ASSUME SafetyInv, TypeOK', [Next]_vars
               PROVE  /\ PaymentFollowsEscrow'
                      /\ AcceptedProofSettlesEscrow'
                      /\ MilestonesSettleEscrow'
    BY DEF SafetyInv
  <2> DEFINE Goal == /\ PaymentFollowsEscrow'
                     /\ AcceptedProofSettlesEscrow'
                     /\ MilestonesSettleEscrow'
  <2> USE DEF SafetyInv
  <2>1. ASSUME NEW e \in Escrows, CreateEscrow(e) PROVE Goal
    <3>1. PaymentFollowsEscrow'
      BY <2>1 DEF CreateEscrow, PaymentFollowsEscrow, TypeOK, Absent
    <3>2. AcceptedProofSettlesEscrow'
      BY <2>1 DEF CreateEscrow, AcceptedProofSettlesEscrow, TypeOK, Absent, TermsAssumption
    <3>3. MilestonesSettleEscrow'
      BY <2>1 DEF CreateEscrow, MilestonesSettleEscrow, MilestonesIn, TypeOK, Absent
    <3> QED
      BY <3>1, <3>2, <3>3
  <2>2. ASSUME NEW e \in Escrows, NEW u \in Users, FundEscrow(e, u) PROVE Goal
    <3>1. PaymentFollowsEscrow'
      BY <2>2 DEF FundEscrow, PaymentFollowsEscrow, TypeOK
    <3> QED
      BY <2>2, <3>1, QuietStep DEF FundEscrow, TypeOK
  <2>3. ASSUME NEW e \in Escrows, NEW u \in Users, CompleteEscrow(e, u) PROVE Goal
    <3>1. PaymentFollowsEscrow'
      BY <2>3 DEF CompleteEscrow, PayoutToSeller, PaymentFollowsEscrow, TypeOK, Absent
    <3> QED
      BY <2>3, <3>1, QuietStep DEF CompleteEscrow, PayoutToSeller, TypeOK
  <2>4. ASSUME NEW e \in Escrows, NEW u \in Users, CancelEscrow(e, u) PROVE Goal
    <3>1. PaymentFollowsEscrow'
      BY <2>4 DEF CancelEscrow, PaymentFollowsEscrow, TypeOK, Absent, PaymentStatus
    <3> QED
      BY <2>4, <3>1, QuietStep DEF CancelEscrow, TypeOK
  <2>5. ASSUME NEW p \in Proofs, NEW u \in Users, SubmitDeliveryProof(p, u) PROVE Goal
    <3>1. PaymentFollowsEscrow' /\ MilestonesSettleEscrow'
      BY <2>5 DEF SubmitDeliveryProof, PaymentFollowsEscrow, MilestonesSettleEscrow,
                  MilestonesIn
    <3>2. AcceptedProofSettlesEscrow'
      BY <2>5 DEF SubmitDeliveryProof, AcceptedProofSettlesEscrow, TypeOK
    <3> QED
      BY <3>1, <3>2
  <2>6. ASSUME NEW p \in Proofs, NEW u \in Users, NEW d \in {"accept", "reject"},
               ReviewDeliveryProof(p, u, d)
        PROVE  Goal
    <3>1. CASE d = "accept"
      <4>1. /\ proof' = [proof EXCEPT ![p] = "ACCEPTED"]
            /\ PayoutToSeller(ProofOf[p])
            /\ UNCHANGED milestone
        BY <2>6, <3>1 DEF ReviewDeliveryProof
      <4>2. PaymentFollowsEscrow'
        BY <4>1 DEF PayoutToSeller, PaymentFollowsEscrow, TypeOK, TermsAssumption, Absent
      <4>3. AcceptedProofSettlesEscrow'
        BY <4>1 DEF PayoutToSeller, AcceptedProofSettlesEscrow, TypeOK, TermsAssumption
      <4>4. MilestonesSettleEscrow'
        BY <4>1 DEF PayoutToSeller, MilestonesSettleEscrow, MilestonesIn, TypeOK
      <4> QED
        BY <4>2, <4>3, <4>4
    <3>2. CASE d = "reject"
      <4>1. /\ proof' = [proof EXCEPT ![p] = "REJECTED"]
            /\ UNCHANGED <<wallet, payment, status, milestone>>
        BY <2>6, <3>2 DEF ReviewDeliveryProof, NoPayout
      <4>2. PaymentFollowsEscrow' /\ MilestonesSettleEscrow'
        BY <4>1 DEF PaymentFollowsEscrow, MilestonesSettleEscrow, MilestonesIn
      <4>3. AcceptedProofSettlesEscrow'
        BY <4>1 DEF AcceptedProofSettlesEscrow, TypeOK
      <4> QED
        BY <4>2, <4>3
    <3> QED
      BY <3>1, <3>2
  <2>7. ASSUME NEW m \in Milestones, NEW s \in MilestoneStatus, NEW u \in Users,
               UpdateMilestone(m, u, s)
        PROVE  Goal
    <3> DEFINE e == MilestoneOf[m]
               allCompleted == \A n \in MilestonesIn(e) : milestone'[n] = "COMPLETED"
    <3>0. /\ e \in Escrows
          /\ milestone' = [milestone EXCEPT ![m] = s]
          /\ UNCHANGED proof
          /\ \/ allCompleted /\ PayoutToSeller(e)
             \/ ~allCompleted /\ NoPayout
      BY <2>7 DEF UpdateMilestone, TermsAssumption
    <3>1. CASE allCompleted /\ PayoutToSeller(e)
      <4>1. PaymentFollowsEscrow'
        BY <3>0, <3>1 DEF PayoutToSeller, PaymentFollowsEscrow, TypeOK, Absent
      <4>2. AcceptedProofSettlesEscrow'
        BY <3>0, <3>1 DEF PayoutToSeller, AcceptedProofSettlesEscrow, TypeOK, TermsAssumption
      <4>3. MilestonesSettleEscrow'
        BY <3>0, <3>1 DEF PayoutToSeller, MilestonesSettleEscrow, MilestonesIn, TypeOK
      <4> QED
        BY <4>1, <4>2, <4>3
    <3>2. CASE ~allCompleted /\ NoPayout
      <4>1. PaymentFollowsEscrow' /\ AcceptedProofSettlesEscrow'
        BY <3>0, <3>2 DEF NoPayout, PaymentFollowsEscrow, AcceptedProofSettlesEscrow
      <4>2. MilestonesSettleEscrow'
        BY <3>0, <3>2 DEF NoPayout, MilestonesSettleEscrow, MilestonesIn, TypeOK
      <4> QED
        BY <4>1, <4>2
    <3> QED
      BY <3>0, <3>1, <3>2
  <2>8. ASSUME NEW e \in Escrows, ProcessScheduledRelease(e) PROVE Goal
    <3>1. CASE PayoutToSeller(e)
      <4>1. PaymentFollowsEscrow'
        BY <2>8, <3>1 DEF PayoutToSeller, PaymentFollowsEscrow, TypeOK, Absent
      <4> QED
        BY <2>8, <3>1, <4>1, QuietStep DEF ProcessScheduledRelease, PayoutToSeller, TypeOK
    <3>2. CASE NoPayout
      BY <2>8, <3>2, QuietStep DEF ProcessScheduledRelease, NoPayout, PaymentFollowsEscrow
    <3> QED
      BY <2>8, <3>1, <3>2 DEF ProcessScheduledRelease
  <2>9. ASSUME UNCHANGED <<status, payment, milestone, proof>> PROVE Goal
    BY <2>9, QuietStep DEF PaymentFollowsEscrow
  <2> QED
    BY <2>1, <2>2, <2>3, <2>4, <2>5, <2>6, <2>7, <2>8, <2>9
    DEF Next, UserRequest, Scheduler, StartScheduledReleases, ReachReleaseDate, RestartServer,
        vars
<1>3. QED
  BY <1>1, <1>2, TypeCorrect, PTL DEF Spec

------------------------------------------------------------------------------
(* Escrow implements EscrowPromise.                                         *)

\* A step that changes the phase of at most escrow e maps to a Move of e.
LEMMA MoveOf ==
  ASSUME NEW e \in Escrows, NEW from, NEW to, Phase(e) = from, Phase(e)' = to,
         \A f \in Escrows : f # e => Phase(f)' = Phase(f)
  PROVE  Promise!Move(e, from, to)
BY DEF Promise!Move

\* Only the escrow whose status or payment changes can change its phase.
LEMMA PhaseUnchanged ==
  ASSUME NEW e \in Escrows, status'[e] = status[e], payment'[e] = payment[e]
  PROVE  Phase(e)' = Phase(e)
BY DEF Phase

LEMMA PayoutPays ==
  ASSUME NEW e \in Escrows, TypeOK, PayoutToSeller(e)
  PROVE  Promise!Pay(e)
<1>1. Phase(e) = "held" /\ Phase(e)' = "paid"
  BY DEF PayoutToSeller, TypeOK, Phase, Absent
<1>2. \A f \in Escrows : f # e => Phase(f)' = Phase(f)
  BY PhaseUnchanged DEF PayoutToSeller, TypeOK
<1> QED
  BY <1>1, <1>2, MoveOf DEF PayoutToSeller, Promise!Pay

\* Whatever requests and job steps follow each other, on wallets and phases they are a
\* behaviour of the promise: taken from the buyer once, given to one party once.
THEOREM Refinement == Spec => KeepsPromise
<1> USE TermsAssumption
<1>1. Init => Promise!PInit
  BY DEF Init, Promise!PInit, Phase, Absent
<1>2. SafetyInv /\ [Next]_vars => [Promise!PNext]_(Promise!pvars)
  <2> SUFFICES ASSUME SafetyInv, [Next]_vars
               PROVE  Promise!PNext \/ UNCHANGED Promise!pvars
    OBVIOUS
  <2> USE DEF SafetyInv
  <2>0. ASSUME UNCHANGED <<wallet, status, payment>> PROVE UNCHANGED Promise!pvars
    BY <2>0 DEF Promise!pvars, Phase
  <2>1. ASSUME NEW e \in Escrows, CreateEscrow(e) PROVE Promise!Agree(e)
    <3>1. Phase(e) = "none" /\ Phase(e)' = "agreed"
      BY <2>1 DEF CreateEscrow, TypeOK, Phase, Absent
    <3>2. \A f \in Escrows : f # e => Phase(f)' = Phase(f)
      BY <2>1, PhaseUnchanged DEF CreateEscrow, TypeOK
    <3> QED
      BY <2>1, <3>1, <3>2, MoveOf DEF CreateEscrow, Promise!Agree
  <2>2. ASSUME NEW e \in Escrows, NEW u \in Users, FundEscrow(e, u) PROVE Promise!Hold(e)
    <3>1. Phase(e) = "agreed" /\ Phase(e)' = "held"
      BY <2>2 DEF FundEscrow, TypeOK, Phase, Absent
    <3>2. \A f \in Escrows : f # e => Phase(f)' = Phase(f)
      BY <2>2, PhaseUnchanged DEF FundEscrow, TypeOK
    <3> QED
      BY <2>2, <3>1, <3>2, MoveOf DEF FundEscrow, Promise!Hold
  <2>3. ASSUME NEW e \in Escrows, NEW u \in Users, CompleteEscrow(e, u) PROVE Promise!Pay(e)
    BY <2>3, PayoutPays DEF CompleteEscrow
  <2>4. ASSUME NEW e \in Escrows, NEW u \in Users, CancelEscrow(e, u)
        PROVE  Promise!CallOff(e) \/ Promise!Return(e)
    <3>1. \A f \in Escrows : f # e => Phase(f)' = Phase(f)
      BY <2>4, PhaseUnchanged DEF CancelEscrow, TypeOK
    <3>2. CASE status[e] = "PENDING"
      <4>1. payment[e] # "REFUNDED"
        BY <3>2 DEF PaymentFollowsEscrow
      <4>2. Phase(e) = "agreed" /\ Phase(e)' = "calledOff" /\ UNCHANGED wallet
        BY <2>4, <3>2, <4>1 DEF CancelEscrow, TypeOK, Phase, Absent
      <4> QED
        BY <3>1, <4>2, MoveOf DEF Promise!CallOff
    <3>3. CASE status[e] = "FUNDED"
      <4>1. payment[e] = "ESCROW"
        BY <3>3 DEF PaymentFollowsEscrow
      <4>2. /\ Phase(e) = "held" /\ Phase(e)' = "returned"
            /\ wallet' = [wallet EXCEPT ![Buyer[e]] = @ + Total[e]]
        BY <2>4, <3>3, <4>1 DEF CancelEscrow, TypeOK, Phase, Absent
      <4> QED
        BY <3>1, <4>2, MoveOf DEF Promise!Return
    <3> QED
      BY <2>4, <3>2, <3>3 DEF CancelEscrow
  <2>5. ASSUME NEW p \in Proofs, NEW u \in Users, NEW d \in {"accept", "reject"},
               ReviewDeliveryProof(p, u, d)
        PROVE  Promise!Pay(ProofOf[p]) \/ UNCHANGED Promise!pvars
    BY <2>5, <2>0, PayoutPays DEF ReviewDeliveryProof, NoPayout, TermsAssumption
  <2>6. ASSUME NEW m \in Milestones, NEW s \in MilestoneStatus, NEW u \in Users,
               UpdateMilestone(m, u, s)
        PROVE  Promise!Pay(MilestoneOf[m]) \/ UNCHANGED Promise!pvars
    BY <2>6, <2>0, PayoutPays DEF UpdateMilestone, NoPayout, TermsAssumption
  <2>7. ASSUME NEW e \in Escrows, ProcessScheduledRelease(e)
        PROVE  Promise!Pay(e) \/ UNCHANGED Promise!pvars
    BY <2>7, <2>0, PayoutPays DEF ProcessScheduledRelease, NoPayout
  <2>8. ASSUME NEW p \in Proofs, NEW u \in Users, SubmitDeliveryProof(p, u)
        PROVE  UNCHANGED Promise!pvars
    BY <2>8, <2>0 DEF SubmitDeliveryProof
  <2>9. ASSUME StartScheduledReleases \/ RestartServer \/ UNCHANGED vars
        PROVE  UNCHANGED Promise!pvars
    BY <2>9, <2>0 DEF StartScheduledReleases, RestartServer, vars
  <2>10. ASSUME NEW e \in Escrows, ReachReleaseDate(e) PROVE UNCHANGED Promise!pvars
    BY <2>10, <2>0 DEF ReachReleaseDate
  <2> QED
    BY <2>1, <2>2, <2>3, <2>4, <2>5, <2>6, <2>7, <2>8, <2>9, <2>10
    DEF Next, UserRequest, Scheduler, Promise!PNext, TermsAssumption
<1>3. QED
  BY <1>1, <1>2, SafetyInductive, PTL DEF Spec, KeepsPromise, Promise!PSpec

\* An escrow's Payment row always tells the same story as its status.
THEOREM PaymentRowsTellTheTruth == Spec => []PaymentFollowsEscrow
<1>1. SafetyInv => PaymentFollowsEscrow
  BY DEF SafetyInv
<1> QED
  BY <1>1, SafetyInductive, PTL

\* Neither an accepted proof nor a completed list of milestones is ever recorded without the
\* payout, and of the proofs of one escrow at most one is accepted.
THEOREM DeliveryIsSettled == Spec => []DeliverySettlesEscrow
<1>1. SafetyInv => DeliverySettlesEscrow
  BY DEF SafetyInv, DeliverySettlesEscrow
<1> QED
  BY <1>1, SafetyInductive, PTL

------------------------------------------------------------------------------
(* Sums over finite sets.  SumOver picks the elements of the set in an      *)
(* order of its own; the order does not matter, and one summand may be      *)
(* taken out or changed.                                                    *)

\* The function that MapThenSumSet recurs with, on the subsets of S.
Pick(T) == CHOOSE x \in T : TRUE
IsSum(g, f, S) ==
  g = [T \in SUBSET S |-> IF T = {} THEN 0 ELSE f[Pick(T)] + g[T \ {Pick(T)}]]

LEMMA SumDef ==
  ASSUME NEW f, NEW S
  PROVE  SumOver(f, S) = (CHOOSE g : IsSum(g, f, S))[S]
BY DEF SumOver, MapThenSumSet, MapThenFoldSet, IsSum, Pick

LEMMA SubsetInduction ==
  ASSUME NEW S, IsFiniteSet(S), NEW Good,
         \A T \in SUBSET S : (\A U \in SUBSET T : U # T => U \in Good) => T \in Good
  PROVE  \A T \in SUBSET S : T \in Good
<1> DEFINE B == {T \in SUBSET S : T \notin Good}
<1>1. IsWellFoundedOn(StrictSubsetOrdering(S), SUBSET S)
  <2>1. FiniteSubsetsOf(S) = SUBSET S
    BY FS_FiniteSubsetsOfFinite
  <2>2. IsWellFoundedOn(StrictSubsetOrdering(S), FiniteSubsetsOf(S))
    BY FS_StrictSubsetOrderingWellFounded
  <2> QED
    BY <2>1, <2>2
<1>2. ASSUME B # {} PROVE FALSE
  <2>1. B \subseteq SUBSET S
    OBVIOUS
  <2> HIDE DEF B
  <2>2. PICK T \in B : \A U \in B : ~ (<<U, T>> \in StrictSubsetOrdering(S))
    BY <1>1, <1>2, <2>1, WFMin
  <2>3. \A U \in SUBSET T : U # T => U \in Good
    BY <2>1, <2>2 DEF StrictSubsetOrdering, B
  <2> QED
    BY <2>2, <2>3 DEF B
<1> QED
  BY <1>2

LEMMA PickIn == ASSUME NEW T, T # {} PROVE Pick(T) \in T
BY DEF Pick

\* Two such functions agree where both are defined.
LEMMA SumUnique ==
  ASSUME NEW S, IsFiniteSet(S), NEW f, NEW R, NEW g, NEW h,
         S \subseteq R, IsSum(g, f, R), IsSum(h, f, S)
  PROVE  \A T \in SUBSET S : g[T] = h[T]
<1> DEFINE Good == {T \in SUBSET S : g[T] = h[T]}
<1>1. ASSUME NEW T \in SUBSET S, \A U \in SUBSET T : U # T => U \in Good
      PROVE  T \in Good
  <2>1. /\ g[T] = IF T = {} THEN 0 ELSE f[Pick(T)] + g[T \ {Pick(T)}]
        /\ h[T] = IF T = {} THEN 0 ELSE f[Pick(T)] + h[T \ {Pick(T)}]
    BY DEF IsSum
  <2>2. T # {} => g[T \ {Pick(T)}] = h[T \ {Pick(T)}]
    BY <1>1, PickIn
  <2> QED
    BY <2>1, <2>2
<1> HIDE DEF Good
<1>2. \A T \in SUBSET S : T \in Good
  BY <1>1, SubsetInduction
<1> QED
  BY <1>2 DEF Good

\* There is one for every finite set.
LEMMA SumExists ==
  ASSUME NEW S, IsFiniteSet(S), NEW f
  PROVE  \E g : IsSum(g, f, S)
<1> DEFINE Good == {T \in SUBSET S : \E g : IsSum(g, f, T)}
<1>1. ASSUME NEW T \in SUBSET S, \A U \in SUBSET T : U # T => U \in Good
      PROVE  T \in Good
  <2> DEFINE G(U) == CHOOSE g : IsSum(g, f, U)
             h == [U \in SUBSET T |-> IF U = {} THEN 0
                                      ELSE f[Pick(U)] + G(U \ {Pick(U)})[U \ {Pick(U)}]]
  <2>1. \A U \in SUBSET T : U # T => IsSum(G(U), f, U)
    BY <1>1
  <2>2. ASSUME NEW U \in SUBSET T, U # T PROVE h[U] = G(U)[U]
    <3>1. G(U)[U] = IF U = {} THEN 0 ELSE f[Pick(U)] + G(U)[U \ {Pick(U)}]
      <4>1. IsSum(G(U), f, U)
        BY <2>1, <2>2
      <4> HIDE DEF G
      <4> QED
        BY <4>1 DEF IsSum
    <3>2. CASE U = {}
      BY <3>1, <3>2
    <3>3. CASE U # {}
      <4> DEFINE V == U \ {Pick(U)}
      <4>1. Pick(U) \in U
        BY <3>3, PickIn
      <4>2. IsFiniteSet(V) /\ V \in SUBSET T /\ V # T /\ V \subseteq U
        BY <4>1, FS_Subset
      <4>3. IsSum(G(V), f, V) /\ IsSum(G(U), f, U)
        BY <2>1, <2>2, <4>2
      <4> HIDE DEF V, G
      <4>4. G(U)[V] = G(V)[V]
        BY <4>2, <4>3, SumUnique
      <4> QED
        BY <3>1, <3>3, <4>4 DEF V
    <3> QED
      BY <3>2, <3>3
  <2>3. ASSUME NEW U \in SUBSET T
        PROVE  h[U] = IF U = {} THEN 0 ELSE f[Pick(U)] + h[U \ {Pick(U)}]
    <3>1. CASE U # {}
      <4>1. U \ {Pick(U)} \in SUBSET T /\ U \ {Pick(U)} # T
        BY <3>1, PickIn
      <4>2. h[U \ {Pick(U)}] = G(U \ {Pick(U)})[U \ {Pick(U)}]
        BY <2>2, <4>1
      <4> HIDE DEF G
      <4> QED
        BY <3>1, <4>2
    <3> QED
      BY <3>1
  <2>4. IsSum(h, f, T)
    <3>1. h = [U \in SUBSET T |-> h[U]]
      OBVIOUS
    <3> HIDE DEF h
    <3> QED
      BY <2>3, <3>1 DEF IsSum
  <2> QED
    BY <2>4
<1> HIDE DEF Good
<1>2. \A T \in SUBSET S : T \in Good
  BY <1>1, SubsetInduction
<1> QED
  BY <1>2 DEF Good

LEMMA SumRecurs ==
  ASSUME NEW S, IsFiniteSet(S), NEW f
  PROVE  SumOver(f, S) = IF S = {} THEN 0 ELSE f[Pick(S)] + SumOver(f, S \ {Pick(S)})
<1> DEFINE G(U) == CHOOSE g : IsSum(g, f, U)
<1>1. \A U \in SUBSET S : IsSum(G(U), f, U)
  BY FS_Subset, SumExists
<1>2. \A U : SumOver(f, U) = G(U)[U]
  BY SumDef
<1> HIDE DEF G
<1>3. G(S)[S] = IF S = {} THEN 0 ELSE f[Pick(S)] + G(S)[S \ {Pick(S)}]
  BY <1>1 DEF IsSum
<1>4. G(S)[S \ {Pick(S)}] = G(S \ {Pick(S)})[S \ {Pick(S)}]
  <2> DEFINE V == S \ {Pick(S)}
  <2>1. IsFiniteSet(V) /\ V \subseteq S
    BY FS_Subset
  <2> HIDE DEF V
  <2>2. G(S)[V] = G(V)[V]
    BY <1>1, <2>1, SumUnique
  <2> QED
    BY <2>2 DEF V
<1> QED
  BY <1>2, <1>3, <1>4

\* Sums of integers are integers; of functions that agree they are the same; and any element
\* may be taken out.
LEMMA SumType ==
  ASSUME NEW S, IsFiniteSet(S), NEW f, \A x \in S : f[x] \in Int
  PROVE  SumOver(f, S) \in Int
<1> DEFINE Good == {T \in SUBSET S : SumOver(f, T) \in Int}
<1>1. ASSUME NEW T \in SUBSET S, \A U \in SUBSET T : U # T => U \in Good
      PROVE  T \in Good
  <2>1. SumOver(f, T) = IF T = {} THEN 0 ELSE f[Pick(T)] + SumOver(f, T \ {Pick(T)})
    BY FS_Subset, SumRecurs
  <2>2. T # {} => SumOver(f, T \ {Pick(T)}) \in Int /\ f[Pick(T)] \in Int
    BY <1>1, PickIn
  <2> QED
    BY <2>1, <2>2
<1> HIDE DEF Good
<1>2. \A T \in SUBSET S : T \in Good
  BY <1>1, SubsetInduction
<1> QED
  BY <1>2 DEF Good

LEMMA SumAgree ==
  ASSUME NEW S, IsFiniteSet(S), NEW f, NEW g, \A x \in S : f[x] = g[x]
  PROVE  SumOver(f, S) = SumOver(g, S)
<1> DEFINE Good == {T \in SUBSET S : SumOver(f, T) = SumOver(g, T)}
<1>1. ASSUME NEW T \in SUBSET S, \A U \in SUBSET T : U # T => U \in Good
      PROVE  T \in Good
  <2>1. /\ SumOver(f, T) = IF T = {} THEN 0 ELSE f[Pick(T)] + SumOver(f, T \ {Pick(T)})
        /\ SumOver(g, T) = IF T = {} THEN 0 ELSE g[Pick(T)] + SumOver(g, T \ {Pick(T)})
    BY FS_Subset, SumRecurs
  <2>2. T # {} => /\ SumOver(f, T \ {Pick(T)}) = SumOver(g, T \ {Pick(T)})
                  /\ f[Pick(T)] = g[Pick(T)]
    BY <1>1, PickIn
  <2> QED
    BY <2>1, <2>2
<1> HIDE DEF Good
<1>2. \A T \in SUBSET S : T \in Good
  BY <1>1, SubsetInduction
<1> QED
  BY <1>2 DEF Good

LEMMA SumAny ==
  ASSUME NEW S, IsFiniteSet(S), NEW f, \A x \in S : f[x] \in Int, NEW y \in S
  PROVE  SumOver(f, S) = f[y] + SumOver(f, S \ {y})
<1> DEFINE Good == {T \in SUBSET S : \A x \in T : SumOver(f, T) = f[x] + SumOver(f, T \ {x})}
<1>1. ASSUME NEW T \in SUBSET S, \A U \in SUBSET T : U # T => U \in Good
      PROVE  T \in Good
  <2> SUFFICES ASSUME NEW x \in T PROVE SumOver(f, T) = f[x] + SumOver(f, T \ {x})
    OBVIOUS
  <2> DEFINE c == Pick(T)
  <2>1. c \in T /\ SumOver(f, T) = f[c] + SumOver(f, T \ {c})
    BY FS_Subset, SumRecurs, PickIn
  <2> HIDE DEF c
  <2>2. CASE x # c
    <3> DEFINE rest == SumOver(f, (T \ {x}) \ {c})
    <3>1. (T \ {c}) \ {x} = (T \ {x}) \ {c}
      OBVIOUS
    <3>2. SumOver(f, T \ {c}) = f[x] + rest /\ SumOver(f, T \ {x}) = f[c] + rest
      BY <1>1, <2>1, <2>2, <3>1
    <3>3. f[x] \in Int /\ f[c] \in Int /\ rest \in Int
      <4>1. (T \ {x}) \ {c} \subseteq S /\ IsFiniteSet((T \ {x}) \ {c})
        BY FS_Subset
      <4> QED
        BY <2>1, <4>1, SumType
    <3> HIDE DEF rest
    <3> QED
      BY <2>1, <3>2, <3>3
  <2> QED
    BY <2>1, <2>2
<1> HIDE DEF Good
<1>2. \A T \in SUBSET S : T \in Good
  BY <1>1, SubsetInduction
<1> QED
  BY <1>2 DEF Good

\* One summand changes.
LEMMA SumChange ==
  ASSUME NEW S, IsFiniteSet(S), NEW f, NEW g, NEW y \in S,
         \A x \in S : f[x] \in Int, g[y] \in Int, \A x \in S \ {y} : g[x] = f[x]
  PROVE  SumOver(g, S) = SumOver(f, S) + (g[y] - f[y])
<1>1. IsFiniteSet(S \ {y}) /\ SumOver(f, S \ {y}) \in Int /\ f[y] \in Int
  BY FS_Subset, SumType
<1>2. SumOver(g, S \ {y}) = SumOver(f, S \ {y})
  BY <1>1, SumAgree
<1>3. SumOver(f, S) = f[y] + SumOver(f, S \ {y})
  BY SumAny
<1>4. \A x \in S : g[x] \in Int
  OBVIOUS
<1>5. SumOver(g, S) = g[y] + SumOver(g, S \ {y})
  BY <1>4, SumAny
<1> QED
  BY <1>1, <1>2, <1>3, <1>5


------------------------------------------------------------------------------
(* Money.  A step moves an escrow's amount between a wallet and the         *)
(* escrows that hold some, or moves none.                                   *)

\* The buyer's money goes into the escrow.
LEMMA MoneyTaken ==
  ASSUME IsFiniteSet(Users), IsFiniteSet(Escrows), NEW purse \in [Users -> Int], NEW u \in Users,
         NEW held \in SUBSET Escrows, NEW e \in Escrows, e \notin held,
         NEW purse2,
         \A x \in Users : purse2[x] = IF x = u THEN purse[u] - Total[e] ELSE purse[x]
  PROVE  SumOver(purse2, Users) + SumOver(Total, held \cup {e})
           = SumOver(purse, Users) + SumOver(Total, held)
<1>1. Total[e] \in Nat /\ Total \in [Escrows -> Nat]
  BY TermsAssumption
<1>2. SumOver(purse, Users) \in Int
  BY SumType
<1>3. SumOver(purse2, Users) = SumOver(purse, Users) + (0 - Total[e])
  <2>1. purse2[u] = purse[u] + (0 - Total[e]) /\ purse[u] \in Int
    BY <1>1
  <2>2. /\ purse2[u] \in Int /\ \A x \in Users : purse[x] \in Int
        /\ \A x \in Users \ {u} : purse2[x] = purse[x]
    BY <1>1, <2>1
  <2>3. SumOver(purse2, Users) = SumOver(purse, Users) + (purse2[u] - purse[u])
    BY <2>2, SumChange
  <2> QED
    BY <1>1, <1>2, <2>1, <2>3
<1>4. /\ SumOver(Total, held \cup {e}) = Total[e] + SumOver(Total, held)
      /\ SumOver(Total, held) \in Int
  <2>1. /\ IsFiniteSet(held \cup {e}) /\ IsFiniteSet(held)
        /\ (held \cup {e}) \ {e} = held
        /\ \A x \in held \cup {e} : Total[x] \in Int
    BY <1>1, FS_Subset
  <2>2. \A x \in held : Total[x] \in Int
    BY <2>1
  <2>3. SumOver(Total, held) \in Int
    BY <2>1, <2>2, SumType
  <2>4. SumOver(Total, held \cup {e}) = Total[e] + SumOver(Total, (held \cup {e}) \ {e})
    BY <2>1, SumAny
  <2> QED
    BY <2>1, <2>3, <2>4
<1> QED
  BY <1>1, <1>2, <1>3, <1>4

\* The escrow's money goes into a wallet.
LEMMA MoneyGiven ==
  ASSUME IsFiniteSet(Users), IsFiniteSet(Escrows), NEW purse \in [Users -> Int], NEW u \in Users,
         NEW held \in SUBSET Escrows, NEW e \in Escrows, e \in held,
         NEW purse2,
         \A x \in Users : purse2[x] = IF x = u THEN purse[u] + Total[e] ELSE purse[x]
  PROVE  SumOver(purse2, Users) + SumOver(Total, held \ {e})
           = SumOver(purse, Users) + SumOver(Total, held)
<1>1. Total[e] \in Nat /\ Total \in [Escrows -> Nat]
  BY TermsAssumption
<1>2. SumOver(purse, Users) \in Int
  BY SumType
<1>3. SumOver(purse2, Users) = SumOver(purse, Users) + Total[e]
  <2>1. purse2[u] = purse[u] + Total[e] /\ purse[u] \in Int
    BY <1>1
  <2>2. /\ purse2[u] \in Int /\ \A x \in Users : purse[x] \in Int
        /\ \A x \in Users \ {u} : purse2[x] = purse[x]
    BY <1>1, <2>1
  <2>3. SumOver(purse2, Users) = SumOver(purse, Users) + (purse2[u] - purse[u])
    BY <2>2, SumChange
  <2> QED
    BY <1>1, <1>2, <2>1, <2>3
<1>4. /\ SumOver(Total, held) = Total[e] + SumOver(Total, held \ {e})
      /\ SumOver(Total, held \ {e}) \in Int
  <2>1. /\ IsFiniteSet(held) /\ IsFiniteSet(held \ {e})
        /\ \A x \in held : Total[x] \in Int
    BY <1>1, FS_Subset
  <2>2. \A x \in held \ {e} : Total[x] \in Int
    BY <2>1
  <2> QED
    BY <2>1, <2>2, SumType, SumAny
<1> QED
  BY <1>1, <1>2, <1>3, <1>4

\* The escrows whose Payment row is in escrow.  That a funded escrow is one of them and an
\* escrow that was not funded is not, holds with disputes and without.
Held == {e \in Escrows : payment[e] = "ESCROW"}

RowsTellFunding ==
  \A e \in Escrows : /\ status[e] = "FUNDED" => payment[e] = "ESCROW"
                     /\ status[e] \in {Absent, "PENDING"} => payment[e] # "ESCROW"

LEMMA MoneyStep ==
  ASSUME IsFiniteSet(Users), IsFiniteSet(Escrows), TypeOK, RowsTellFunding, AddsUpWith(Held),
         [Next]_vars
  PROVE  AddsUpWith(Held)'
<1> USE TermsAssumption
<1>0. /\ wallet \in [Users -> Nat] /\ wallet \in [Users -> Int]
      /\ payment \in [Escrows -> PaymentStatus \cup {Absent}]
      /\ Held \in SUBSET Escrows /\ Total \in [Escrows -> Nat \ {0}]
  BY DEF TypeOK, Held
<1>1. ASSUME UNCHANGED <<wallet, payment>> PROVE AddsUpWith(Held)'
  BY <1>1 DEF AddsUpWith, Held
<1>2. ASSUME NEW e \in Escrows, NEW u \in Users, FundEscrow(e, u) PROVE AddsUpWith(Held)'
  <2>1. e \notin Held /\ Held' = Held \cup {e}
    BY <1>0, <1>2 DEF FundEscrow, RowsTellFunding, Held
  <2>2. \A x \in Users : wallet'[x] = IF x = u THEN wallet[u] - Total[e] ELSE wallet[x]
    BY <1>0, <1>2 DEF FundEscrow
  <2>3. SumOver(wallet', Users) + SumOver(Total, Held \cup {e})
          = SumOver(wallet, Users) + SumOver(Total, Held)
    BY <1>0, <2>1, <2>2, MoneyTaken
  <2> QED
    BY <2>1, <2>3 DEF AddsUpWith
<1>3. ASSUME NEW e \in Escrows, NEW u \in Users, status[e] = "FUNDED",
             NEW s \in {"COMPLETED", "REFUNDED"},
             wallet' = [wallet EXCEPT ![u] = @ + Total[e]],
             payment' = [payment EXCEPT ![e] = IF @ = Absent THEN @ ELSE s]
      PROVE  AddsUpWith(Held)'
  <2>1. e \in Held /\ Held' = Held \ {e}
    BY <1>0, <1>3 DEF RowsTellFunding, Held, Absent
  <2>2. \A x \in Users : wallet'[x] = IF x = u THEN wallet[u] + Total[e] ELSE wallet[x]
    BY <1>0, <1>3
  <2>3. SumOver(wallet', Users) + SumOver(Total, Held \ {e})
          = SumOver(wallet, Users) + SumOver(Total, Held)
    BY <1>0, <2>1, <2>2, MoneyGiven
  <2> QED
    BY <2>1, <2>3 DEF AddsUpWith
<1>4. ASSUME NEW e \in Escrows, PayoutToSeller(e) PROVE AddsUpWith(Held)'
  BY <1>3, <1>4 DEF PayoutToSeller
<1>5. ASSUME NEW e \in Escrows, NEW u \in Users, CancelEscrow(e, u) PROVE AddsUpWith(Held)'
  BY <1>1, <1>3, <1>5 DEF CancelEscrow
<1>6. ASSUME NEW p \in Proofs, NEW u \in Users, NEW d \in {"accept", "reject"},
             ReviewDeliveryProof(p, u, d)
      PROVE  AddsUpWith(Held)'
  BY <1>1, <1>4, <1>6 DEF ReviewDeliveryProof, NoPayout
<1>7. ASSUME NEW m \in Milestones, NEW s \in MilestoneStatus, NEW u \in Users,
             UpdateMilestone(m, u, s)
      PROVE  AddsUpWith(Held)'
  BY <1>1, <1>4, <1>7 DEF UpdateMilestone, NoPayout
<1>8. ASSUME NEW e \in Escrows, ProcessScheduledRelease(e) PROVE AddsUpWith(Held)'
  BY <1>1, <1>4, <1>8 DEF ProcessScheduledRelease, NoPayout
<1>9. ASSUME NEW e \in Escrows, NEW u \in Users, CompleteEscrow(e, u) PROVE AddsUpWith(Held)'
  BY <1>4, <1>9 DEF CompleteEscrow
<1> QED
  BY <1>1, <1>2, <1>5, <1>6, <1>7, <1>8, <1>9
  DEF Next, UserRequest, Scheduler, CreateEscrow, SubmitDeliveryProof, StartScheduledReleases,
      ReachReleaseDate, RestartServer, vars

LEMMA MoneyInit == IsFiniteSet(Users) /\ Init => AddsUpWith(Held)
<1> SUFFICES ASSUME IsFiniteSet(Users), Init PROVE AddsUpWith(Held)
  OBVIOUS
<1>1. Held = {} /\ wallet = InitialBalance
  BY DEF Init, Held, Absent
<1>2. SumOver(Total, {}) = 0
  BY FS_EmptySet, SumRecurs
<1>3. SumOver(InitialBalance, Users) \in Int
  BY TermsAssumption, SumType
<1> QED
  BY <1>1, <1>2, <1>3 DEF AddsUpWith

\* For any number of users and escrows, no order of requests and releases makes or loses
\* money: what has left the wallets is in funded escrows, to the cent.
THEOREM NoMoneyMadeOrLost ==
  ASSUME IsFiniteSet(Users), IsFiniteSet(Escrows)
  PROVE  Spec => []MoneyConserved
<1>1. SafetyInv => RowsTellFunding /\ TypeOK
  BY DEF SafetyInv, PaymentFollowsEscrow, RowsTellFunding, Absent
<1>2. SafetyInv /\ AddsUpWith(Held) /\ [Next]_vars => AddsUpWith(Held)'
  BY <1>1, MoneyStep
<1>3. SafetyInv /\ AddsUpWith(Held) => MoneyConserved
  <2>1. SafetyInv => Held = FundedEscrows
    BY DEF SafetyInv, PaymentFollowsEscrow, Held, FundedEscrows
  <2> QED
    BY <2>1 DEF MoneyConserved
<1> QED
  BY <1>2, <1>3, MoneyInit, SafetyInductive, PTL DEF Spec
==============================================================================
