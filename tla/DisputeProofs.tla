--------------------------- MODULE DisputeProofs ---------------------------
(***************************************************************************)
(* Theorems about Dispute and AdminDesk, for any parties, escrows,         *)
(* disputes and administrators, and any ids the controllers may pass on.   *)
(***************************************************************************)
EXTENDS AdminDesk, EscrowProofs

\* The statuses in which the requests of Escrow may still move an escrow's money.
Open == {Absent, "PENDING", "FUNDED"}

\* Payment rows against statuses, as far as disputes leave the relation alone: a funded
\* escrow's row is in escrow, and an escrow with a completed row is not open.
PaidOutIsClosed ==
  \A e \in Escrows : /\ status[e] = "FUNDED" => payment[e] = "ESCROW"
                     /\ payment[e] = "COMPLETED" => status[e] \notin Open

\* What requests and the job have loaded is there: the escrow that is about to be disputed and
\* the dispute that is about to be saved.  A dispute about to be inserted is not there yet.
LoadedRowsExist ==
  /\ \A d \in creating : status[DisputeOf[d]] # Absent /\ dispute[d] = Absent
  /\ \A x \in InFlight : dispute[x[1]] # Absent

DisputeInv ==
  /\ DisputeTypeOK
  /\ LoadedRowsExist
  /\ PaidOutIsClosed
  /\ DeliveryWasPaid

------------------------------------------------------------------------------
(* What a step of Escrow, taken by a party or by the release job, does to   *)
(* escrows that are not open.                                               *)
LEMMA ClosedEscrowKept ==
  ASSUME TypeOK, [Next]_vars, NEW e \in Escrows, status[e] \notin Open
  PROVE  status'[e] = status[e] /\ payment'[e] = payment[e]
<1> USE TermsAssumption DEF TypeOK, Open, Absent
<1>1. ASSUME NEW f \in Escrows, CreateEscrow(f)
      PROVE  status'[e] = status[e] /\ payment'[e] = payment[e]
  BY <1>1 DEF CreateEscrow
<1>2. ASSUME NEW f \in Escrows, NEW u \in Users, FundEscrow(f, u)
      PROVE  status'[e] = status[e] /\ payment'[e] = payment[e]
  BY <1>2 DEF FundEscrow
<1>3. ASSUME NEW f \in Escrows, PayoutToSeller(f)
      PROVE  status'[e] = status[e] /\ payment'[e] = payment[e]
  BY <1>3 DEF PayoutToSeller
<1>4. ASSUME NEW f \in Escrows, NEW u \in Users, CancelEscrow(f, u)
      PROVE  status'[e] = status[e] /\ payment'[e] = payment[e]
  BY <1>4 DEF CancelEscrow
<1>5. ASSUME UNCHANGED <<status, payment>>
      PROVE  status'[e] = status[e] /\ payment'[e] = payment[e]
  BY <1>5
<1>6. ASSUME NEW f \in Escrows, NEW u \in Users, CompleteEscrow(f, u)
      PROVE  status'[e] = status[e] /\ payment'[e] = payment[e]
  BY <1>3, <1>6 DEF CompleteEscrow
<1>7. ASSUME NEW p \in Proofs, NEW u \in Users, NEW d \in {"accept", "reject"},
             ReviewDeliveryProof(p, u, d)
      PROVE  status'[e] = status[e] /\ payment'[e] = payment[e]
  <2>1. ProofOf[p] \in Escrows
    OBVIOUS
  <2> QED
    BY <1>3, <1>5, <1>7, <2>1 DEF ReviewDeliveryProof, NoPayout
<1>8. ASSUME NEW m \in Milestones, NEW s \in MilestoneStatus, NEW u \in Users,
             UpdateMilestone(m, u, s)
      PROVE  status'[e] = status[e] /\ payment'[e] = payment[e]
  <2>1. MilestoneOf[m] \in Escrows
    OBVIOUS
  <2> QED
    BY <1>3, <1>5, <1>8, <2>1 DEF UpdateMilestone, NoPayout
<1>9. ASSUME NEW f \in Escrows, ProcessScheduledRelease(f)
      PROVE  status'[e] = status[e] /\ payment'[e] = payment[e]
  BY <1>3, <1>5, <1>9 DEF ProcessScheduledRelease, NoPayout
<1> QED
  BY <1>1, <1>2, <1>4, <1>5, <1>6, <1>7, <1>8, <1>9
  DEF Next, UserRequest, Scheduler, SubmitDeliveryProof, StartScheduledReleases,
      ReachReleaseDate, RestartServer, vars

LEMMA EscrowsLast ==
  ASSUME TypeOK, [Next]_vars, NEW e \in Escrows, status[e] # Absent
  PROVE  status'[e] # Absent
<1> USE TermsAssumption DEF TypeOK, Absent
<1>1. ASSUME NEW f \in Escrows, CreateEscrow(f) PROVE status'[e] # Absent
  BY <1>1 DEF CreateEscrow
<1>2. ASSUME NEW f \in Escrows, NEW u \in Users, FundEscrow(f, u) PROVE status'[e] # Absent
  BY <1>2 DEF FundEscrow
<1>3. ASSUME NEW f \in Escrows, PayoutToSeller(f) PROVE status'[e] # Absent
  BY <1>3 DEF PayoutToSeller
<1>4. ASSUME NEW f \in Escrows, NEW u \in Users, CancelEscrow(f, u) PROVE status'[e] # Absent
  BY <1>4 DEF CancelEscrow
<1>5. ASSUME UNCHANGED status PROVE status'[e] # Absent
  BY <1>5
<1>6. ASSUME NEW f \in Escrows, NEW u \in Users, CompleteEscrow(f, u) PROVE status'[e] # Absent
  BY <1>3, <1>6 DEF CompleteEscrow
<1>7. ASSUME NEW p \in Proofs, NEW u \in Users, NEW d \in {"accept", "reject"},
             ReviewDeliveryProof(p, u, d)
      PROVE  status'[e] # Absent
  <2>1. ProofOf[p] \in Escrows
    OBVIOUS
  <2> QED
    BY <1>3, <1>5, <1>7, <2>1 DEF ReviewDeliveryProof, NoPayout
<1>8. ASSUME NEW m \in Milestones, NEW s \in MilestoneStatus, NEW u \in Users,
             UpdateMilestone(m, u, s)
      PROVE  status'[e] # Absent
  <2>1. MilestoneOf[m] \in Escrows
    OBVIOUS
  <2> QED
    BY <1>3, <1>5, <1>8, <2>1 DEF UpdateMilestone, NoPayout
<1>9. ASSUME NEW f \in Escrows, ProcessScheduledRelease(f) PROVE status'[e] # Absent
  BY <1>3, <1>5, <1>9 DEF ProcessScheduledRelease, NoPayout
<1> QED
  BY <1>1, <1>2, <1>4, <1>5, <1>6, <1>7, <1>8, <1>9
  DEF Next, UserRequest, Scheduler, SubmitDeliveryProof, StartScheduledReleases,
      ReachReleaseDate, RestartServer, vars

LEMMA PaidOutStep == TypeOK /\ PaidOutIsClosed /\ [Next]_vars => PaidOutIsClosed'
<1> USE TermsAssumption DEF TypeOK, PaidOutIsClosed, Open, Absent
<1> SUFFICES ASSUME TypeOK, PaidOutIsClosed, [Next]_vars PROVE PaidOutIsClosed'
  OBVIOUS
<1>1. ASSUME NEW f \in Escrows, CreateEscrow(f) PROVE PaidOutIsClosed'
  BY <1>1 DEF CreateEscrow
<1>2. ASSUME NEW f \in Escrows, NEW u \in Users, FundEscrow(f, u) PROVE PaidOutIsClosed'
  BY <1>2 DEF FundEscrow
<1>3. ASSUME NEW f \in Escrows, PayoutToSeller(f) PROVE PaidOutIsClosed'
  BY <1>3 DEF PayoutToSeller
<1>4. ASSUME NEW f \in Escrows, NEW u \in Users, CancelEscrow(f, u) PROVE PaidOutIsClosed'
  BY <1>4 DEF CancelEscrow
<1>5. ASSUME UNCHANGED <<status, payment>> PROVE PaidOutIsClosed'
  BY <1>5
<1>6. ASSUME NEW f \in Escrows, NEW u \in Users, CompleteEscrow(f, u) PROVE PaidOutIsClosed'
  BY <1>3, <1>6 DEF CompleteEscrow
<1>7. ASSUME NEW p \in Proofs, NEW u \in Users, NEW d \in {"accept", "reject"},
             ReviewDeliveryProof(p, u, d)
      PROVE  PaidOutIsClosed'
  <2>1. ProofOf[p] \in Escrows
    OBVIOUS
  <2> QED
    BY <1>3, <1>5, <1>7, <2>1 DEF ReviewDeliveryProof, NoPayout
<1>8. ASSUME NEW m \in Milestones, NEW s \in MilestoneStatus, NEW u \in Users,
             UpdateMilestone(m, u, s)
      PROVE  PaidOutIsClosed'
  <2>1. MilestoneOf[m] \in Escrows
    OBVIOUS
  <2> QED
    BY <1>3, <1>5, <1>8, <2>1 DEF UpdateMilestone, NoPayout
<1>9. ASSUME NEW f \in Escrows, ProcessScheduledRelease(f) PROVE PaidOutIsClosed'
  BY <1>3, <1>5, <1>9 DEF ProcessScheduledRelease, NoPayout
<1> QED
  BY <1>1, <1>2, <1>4, <1>5, <1>6, <1>7, <1>8, <1>9
  DEF Next, UserRequest, Scheduler, SubmitDeliveryProof, StartScheduledReleases,
      ReachReleaseDate, RestartServer, vars

\* A completed Payment row stays completed: what could change it needs an open escrow.
LEMMA PaymentStaysCompleted ==
  ASSUME TypeOK, PaidOutIsClosed, [Next]_vars, NEW e \in Escrows, payment[e] = "COMPLETED"
  PROVE  payment'[e] = "COMPLETED"
BY ClosedEscrowKept DEF PaidOutIsClosed

LEMMA DeliveryStep == TypeOK /\ PaidOutIsClosed /\ DeliveryWasPaid /\ [Next]_vars
                        => DeliveryWasPaid'
<1> USE TermsAssumption
<1> SUFFICES ASSUME TypeOK, PaidOutIsClosed, DeliveryWasPaid, [Next]_vars
             PROVE  DeliveryWasPaid'
  OBVIOUS
<1>1. \A e \in Escrows : payment[e] = "COMPLETED" => payment'[e] = "COMPLETED"
  BY PaymentStaysCompleted
<1>2. ASSUME UNCHANGED <<proof, milestone>> PROVE DeliveryWasPaid'
  BY <1>1, <1>2 DEF DeliveryWasPaid, MilestonesIn
<1>3. ASSUME NEW f \in Escrows, CreateEscrow(f) PROVE DeliveryWasPaid'
  BY <1>1, <1>3 DEF CreateEscrow, DeliveryWasPaid, MilestonesIn, TypeOK
<1>4. ASSUME NEW p \in Proofs, NEW u \in Users, SubmitDeliveryProof(p, u)
      PROVE  DeliveryWasPaid'
  BY <1>1, <1>4 DEF SubmitDeliveryProof, DeliveryWasPaid, MilestonesIn, TypeOK
<1>5. ASSUME NEW p \in Proofs, NEW u \in Users, NEW d \in {"accept", "reject"},
             ReviewDeliveryProof(p, u, d)
      PROVE  DeliveryWasPaid'
  <2>1. UNCHANGED milestone /\ ProofOf[p] \in Escrows
    BY <1>5 DEF ReviewDeliveryProof
  <2>2. \A q \in Proofs : proof'[q] = "ACCEPTED" => proof[q] = "ACCEPTED" \/ q = p
    BY <1>5 DEF ReviewDeliveryProof, TypeOK
  <2>3. proof'[p] = "ACCEPTED" => payment'[ProofOf[p]] = "COMPLETED"
    BY <1>5, <2>1
    DEF ReviewDeliveryProof, PayoutToSeller, TypeOK, PaidOutIsClosed, Absent
  <2> QED
    BY <1>1, <2>1, <2>2, <2>3 DEF DeliveryWasPaid, MilestonesIn
<1>6. ASSUME NEW m \in Milestones, NEW s \in MilestoneStatus, NEW u \in Users,
             UpdateMilestone(m, u, s)
      PROVE  DeliveryWasPaid'
  <2> DEFINE all == \A n \in MilestonesIn(MilestoneOf[m]) : milestone'[n] = "COMPLETED"
  <2>1. UNCHANGED proof /\ MilestoneOf[m] \in Escrows
    BY <1>6 DEF UpdateMilestone
  <2>2. \A n \in Milestones : n # m => milestone'[n] = milestone[n]
    BY <1>6 DEF UpdateMilestone, TypeOK
  <2>3. all => payment'[MilestoneOf[m]] = "COMPLETED"
    BY <1>6, <2>1 DEF UpdateMilestone, PayoutToSeller, TypeOK, PaidOutIsClosed, Absent
  <2>4. ASSUME NEW e \in Escrows, MilestonesIn(e) # {},
               \A n \in MilestonesIn(e) : milestone'[n] = "COMPLETED"
        PROVE  payment'[e] = "COMPLETED"
    <3>1. CASE e = MilestoneOf[m]
      BY <2>3, <2>4, <3>1
    <3>2. CASE e # MilestoneOf[m]
      BY <1>1, <2>2, <2>4, <3>2 DEF DeliveryWasPaid, MilestonesIn
    <3> QED
      BY <3>1, <3>2
  <2> QED
    BY <1>1, <2>1, <2>4 DEF DeliveryWasPaid, MilestonesIn
<1> QED
  BY <1>2, <1>3, <1>4, <1>5, <1>6
  DEF Next, UserRequest, Scheduler, FundEscrow, CompleteEscrow, CancelEscrow,
      StartScheduledReleases, ProcessScheduledRelease, ReachReleaseDate, RestartServer, vars

------------------------------------------------------------------------------
(* Steps of Dispute change no payment, proof or milestone, and of the       *)
(* escrows only the one they dispute.                                       *)
LEMMA InFlightTypes ==
  ASSUME DisputeTypeOK PROVE InFlight \subseteq Disputes \X DisputeStatus
BY DEF DisputeTypeOK, InFlight, Resolved, DisputeStatus

LEMMA SaveTypes ==
  ASSUME DisputeTypeOK, LoadedRowsExist, NEW d \in Disputes, NEW s \in DisputeStatus,
         SaveDispute(d, s), dispute[d] # Absent, UNCHANGED <<vars, heard, pastDeadline, creating>>,
         resolving' \subseteq resolving, deadlineRun' \subseteq deadlineRun
  PROVE  DisputeTypeOK' /\ LoadedRowsExist'
<1>1. dispute' \in [Disputes -> DisputeStatus \cup {Absent}]
  BY DEF DisputeTypeOK, SaveDispute
<1>2. overtaken' \subseteq Disputes \X DisputeStatus
  BY InFlightTypes DEF DisputeTypeOK, SaveDispute
<1>3. \A c \in Disputes : dispute'[c] # Absent <=> dispute[c] # Absent
  BY DEF DisputeTypeOK, SaveDispute, DisputeStatus, Absent
<1>4. InFlight' \subseteq InFlight
  BY DEF InFlight
<1>5. LoadedRowsExist'
  BY <1>3, <1>4, InFlightTypes DEF LoadedRowsExist, DisputeTypeOK, vars
<1> QED
  BY <1>1, <1>2, <1>5 DEF DisputeTypeOK, TypeOK, vars

LEMMA DisputeStepInv == DisputeInv /\ DisputeStep => DisputeInv'
<1> USE DisputeAssumption, TermsAssumption
<1> SUFFICES ASSUME DisputeInv, DisputeStep PROVE DisputeInv'
  OBVIOUS
<1> USE DEF DisputeInv
<1>1. ASSUME NEW d \in Disputes, InsertDispute(d) PROVE DisputeInv'
  <2>1. DisputeTypeOK'
    BY <1>1 DEF InsertDispute, DisputeTypeOK, TypeOK, DisputeStatus, EscrowStatus
  <2>2. LoadedRowsExist'
    BY <1>1, InFlightTypes
    DEF InsertDispute, LoadedRowsExist, DisputeTypeOK, TypeOK, InFlight, Absent
  <2>3. PaidOutIsClosed'
    BY <1>1 DEF InsertDispute, PaidOutIsClosed, DisputeTypeOK, TypeOK, Open, Absent
  <2>4. DeliveryWasPaid'
    BY <1>1 DEF InsertDispute, DeliveryWasPaid, MilestonesIn
  <2> QED
    BY <2>1, <2>2, <2>3, <2>4
<1>2. ASSUME UNCHANGED vars, DisputeTypeOK', LoadedRowsExist' PROVE DisputeInv'
  BY <1>2 DEF vars, PaidOutIsClosed, DeliveryWasPaid, MilestonesIn
<1>3. ASSUME NEW d \in Disputes, NEW u, DisputeRequest(d, u) PROVE DisputeInv'
  <2>1. UNCHANGED <<vars, dispute, deadlineRun, overtaken>>
    BY <1>3 DEF DisputeRequest, CreateDispute, SubmitEvidence, ProposeResolution,
                AcceptResolution, ResolveDisputeByAdmin
  <2>2. /\ heard' \subseteq Disputes /\ pastDeadline' \subseteq Disputes
        /\ resolving' \subseteq Disputes \X Resolved
    BY <1>3 DEF DisputeRequest, CreateDispute, SubmitEvidence, ProposeResolution,
                AcceptResolution, ResolveDisputeByAdmin, DisputeTypeOK, Resolved
  <2>3. /\ creating' \subseteq Disputes
        /\ \A c \in creating' : status[DisputeOf[c]] # Absent /\ dispute[c] = Absent
    BY <1>3 DEF DisputeRequest, CreateDispute, SubmitEvidence, ProposeResolution,
                AcceptResolution, ResolveDisputeByAdmin, DisputeTypeOK, LoadedRowsExist
  <2>5. \A x \in InFlight' : dispute[x[1]] # Absent
    BY <1>3 DEF DisputeRequest, CreateDispute, SubmitEvidence, ProposeResolution,
                AcceptResolution, ResolveDisputeByAdmin, LoadedRowsExist, InFlight, Active, Absent
  <2>6. LoadedRowsExist'
    BY <2>1, <2>3, <2>5 DEF LoadedRowsExist, vars
  <2>4. DisputeTypeOK'
    BY <2>1, <2>2, <2>3 DEF DisputeTypeOK, TypeOK, vars
  <2> QED
    BY <1>2, <2>1, <2>4, <2>6
<1>4. ASSUME NEW d \in Disputes, NEW s \in Resolved, SaveResolution(d, s) PROVE DisputeInv'
  <2>1. /\ UNCHANGED <<vars, heard, pastDeadline, creating, deadlineRun>>
        /\ resolving' \subseteq resolving /\ SaveDispute(d, s) /\ s \in DisputeStatus
        /\ dispute[d] # Absent
    BY <1>4 DEF SaveResolution, Resolved, DisputeStatus, LoadedRowsExist, InFlight
  <2> QED
    BY <1>2, <2>1, SaveTypes
<1>5. ASSUME NEW d \in Disputes, MoveToReview(d) PROVE DisputeInv'
  <2>1. /\ UNCHANGED <<vars, heard, pastDeadline, creating, resolving>>
        /\ deadlineRun' \subseteq deadlineRun /\ SaveDispute(d, "UNDER_REVIEW")
    BY <1>5 DEF MoveToReview
  <2>3. <<d, "UNDER_REVIEW">> \in InFlight
    BY <1>5 DEF MoveToReview, InFlight
  <2>4. dispute[d] # Absent
    BY <2>3 DEF LoadedRowsExist
  <2>2. "UNDER_REVIEW" \in DisputeStatus
    BY DEF DisputeStatus
  <2> QED
    BY <1>2, <2>1, <2>2, <2>4, SaveTypes
<1>6. ASSUME StartDeadlineRun \/ AbandonDeadlineRun \/ DisputeRequestsFail PROVE DisputeInv'
  <2>1. UNCHANGED <<vars, dispute, heard, pastDeadline>>
    BY <1>6 DEF StartDeadlineRun, AbandonDeadlineRun, DisputeRequestsFail
  <2>2. /\ creating' \subseteq creating /\ resolving' \subseteq resolving
        /\ overtaken' \subseteq overtaken /\ deadlineRun' \subseteq Disputes
        /\ \A d \in deadlineRun' : d \in deadlineRun \/ dispute[d] = "EVIDENCE_SUBMISSION"
    BY <1>6 DEF StartDeadlineRun, AbandonDeadlineRun, DisputeRequestsFail, ExpiredDisputes,
                DisputeTypeOK
  <2>3. DisputeTypeOK'
    BY <2>1, <2>2 DEF DisputeTypeOK, TypeOK, vars
  <2>4. LoadedRowsExist'
    BY <2>1, <2>2 DEF LoadedRowsExist, InFlight, vars, Absent
  <2> QED
    BY <1>2, <2>1, <2>3, <2>4
<1>7. ASSUME NEW d \in Disputes, EvidenceDeadlinePasses(d) PROVE DisputeInv'
  <2>1. DisputeTypeOK' /\ LoadedRowsExist' /\ UNCHANGED vars
    BY <1>7 DEF EvidenceDeadlinePasses, DisputeTypeOK, LoadedRowsExist, InFlight, TypeOK, vars
  <2> QED
    BY <1>2, <2>1
<1> QED
  BY <1>1, <1>3, <1>4, <1>5, <1>6, <1>7 DEF DisputeStep

LEMMA DisputeInitInv == DisputeInit => DisputeInv
<1> USE DisputeAssumption, TermsAssumption
<1> SUFFICES ASSUME DisputeInit PROVE DisputeInv
  OBVIOUS
<1>1. DisputeTypeOK
  BY DEF DisputeInit, Init, DisputeTypeOK, TypeOK
<1>2. LoadedRowsExist
  BY DEF DisputeInit, LoadedRowsExist, InFlight
<1>3. PaidOutIsClosed
  BY DEF DisputeInit, Init, PaidOutIsClosed, Absent
<1>4. DeliveryWasPaid
  BY DEF DisputeInit, Init, DeliveryWasPaid, MilestonesIn, Absent
<1> QED
  BY <1>1, <1>2, <1>3, <1>4 DEF DisputeInv

LEMMA DisputeNextInv == DisputeInv /\ [DisputeNext]_allVars => DisputeInv'
<1> USE DisputeAssumption, TermsAssumption
<1> SUFFICES ASSUME DisputeInv, [DisputeNext]_allVars PROVE DisputeInv'
  OBVIOUS
<1>1. ASSUME [Next]_vars, UNCHANGED disputeVars PROVE DisputeInv'
  <2>1. TypeOK /\ PaidOutIsClosed /\ DeliveryWasPaid
    BY DEF DisputeInv, DisputeTypeOK
  <2>2. TypeOK' /\ PaidOutIsClosed' /\ DeliveryWasPaid'
    BY <1>1, <2>1, TypeStep, PaidOutStep, DeliveryStep
  <2>3. DisputeTypeOK'
    BY <1>1, <2>2 DEF DisputeInv, DisputeTypeOK, disputeVars
  <2>4. LoadedRowsExist'
    <3>1. \A d \in creating : DisputeOf[d] \in Escrows /\ status[DisputeOf[d]] # Absent
      BY DEF DisputeInv, DisputeTypeOK, LoadedRowsExist
    <3> QED
      BY <1>1, <2>1, <3>1, EscrowsLast DEF DisputeInv, LoadedRowsExist, InFlight, disputeVars
  <2> QED
    BY <2>2, <2>3, <2>4 DEF DisputeInv
<1>2. CASE UNCHANGED allVars
  BY <1>1, <1>2 DEF allVars
<1> QED
  BY <1>1, <1>2, DisputeStepInv DEF DisputeNext

LEMMA DisputeInductive == DisputeSpec => []DisputeInv
BY DisputeInitInv, DisputeNextInv, PTL DEF DisputeSpec

\* What was paid for delivery stays paid: an accepted proof or completed milestones always go
\* with a completed payment, disputes or not.
THEOREM DeliveryStaysPaid == DisputeSpec => []DeliveryWasPaid
<1>1. DisputeInv => DeliveryWasPaid
  BY DEF DisputeInv
<1>2. QED
  BY <1>1, DisputeInductive, PTL

------------------------------------------------------------------------------
(* Money.  Only a funded escrow's row is in escrow, and a dispute leaves    *)
(* the row as it is.                                                        *)
HeldIsFundedOrDisputed ==
  \A e \in Escrows : payment[e] = "ESCROW" => status[e] \in {"FUNDED", "DISPUTED"}

LEMMA HeldStatusStep ==
  TypeOK /\ HeldIsFundedOrDisputed /\ [Next]_vars => HeldIsFundedOrDisputed'
<1> USE TermsAssumption DEF TypeOK, HeldIsFundedOrDisputed, Absent
<1> SUFFICES ASSUME TypeOK, HeldIsFundedOrDisputed, [Next]_vars PROVE HeldIsFundedOrDisputed'
  OBVIOUS
<1>1. ASSUME NEW f \in Escrows, CreateEscrow(f) PROVE HeldIsFundedOrDisputed'
  BY <1>1 DEF CreateEscrow
<1>2. ASSUME NEW f \in Escrows, NEW u \in Users, FundEscrow(f, u) PROVE HeldIsFundedOrDisputed'
  BY <1>2 DEF FundEscrow
<1>3. ASSUME NEW f \in Escrows, PayoutToSeller(f) PROVE HeldIsFundedOrDisputed'
  BY <1>3 DEF PayoutToSeller
<1>4. ASSUME NEW f \in Escrows, NEW u \in Users, CancelEscrow(f, u)
      PROVE  HeldIsFundedOrDisputed'
  BY <1>4 DEF CancelEscrow
<1>5. ASSUME UNCHANGED <<status, payment>> PROVE HeldIsFundedOrDisputed'
  BY <1>5
<1>6. ASSUME NEW f \in Escrows, NEW u \in Users, CompleteEscrow(f, u)
      PROVE  HeldIsFundedOrDisputed'
  BY <1>3, <1>6 DEF CompleteEscrow
<1>7. ASSUME NEW p \in Proofs, NEW u \in Users, NEW d \in {"accept", "reject"},
             ReviewDeliveryProof(p, u, d)
      PROVE  HeldIsFundedOrDisputed'
  <2>1. ProofOf[p] \in Escrows
    OBVIOUS
  <2> QED
    BY <1>3, <1>5, <1>7, <2>1 DEF ReviewDeliveryProof, NoPayout
<1>8. ASSUME NEW m \in Milestones, NEW s \in MilestoneStatus, NEW u \in Users,
             UpdateMilestone(m, u, s)
      PROVE  HeldIsFundedOrDisputed'
  <2>1. MilestoneOf[m] \in Escrows
    OBVIOUS
  <2> QED
    BY <1>3, <1>5, <1>8, <2>1 DEF UpdateMilestone, NoPayout
<1>9. ASSUME NEW f \in Escrows, ProcessScheduledRelease(f) PROVE HeldIsFundedOrDisputed'
  BY <1>3, <1>5, <1>9 DEF ProcessScheduledRelease, NoPayout
<1> QED
  BY <1>1, <1>2, <1>4, <1>5, <1>6, <1>7, <1>8, <1>9
  DEF Next, UserRequest, Scheduler, SubmitDeliveryProof, StartScheduledReleases,
      ReachReleaseDate, RestartServer, vars

\* What disputes do to money: nothing, and a disputed escrow is none that is still to be
\* funded and holds money.
LEMMA DisputeKeepsMoney ==
  ASSUME DisputeInv, HeldIsFundedOrDisputed, AddsUpWith(Held), DisputeStep
  PROVE  HeldIsFundedOrDisputed' /\ AddsUpWith(Held)'
<1>1. UNCHANGED <<wallet, payment>>
  BY DEF DisputeStep, DisputeRequest, CreateDispute, InsertDispute, SubmitEvidence,
         ProposeResolution, AcceptResolution, ResolveDisputeByAdmin, SaveResolution,
         DisputeRequestsFail, EvidenceDeadlinePasses, MoveToReview, StartDeadlineRun,
         AbandonDeadlineRun, vars
<1>2. \A e \in Escrows : status'[e] = status[e] \/ status'[e] = "DISPUTED"
  BY DEF DisputeStep, DisputeRequest, CreateDispute, InsertDispute, SubmitEvidence,
         ProposeResolution, AcceptResolution, ResolveDisputeByAdmin, SaveResolution,
         DisputeRequestsFail, EvidenceDeadlinePasses, MoveToReview, StartDeadlineRun,
         AbandonDeadlineRun, vars, DisputeInv, DisputeTypeOK, TypeOK
<1> QED
  BY <1>1, <1>2 DEF HeldIsFundedOrDisputed, AddsUpWith, Held

\* Whatever is disputed when, and however the disputes end, no money is made or lost: what
\* has left the wallets is in the escrows that were funded, disputed ones included.
THEOREM DisputesKeepTheMoney ==
  ASSUME IsFiniteSet(Users), IsFiniteSet(Escrows)
  PROVE  DisputeSpec => []HeldMoneyConserved
<1> DEFINE Inv == DisputeInv /\ HeldIsFundedOrDisputed /\ AddsUpWith(Held)
<1>1. DisputeInit => Inv
  <2>1. DisputeInit => Init /\ HeldIsFundedOrDisputed
    BY DEF DisputeInit, Init, HeldIsFundedOrDisputed, Absent
  <2> QED
    BY <2>1, DisputeInitInv, MoneyInit
<1>2. Inv /\ [DisputeNext]_allVars => Inv'
  <2> SUFFICES ASSUME Inv, [DisputeNext]_allVars PROVE Inv'
    OBVIOUS
  <2>1. DisputeInv'
    BY DisputeNextInv
  <2>2. ASSUME [Next]_vars PROVE HeldIsFundedOrDisputed' /\ AddsUpWith(Held)'
    <3>1. TypeOK /\ RowsTellFunding
      BY DEF DisputeInv, DisputeTypeOK, PaidOutIsClosed, HeldIsFundedOrDisputed,
             RowsTellFunding, Absent
    <3> QED
      BY <2>2, <3>1, HeldStatusStep, MoneyStep
  <2>3. [Next]_vars \/ DisputeStep
    BY DEF DisputeNext, allVars
  <2> QED
    BY <2>1, <2>2, <2>3, DisputeKeepsMoney
<1>3. Inv => HeldMoneyConserved
  <2>1. HeldIsFundedOrDisputed => Held = Holding
    BY DEF HeldIsFundedOrDisputed, Held, Holding
  <2> QED
    BY <2>1 DEF HeldMoneyConserved
<1> QED
  BY <1>1, <1>2, <1>3, PTL DEF DisputeSpec

------------------------------------------------------------------------------
(* The promise, disputes included.                                          *)

\* The payment side of MoneyPhase: until an escrow is funded it has no Payment row.
UnfundedHasNoRow == \A e \in Escrows : status[e] \in {Absent, "PENDING"} => payment[e] = Absent

\* What the payout of a funded escrow is to the promise.
LEMMA DisputedPayoutPays ==
  ASSUME NEW e \in Escrows, TypeOK, PaidOutIsClosed, PayoutToSeller(e)
  PROVE  DisputePromise!Pay(e)
<1> USE TermsAssumption
<1>1. payment[e] = "ESCROW" /\ status[e] = "FUNDED"
  BY DEF PayoutToSeller, PaidOutIsClosed
<1>2. MoneyPhase(e) = "held" /\ MoneyPhase(e)' = "paid"
  BY <1>1 DEF PayoutToSeller, TypeOK, MoneyPhase, Absent
<1>3. \A f \in Escrows : f # e => MoneyPhase(f)' = MoneyPhase(f)
  BY DEF PayoutToSeller, TypeOK, MoneyPhase
<1>4. DisputePromise!Move(e, "held", "paid")
  BY <1>2, <1>3 DEF DisputePromise!Move
<1> QED
  BY <1>4 DEF PayoutToSeller, DisputePromise!Pay

\* The steps of the parties and of the release job, on escrows some of which are disputed.
LEMMA PartiesKeepPromise ==
  ASSUME TypeOK, PaidOutIsClosed, UnfundedHasNoRow, [Next]_vars
  PROVE  (DisputePromise!PNext \/ UNCHANGED DisputePromise!pvars) /\ UnfundedHasNoRow'
<1> USE TermsAssumption
<1> DEFINE Kept == (DisputePromise!PNext \/ UNCHANGED DisputePromise!pvars) /\ UnfundedHasNoRow'
<1>0. ASSUME UNCHANGED <<wallet, status, payment>> PROVE Kept
  BY <1>0 DEF DisputePromise!pvars, MoneyPhase, UnfundedHasNoRow
<1>1. ASSUME NEW e \in Escrows, NEW from, NEW to,
             MoneyPhase(e) = from, MoneyPhase(e)' = to,
             \A f \in Escrows : f # e => MoneyPhase(f)' = MoneyPhase(f)
      PROVE  DisputePromise!Move(e, from, to)
  BY <1>1 DEF DisputePromise!Move
<1>2. ASSUME NEW e \in Escrows, CreateEscrow(e) PROVE Kept
  <2>1. MoneyPhase(e) = "none" /\ MoneyPhase(e)' = "agreed"
    BY <1>2 DEF CreateEscrow, TypeOK, UnfundedHasNoRow, MoneyPhase, Absent
  <2>2. \A f \in Escrows : f # e => MoneyPhase(f)' = MoneyPhase(f)
    BY <1>2 DEF CreateEscrow, TypeOK, MoneyPhase
  <2>3. DisputePromise!Agree(e)
    BY <1>1, <1>2, <2>1, <2>2 DEF CreateEscrow, DisputePromise!Agree
  <2>4. UnfundedHasNoRow'
    BY <1>2 DEF CreateEscrow, TypeOK, UnfundedHasNoRow, Absent
  <2> QED
    BY <2>3, <2>4 DEF DisputePromise!PNext
<1>3. ASSUME NEW e \in Escrows, NEW u \in Users, FundEscrow(e, u) PROVE Kept
  <2>1. MoneyPhase(e) = "agreed" /\ MoneyPhase(e)' = "held"
    BY <1>3 DEF FundEscrow, TypeOK, UnfundedHasNoRow, MoneyPhase, Absent
  <2>2. \A f \in Escrows : f # e => MoneyPhase(f)' = MoneyPhase(f)
    BY <1>3 DEF FundEscrow, TypeOK, MoneyPhase
  <2>3. DisputePromise!Hold(e)
    BY <1>1, <1>3, <2>1, <2>2 DEF FundEscrow, DisputePromise!Hold
  <2>4. UnfundedHasNoRow'
    BY <1>3 DEF FundEscrow, TypeOK, UnfundedHasNoRow, Absent
  <2> QED
    BY <2>3, <2>4 DEF DisputePromise!PNext
<1>4. ASSUME NEW e \in Escrows, PayoutToSeller(e) PROVE Kept
  <2>1. DisputePromise!Pay(e)
    BY <1>4, DisputedPayoutPays
  <2>2. UnfundedHasNoRow'
    BY <1>4 DEF PayoutToSeller, TypeOK, UnfundedHasNoRow, Absent
  <2> QED
    BY <2>1, <2>2 DEF DisputePromise!PNext
<1>5. ASSUME NEW e \in Escrows, NEW u \in Users, CancelEscrow(e, u) PROVE Kept
  <2>1. \A f \in Escrows : f # e => MoneyPhase(f)' = MoneyPhase(f)
    BY <1>5 DEF CancelEscrow, TypeOK, MoneyPhase
  <2>2. UnfundedHasNoRow'
    BY <1>5 DEF CancelEscrow, TypeOK, UnfundedHasNoRow, Absent
  <2>3. CASE status[e] = "PENDING"
    <3>1. MoneyPhase(e) = "agreed" /\ MoneyPhase(e)' = "calledOff" /\ UNCHANGED wallet
      BY <1>5, <2>3 DEF CancelEscrow, TypeOK, UnfundedHasNoRow, MoneyPhase, Absent
    <3>2. DisputePromise!CallOff(e)
      BY <1>1, <2>1, <3>1 DEF DisputePromise!CallOff
    <3> QED
      BY <2>2, <3>2 DEF DisputePromise!PNext
  <2>4. CASE status[e] = "FUNDED"
    <3>1. payment[e] = "ESCROW"
      BY <2>4 DEF PaidOutIsClosed
    <3>2. /\ MoneyPhase(e) = "held" /\ MoneyPhase(e)' = "returned"
          /\ wallet' = [wallet EXCEPT ![Buyer[e]] = @ + Total[e]]
      BY <1>5, <2>4, <3>1 DEF CancelEscrow, TypeOK, MoneyPhase, Absent
    <3>3. DisputePromise!Return(e)
      BY <1>1, <2>1, <3>2 DEF DisputePromise!Return
    <3> QED
      BY <2>2, <3>3 DEF DisputePromise!PNext
  <2> QED
    BY <1>5, <2>3, <2>4 DEF CancelEscrow
<1> HIDE DEF Kept
<1>6. ASSUME NEW e \in Escrows, NEW u \in Users, CompleteEscrow(e, u) PROVE Kept
  BY <1>4, <1>6 DEF CompleteEscrow
<1>7. ASSUME NEW p \in Proofs, NEW u \in Users, NEW d \in {"accept", "reject"},
             ReviewDeliveryProof(p, u, d)
      PROVE  Kept
  <2>1. ProofOf[p] \in Escrows
    OBVIOUS
  <2> QED
    BY <1>0, <1>4, <1>7, <2>1 DEF ReviewDeliveryProof, NoPayout
<1>8. ASSUME NEW m \in Milestones, NEW s \in MilestoneStatus, NEW u \in Users,
             UpdateMilestone(m, u, s)
      PROVE  Kept
  <2>1. MilestoneOf[m] \in Escrows
    OBVIOUS
  <2> QED
    BY <1>0, <1>4, <1>8, <2>1 DEF UpdateMilestone, NoPayout
<1>9. ASSUME NEW e \in Escrows, ProcessScheduledRelease(e) PROVE Kept
  BY <1>0, <1>4, <1>9 DEF ProcessScheduledRelease, NoPayout
<1>10. Kept
  BY <1>0, <1>2, <1>3, <1>5, <1>6, <1>7, <1>8, <1>9
  DEF Next, UserRequest, Scheduler, SubmitDeliveryProof, StartScheduledReleases,
      ReachReleaseDate, RestartServer, vars
<1> QED
  BY <1>10 DEF Kept

\* The steps of disputes: only their creation touches an escrow.
LEMMA DisputesCallOff ==
  ASSUME DisputeInv, UnfundedHasNoRow, DisputeStep
  PROVE  (DisputePromise!PNext \/ UNCHANGED DisputePromise!pvars) /\ UnfundedHasNoRow'
<1> USE DisputeAssumption
<1>1. ASSUME UNCHANGED vars
      PROVE  (DisputePromise!PNext \/ UNCHANGED DisputePromise!pvars) /\ UnfundedHasNoRow'
  BY <1>1 DEF vars, DisputePromise!pvars, MoneyPhase, UnfundedHasNoRow
<1>2. ASSUME NEW d \in Disputes, InsertDispute(d)
      PROVE  (DisputePromise!PNext \/ UNCHANGED DisputePromise!pvars) /\ UnfundedHasNoRow'
  <2> DEFINE e == DisputeOf[d]
  <2>1. /\ e \in Escrows /\ status[e] # Absent
        /\ status' = [status EXCEPT ![e] = "DISPUTED"] /\ UNCHANGED <<wallet, payment>>
    BY <1>2 DEF InsertDispute, DisputeInv, LoadedRowsExist
  <2> HIDE DEF e
  <2>2. status \in [Escrows -> EscrowStatus \cup {Absent}]
          /\ payment \in [Escrows -> PaymentStatus \cup {Absent}]
    BY DEF DisputeInv, DisputeTypeOK, TypeOK
  <2>3. \A f \in Escrows : f # e => MoneyPhase(f)' = MoneyPhase(f)
    BY <2>1, <2>2 DEF MoneyPhase
  <2>4. UnfundedHasNoRow'
    BY <2>1, <2>2 DEF UnfundedHasNoRow, Absent
  <2>5. CASE status[e] = "PENDING"
    <3>1. MoneyPhase(e) = "agreed" /\ MoneyPhase(e)' = "calledOff"
      BY <2>1, <2>2, <2>5 DEF MoneyPhase, UnfundedHasNoRow, Absent
    <3>2. DisputePromise!CallOff(e)
      BY <2>1, <2>3, <3>1 DEF DisputePromise!CallOff, DisputePromise!Move
    <3> QED
      BY <2>1, <2>4, <3>2 DEF DisputePromise!PNext
  <2>6. CASE status[e] # "PENDING"
    <3>1. MoneyPhase(e)' = MoneyPhase(e)
      BY <2>1, <2>2, <2>6 DEF MoneyPhase, Absent
    <3> QED
      BY <2>1, <2>3, <2>4, <3>1 DEF DisputePromise!pvars
  <2> QED
    BY <2>5, <2>6
<1>3. ASSUME NEW d \in Disputes, NEW u, DisputeRequest(d, u) PROVE UNCHANGED vars
  BY <1>3 DEF DisputeRequest, CreateDispute, SubmitEvidence, ProposeResolution,
              AcceptResolution, ResolveDisputeByAdmin
<1> QED
  BY <1>1, <1>2, <1>3
  DEF DisputeStep, SaveResolution, DisputeRequestsFail, EvidenceDeadlinePasses, MoveToReview,
      StartDeadlineRun, AbandonDeadlineRun

\* The escrow service and its disputes together implement EscrowPromise, for any parties,
\* escrows and disputes and any order of requests, jobs and restarts.
THEOREM DisputeRefinement == DisputeSpec => DisputesKeepPromise
<1> DEFINE Inv == DisputeInv /\ UnfundedHasNoRow
<1>1. DisputeInit => Inv /\ DisputePromise!PInit
  BY DisputeInitInv
  DEF DisputeInit, Init, UnfundedHasNoRow, DisputePromise!PInit, MoneyPhase, Absent
<1>2. Inv /\ [DisputeNext]_allVars => Inv' /\ [DisputePromise!PNext]_(DisputePromise!pvars)
  <2> SUFFICES ASSUME Inv, [DisputeNext]_allVars
               PROVE  Inv' /\ (DisputePromise!PNext \/ UNCHANGED DisputePromise!pvars)
    OBVIOUS
  <2>1. DisputeInv'
    BY DisputeNextInv
  <2>2. TypeOK /\ PaidOutIsClosed
    BY DEF DisputeInv, DisputeTypeOK
  <2>3. [Next]_vars \/ DisputeStep
    BY DEF DisputeNext, allVars
  <2> QED
    BY <2>1, <2>2, <2>3, PartiesKeepPromise, DisputesCallOff
<1> QED
  BY <1>1, <1>2, PTL DEF DisputeSpec, DisputesKeepPromise, DisputePromise!PSpec

------------------------------------------------------------------------------
\* Whoever is in flight for a resolved dispute was so when it was resolved.
Overtaken == \A x \in InFlight : dispute[x[1]] \in Resolved => x \in overtaken

\* Requests and the job load only what is not resolved, and a resolution overtakes the rest.
LEMMA OvertakenStep ==
  ASSUME DisputeTypeOK, Overtaken, [DisputeNext]_allVars
  PROVE  Overtaken'
<1>0. /\ InFlight \subseteq Disputes \X DisputeStatus
      /\ dispute \in [Disputes -> DisputeStatus \cup {Absent}]
  BY InFlightTypes DEF DisputeTypeOK
<1>1. ASSUME UNCHANGED <<dispute, resolving, deadlineRun, overtaken>> PROVE Overtaken'
  BY <1>1 DEF Overtaken, InFlight
<1>2. ASSUME NEW d \in Disputes, InsertDispute(d) PROVE Overtaken'
  BY <1>0, <1>2 DEF InsertDispute, Overtaken, InFlight, Resolved
<1>3. ASSUME NEW d \in Disputes, NEW u, DisputeRequest(d, u) PROVE Overtaken'
  <2>1. UNCHANGED <<dispute, deadlineRun, overtaken>>
    BY <1>3 DEF DisputeRequest, CreateDispute, SubmitEvidence, ProposeResolution,
                AcceptResolution, ResolveDisputeByAdmin
  <2>2. \A x \in InFlight' : x \in InFlight \/ dispute[x[1]] \in Active
    BY <1>3 DEF DisputeRequest, CreateDispute, SubmitEvidence, ProposeResolution,
                AcceptResolution, ResolveDisputeByAdmin, InFlight
  <2> QED
    BY <2>1, <2>2 DEF Overtaken, Active, Resolved
<1>4. ASSUME NEW d \in Disputes, NEW s \in DisputeStatus, SaveDispute(d, s),
             InFlight' \subseteq InFlight
      PROVE  Overtaken'
  <2>1. /\ dispute' = [dispute EXCEPT ![d] = s]
        /\ overtaken' = InFlight' \cap ({x \in overtaken : x[1] # d}
                                         \cup {x \in InFlight : x[1] = d /\ s \in Resolved})
    BY <1>4 DEF SaveDispute
  <2>2. SUFFICES ASSUME NEW x \in InFlight', dispute'[x[1]] \in Resolved
                 PROVE  x \in overtaken'
    BY DEF Overtaken
  <2>3. CASE x[1] = d
    BY <1>0, <1>4, <2>1, <2>2, <2>3
  <2>4. CASE x[1] # d
    BY <1>0, <1>4, <2>1, <2>2, <2>4 DEF Overtaken
  <2> QED
    BY <2>3, <2>4
<1>5. ASSUME NEW d \in Disputes, NEW s \in Resolved, SaveResolution(d, s) PROVE Overtaken'
  <2>1. SaveDispute(d, s) /\ InFlight' \subseteq InFlight /\ s \in DisputeStatus
    BY <1>5 DEF SaveResolution, InFlight, Resolved, DisputeStatus
  <2> QED
    BY <1>4, <2>1
<1>6. ASSUME NEW d \in Disputes, MoveToReview(d) PROVE Overtaken'
  <2>1. /\ SaveDispute(d, "UNDER_REVIEW") /\ InFlight' \subseteq InFlight
        /\ "UNDER_REVIEW" \in DisputeStatus
    BY <1>6 DEF MoveToReview, InFlight, DisputeStatus
  <2> QED
    BY <1>4, <2>1
<1>7. ASSUME AbandonDeadlineRun \/ DisputeRequestsFail PROVE Overtaken'
  <2>1. /\ InFlight' \subseteq InFlight /\ UNCHANGED dispute
        /\ overtaken' = overtaken \cap InFlight'
    BY <1>7 DEF AbandonDeadlineRun, DisputeRequestsFail, InFlight
  <2> QED
    BY <2>1 DEF Overtaken
<1>8. ASSUME StartDeadlineRun PROVE Overtaken'
  <2>1. UNCHANGED <<dispute, overtaken>>
    BY <1>8 DEF StartDeadlineRun
  <2>2. \A x \in InFlight' : x \in InFlight \/ dispute[x[1]] = "EVIDENCE_SUBMISSION"
    BY <1>8 DEF StartDeadlineRun, InFlight, ExpiredDisputes
  <2> QED
    BY <2>1, <2>2 DEF Overtaken, Resolved
<1>9. ASSUME NEW d \in Disputes, EvidenceDeadlinePasses(d) PROVE Overtaken'
  BY <1>1, <1>9 DEF EvidenceDeadlinePasses
<1> QED
  BY <1>1, <1>2, <1>3, <1>5, <1>6, <1>7, <1>8, <1>9
  DEF DisputeNext, DisputeStep, disputeVars, allVars

\* A resolution is overwritten by nothing but what had loaded the dispute before it was
\* resolved: the other party's acceptance, an administrator's resolution, a turn of the
\* deadline job.
THEOREM ResolutionsAreFinalButForStaleRows == DisputeSpec => ResolvedUnlessStaleRow
<1> DEFINE Inv == DisputeInv /\ Overtaken
           Kept ==
             \A d \in Disputes :
               dispute[d] \in Resolved /\ dispute'[d] # dispute[d]
                 => <<d, dispute'[d]>> \in overtaken
<1>1. DisputeInit => Overtaken
  BY DEF DisputeInit, Overtaken, InFlight
<1>2. Inv /\ [DisputeNext]_allVars => [Kept]_allVars
  <2> SUFFICES ASSUME Inv, DisputeNext PROVE Kept
    OBVIOUS
  <2>1. ASSUME UNCHANGED dispute PROVE Kept
    BY <2>1
  <2>2. ASSUME NEW d \in Disputes, InsertDispute(d) PROVE Kept
    BY <2>2 DEF InsertDispute, DisputeInv, LoadedRowsExist, Resolved, Absent
  <2>3. ASSUME NEW d \in Disputes, NEW s, <<d, s>> \in InFlight, SaveDispute(d, s) PROVE Kept
    <3>1. /\ dispute[d] \in Resolved => <<d, s>> \in overtaken
          /\ dispute' = [dispute EXCEPT ![d] = s]
      BY <2>3 DEF SaveDispute, Overtaken
    <3> QED
      BY <3>1 DEF DisputeInv, DisputeTypeOK
  <2>4. ASSUME NEW d \in Disputes, NEW s, SaveResolution(d, s) PROVE Kept
    BY <2>3, <2>4 DEF SaveResolution, InFlight
  <2>5. ASSUME NEW d \in Disputes, MoveToReview(d) PROVE Kept
    <3>1. <<d, "UNDER_REVIEW">> \in InFlight
      BY <2>5 DEF MoveToReview, InFlight
    <3> QED
      BY <2>3, <2>5, <3>1 DEF MoveToReview
  <2>6. ASSUME NEW d \in Disputes, NEW u, DisputeRequest(d, u) PROVE UNCHANGED dispute
    BY <2>6 DEF DisputeRequest, CreateDispute, SubmitEvidence, ProposeResolution,
                AcceptResolution, ResolveDisputeByAdmin
  <2> HIDE DEF Kept
  <2> QED
    BY <2>1, <2>2, <2>4, <2>5, <2>6
    DEF DisputeNext, DisputeStep, disputeVars, EvidenceDeadlinePasses, StartDeadlineRun,
        AbandonDeadlineRun, DisputeRequestsFail
<1>3. Inv /\ [DisputeNext]_allVars => Overtaken'
  BY OvertakenStep DEF DisputeInv
<1> QED
  BY <1>1, <1>2, <1>3, DisputeInductive, PTL DEF DisputeSpec, ResolvedUnlessStaleRow

------------------------------------------------------------------------------
(* The administrators' desk.  What is about to be written there leads no    *)
(* escrow back to an open status and resolves only disputes that exist, so  *)
(* that its statements keep what disputes, requests and jobs keep.          *)
Marks == {"RELEASED", "REFUNDED", "COMPLETED"}
DeskSteps == {"dispute", "escrow", "load", "credit"}
CreditRecords == [to : Users, amount : Nat]
CreditLists == Seq(CreditRecords) \ {<<>>}
DeskRequests ==
  [disputes : SUBSET Disputes, escrow : Escrows, mark : Marks, credits : CreditLists,
   step : DeskSteps, balance : Nat]

DeskOK == desk \in [Admins -> {Idle} \cup DeskRequests]

DeskDisputesExist ==
  \A a \in Admins : desk[a] # Idle => \A d \in desk[a].disputes : dispute[d] # Absent

AdminInv == DisputeInv /\ DeskOK /\ DeskDisputesExist

LEMMA CreditListParts ==
  ASSUME NEW T, NEW s \in Seq(T), s # <<>>
  PROVE  Head(s) \in T /\ \A i \in DOMAIN s : s[i] \in T
OBVIOUS

\* What a dispute may be resolved to pay credits somebody.
LEMMA TransfersCredit ==
  ASSUME NEW e \in Escrows, NEW credits \in Transfers(e)
  PROVE  credits \in CreditLists
<1>0. /\ Buyer[e] \in Users /\ Seller[e] \in Users /\ Total[e] \in Nat /\ Total[e] > 0
      /\ \A u \in Users, n \in Nat : Credit(u, n) \in CreditRecords
  BY TermsAssumption DEF Credit, CreditRecords
<1>1. CASE credits \in Halves(e)
  <2>1. PICK b, s \in {Total[e] \div 2, (Total[e] + 1) \div 2} :
          credits = <<Credit(Buyer[e], b), Credit(Seller[e], s)>>
    BY <1>1 DEF Halves
  <2>2. Total[e] \div 2 \in Nat /\ (Total[e] + 1) \div 2 \in Nat
    BY <1>0
  <2>3. Credit(Buyer[e], b) \in CreditRecords /\ Credit(Seller[e], s) \in CreditRecords
    BY <1>0, <2>1, <2>2
  <2> QED
    BY <2>1, <2>3 DEF CreditLists
<1>2. CASE credits \in {Credits(e, share) : share \in Shares(e)}
  <2>1. PICK share \in Shares(e) : credits = Credits(e, share)
    BY <1>2
  <2>2. PICK b \in (0 - Overshoot) .. (Total[e] + Overshoot) : share = <<b, Total[e] - b>>
    BY DEF Shares
  <2> DEFINE s == Total[e] - b
             first == IF b > 0 THEN <<Credit(Buyer[e], b)>> ELSE <<>>
             second == IF s > 0 THEN <<Credit(Seller[e], s)>> ELSE <<>>
  <2>3. b \in Int /\ s \in Int /\ (b > 0 \/ s > 0)
    BY <1>0, AdminAssumption
  <2>4. credits = first \o second
    BY <2>1, <2>2 DEF Credits
  <2>5. b > 0 => Credit(Buyer[e], b) \in CreditRecords
    BY <1>0, <2>3
  <2>6. s > 0 => Credit(Seller[e], s) \in CreditRecords
    <3> HIDE DEF s
    <3> QED
      BY <1>0, <2>3
  <2>7. first \in Seq(CreditRecords) /\ (b > 0 => Len(first) = 1)
    BY <2>5
  <2>8. second \in Seq(CreditRecords) /\ (s > 0 => Len(second) = 1)
    <3> HIDE DEF s
    <3> QED
      BY <2>6
  <2> HIDE DEF first, second, s
  <2>9. /\ first \o second \in Seq(CreditRecords)
        /\ Len(first \o second) = Len(first) + Len(second)
        /\ Len(first) \in Nat /\ Len(second) \in Nat
    BY <2>7, <2>8
  <2>10. Len(first \o second) > 0
    <3>1. Len(first) = 1 \/ Len(second) = 1
      BY <2>3, <2>7, <2>8
    <3>2. ASSUME NEW m \in Nat, NEW n \in Nat, m = 1 \/ n = 1 PROVE m + n > 0
      BY <3>2
    <3>3. Len(first) + Len(second) > 0
      BY <2>9, <3>1, <3>2
    <3> QED
      BY <2>9, <3>3
  <2> QED
    BY <2>4, <2>9, <2>10 DEF CreditLists
<1> QED
  BY <1>1, <1>2 DEF Transfers

\* Nothing takes a dispute out of the table.
LEMMA DisputesLast ==
  ASSUME DisputeInv, [DisputeNext]_allVars, NEW d \in Disputes, dispute[d] # Absent
  PROVE  dispute'[d] # Absent
BY DEF DisputeInv, DisputeTypeOK, DisputeNext, DisputeStep, DisputeRequest, CreateDispute,
       InsertDispute, SubmitEvidence, ProposeResolution, AcceptResolution,
       ResolveDisputeByAdmin, SaveResolution, SaveDispute, DisputeRequestsFail,
       EvidenceDeadlinePasses, MoveToReview, StartDeadlineRun, AbandonDeadlineRun,
       disputeVars, allVars, Resolved, Absent

\* A statement that leaves everything but desk a alone.
LEMMA DeskStep ==
  ASSUME AdminInv, UNCHANGED allVars, NEW a \in Admins, NEW r \in {Idle} \cup DeskRequests,
         desk' = [desk EXCEPT ![a] = r],
         r # Idle => \A d \in r.disputes : dispute[d] # Absent
  PROVE  AdminInv'
<1>1. DisputeInv'
  BY DisputeNextInv DEF AdminInv
<1>2. \A c \in Admins : desk'[c] = IF c = a THEN r ELSE desk[c]
  BY DEF AdminInv, DeskOK
<1>3. DeskOK'
  BY DEF AdminInv, DeskOK
<1>4. dispute' = dispute
  BY DEF allVars, disputeVars
<1> QED
  BY <1>1, <1>2, <1>3, <1>4 DEF AdminInv, DeskDisputesExist

LEMMA AdminStepInv ==
  ASSUME AdminInv, NEW a \in Admins, AdminStep(a)
  PROVE  AdminInv'
<1> USE TermsAssumption, DisputeAssumption
<1>1. ASSUME NEW e \in Escrows, ReleaseEscrow(a, e) \/ RefundEscrow(a, e) PROVE AdminInv'
  <2>1. PICK m \in Marks, u \in Users :
          /\ desk' = [desk EXCEPT ![a] = Request({}, e, m, <<Credit(u, Total[e])>>)]
          /\ UNCHANGED allVars
    BY <1>1 DEF ReleaseEscrow, RefundEscrow, Marks
  <2> DEFINE r == Request({}, e, m, <<Credit(u, Total[e])>>)
  <2>2. r \in DeskRequests /\ r.disputes = {}
    <3>1. <<Credit(u, Total[e])>> \in CreditLists
      BY DEF CreditLists, CreditRecords, Credit
    <3> QED
      BY <3>1 DEF Request, DeskRequests, DeskSteps
  <2> HIDE DEF r
  <2> QED
    BY <2>1, <2>2, DeskStep DEF r
<1>2. ASSUME NEW d \in Disputes, NEW credits \in Transfers(DisputeOf[d]),
             ResolveDispute(a, d, credits)
      PROVE  AdminInv'
  <2> DEFINE r == Request({d}, DisputeOf[d], "COMPLETED", credits)
  <2>1. credits \in CreditLists /\ DisputeOf[d] \in Escrows
    BY TransfersCredit
  <2>2. r \in DeskRequests /\ r.disputes = {d}
    BY <2>1 DEF Request, DeskRequests, DeskSteps, Marks
  <2>3. desk' = [desk EXCEPT ![a] = r] /\ UNCHANGED allVars /\ dispute[d] # Absent
    BY <1>2 DEF ResolveDispute, Active, Absent
  <2> HIDE DEF r
  <2> QED
    BY <2>2, <2>3, DeskStep
<1>3. ASSUME LoadPayee(a) PROVE AdminInv'
  <2> DEFINE n == wallet[Head(desk[a].credits).to]
             r == [desk[a] EXCEPT !.step = "credit", !.balance = n]
  <2>1. desk[a] \in DeskRequests /\ desk[a] # Idle /\ UNCHANGED allVars
    BY <1>3 DEF LoadPayee, AdminInv, DeskOK
  <2>2. n \in Nat
    <3>1. desk[a].credits \in CreditLists
      BY <2>1 DEF DeskRequests
    <3>2. Head(desk[a].credits) \in CreditRecords
      BY <3>1, CreditListParts DEF CreditLists
    <3> QED
      BY <3>2 DEF CreditRecords, AdminInv, DisputeInv, DisputeTypeOK, TypeOK
  <2>3. desk' = [desk EXCEPT ![a] = r]
    BY <1>3, <2>1 DEF LoadPayee, AdminInv, DeskOK
  <2> HIDE DEF n
  <2>4. r \in DeskRequests /\ r.disputes = desk[a].disputes
    BY <2>1, <2>2 DEF DeskRequests, DeskSteps
  <2>5. \A d \in r.disputes : dispute[d] # Absent
    BY <2>1, <2>4 DEF AdminInv, DeskDisputesExist
  <2> HIDE DEF r
  <2> QED
    BY <2>1, <2>3, <2>4, <2>5, DeskStep
<1>4. ASSUME DeskFails(a) PROVE AdminInv'
  BY <1>4, DeskStep DEF DeskFails
<1>5. ASSUME RecordDispute(a) PROVE AdminInv'
  <2> DEFINE r == [desk[a] EXCEPT !.step = "escrow"]
  <2>1. /\ desk[a] \in DeskRequests /\ desk[a] # Idle
        /\ desk' = [desk EXCEPT ![a] = r]
        /\ UNCHANGED <<vars, heard, pastDeadline, creating, resolving, deadlineRun>>
        /\ \E d \in desk[a].disputes : SaveDispute(d, "RESOLVED_BY_ADMIN")
    BY <1>5 DEF RecordDispute, AdminInv, DeskOK
  <2>2. r \in DeskRequests /\ r.disputes = desk[a].disputes
    BY <2>1 DEF DeskRequests, DeskSteps
  <2> HIDE DEF r
  <2>3. DeskOK' /\ \A c \in Admins : desk'[c] = IF c = a THEN r ELSE desk[c]
    BY <2>1, <2>2 DEF AdminInv, DeskOK
  <2>4. PICK d \in desk[a].disputes : SaveDispute(d, "RESOLVED_BY_ADMIN")
    BY <2>1
  <2>5. \A c \in Admins : desk[c] # Idle => desk[c].disputes \subseteq Disputes
    BY DEF AdminInv, DeskOK, DeskRequests
  <2>6. d \in Disputes /\ dispute[d] # Absent
    BY <2>1, <2>5 DEF AdminInv, DeskDisputesExist
  <2>7. \A c \in Disputes : dispute'[c] # Absent <=> dispute[c] # Absent
    BY <2>4, <2>6 DEF SaveDispute, AdminInv, DisputeInv, DisputeTypeOK, Absent
  <2>8. DeskDisputesExist'
    BY <2>1, <2>2, <2>3, <2>5, <2>7 DEF AdminInv, DeskDisputesExist
  <2>9. DisputeTypeOK' /\ LoadedRowsExist'
    BY <2>1, <2>4, <2>6, SaveTypes DEF AdminInv, DisputeInv, DisputeStatus
  <2>10. PaidOutIsClosed' /\ DeliveryWasPaid'
    BY <2>1 DEF AdminInv, DisputeInv, PaidOutIsClosed, DeliveryWasPaid, MilestonesIn, vars
  <2> QED
    BY <2>3, <2>8, <2>9, <2>10 DEF AdminInv, DisputeInv
<1>6. ASSUME RecordEscrow(a) PROVE AdminInv'
  <2> DEFINE r == [desk[a] EXCEPT !.step = "load"]  e == desk[a].escrow  m == desk[a].mark
  <2>1. /\ desk[a] \in DeskRequests /\ desk[a] # Idle
        /\ desk' = [desk EXCEPT ![a] = r]
        /\ status' = [status EXCEPT ![e] = m]
        /\ UNCHANGED <<wallet, payment, milestone, proof, due, releaseRun, disputeVars>>
    BY <1>6 DEF RecordEscrow, AdminInv, DeskOK
  <2>2. r \in DeskRequests /\ r.disputes = desk[a].disputes /\ m \in Marks
    BY <2>1 DEF DeskRequests, DeskSteps
  <2> HIDE DEF r
  <2>3. DeskOK' /\ \A c \in Admins : desk'[c] = IF c = a THEN r ELSE desk[c]
    BY <2>1, <2>2 DEF AdminInv, DeskOK
  <2>4. DeskDisputesExist'
    BY <2>1, <2>2, <2>3 DEF AdminInv, DeskDisputesExist, disputeVars
  <2> HIDE DEF e, m
  <2>5. DisputeTypeOK' /\ LoadedRowsExist'
    BY <2>1, <2>2
    DEF AdminInv, DisputeInv, DisputeTypeOK, LoadedRowsExist, InFlight, TypeOK, EscrowStatus,
        disputeVars, Marks, Absent
  <2>6. \A f \in Escrows : status'[f] = status[f] \/ status'[f] \in Marks
    BY <2>1, <2>2 DEF AdminInv, DisputeInv, DisputeTypeOK, TypeOK
  <2>7. PaidOutIsClosed' /\ DeliveryWasPaid'
    BY <2>1, <2>6
    DEF AdminInv, DisputeInv, PaidOutIsClosed, DeliveryWasPaid, MilestonesIn, disputeVars, Marks, Open, Absent
  <2> QED
    BY <2>3, <2>4, <2>5, <2>7 DEF AdminInv, DisputeInv
<1>7. ASSUME CreditPayee(a) PROVE AdminInv'
  <2> DEFINE c == Head(desk[a].credits)
  <2>1. /\ desk[a] \in DeskRequests
        /\ desk' = [desk EXCEPT ![a] = Idle]
        /\ wallet' = [wallet EXCEPT ![c.to] = desk[a].balance + c.amount]
        /\ UNCHANGED <<status, payment, milestone, proof, due, releaseRun, disputeVars>>
    BY <1>7 DEF CreditPayee, AdminInv, DeskOK
  <2>2. c \in CreditRecords /\ desk[a].balance \in Nat
    <3>1. desk[a].credits \in CreditLists /\ desk[a].balance \in Nat
      BY <2>1 DEF DeskRequests
    <3> QED
      BY <3>1, CreditListParts DEF CreditLists
  <2> HIDE DEF c
  <2>3. DeskOK' /\ \A b \in Admins : desk'[b] = IF b = a THEN Idle ELSE desk[b]
    BY <2>1 DEF AdminInv, DeskOK
  <2>4. DeskDisputesExist'
    BY <2>1, <2>3 DEF AdminInv, DeskDisputesExist, disputeVars
  <2>5. DisputeTypeOK' /\ LoadedRowsExist'
    BY <2>1, <2>2
    DEF AdminInv, DisputeInv, DisputeTypeOK, LoadedRowsExist, InFlight, TypeOK, disputeVars,
        CreditRecords
  <2>6. PaidOutIsClosed' /\ DeliveryWasPaid'
    BY <2>1
    DEF AdminInv, DisputeInv, PaidOutIsClosed, DeliveryWasPaid, MilestonesIn, disputeVars
  <2> QED
    BY <2>3, <2>4, <2>5, <2>6 DEF AdminInv, DisputeInv
<1> QED
  BY <1>1, <1>2, <1>3, <1>4, <1>5, <1>6, <1>7 DEF AdminStep

LEMMA AdminInductive == AdminSpec => []AdminInv
<1>1. AdminInit => AdminInv
  BY DisputeInitInv
  DEF AdminInit, AdminInv, DeskOK, DeskDisputesExist
<1>2. AdminInv /\ [AdminNext]_adminVars => AdminInv'
  <2> SUFFICES ASSUME AdminInv, [AdminNext]_adminVars PROVE AdminInv'
    OBVIOUS
  <2>1. ASSUME [DisputeNext]_allVars, UNCHANGED desk PROVE AdminInv'
    <3>1. DisputeInv' /\ DeskOK'
      BY <2>1, DisputeNextInv DEF AdminInv, DeskOK
    <3>2. \A c \in Admins : desk[c] # Idle => desk[c].disputes \subseteq Disputes
      BY DEF AdminInv, DeskOK, DeskRequests
    <3>3. DeskDisputesExist'
      BY <2>1, <3>2, DisputesLast DEF AdminInv, DeskDisputesExist
    <3> QED
      BY <3>1, <3>3 DEF AdminInv
  <2> QED
    BY <2>1, AdminStepInv DEF AdminNext, adminVars
<1>3. QED
  BY <1>1, <1>2, PTL DEF AdminSpec

\* Whatever the administrators' stale and partial writes meet, every row keeps its type; above
\* all, no balance they overwrite becomes negative, whatever shares they ask for.
THEOREM AdminTypes == AdminSpec => []AdminTypeOK
<1>1. AdminInv => AdminTypeOK
  <2> SUFFICES ASSUME AdminInv, NEW a \in Admins, desk[a] # Idle
               PROVE  /\ desk[a] \in DeskRequests
                      /\ \A i \in DOMAIN desk[a].credits : desk[a].credits[i].to \in Users
    BY DEF AdminInv, DisputeInv, AdminTypeOK, DeskRequests, Marks, DeskSteps
  <2>1. desk[a] \in DeskRequests
    BY DEF AdminInv, DeskOK
  <2>2. desk[a].credits \in CreditLists
    BY <2>1 DEF DeskRequests
  <2>3. \A i \in DOMAIN desk[a].credits : desk[a].credits[i] \in CreditRecords
    BY <2>2, CreditListParts DEF CreditLists
  <2> QED
    BY <2>1, <2>3 DEF CreditRecords
<1>2. QED
  BY <1>1, AdminInductive, PTL

\* Administrators' untransacted statements among everybody else's requests undo no payout for
\* delivery.
THEOREM AdminsKeepDeliveryPaid == AdminSpec => []DeliveryWasPaid
<1>1. AdminInv => DeliveryWasPaid
  BY DEF AdminInv, DisputeInv
<1>2. QED
  BY <1>1, AdminInductive, PTL
==============================================================================
