------------------------------- MODULE Escrow -------------------------------
(***************************************************************************)
(* EscrowService (src/src/modules/security/escrow.service.ts) behind       *)
(* SecurityController, one action per request or job step, each request    *)
(* executed alone: the order of operations, their guards and their effects *)
(* on wallets, escrows, payments, milestones and delivery proofs.  How the *)
(* requests interleave statement by statement is the subject of EscrowTx.  *)
(*                                                                         *)
(* A guard that throws inside dataSource.transaction undoes the request's  *)
(* writes, so here it disables the whole action.  Logging, notifications   *)
(* (caught and logged by the service) and the read-only queries are left   *)
(* out.                                                                    *)
(***************************************************************************)
EXTENDS Integers, FiniteSets, FiniteSetsExt

CONSTANTS Users,          \* users, each with a wallet
          Escrows,        \* escrow ids
          Buyer, Seller,  \* Buyer[e], Seller[e]: the parties createEscrow was given
          Total,          \* Total[e]: totalAmount, in cents
          Milestones,     \* milestone ids
          MilestoneOf,    \* MilestoneOf[m]: the escrow that milestone m belongs to
          Proofs,         \* delivery proof ids
          ProofOf,        \* ProofOf[p]: the escrow that proof p is submitted for
          InitialBalance  \* InitialBalance[u]: the balance of u's wallet at the start

\* The terms of an agreement are data the service stores and never changes.
\* Nothing in createEscrow keeps buyer and seller apart.
ASSUME TermsAssumption ==
  /\ Buyer \in [Escrows -> Users]
  /\ Seller \in [Escrows -> Users]
  /\ Total \in [Escrows -> Nat \ {0}]
  /\ MilestoneOf \in [Milestones -> Escrows]
  /\ ProofOf \in [Proofs -> Escrows]
  /\ InitialBalance \in [Users -> Nat]

VARIABLES wallet,      \* wallet[u]: balance of u's wallet, in cents
          status,      \* status[e]: EscrowStatus, "ABSENT" before createEscrow
          payment,     \* payment[e]: status of the Payment row that paymentId names
          milestone,   \* milestone[m]: MilestoneStatus
          proof,       \* proof[p]: ProofStatus
          due,         \* escrows whose scheduleReleaseAt is set and has been reached
          releaseRun   \* what processScheduledReleases found and has not handled yet

vars == <<wallet, status, payment, milestone, proof, due, releaseRun>>

EscrowStatus == {"PENDING", "FUNDED", "RELEASED", "REFUNDED", "DISPUTED", "COMPLETED",
                 "CANCELLED"}
PaymentStatus == {"ESCROW", "COMPLETED", "REFUNDED"}
MilestoneStatus == {"PENDING", "COMPLETED", "DISPUTED"}
ProofStatus == {"PENDING", "ACCEPTED", "REJECTED"}

Absent == "ABSENT"

MilestonesIn(e) == {m \in Milestones : MilestoneOf[m] = e}
ProofsFor(e) == {p \in Proofs : ProofOf[p] = e}

Init ==
  /\ wallet = InitialBalance
  /\ status = [e \in Escrows |-> Absent]
  /\ payment = [e \in Escrows |-> Absent]
  /\ milestone = [m \in Milestones |-> Absent]
  /\ proof = [p \in Proofs |-> Absent]
  /\ due = {}
  /\ releaseRun = {}

------------------------------------------------------------------------------
(* createEscrow.  The buyer must be able to afford the escrow now, but no   *)
(* money is reserved.  That the milestone amounts add up is a check on the  *)
(* request alone: nothing reads those amounts later.                        *)
CreateEscrow(e) ==
  /\ status[e] = Absent
  /\ wallet[Buyer[e]] >= Total[e]
  /\ status' = [status EXCEPT ![e] = "PENDING"]
  /\ milestone' = [m \in Milestones |-> IF MilestoneOf[m] = e THEN "PENDING" ELSE milestone[m]]
  /\ UNCHANGED <<wallet, payment, proof, due, releaseRun>>

------------------------------------------------------------------------------
\* Mutant: funding trusts the balance check that createEscrow made.
FundEscrow_NoBalanceCheck(e, u) ==
  /\ u = Buyer[e]
  /\ status[e] = "PENDING"
  /\ wallet' = [wallet EXCEPT ![u] = @ - Total[e]]
  /\ payment' = [payment EXCEPT ![e] = "ESCROW"]
  /\ status' = [status EXCEPT ![e] = "FUNDED"]
  /\ UNCHANGED <<milestone, proof, due, releaseRun>>

FundEscrow(e, u) ==
  /\ u = Buyer[e]
  /\ status[e] = "PENDING"
  /\ wallet[u] >= Total[e]
  /\ wallet' = [wallet EXCEPT ![u] = @ - Total[e]]
  /\ payment' = [payment EXCEPT ![e] = "ESCROW"]
  /\ status' = [status EXCEPT ![e] = "FUNDED"]
  /\ UNCHANGED <<milestone, proof, due, releaseRun>>

\* completeEscrow, called by the controller, by the review of a proof, by the
\* update of a milestone and by the scheduler.  Throws unless the escrow is funded.
PayoutToSeller(e) ==
  /\ status[e] = "FUNDED"
  /\ wallet' = [wallet EXCEPT ![Seller[e]] = @ + Total[e]]
  /\ payment' = [payment EXCEPT ![e] = IF @ = Absent THEN @ ELSE "COMPLETED"]
  /\ status' = [status EXCEPT ![e] = "COMPLETED"]

NoPayout == UNCHANGED <<wallet, payment, status>>

CompleteEscrow(e, u) ==
  /\ u = Buyer[e]
  /\ PayoutToSeller(e)
  /\ UNCHANGED <<milestone, proof, due, releaseRun>>

------------------------------------------------------------------------------
\* An escrow may collect any number of proofs while it is funded.
SubmitDeliveryProof(p, u) ==
  /\ proof[p] = Absent
  /\ u = Seller[ProofOf[p]]
  /\ status[ProofOf[p]] = "FUNDED"
  /\ proof' = [proof EXCEPT ![p] = "PENDING"]
  /\ UNCHANGED <<wallet, status, payment, milestone, due, releaseRun>>

\* Mutant: accepting a proof tolerates an escrow that can no longer be completed.
ReviewDeliveryProof_Tolerant(p, u, decision) ==
  /\ u = Buyer[ProofOf[p]]
  /\ proof[p] = "PENDING"
  /\ proof' = [proof EXCEPT ![p] = IF decision = "accept" THEN "ACCEPTED" ELSE "REJECTED"]
  /\ \/ decision = "accept" /\ PayoutToSeller(ProofOf[p])
     \/ (decision = "reject" \/ status[ProofOf[p]] # "FUNDED") /\ NoPayout
  /\ UNCHANGED <<milestone, due, releaseRun>>

ReviewDeliveryProof(p, u, decision) ==
  /\ u = Buyer[ProofOf[p]]
  /\ proof[p] = "PENDING"
  /\ \/ /\ decision = "accept"
        /\ proof' = [proof EXCEPT ![p] = "ACCEPTED"]
        /\ PayoutToSeller(ProofOf[p])
     \/ /\ decision = "reject"     \* whatever became of the escrow meanwhile
        /\ proof' = [proof EXCEPT ![p] = "REJECTED"]
        /\ NoPayout
  /\ UNCHANGED <<milestone, due, releaseRun>>

\* updateMilestone does not look at the escrow's status; only the completion it
\* triggers does, and a throw there undoes the milestone too.
MayUpdate(e, u, s) ==
  CASE s = "COMPLETED" -> u = Buyer[e]
    [] s = "DISPUTED"  -> u \in {Buyer[e], Seller[e]}
    [] OTHER           -> TRUE

\* Mutant: the last milestone is recorded even if the escrow cannot be completed.
UpdateMilestone_KeepsMilestone(m, u, s) ==
  LET e == MilestoneOf[m]
      allCompleted == \A n \in MilestonesIn(e) : milestone'[n] = "COMPLETED"
  IN  /\ milestone[m] # Absent
      /\ MayUpdate(e, u, s)
      /\ milestone' = [milestone EXCEPT ![m] = s]
      /\ \/ allCompleted /\ PayoutToSeller(e)
         \/ (~allCompleted \/ status[e] # "FUNDED") /\ NoPayout
      /\ UNCHANGED <<proof, due, releaseRun>>

UpdateMilestone(m, u, s) ==
  LET e == MilestoneOf[m]
      allCompleted == \A n \in MilestonesIn(e) : milestone'[n] = "COMPLETED"
  IN  /\ milestone[m] # Absent
      /\ MayUpdate(e, u, s)
      /\ milestone' = [milestone EXCEPT ![m] = s]
      /\ \/ allCompleted /\ PayoutToSeller(e)
         \/ ~allCompleted /\ NoPayout
      /\ UNCHANGED <<proof, due, releaseRun>>

------------------------------------------------------------------------------
\* Mutant: an escrow that was agreed but never funded is refunded too.
CancelEscrow_RefundsUnfunded(e, u) ==
  /\ u \in {Buyer[e], Seller[e]}
  /\ status[e] \in {"PENDING", "FUNDED"}
  /\ wallet' = [wallet EXCEPT ![Buyer[e]] = @ + Total[e]]
  /\ payment' = [payment EXCEPT ![e] = IF @ = Absent THEN @ ELSE "REFUNDED"]
  /\ status' = [status EXCEPT ![e] = "CANCELLED"]
  /\ UNCHANGED <<milestone, proof, due, releaseRun>>

\* Mutant: the refund leaves the Payment row in escrow.
CancelEscrow_ForgetsPayment(e, u) ==
  /\ u \in {Buyer[e], Seller[e]}
  /\ \/ status[e] = "PENDING" /\ UNCHANGED wallet
     \/ status[e] = "FUNDED" /\ wallet' = [wallet EXCEPT ![Buyer[e]] = @ + Total[e]]
  /\ status' = [status EXCEPT ![e] = "CANCELLED"]
  /\ UNCHANGED <<payment, milestone, proof, due, releaseRun>>

\* Mutant: only what was completed or cancelled cannot be cancelled.
CancelEscrow_DisputedToo(e, u) ==
  /\ u \in {Buyer[e], Seller[e]}
  /\ \/ status[e] = "PENDING" /\ UNCHANGED wallet
     \/ /\ status[e] \notin {Absent, "PENDING", "COMPLETED", "CANCELLED"}
        /\ wallet' = [wallet EXCEPT ![Buyer[e]] = @ + Total[e]]
  /\ payment' = [payment EXCEPT ![e] = IF @ = Absent THEN @ ELSE "REFUNDED"]
  /\ status' = [status EXCEPT ![e] = "CANCELLED"]
  /\ UNCHANGED <<milestone, proof, due, releaseRun>>

CancelEscrow(e, u) ==
  /\ u \in {Buyer[e], Seller[e]}
  /\ \/ /\ status[e] = "PENDING"
        /\ UNCHANGED <<wallet, payment>>
     \/ /\ status[e] = "FUNDED"
        /\ wallet' = [wallet EXCEPT ![Buyer[e]] = @ + Total[e]]
        /\ payment' = [payment EXCEPT ![e] = IF @ = Absent THEN @ ELSE "REFUNDED"]
  /\ status' = [status EXCEPT ![e] = "CANCELLED"]
  /\ UNCHANGED <<milestone, proof, due, releaseRun>>

------------------------------------------------------------------------------
(* EscrowSchedulerService calls processScheduledReleases every four hours.  *)
(* The query's filter is scheduleReleaseAt = now if the clock moved between *)
(* two reads of it, and no filter at all if it did not (an undefined        *)
(* condition is dropped by the ORM): the job finds either some of the due   *)
(* escrows, those whose date equals this very instant, or all funded ones.  *)
FundedEscrows == {e \in Escrows : status[e] = "FUNDED"}

StartScheduledReleases ==
  /\ releaseRun = {}
  /\ \/ releaseRun' = FundedEscrows
     \/ releaseRun' \in SUBSET (FundedEscrows \cap due)
  /\ UNCHANGED <<wallet, status, payment, milestone, proof, due>>

\* Mutant: the job releases what its query found without reading the escrow again.
ProcessScheduledRelease_StaleRow(e) ==
  /\ e \in releaseRun
  /\ releaseRun' = releaseRun \ {e}
  /\ wallet' = [wallet EXCEPT ![Seller[e]] = @ + Total[e]]
  /\ payment' = [payment EXCEPT ![e] = "COMPLETED"]
  /\ status' = [status EXCEPT ![e] = "COMPLETED"]
  /\ UNCHANGED <<milestone, proof, due>>

\* Mutant: a release that fails is tried again before the next one.
ProcessScheduledRelease_RetriesForever(e) ==
  /\ e \in releaseRun
  /\ PayoutToSeller(e)
  /\ releaseRun' = releaseRun \ {e}
  /\ UNCHANGED <<milestone, proof, due>>

\* One turn of the loop: a transaction of its own, and an error (the escrow is no
\* longer funded) is caught and logged, so that the loop goes on.
ProcessScheduledRelease(e) ==
  /\ e \in releaseRun
  /\ releaseRun' = releaseRun \ {e}
  /\ \/ PayoutToSeller(e)
     \/ status[e] # "FUNDED" /\ NoPayout
  /\ UNCHANGED <<milestone, proof, due>>

\* External: nothing in the service writes scheduleReleaseAt, only the end-to-end
\* test and whoever edits the table; the date is then reached as time passes.
ReachReleaseDate(e) ==
  /\ status[e] # Absent
  /\ due' = due \cup {e}
  /\ UNCHANGED <<wallet, status, payment, milestone, proof, releaseRun>>

\* The list the job works on lives in memory: a restart of the server forgets it.
RestartServer ==
  /\ releaseRun' = {}
  /\ UNCHANGED <<wallet, status, payment, milestone, proof, due>>

------------------------------------------------------------------------------
UserRequest(u) ==
  \/ \E e \in Escrows : FundEscrow(e, u) \/ CompleteEscrow(e, u) \/ CancelEscrow(e, u)
  \/ \E p \in Proofs :
       \/ SubmitDeliveryProof(p, u)
       \/ \E decision \in {"accept", "reject"} : ReviewDeliveryProof(p, u, decision)
  \/ \E m \in Milestones, s \in MilestoneStatus : UpdateMilestone(m, u, s)

Scheduler ==
  \/ StartScheduledReleases
  \/ \E e \in Escrows : ProcessScheduledRelease(e)

Next ==
  \/ \E e \in Escrows : CreateEscrow(e) \/ ReachReleaseDate(e)
  \/ \E u \in Users : UserRequest(u)
  \/ Scheduler
  \/ RestartServer

Spec == Init /\ [][Next]_vars

\* The for loop of the job awaits one release after another and never stops early.
FairSpec == Spec /\ \A e \in Escrows : WF_vars(ProcessScheduledRelease(e))

------------------------------------------------------------------------------
(* Properties *)

\* The type invariant; that balances are natural numbers says that no sequence of
\* fundings overdraws a wallet.
TypeOK ==
  /\ wallet \in [Users -> Nat]
  /\ status \in [Escrows -> EscrowStatus \cup {Absent}]
  /\ payment \in [Escrows -> PaymentStatus \cup {Absent}]
  /\ milestone \in [Milestones -> MilestoneStatus \cup {Absent}]
  /\ proof \in [Proofs -> ProofStatus \cup {Absent}]
  /\ due \subseteq Escrows
  /\ releaseRun \subseteq Escrows

SumOver(f, S) == MapThenSumSet(LAMBDA x : f[x], S)

\* What the wallets hold and what the given escrows hold add up to what there was at the start.
AddsUpWith(held) ==
  SumOver(wallet, Users) + SumOver(Total, held) = SumOver(InitialBalance, Users)

\* No money is made or lost: what the wallets hold and what the funded escrows hold
\* always add up to what there was at the start.
MoneyConserved == AddsUpWith(FundedEscrows)

\* The Payment row tells where the escrow's money is: in escrow exactly while the escrow
\* is funded, with the seller exactly once it is completed, and back with the buyer only if
\* it was cancelled; a cancelled escrow that was never funded has no Payment row.
PaymentFollowsEscrow ==
  \A e \in Escrows :
    /\ payment[e] = "ESCROW" <=> status[e] = "FUNDED"
    /\ payment[e] = "COMPLETED" <=> status[e] = "COMPLETED"
    /\ payment[e] = "REFUNDED" => status[e] = "CANCELLED"

\* Accepting a proof and paying the seller are one: an escrow with an accepted proof is
\* completed, and of the proofs an escrow collected at most one is ever accepted,
\* although several may be pending and rejected ones come and go after completion.
AcceptedProofSettlesEscrow ==
  /\ \A p \in Proofs : proof[p] = "ACCEPTED" => status[ProofOf[p]] = "COMPLETED"
  /\ \A p, q \in Proofs :
       proof[p] = "ACCEPTED" /\ proof[q] = "ACCEPTED" /\ ProofOf[p] = ProofOf[q] => p = q

\* An escrow whose milestones are all completed has been paid out: the last milestone
\* completes the escrow or is not recorded at all (unfunded, cancelled or already
\* completed escrows), even though milestones may be changed at any time.
MilestonesSettleEscrow ==
  \A e \in Escrows :
    /\ MilestonesIn(e) # {}
    /\ \A m \in MilestonesIn(e) : milestone[m] = "COMPLETED"
    => status[e] = "COMPLETED"

\* Both ways of delivering, a reviewed proof and a list of milestones, end in the same
\* payout, and none of them is recorded as successful without it.
DeliverySettlesEscrow == AcceptedProofSettlesEscrow /\ MilestonesSettleEscrow

\* Where the money of an escrow is, as EscrowPromise sees it.
Phase(e) ==
  CASE status[e] = Absent -> "none"
    [] status[e] = "PENDING" -> "agreed"
    [] status[e] = "FUNDED" -> "held"
    [] status[e] = "COMPLETED" -> "paid"
    [] status[e] = "CANCELLED" /\ payment[e] = "REFUNDED" -> "returned"
    [] OTHER -> "calledOff"

Promise == INSTANCE EscrowPromise WITH purse <- wallet, phase <- [e \in Escrows |-> Phase(e)]

\* Refinement: whatever the parties and the scheduler do, in any order, an escrow's money is
\* taken from the buyer once and leaves once, to the seller or back to the buyer.
KeepsPromise == Promise!PSpec

\* What a release run found is handled or forgotten: an escrow that was cancelled or
\* completed by somebody else after the query does not block the ones behind it.
ReleaseRunDrains == \A e \in Escrows : e \in releaseRun ~> e \notin releaseRun

\* The documented condition of an automatic release (escrow.service.ts:1120-1121): the job
\* pays only escrows that have reached their scheduleReleaseAt date.
OnlyDueEscrowsReleased ==
  [][\A e \in Escrows :
       e \in releaseRun /\ e \notin releaseRun' /\ status[e] # status'[e] => e \in due]_vars
==============================================================================
