------------------------------ MODULE Dispute ------------------------------
(***************************************************************************)
(* DisputeService and DisputeSchedulerService                              *)
(* (src/src/modules/dispute/) on top of Escrow, whose status they set to   *)
(* DISPUTED.  Evidence and proposals are kept as the set of disputes that  *)
(* have some, deadlines as the set of those whose deadline has passed;     *)
(* what the parties write to each other is left out.                       *)
(*                                                                         *)
(* The requests of Escrow stay atomic here.  Those that write a dispute do *)
(* not: each checks a row it has loaded without locking it and writes      *)
(* later, so that requests and jobs that came in between are overwritten.  *)
(*                                                                         *)
(* Caller stands between the parties and the service: it is what the       *)
(* controllers pass on as the user's id, req.user.userId.  The tests       *)
(* (security.controller.spec.ts:102) present a req.user that has it; the   *)
(* one JwtStrategy.validate builds has only id, so there it is undefined.  *)
(* The admin desk, which does without, is in AdminDesk.                    *)
(***************************************************************************)
EXTENDS Escrow

CONSTANTS Disputes,   \* dispute ids
          DisputeOf,  \* DisputeOf[d]: the escrow dispute d is about
          Caller,     \* Caller[u]: the id DisputeService is given when u makes a request
          Undefined   \* no id

ASSUME DisputeAssumption ==
  /\ DisputeOf \in [Disputes -> Escrows]
  /\ Caller \in [Users -> Users \cup {Undefined}]
  /\ Undefined \notin Users

VARIABLES dispute,       \* dispute[d]: DisputeStatus
          heard,         \* disputes with evidence or a proposed resolution by a party
          pastDeadline,  \* disputes whose evidenceDeadline has passed
          creating,      \* disputes about to be inserted: their escrow was loaded and checked
          resolving,     \* <<d, s>>: requests that have loaded d, open, and will save it as s
          deadlineRun,   \* the rows processExpiredEvidenceDeadlines has loaded, not yet saved
          overtaken      \* history: what is in flight since before its dispute was resolved

disputeVars == <<dispute, heard, pastDeadline, creating, resolving, deadlineRun, overtaken>>
allVars == <<vars, disputeVars>>

DisputeStatus == {"EVIDENCE_SUBMISSION", "UNDER_REVIEW", "MUTUALLY_RESOLVED",
                  "RESOLVED_BY_ADMIN"}
Active == {"EVIDENCE_SUBMISSION", "UNDER_REVIEW"}
Resolved == {"MUTUALLY_RESOLVED", "RESOLVED_BY_ADMIN"}

Party(e) == {Buyer[e], Seller[e]}

DisputeInit ==
  /\ Init
  /\ dispute = [d \in Disputes |-> Absent]
  /\ heard = {}
  /\ pastDeadline = {}
  /\ creating = {}
  /\ resolving = {}
  /\ deadlineRun = {}
  /\ overtaken = {}

------------------------------------------------------------------------------
\* What requests and the job have loaded and are about to save: the dispute and its new status.
InFlight == resolving \cup {<<d, "UNDER_REVIEW">> : d \in deadlineRun}

\* Saving a loaded dispute updates its status, whatever the row holds by now.  A resolution
\* overtakes what is still in flight for its dispute.
SaveDispute(d, s) ==
  /\ dispute' = [dispute EXCEPT ![d] = s]
  /\ overtaken' = InFlight' \cap
       ({x \in overtaken : x[1] # d} \cup {x \in InFlight : x[1] = d /\ s \in Resolved})

\* createDispute loads and checks the escrow.  Pending, released and refunded escrows may be
\* disputed as well as funded ones.
CreateDispute(d, u) ==
  LET e == DisputeOf[d] IN
  /\ dispute[d] = Absent
  /\ status[e] \notin {Absent, "COMPLETED", "CANCELLED", "DISPUTED"}
  /\ u \in Party(e)
  /\ creating' = creating \cup {d}
  /\ UNCHANGED <<vars, dispute, heard, pastDeadline, resolving, deadlineRun, overtaken>>

\* ... and then sets the escrow's status, without another look, and inserts the dispute.
InsertDispute(d) ==
  /\ d \in creating
  /\ creating' = creating \ {d}
  /\ status' = [status EXCEPT ![DisputeOf[d]] = "DISPUTED"]
  /\ dispute' = [dispute EXCEPT ![d] = "EVIDENCE_SUBMISSION"]
  /\ UNCHANGED <<wallet, payment, milestone, proof, due, releaseRun>>
  /\ UNCHANGED <<heard, pastDeadline, resolving, deadlineRun, overtaken>>

SubmitEvidence(d, u) ==
  /\ dispute[d] = "EVIDENCE_SUBMISSION"
  /\ d \notin pastDeadline
  /\ u \in Party(DisputeOf[d])
  /\ heard' = heard \cup {d}
  /\ UNCHANGED <<vars, dispute, pastDeadline, creating, resolving, deadlineRun, overtaken>>

\* A proposal is only a message: it changes no dispute and no money.
ProposeResolution(d, u) ==
  /\ dispute[d] \in Active
  /\ u \in Party(DisputeOf[d])
  /\ heard' = heard \cup {d}
  /\ UNCHANGED <<vars, dispute, pastDeadline, creating, resolving, deadlineRun, overtaken>>

\* Mutant: an accepted proposal overrides a resolution.
AcceptResolution_Whenever(d, u) ==
  /\ dispute[d] # Absent
  /\ u \in Party(DisputeOf[d])
  /\ resolving' = resolving \cup {<<d, "MUTUALLY_RESOLVED">>}
  /\ UNCHANGED <<vars, dispute, heard, pastDeadline, creating, deadlineRun, overtaken>>

\* acceptResolution does not look for a proposal, nor at who made it, and leaves the escrow
\* as it is.
AcceptResolution(d, u) ==
  /\ dispute[d] \in Active
  /\ u \in Party(DisputeOf[d])
  /\ resolving' = resolving \cup {<<d, "MUTUALLY_RESOLVED">>}
  /\ UNCHANGED <<vars, dispute, heard, pastDeadline, creating, deadlineRun, overtaken>>

\* POST /security/disputes/:id/resolve.  That the caller is an administrator is still to be
\* checked, and the money still to be distributed; a caller without an id fails at the
\* message the service writes in the caller's name.
ResolveDisputeByAdmin(d, u) ==
  /\ dispute[d] \in Active
  /\ u \in Users
  /\ resolving' = resolving \cup {<<d, "RESOLVED_BY_ADMIN">>}
  /\ UNCHANGED <<vars, dispute, heard, pastDeadline, creating, deadlineRun, overtaken>>

\* Either of them saves what it loaded.  An element of resolving stands for any number of
\* requests that do the same.
SaveResolution(d, s) ==
  /\ <<d, s>> \in resolving
  /\ resolving' \in {resolving, resolving \ {<<d, s>>}}
  /\ UNCHANGED <<vars, heard, pastDeadline, creating, deadlineRun>>
  /\ SaveDispute(d, s)

\* A throw or a restart: the transactions of these requests leave nothing behind.
DisputeRequestsFail ==
  /\ creating' \in SUBSET creating
  /\ resolving' \in SUBSET resolving
  /\ UNCHANGED <<vars, dispute, heard, pastDeadline, deadlineRun>>
  /\ overtaken' = overtaken \cap InFlight'

------------------------------------------------------------------------------
(* The midnight job: one query, then one transaction per dispute that saves *)
(* the row as the query loaded it, with its status changed.                 *)

\* Time passes: the deadline of a dispute is five days after its creation.
EvidenceDeadlinePasses(d) ==
  /\ dispute[d] # Absent
  /\ pastDeadline' = pastDeadline \cup {d}
  /\ UNCHANGED <<vars, dispute, heard, creating, resolving, deadlineRun, overtaken>>

ExpiredDisputes ==
  {d \in Disputes : dispute[d] = "EVIDENCE_SUBMISSION" /\ d \in pastDeadline}

StartDeadlineRun ==
  /\ deadlineRun = {}
  /\ deadlineRun' = ExpiredDisputes
  /\ UNCHANGED <<vars, dispute, heard, pastDeadline, creating, resolving, overtaken>>

\* Mutant: the job takes a dispute off its list without saving it.
MoveToReview_NotSaved(d) ==
  /\ d \in deadlineRun
  /\ deadlineRun' = deadlineRun \ {d}
  /\ UNCHANGED <<vars, dispute, heard, pastDeadline, creating, resolving>>
  /\ overtaken' = overtaken \cap InFlight'

\* The row is not read again before it is saved.
MoveToReview(d) ==
  /\ d \in deadlineRun
  /\ deadlineRun' = deadlineRun \ {d}
  /\ UNCHANGED <<vars, heard, pastDeadline, creating, resolving>>
  /\ SaveDispute(d, "UNDER_REVIEW")

\* An error in the loop is caught outside of it, and a restart forgets the list: either way
\* the disputes left wait for the next midnight.
AbandonDeadlineRun ==
  /\ deadlineRun' = {}
  /\ UNCHANGED <<vars, dispute, heard, pastDeadline, creating, resolving>>
  /\ overtaken' = overtaken \cap InFlight'

DisputeRequest(d, u) ==
  \/ CreateDispute(d, u)
  \/ SubmitEvidence(d, u)
  \/ ProposeResolution(d, u)
  \/ AcceptResolution(d, u)
  \/ ResolveDisputeByAdmin(d, u)

DisputeStep ==
  \/ \E d \in Disputes :
       \/ \E u \in Users : DisputeRequest(d, Caller[u])
       \/ InsertDispute(d)
       \/ \E s \in Resolved : SaveResolution(d, s)
       \/ EvidenceDeadlinePasses(d)
       \/ MoveToReview(d)
  \/ DisputeRequestsFail
  \/ StartDeadlineRun
  \/ AbandonDeadlineRun

DisputeNext ==
  \/ Next /\ UNCHANGED disputeVars
  \/ DisputeStep

DisputeSpec == DisputeInit /\ [][DisputeNext]_allVars

\* The job runs every midnight, and what makes a turn of its loop fail does not recur for ever.
FairDisputeSpec ==
  /\ DisputeSpec
  /\ WF_allVars(StartDeadlineRun)
  /\ \A d \in Disputes : SF_allVars(MoveToReview(d))

------------------------------------------------------------------------------
(* Properties *)
DisputeTypeOK ==
  /\ TypeOK
  /\ dispute \in [Disputes -> DisputeStatus \cup {Absent}]
  /\ heard \subseteq Disputes
  /\ pastDeadline \subseteq Disputes
  /\ creating \subseteq Disputes
  /\ resolving \subseteq Disputes \X Resolved
  /\ deadlineRun \subseteq Disputes
  /\ overtaken \subseteq Disputes \X DisputeStatus

\* An escrow that paid out because a proof was accepted or its milestones were completed has
\* its Payment row completed, and no dispute about it, admin decision or later change of a
\* milestone alters that.
DeliveryWasPaid ==
  /\ \A p \in Proofs : proof[p] = "ACCEPTED" => payment[ProofOf[p]] = "COMPLETED"
  /\ \A e \in Escrows :
       /\ MilestonesIn(e) # {}
       /\ \A m \in MilestonesIn(e) : milestone[m] = "COMPLETED"
       => payment[e] = "COMPLETED"

\* The money an escrow holds: taken from its buyer and not yet paid, disputed or not.
Holding == {e \in Escrows : payment[e] = "ESCROW" /\ status[e] \in {"FUNDED", "DISPUTED"}}

\* Disputes neither make nor lose money: what an escrow held when it was disputed it still
\* holds, and an escrow disputed before it was funded, or once it was settled, holds nothing.
HeldMoneyConserved == AddsUpWith(Holding)

\* Where the money of an escrow is, disputed or not: its Payment row tells, and before there
\* is one the status.  An escrow disputed before it was funded is never funded.
MoneyPhase(e) ==
  CASE status[e] = Absent -> "none"
    [] payment[e] = "ESCROW" -> "held"
    [] payment[e] = "COMPLETED" -> "paid"
    [] payment[e] = "REFUNDED" -> "returned"
    [] status[e] = "PENDING" -> "agreed"
    [] OTHER -> "calledOff"

DisputePromise ==
  INSTANCE EscrowPromise WITH purse <- wallet, phase <- [e \in Escrows |-> MoneyPhase(e)]

\* Refinement, disputes and their job included: an escrow's money is taken from the buyer
\* once and leaves once, to the seller or back to the buyer.  A dispute takes no step of the
\* promise but to call off an escrow that was not funded.
DisputesKeepPromise == DisputePromise!PSpec

\* A dispute whose evidence deadline has passed does not stay in evidence submission, though
\* runs of the job fail now and then and parties accept resolutions under it.
ExpiredDisputesReviewed ==
  \A d \in Disputes : d \in ExpiredDisputes ~> d \notin ExpiredDisputes

\* A resolution is final (dispute-system-design.md:16: "Status progression:
\* EVIDENCE_SUBMISSION -> UNDER_REVIEW -> RESOLVED states") but for what was in flight when it
\* was made: only a request or a turn of the deadline job that had loaded the dispute before it
\* was resolved overwrites the resolution, and none that finds it resolved.
ResolvedUnlessStaleRow ==
  [][\A d \in Disputes :
       dispute[d] \in Resolved /\ dispute'[d] # dispute[d]
         => <<d, dispute'[d]>> \in overtaken]_allVars
==============================================================================
