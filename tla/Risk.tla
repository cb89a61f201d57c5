-------------------------------- MODULE Risk --------------------------------
(***************************************************************************)
(* The assessment of payments and its review, await by await.  All         *)
(* payments are of the one user whose requests are assessed; what others   *)
(* pay has no part in the score.                                           *)
(***************************************************************************)
EXTENDS Integers, Sequences, FiniteSets, FiniteSetsExt

CONSTANTS
  PaymentIds,
  Reviewers,
  Handlers,                \* requests the server works on at the same time
  PaidAmounts,             \* amounts of payments
  AskedAmounts,            \* amounts the assessment is asked about
  NoPayment, Nobody,       \* an empty paymentId, an empty reviewedByUserId
  MaxRequests              \* bound

ASSUME RiskAssumption ==
  /\ PaidAmounts \subseteq Nat /\ AskedAmounts \subseteq Nat
  /\ NoPayment \notin PaymentIds /\ Nobody \notin Reviewers
  /\ MaxRequests \in Nat

VARIABLES
  payments,      \* the payment rows that are there
  assessments,   \* the risk_assessments rows, in the order of their insertion
  handler,       \* what each handler is about to do
  requests,      \* how many came
  contested,     \* payments with overlapping or failed assessments (history)
  disputed,      \* assessments with overlapping or failed reviews (history)
  verdict        \* the last review of each assessment that ended (history)

vars == <<payments, assessments, handler, requests, contested, disputed, verdict>>

Payments == [amount : PaidAmounts, recent : BOOLEAN, score : 0 .. 60]
Assessments ==
  [payment : PaymentIds \union {NoPayment}, score : 0 .. 60,
   blocked : BOOLEAN, reviewedBy : Reviewers \union {Nobody}]

Idle == [at |-> "idle"]
AssessmentJobs == [at : {"save", "flag"}, payment : PaymentIds \union {NoPayment}, score : 0 .. 60]
ReviewJobs ==
  [at : {"compare", "update"}, assessment : 1 .. MaxRequests,
   reviewer : Reviewers, approved : BOOLEAN, changed : SUBSET {"reviewedBy", "blocked"}]

Verdicts == [by : Reviewers \union {Nobody}, approved : BOOLEAN]

(* A score is a sum of the four weights, and an update names a row. *)
TypeOK ==
  /\ DOMAIN payments \subseteq PaymentIds
  /\ \A p \in DOMAIN payments : payments[p] \in Payments
  /\ assessments \in Seq(Assessments)
  /\ handler \in [Handlers -> {Idle} \union AssessmentJobs \union ReviewJobs]
  /\ \A h \in Handlers :
       handler[h] \in ReviewJobs => handler[h].assessment <= Len(assessments)
  /\ requests \in 0 .. MaxRequests
  /\ contested \subseteq PaymentIds
  /\ disputed \subseteq 1 .. MaxRequests
  /\ verdict \in [1 .. MaxRequests -> Verdicts]

NoRows == [p \in {} |-> [amount |-> 0, recent |-> TRUE, score |-> 0]]

Init ==
  /\ payments = NoRows
  /\ assessments = <<>>
  /\ handler = [h \in Handlers |-> Idle]
  /\ requests = 0
  /\ contested = {} /\ disputed = {}
  /\ verdict = [a \in 1 .. MaxRequests |-> [by |-> Nobody, approved |-> TRUE]]

-----------------------------------------------------------------------------
(* The score *)

Weight(raised, points) == IF raised THEN points ELSE 0

(* No code writes a user's location or trusted devices: the columns keep     *)
(* their defaults, and the first two flags are never raised.                 *)
UserLocation == ""
TrustedDevices == {}

UnusualLocation(location) == UserLocation # "" /\ location # UserLocation
DeviceChange(device) == TrustedDevices # {} /\ device \notin TrustedDevices

(* More than a hundred and more than twice the average of what was paid. *)
LargeTransaction(amount) ==
  LET total == MapThenSumSet(LAMBDA p : payments[p].amount, DOMAIN payments)
      count == IF payments = NoRows THEN 1 ELSE Cardinality(DOMAIN payments)
  IN amount > 100 /\ amount * count > 2 * total

RapidSuccession == Cardinality({p \in DOMAIN payments : payments[p].recent}) >= 3

Score(amount) ==
  Weight(UnusualLocation("here"), 15) + Weight(DeviceChange("phone"), 10)
    + Weight(LargeTransaction(amount), 20) + Weight(RapidSuccession, 15)

HighRisk(score) == score >= 30         \* HIGH or CRITICAL: to be reviewed
(* Mutant: HIGH is blocked too. *)
Blocked_AtHigh(score) == score >= 30
Blocked(score) == score >= 50          \* CRITICAL

-----------------------------------------------------------------------------
(* assessTransactionRisk: the user's payments, the assessment's insertion,    *)
(* the update of the payment it is about.                                     *)

At(h, step) == handler[h].at = step
Ends(h) == handler' = [handler EXCEPT ![h] = Idle]

Arrives(h) == At(h, "idle") /\ requests < MaxRequests /\ requests' = requests + 1

Assessing(p) == {h \in Handlers : handler[h].at \in {"save", "flag"} /\ handler[h].payment = p}

LoadPayments(h, p, amount) ==
  /\ Arrives(h)
  /\ p # NoPayment => p \in DOMAIN payments
  /\ handler' = [handler EXCEPT ![h] = [at |-> "save", payment |-> p, score |-> Score(amount)]]
  /\ contested' = IF p # NoPayment /\ Assessing(p) # {} THEN contested \union {p} ELSE contested
  /\ UNCHANGED <<payments, assessments, disputed, verdict>>

(* Mutant: the payment is marked before the assessment is saved. *)
SaveAssessment_FlagsFirst(h) ==
  LET p == handler[h].payment
  IN /\ At(h, "save")
     /\ p # NoPayment
     /\ payments' = [payments EXCEPT ![p].score = handler[h].score]
     /\ handler' = [handler EXCEPT ![h].at = "flag"]
     /\ UNCHANGED <<requests, assessments, contested, disputed, verdict>>

SaveAssessment(h) ==
  LET p == handler[h].payment  score == handler[h].score
  IN /\ At(h, "save")
     /\ assessments' = Append(assessments,
          [payment |-> p, score |-> score, blocked |-> Blocked(score), reviewedBy |-> Nobody])
     /\ IF p = NoPayment THEN Ends(h) ELSE handler' = [handler EXCEPT ![h].at = "flag"]
     /\ UNCHANGED <<requests, payments, contested, disputed, verdict>>

(* riskScore and isHighRisk, in one statement that touches nothing else. *)
(* Mutant: a mark is set and never taken away. *)
FlagPayment_OnlyUp(h) ==
  LET p == handler[h].payment  score == handler[h].score
  IN /\ At(h, "flag")
     /\ payments' = [payments EXCEPT ![p].score = IF HighRisk(score) THEN score ELSE @]
     /\ Ends(h)
     /\ UNCHANGED <<requests, assessments, contested, disputed, verdict>>

FlagPayment(h) ==
  /\ At(h, "flag")
  /\ payments' = [payments EXCEPT ![handler[h].payment].score = handler[h].score]
  /\ Ends(h)
  /\ UNCHANGED <<requests, assessments, contested, disputed, verdict>>

-----------------------------------------------------------------------------
(* reviewRiskAssessment loads the row and saves it; the save selects it again *)
(* and then updates the columns in which the two differ.  A review may be of  *)
(* any assessment: getPendingReviews lists the reviewed ones too, for TypeORM *)
(* drops the condition `reviewedAt: null`.                                    *)

Reviewing(a) ==
  {h \in Handlers : handler[h].at \in {"compare", "update"} /\ handler[h].assessment = a}

LoadAssessment(h, a, r, approved) ==
  /\ Arrives(h) /\ a \in DOMAIN assessments
  /\ handler' = [handler EXCEPT ![h] =
                   [at |-> "compare", assessment |-> a, reviewer |-> r,
                    approved |-> approved, changed |-> {}]]
  /\ disputed' = IF Reviewing(a) # {} THEN disputed \union {a} ELSE disputed
  /\ UNCHANGED <<payments, assessments, contested, verdict>>

(* Mutant: an approval does not lift a block. *)
Changed_OnlyBlocks(job, row) ==
  {c \in {"reviewedBy", "blocked"} :
     \/ c = "reviewedBy" /\ row.reviewedBy # job.reviewer
     \/ c = "blocked" /\ ~row.blocked /\ ~job.approved}

Changed(job, row) ==
  {c \in {"reviewedBy", "blocked"} :
     \/ c = "reviewedBy" /\ row.reviewedBy # job.reviewer
     \/ c = "blocked" /\ row.blocked = job.approved}

CompareReview(h) ==
  /\ At(h, "compare")
  /\ handler' = [handler EXCEPT ![h].at = "update",
                   ![h].changed = Changed(handler[h], assessments[handler[h].assessment])]
  /\ UNCHANGED <<requests, payments, assessments, contested, disputed, verdict>>

UpdateReview(h) ==
  LET job == handler[h]
      row == assessments[job.assessment]
  IN /\ At(h, "update")
     /\ assessments' = [assessments EXCEPT ![job.assessment] =
          [row EXCEPT !.reviewedBy = IF "reviewedBy" \in job.changed THEN job.reviewer ELSE @,
                      !.blocked = IF "blocked" \in job.changed THEN ~job.approved ELSE @]]
     /\ verdict' = [verdict EXCEPT ![job.assessment] =
          [by |-> job.reviewer, approved |-> job.approved]]
     /\ Ends(h)
     /\ UNCHANGED <<requests, payments, contested, disputed>>

-----------------------------------------------------------------------------
(* The user pays; an hour passes; a statement fails or its process dies. *)

Pay(p, amount) ==
  /\ p \notin DOMAIN payments
  /\ payments' = [q \in DOMAIN payments \union {p} |->
                    IF q = p THEN [amount |-> amount, recent |-> TRUE, score |-> 0]
                    ELSE payments[q]]
  /\ UNCHANGED <<requests, assessments, handler, contested, disputed, verdict>>

HourPasses ==
  /\ payments' = [p \in DOMAIN payments |-> [payments[p] EXCEPT !.recent = FALSE]]
  /\ UNCHANGED <<requests, assessments, handler, contested, disputed, verdict>>

Fails(h) ==
  /\ ~At(h, "idle")
  /\ contested' = IF handler[h].at = "flag" THEN contested \union {handler[h].payment} ELSE contested
  /\ Ends(h)
  /\ UNCHANGED <<requests, payments, assessments, disputed, verdict>>

Step(h) ==
  \/ \E p \in PaymentIds \union {NoPayment}, amount \in AskedAmounts : LoadPayments(h, p, amount)
  \/ SaveAssessment(h) \/ FlagPayment(h)
  \/ \E a \in 1 .. MaxRequests, r \in Reviewers, approved \in BOOLEAN :
       LoadAssessment(h, a, r, approved)
  \/ CompareReview(h) \/ UpdateReview(h) \/ Fails(h)

Next ==
  \/ \E h \in Handlers : Step(h)
  \/ \E p \in PaymentIds, amount \in PaidAmounts : Pay(p, amount)
  \/ HourPasses

Spec == Init /\ [][Next]_vars

-----------------------------------------------------------------------------
(* An assessment is blocked only by a reviewer: with the two flags that are   *)
(* raised the score does not reach CRITICAL, whatever the user pays.          *)
BlockedOnlyByReviewer ==
  \A a \in DOMAIN assessments : assessments[a].blocked => assessments[a].reviewedBy # Nobody

(* A payment is marked high risk only if an assessment of it says why,        *)
(* wherever the requests that made them were cut short.                       *)
MarkedWasAssessed ==
  \A p \in DOMAIN payments :
    HighRisk(payments[p].score) =>
      \E a \in DOMAIN assessments :
        assessments[a].payment = p /\ HighRisk(assessments[a].score)

(* Between assessments, a payment's mark is that of the latest one of it,     *)
(* unless two of them overlapped or one failed between its two writes.        *)
MarkFollowsLatest ==
  \A p \in DOMAIN payments \ contested :
    Assessing(p) = {} =>
      \A a \in DOMAIN assessments :
        (/\ assessments[a].payment = p
         /\ \A b \in DOMAIN assessments : assessments[b].payment = p => b <= a)
          => payments[p].score = assessments[a].score

(* The last review stands, its reviewer with his own verdict, unless another  *)
(* review of the same assessment overlapped: then the columns of the two may  *)
(* be mixed.                                                                  *)
LastReviewStands ==
  \A a \in 1 .. MaxRequests :
    (a \notin disputed /\ verdict[a].by # Nobody) =>
      /\ assessments[a].reviewedBy = verdict[a].by
      /\ assessments[a].blocked = ~verdict[a].approved
=============================================================================
