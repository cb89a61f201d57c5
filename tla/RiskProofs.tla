------------------------------ MODULE RiskProofs ------------------------------
(***************************************************************************)
(* Types, blocks, marks and verdicts, for any number of payments, handlers, *)
(* reviewers and requests.                                                 *)
(***************************************************************************)
EXTENDS Risk, TLAPS

USE RiskAssumption

-----------------------------------------------------------------------------
(* The score.                                                               *)

\* Two flags of four can be raised.
LEMMA ScoreRange == ASSUME NEW amount PROVE Score(amount) \in {0, 15, 20, 35}
<1>1. Weight(UnusualLocation("here"), 15) = 0 /\ Weight(DeviceChange("phone"), 10) = 0
  BY DEF Weight, UnusualLocation, UserLocation, DeviceChange, TrustedDevices
<1>2. Weight(LargeTransaction(amount), 20) \in {0, 20} /\ Weight(RapidSuccession, 15) \in {0, 15}
  BY DEF Weight
<1> QED
  BY <1>1, <1>2 DEF Score

LEMMA NoScoreBlocks == ASSUME NEW s \in 0 .. 35 PROVE ~Blocked(s)
BY DEF Blocked

-----------------------------------------------------------------------------
(* Types, jobs and marks.                                                   *)

\* A job about a payment finds its row, with a score that does not block; the score about to
\* be written to a payment is that of one of its assessments.
JobsRight ==
  \A h \in Handlers :
    /\ handler[h].at \in {"save", "flag"} =>
         /\ handler[h].payment \in DOMAIN payments \union {NoPayment}
         /\ handler[h].score \in 0 .. 35
    /\ handler[h].at = "flag" =>
         /\ handler[h].payment # NoPayment
         /\ \E a \in DOMAIN assessments :
              /\ assessments[a].payment = handler[h].payment
              /\ assessments[a].score = handler[h].score

\* An assessment is of a payment that is there, and a payment's score is from one of them.
MarksRight ==
  /\ \A a \in DOMAIN assessments : assessments[a].payment \in DOMAIN payments \union {NoPayment}
  /\ \A p \in DOMAIN payments :
       payments[p].score # 0 =>
         \E a \in DOMAIN assessments :
           assessments[a].payment = p /\ assessments[a].score = payments[p].score

MarkInv == TypeOK /\ JobsRight /\ MarksRight

\* The kinds of jobs.
LEMMA Kinds ==
  ASSUME TypeOK, NEW h \in Handlers
  PROVE  /\ handler[h].at \in {"save", "flag"} => handler[h] \in AssessmentJobs
         /\ handler[h].at \in {"compare", "update"} =>
              handler[h] \in ReviewJobs /\ handler[h].assessment \in DOMAIN assessments
         /\ handler[h].at \in {"idle", "save", "flag", "compare", "update"}
<1>1. handler[h] \in {Idle} \union AssessmentJobs \union ReviewJobs
  BY DEF TypeOK
<1>2. handler[h] \in ReviewJobs => handler[h].assessment \in DOMAIN assessments
  BY DEF TypeOK, ReviewJobs
<1> QED
  BY <1>1, <1>2 DEF Idle, AssessmentJobs, ReviewJobs

\* What a step does to the assessments: it leaves them, appends one, or replaces one.
LEMMA Appended ==
  ASSUME TypeOK, NEW x \in Assessments, assessments' = Append(assessments, x)
  PROVE  /\ assessments' \in Seq(Assessments)
         /\ DOMAIN assessments' = DOMAIN assessments \union {Len(assessments) + 1}
         /\ Len(assessments) + 1 \notin DOMAIN assessments
         /\ assessments'[Len(assessments) + 1] = x
         /\ \A a \in DOMAIN assessments : assessments'[a] = assessments[a]
         /\ \A a \in DOMAIN assessments : a \in Nat /\ a <= Len(assessments)
         /\ Len(assessments) \in Nat /\ Len(assessments') = Len(assessments) + 1
BY DEF TypeOK

\* The effects of the actions that the invariants are about.
LEMMA SaveEffect ==
  ASSUME MarkInv, NEW h \in Handlers, SaveAssessment(h)
  PROVE  LET p == handler[h].payment
             x == [payment |-> p, score |-> handler[h].score, blocked |-> FALSE,
                   reviewedBy |-> Nobody]
             j == IF p = NoPayment THEN Idle ELSE [handler[h] EXCEPT !.at = "flag"]
         IN /\ handler[h] \in AssessmentJobs /\ x \in Assessments
            /\ p \in DOMAIN payments \union {NoPayment} /\ handler[h].score \in 0 .. 35
            /\ assessments' = Append(assessments, x)
            /\ handler' = [handler EXCEPT ![h] = j]
            /\ UNCHANGED <<requests, payments, contested, disputed, verdict>>
<1>1. /\ handler[h] \in AssessmentJobs /\ handler[h].score \in 0 .. 35
      /\ handler[h].payment \in DOMAIN payments \union {NoPayment}
  BY Kinds DEF SaveAssessment, At, MarkInv, JobsRight
<1>2. handler[h].payment \in PaymentIds \union {NoPayment}
  BY <1>1 DEF AssessmentJobs
<1> DEFINE x == [payment |-> handler[h].payment, score |-> handler[h].score, blocked |-> FALSE,
                 reviewedBy |-> Nobody]
<1>3. Blocked(handler[h].score) = FALSE
  BY <1>1 DEF Blocked
<1>4. x \in Assessments
  BY <1>1, <1>2 DEF Assessments
<1>5. assessments' = Append(assessments, x)
  BY <1>3 DEF SaveAssessment
<1> QED
  BY <1>1, <1>4, <1>5 DEF SaveAssessment, Ends

LEMMA UpdateEffect ==
  ASSUME TypeOK, NEW h \in Handlers, UpdateReview(h)
  PROVE  LET job == handler[h]
             a == job.assessment
         IN /\ job \in ReviewJobs /\ job.at = "update" /\ a \in DOMAIN assessments
            /\ assessments' \in Seq(Assessments) /\ DOMAIN assessments' = DOMAIN assessments
            /\ \A b \in DOMAIN assessments \ {a} : assessments'[b] = assessments[b]
            /\ assessments'[a].payment = assessments[a].payment
            /\ assessments'[a].score = assessments[a].score
            /\ assessments'[a].blocked = IF "blocked" \in job.changed THEN ~job.approved
                                         ELSE assessments[a].blocked
            /\ assessments'[a].reviewedBy = IF "reviewedBy" \in job.changed THEN job.reviewer
                                            ELSE assessments[a].reviewedBy
            /\ handler' = [handler EXCEPT ![h] = Idle]
            /\ verdict' = [verdict EXCEPT ![a] = [by |-> job.reviewer, approved |-> job.approved]]
            /\ UNCHANGED <<requests, payments, contested, disputed>>
<1> DEFINE job == handler[h]  a == job.assessment  row == assessments[a]
           r == IF "reviewedBy" \in job.changed THEN job.reviewer ELSE row.reviewedBy
           b == IF "blocked" \in job.changed THEN ~job.approved ELSE row.blocked
           x == [row EXCEPT !.reviewedBy = r, !.blocked = b]
<1>1. job \in ReviewJobs /\ job.at = "update" /\ a \in DOMAIN assessments
  BY Kinds DEF UpdateReview, At
<1>2. row \in Assessments /\ job.reviewer \in Reviewers /\ job.approved \in BOOLEAN
  BY <1>1 DEF TypeOK, ReviewJobs
<1>3. r \in Reviewers \union {Nobody} /\ b \in BOOLEAN
  BY <1>2 DEF Assessments
<1>4. assessments' = [assessments EXCEPT ![a] = x]
  BY DEF UpdateReview
<1>5. /\ x \in Assessments
      /\ x.payment = row.payment /\ x.score = row.score /\ x.blocked = b /\ x.reviewedBy = r
  <2> HIDE DEF row, r, b
  <2> QED
    BY <1>2, <1>3 DEF Assessments
<1> HIDE DEF x
<1>6. /\ assessments' \in Seq(Assessments) /\ DOMAIN assessments' = DOMAIN assessments
      /\ \A c \in DOMAIN assessments \ {a} : assessments'[c] = assessments[c]
      /\ assessments'[a] = x
  <2>1. assessments \in Seq(Assessments)
    BY DEF TypeOK
  <2> HIDE DEF a
  <2> QED
    BY <1>1, <1>4, <1>5, <2>1
<1> QED
  BY <1>1, <1>5, <1>6 DEF UpdateReview, Ends

LEMMA PayEffect ==
  ASSUME TypeOK, NEW p \in PaymentIds, NEW amount \in PaidAmounts, Pay(p, amount)
  PROVE  /\ p \notin DOMAIN payments /\ DOMAIN payments' = DOMAIN payments \union {p}
         /\ payments'[p] = [amount |-> amount, recent |-> TRUE, score |-> 0]
         /\ payments'[p] \in Payments /\ payments'[p].score = 0
         /\ \A q \in DOMAIN payments : payments'[q] = payments[q]
         /\ UNCHANGED <<requests, assessments, handler, contested, disputed, verdict>>
BY DEF Pay, Payments

LEMMA HourEffect ==
  ASSUME TypeOK, HourPasses
  PROVE  /\ DOMAIN payments' = DOMAIN payments
         /\ \A q \in DOMAIN payments : /\ payments'[q] \in Payments
                                       /\ payments'[q].score = payments[q].score
         /\ UNCHANGED <<requests, assessments, handler, contested, disputed, verdict>>
BY DEF HourPasses, TypeOK, Payments

LEMMA FlagEffect ==
  ASSUME MarkInv, NEW h \in Handlers, FlagPayment(h)
  PROVE  LET p == handler[h].payment
         IN /\ p \in DOMAIN payments /\ handler[h].at = "flag"
            /\ DOMAIN payments' = DOMAIN payments
            /\ \A q \in DOMAIN payments : payments'[q] \in Payments
            /\ payments'[p].score = handler[h].score
            /\ \A q \in DOMAIN payments \ {p} : payments'[q] = payments[q]
            /\ handler' = [handler EXCEPT ![h] = Idle]
            /\ UNCHANGED <<requests, assessments, contested, disputed, verdict>>
<1> DEFINE p == handler[h].payment
<1>1. p \in DOMAIN payments /\ handler[h].at = "flag" /\ handler[h].score \in 0 .. 35
  BY DEF FlagPayment, At, MarkInv, JobsRight
<1>2. payments' = [payments EXCEPT ![p].score = handler[h].score]
  BY DEF FlagPayment
<1>3. \A q \in DOMAIN payments : payments[q] \in Payments
  BY DEF MarkInv, TypeOK
<1>4. \A q \in DOMAIN payments \ {p} : payments'[q] = payments[q]
  BY <1>2
<1>5. payments'[p] = [payments[p] EXCEPT !.score = handler[h].score]
  BY <1>1, <1>2
<1>6. payments'[p] \in Payments /\ payments'[p].score = handler[h].score
  BY <1>1, <1>3, <1>5 DEF Payments
<1> QED
  BY <1>1, <1>2, <1>3, <1>4, <1>6 DEF FlagPayment, Ends

LEMMA MarkInit == Init => MarkInv
<1> SUFFICES ASSUME Init PROVE MarkInv
  OBVIOUS
<1>1. DOMAIN payments = {} /\ assessments = <<>> /\ \A h \in Handlers : handler[h] = Idle
  BY DEF Init, NoRows
<1>2. handler \in [Handlers -> {Idle} \union AssessmentJobs \union ReviewJobs]
  BY DEF Init
<1>3. verdict \in [1 .. MaxRequests -> Verdicts]
  BY DEF Init, Verdicts
<1>4. TypeOK
  <2>1. \A h \in Handlers : handler[h] \notin ReviewJobs
    BY <1>1 DEF Idle, ReviewJobs
  <2>2. /\ assessments \in Seq(Assessments) /\ requests \in 0 .. MaxRequests
        /\ contested \subseteq PaymentIds /\ disputed \subseteq 1 .. MaxRequests
    BY <1>1 DEF Init
  <2> QED
    BY <1>1, <1>2, <1>3, <2>1, <2>2 DEF TypeOK
<1> QED
  BY <1>1, <1>4 DEF MarkInv, JobsRight, MarksRight, Idle

\* A step that leaves payments and assessments alone, and gives a handler a job that is right.
LEMMA MarkHandler ==
  ASSUME MarkInv, UNCHANGED <<payments, assessments>>, TypeOK', NEW h \in Handlers,
         NEW j, handler' = [handler EXCEPT ![h] = j],
         \/ j.at \notin {"save", "flag"}
         \/ /\ j.at = "save" /\ j.payment \in DOMAIN payments \union {NoPayment}
            /\ j.score \in 0 .. 35
  PROVE  MarkInv'
<1>1. \A k \in Handlers : handler'[k] = IF k = h THEN j ELSE handler[k]
  BY DEF MarkInv, TypeOK
<1> QED
  BY <1>1 DEF MarkInv, JobsRight, MarksRight

LEMMA MarkStep == MarkInv /\ [Next]_vars => MarkInv'
<1> SUFFICES ASSUME MarkInv, [Next]_vars PROVE MarkInv'
  OBVIOUS
<1>T. /\ DOMAIN payments \subseteq PaymentIds
      /\ \A p \in DOMAIN payments : payments[p] \in Payments
      /\ assessments \in Seq(Assessments)
      /\ handler \in [Handlers -> {Idle} \union AssessmentJobs \union ReviewJobs]
      /\ \A h \in Handlers : handler[h] \in ReviewJobs => handler[h].assessment <= Len(assessments)
      /\ requests \in 0 .. MaxRequests
      /\ contested \subseteq PaymentIds /\ disputed \subseteq 1 .. MaxRequests
      /\ verdict \in [1 .. MaxRequests -> Verdicts]
  BY DEF MarkInv, TypeOK
<1>I. Idle.at = "idle" /\ Idle \notin ReviewJobs
  BY DEF Idle, ReviewJobs
<1>1. ASSUME NEW h \in Handlers, NEW p \in PaymentIds \union {NoPayment},
             NEW amount \in AskedAmounts, LoadPayments(h, p, amount)
      PROVE  MarkInv'
  <2> DEFINE s == Score(amount)  j == [at |-> "save", payment |-> p, score |-> s]
  <2>1. s \in {0, 15, 20, 35}
    BY ScoreRange
  <2> HIDE DEF s
  <2>2. /\ j \in AssessmentJobs /\ j.at = "save" /\ j.payment = p /\ j.score \in 0 .. 35
        /\ j \notin ReviewJobs
    BY <2>1 DEF AssessmentJobs, ReviewJobs
  <2>3. /\ handler' = [handler EXCEPT ![h] = j] /\ p \in DOMAIN payments \union {NoPayment}
        /\ requests' \in 0 .. MaxRequests /\ contested' \subseteq PaymentIds
        /\ UNCHANGED <<payments, assessments, disputed, verdict>>
    BY <1>T, <1>1 DEF LoadPayments, Arrives, s
  <2> HIDE DEF j
  <2>4. TypeOK'
    BY <1>T, <2>2, <2>3 DEF TypeOK
  <2> QED
    BY <2>2, <2>3, <2>4, MarkHandler
<1>2. ASSUME NEW h \in Handlers, SaveAssessment(h) PROVE MarkInv'
  <2> DEFINE p == handler[h].payment
             x == [payment |-> p, score |-> handler[h].score, blocked |-> FALSE,
                   reviewedBy |-> Nobody]
             j == IF p = NoPayment THEN Idle ELSE [handler[h] EXCEPT !.at = "flag"]
             n == Len(assessments) + 1
  <2>1. /\ handler[h] \in AssessmentJobs /\ x \in Assessments
        /\ p \in DOMAIN payments \union {NoPayment} /\ handler[h].score \in 0 .. 35
        /\ assessments' = Append(assessments, x)
        /\ handler' = [handler EXCEPT ![h] = j]
        /\ UNCHANGED <<requests, payments, contested, disputed, verdict>>
    BY <1>2, SaveEffect
  <2>2. j = Idle \/ (/\ j \in AssessmentJobs /\ j \notin ReviewJobs /\ j.at = "flag"
                     /\ j.payment = p /\ p # NoPayment /\ j.score = handler[h].score)
    BY <2>1 DEF AssessmentJobs, ReviewJobs
  <2>3. x.payment = p /\ x.score = handler[h].score
    OBVIOUS
  <2> HIDE DEF x, j
  <2>4. /\ assessments' \in Seq(Assessments)
        /\ DOMAIN assessments' = DOMAIN assessments \union {n}
        /\ assessments'[n] = x /\ \A a \in DOMAIN assessments : assessments'[a] = assessments[a]
        /\ Len(assessments) \in Nat /\ Len(assessments') = n
    BY <2>1, Appended DEF MarkInv
  <2> HIDE DEF n
  <2>5. \A k \in Handlers : handler'[k] = IF k = h THEN j ELSE handler[k]
    BY <1>T, <2>1
  <2>6. TypeOK'
    <3>1. \A k \in Handlers : handler'[k] \in ReviewJobs
            => handler'[k].assessment <= Len(assessments')
      <4> SUFFICES ASSUME NEW k \in Handlers, handler'[k] \in ReviewJobs
                   PROVE  handler'[k].assessment <= Len(assessments')
        OBVIOUS
      <4>1. handler'[k] = handler[k]
        BY <1>I, <2>2, <2>5
      <4>2. handler[k].assessment \in Nat /\ handler[k].assessment <= Len(assessments)
        BY <1>T, <4>1 DEF ReviewJobs
      <4> QED
        BY <2>4, <4>1, <4>2 DEF n
    <3> QED
      BY <1>T, <2>1, <2>2, <2>4, <3>1 DEF TypeOK
  <2>7. JobsRight'
    <3> SUFFICES ASSUME NEW k \in Handlers
                 PROVE  /\ handler'[k].at \in {"save", "flag"} =>
                             /\ handler'[k].payment \in DOMAIN payments \union {NoPayment}
                             /\ handler'[k].score \in 0 .. 35
                        /\ handler'[k].at = "flag" =>
                             /\ handler'[k].payment # NoPayment
                             /\ \E a \in DOMAIN assessments' :
                                  /\ assessments'[a].payment = handler'[k].payment
                                  /\ assessments'[a].score = handler'[k].score
      BY <2>1 DEF JobsRight
    <3>1. CASE k = h
      <4>1. handler'[k] = j
        BY <2>5, <3>1
      <4>2. CASE j = Idle
        BY <1>I, <4>1, <4>2
      <4>3. CASE /\ j.at = "flag" /\ j.payment = p /\ p # NoPayment
                 /\ j.score = handler[h].score
        <5>1. /\ n \in DOMAIN assessments' /\ assessments'[n].payment = j.payment
              /\ assessments'[n].score = j.score
          BY <2>3, <2>4, <4>3
        <5> QED
          BY <2>1, <4>1, <4>3, <5>1
      <4> QED
        BY <2>2, <4>2, <4>3
    <3>2. CASE k # h
      BY <2>4, <2>5, <3>2 DEF MarkInv, JobsRight
    <3> QED
      BY <3>1, <3>2
  <2>8. MarksRight'
    BY <2>1, <2>3, <2>4 DEF MarkInv, MarksRight
  <2> QED
    BY <2>6, <2>7, <2>8 DEF MarkInv
<1>3. ASSUME NEW h \in Handlers, FlagPayment(h) PROVE MarkInv'
  <2> DEFINE p == handler[h].payment
  <2>1. /\ p \in DOMAIN payments /\ handler[h].at = "flag"
        /\ DOMAIN payments' = DOMAIN payments
        /\ \A q \in DOMAIN payments : payments'[q] \in Payments
        /\ payments'[p].score = handler[h].score
        /\ \A q \in DOMAIN payments \ {p} : payments'[q] = payments[q]
        /\ handler' = [handler EXCEPT ![h] = Idle]
        /\ UNCHANGED <<requests, assessments, contested, disputed, verdict>>
    BY <1>3, FlagEffect
  <2>2. \A k \in Handlers : handler'[k] = IF k = h THEN Idle ELSE handler[k]
    BY <1>T, <2>1
  <2>3. TypeOK'
    BY <1>T, <1>I, <2>1, <2>2 DEF TypeOK
  <2>4. JobsRight'
    BY <1>I, <2>1, <2>2 DEF MarkInv, JobsRight
  <2>5. \E a \in DOMAIN assessments :
          assessments[a].payment = p /\ assessments[a].score = handler[h].score
    BY <2>1 DEF MarkInv, JobsRight
  <2> HIDE DEF p
  <2>6. MarksRight'
    BY <2>1, <2>5 DEF MarkInv, MarksRight
  <2> QED
    BY <2>3, <2>4, <2>6 DEF MarkInv
<1>4. ASSUME NEW h \in Handlers, NEW a \in 1 .. MaxRequests, NEW r \in Reviewers,
             NEW approved \in BOOLEAN, LoadAssessment(h, a, r, approved)
      PROVE  MarkInv'
  <2> DEFINE j == [at |-> "compare", assessment |-> a, reviewer |-> r, approved |-> approved,
                   changed |-> {}]
  <2>1. j \in ReviewJobs /\ j.at = "compare" /\ j.assessment = a
    BY DEF ReviewJobs
  <2> HIDE DEF j
  <2>2. /\ handler' = [handler EXCEPT ![h] = j] /\ a \in DOMAIN assessments
        /\ requests' \in 0 .. MaxRequests /\ disputed' \subseteq 1 .. MaxRequests
        /\ UNCHANGED <<payments, assessments, contested, verdict>>
    BY <1>T, <1>4 DEF LoadAssessment, Arrives, j
  <2>3. a <= Len(assessments)
    BY <1>T, <2>2
  <2>4. TypeOK'
    BY <1>T, <2>1, <2>2, <2>3 DEF TypeOK
  <2> QED
    BY <2>1, <2>2, <2>4, MarkHandler
<1>5. ASSUME NEW h \in Handlers, CompareReview(h) PROVE MarkInv'
  <2> DEFINE c == Changed(handler[h], assessments[handler[h].assessment])
             j == [handler[h] EXCEPT !.at = "update", !.changed = c]
  <2>1. handler[h] \in ReviewJobs
    BY <1>5, Kinds DEF CompareReview, At, MarkInv
  <2>2. c \subseteq {"reviewedBy", "blocked"}
    BY DEF Changed
  <2>3. handler' = [handler EXCEPT ![h] = j]
    BY <1>5, <1>T DEF CompareReview
  <2> HIDE DEF c
  <2>4. j \in ReviewJobs /\ j.at = "update" /\ j.assessment = handler[h].assessment
    BY <2>1, <2>2 DEF ReviewJobs
  <2> HIDE DEF j
  <2>5. UNCHANGED <<requests, payments, assessments, contested, disputed, verdict>>
    BY <1>5 DEF CompareReview
  <2>6. TypeOK'
    BY <1>T, <2>1, <2>3, <2>4, <2>5 DEF TypeOK
  <2> QED
    BY <2>3, <2>4, <2>5, <2>6, MarkHandler
<1>6. ASSUME NEW h \in Handlers, UpdateReview(h) PROVE MarkInv'
  <2> DEFINE job == handler[h]  a == job.assessment
  <2>1. /\ job \in ReviewJobs /\ a \in DOMAIN assessments
        /\ assessments' \in Seq(Assessments) /\ DOMAIN assessments' = DOMAIN assessments
        /\ \A b \in DOMAIN assessments : /\ assessments'[b].payment = assessments[b].payment
                                         /\ assessments'[b].score = assessments[b].score
        /\ handler' = [handler EXCEPT ![h] = Idle]
        /\ verdict' = [verdict EXCEPT ![a] = [by |-> job.reviewer, approved |-> job.approved]]
        /\ UNCHANGED <<requests, payments, contested, disputed>>
    BY <1>6, UpdateEffect DEF MarkInv
  <2>2. verdict' \in [1 .. MaxRequests -> Verdicts]
    BY <1>T, <2>1 DEF ReviewJobs, Verdicts
  <2>3. Len(assessments') = Len(assessments)
    BY <1>T, <2>1
  <2>4. \A k \in Handlers : handler'[k] = IF k = h THEN Idle ELSE handler[k]
    BY <1>T, <2>1
  <2>5. TypeOK'
    BY <1>T, <1>I, <2>1, <2>2, <2>3, <2>4 DEF TypeOK
  <2> HIDE DEF job, a
  <2>6. JobsRight' /\ MarksRight'
    <3>1. JobsRight'
      BY <1>I, <2>1, <2>4 DEF MarkInv, JobsRight
    <3>2. MarksRight'
      BY <2>1 DEF MarkInv, MarksRight
    <3> QED
      BY <3>1, <3>2
  <2> QED
    BY <2>5, <2>6 DEF MarkInv
<1>7. ASSUME NEW p \in PaymentIds, NEW amount \in PaidAmounts, Pay(p, amount) PROVE MarkInv'
  <2>1. /\ p \notin DOMAIN payments /\ DOMAIN payments' = DOMAIN payments \union {p}
        /\ payments'[p] \in Payments /\ payments'[p].score = 0
        /\ \A q \in DOMAIN payments : payments'[q] = payments[q]
        /\ UNCHANGED <<requests, assessments, handler, contested, disputed, verdict>>
    BY <1>7, PayEffect DEF MarkInv
  <2>2. TypeOK'
    BY <1>T, <2>1 DEF TypeOK
  <2> QED
    BY <2>1, <2>2 DEF MarkInv, JobsRight, MarksRight
<1>8. ASSUME HourPasses PROVE MarkInv'
  <2>1. /\ DOMAIN payments' = DOMAIN payments
        /\ \A q \in DOMAIN payments : /\ payments'[q] \in Payments
                                      /\ payments'[q].score = payments[q].score
        /\ UNCHANGED <<requests, assessments, handler, contested, disputed, verdict>>
    BY <1>8, HourEffect DEF MarkInv
  <2>2. TypeOK'
    BY <1>T, <2>1 DEF TypeOK
  <2> QED
    BY <2>1, <2>2 DEF MarkInv, JobsRight, MarksRight
<1>9. ASSUME NEW h \in Handlers, Fails(h) PROVE MarkInv'
  <2>1. /\ handler' = [handler EXCEPT ![h] = Idle]
        /\ UNCHANGED <<requests, payments, assessments, disputed, verdict>>
    BY <1>9 DEF Fails, Ends
  <2>2. contested' \subseteq PaymentIds
    <3>1. CASE handler[h].at = "flag"
      BY <1>9, <1>T, <3>1 DEF Fails, MarkInv, JobsRight
    <3>2. CASE handler[h].at # "flag"
      BY <1>9, <1>T, <3>2 DEF Fails
    <3> QED
      BY <3>1, <3>2
  <2>3. \A k \in Handlers : handler'[k] = IF k = h THEN Idle ELSE handler[k]
    BY <1>T, <2>1
  <2>4. TypeOK'
    BY <1>T, <1>I, <2>1, <2>2, <2>3 DEF TypeOK
  <2> QED
    BY <1>I, <2>1, <2>4, MarkHandler
<1>10. ASSUME UNCHANGED vars PROVE MarkInv'
  BY <1>10 DEF vars, MarkInv, TypeOK, JobsRight, MarksRight
<1> QED
  BY <1>1, <1>2, <1>3, <1>4, <1>5, <1>6, <1>7, <1>8, <1>9, <1>10 DEF Next, Step

\* Every row, job and verdict is well typed; in particular a score is never above sixty.
THEOREM RiskTypes == Spec => []TypeOK
<1>1. MarkInv => TypeOK
  BY DEF MarkInv
<1> QED
  BY <1>1, MarkInit, MarkStep, PTL DEF Spec

\* A payment is marked high risk only if an assessment of it says why.
THEOREM MarksAreAssessed == Spec => []MarkedWasAssessed
<1>1. MarkInv => MarkedWasAssessed
  BY DEF MarkInv, MarksRight, MarkedWasAssessed, HighRisk
<1> QED
  BY <1>1, MarkInit, MarkStep, PTL DEF Spec

-----------------------------------------------------------------------------
(* Blocks and verdicts.                                                     *)

\* A review that will not write its reviewer's name found one there.
NamesRight ==
  \A h \in Handlers :
    handler[h].at = "update" /\ "reviewedBy" \notin handler[h].changed
      => assessments[handler[h].assessment].reviewedBy # Nobody

\* Unless reviews of an assessment overlapped, there is one at a time, and what it found to
\* differ still does; and what was reviewed is there.
ReviewsRight ==
  /\ \A h \in Handlers :
       handler[h].at \in {"compare", "update"} /\ handler[h].assessment \notin disputed =>
         /\ \A k \in Reviewing(handler[h].assessment) : k = h
         /\ handler[h].at = "update" =>
              handler[h].changed = Changed(handler[h], assessments[handler[h].assessment])
  /\ \A a \in 1 .. MaxRequests : verdict[a].by # Nobody => a \in DOMAIN assessments

ReviewInv == BlockedOnlyByReviewer /\ NamesRight /\ ReviewsRight /\ LastReviewStands

LEMMA ReviewInit == Init => ReviewInv
<1> SUFFICES ASSUME Init PROVE ReviewInv
  OBVIOUS
<1>1. /\ assessments = <<>> /\ \A h \in Handlers : handler[h].at = "idle"
      /\ \A a \in 1 .. MaxRequests : verdict[a].by = Nobody
  BY DEF Init, Idle
<1> QED
  BY <1>1 DEF ReviewInv, BlockedOnlyByReviewer, NamesRight, ReviewsRight, LastReviewStands

\* A step that is about no review: what was assessed stays, an assessment may come that is
\* not blocked, and one handler may get a job that is no review.
LEMMA NoReview ==
  ASSUME ReviewInv, TypeOK, UNCHANGED <<disputed, verdict>>,
         DOMAIN assessments \subseteq DOMAIN assessments',
         \A a \in DOMAIN assessments : assessments'[a] = assessments[a],
         \A a \in DOMAIN assessments' \ DOMAIN assessments : ~assessments'[a].blocked,
         \A h \in Handlers : handler'[h] = handler[h]
                               \/ handler'[h].at \in {"idle", "save", "flag"}
  PROVE  ReviewInv'
<1>1. \A h \in Handlers : handler'[h].at \in {"compare", "update"} =>
        handler'[h] = handler[h] /\ handler[h].assessment \in DOMAIN assessments
  BY Kinds
<1>2. \A a : Reviewing(a)' \subseteq Reviewing(a)
  BY <1>1 DEF Reviewing
<1>3. BlockedOnlyByReviewer' /\ NamesRight'
  BY <1>1 DEF ReviewInv, BlockedOnlyByReviewer, NamesRight
<1>4. ReviewsRight'
  BY <1>1, <1>2 DEF ReviewInv, ReviewsRight, Changed
<1>5. LastReviewStands'
  BY DEF ReviewInv, ReviewsRight, LastReviewStands
<1> QED
  BY <1>3, <1>4, <1>5 DEF ReviewInv

LEMMA ReviewStep == MarkInv /\ ReviewInv /\ [Next]_vars => ReviewInv'
<1> SUFFICES ASSUME MarkInv, ReviewInv, [Next]_vars PROVE ReviewInv'
  OBVIOUS
<1>T. /\ TypeOK
      /\ handler \in [Handlers -> {Idle} \union AssessmentJobs \union ReviewJobs]
      /\ verdict \in [1 .. MaxRequests -> Verdicts]
      /\ \A a \in DOMAIN assessments : assessments[a] \in Assessments
  BY DEF MarkInv, TypeOK
<1>I. Idle.at = "idle"
  BY DEF Idle
<1>1. ASSUME NEW h \in Handlers, NEW j, handler' = [handler EXCEPT ![h] = j],
             j.at \in {"idle", "save", "flag"}, UNCHANGED <<assessments, disputed, verdict>>
      PROVE  ReviewInv'
  <2>1. \A k \in Handlers : handler'[k] = IF k = h THEN j ELSE handler[k]
    BY <1>T, <1>1
  <2> QED
    BY <1>T, <1>1, <2>1, NoReview
<1>2. ASSUME NEW h \in Handlers, NEW p \in PaymentIds \union {NoPayment},
             NEW amount \in AskedAmounts, LoadPayments(h, p, amount)
      PROVE  ReviewInv'
  <2>1. /\ handler' = [handler EXCEPT ![h] =
                         [at |-> "save", payment |-> p, score |-> Score(amount)]]
        /\ UNCHANGED <<assessments, disputed, verdict>>
    BY <1>2 DEF LoadPayments
  <2>2. [at |-> "save", payment |-> p, score |-> Score(amount)].at = "save"
    OBVIOUS
  <2> QED
    BY <1>1, <2>1, <2>2
<1>3. ASSUME NEW h \in Handlers, SaveAssessment(h) PROVE ReviewInv'
  <2> DEFINE p == handler[h].payment
             x == [payment |-> p, score |-> handler[h].score, blocked |-> FALSE,
                   reviewedBy |-> Nobody]
             j == IF p = NoPayment THEN Idle ELSE [handler[h] EXCEPT !.at = "flag"]
  <2>1. /\ handler[h] \in AssessmentJobs /\ x \in Assessments
        /\ assessments' = Append(assessments, x)
        /\ handler' = [handler EXCEPT ![h] = j]
        /\ UNCHANGED <<disputed, verdict>>
    BY <1>3, SaveEffect
  <2>2. j.at \in {"idle", "flag"}
    BY <1>I, <2>1 DEF AssessmentJobs
  <2>3. ~x.blocked
    OBVIOUS
  <2> HIDE DEF x, j
  <2>4. /\ DOMAIN assessments' = DOMAIN assessments \union {Len(assessments) + 1}
        /\ assessments'[Len(assessments) + 1] = x
        /\ \A a \in DOMAIN assessments : assessments'[a] = assessments[a]
    BY <1>T, <2>1, Appended
  <2>5. \A k \in Handlers : handler'[k] = IF k = h THEN j ELSE handler[k]
    BY <1>T, <2>1
  <2> QED
    BY <1>T, <2>1, <2>2, <2>3, <2>4, <2>5, NoReview
<1>4. ASSUME NEW h \in Handlers, FlagPayment(h) \/ Fails(h) PROVE ReviewInv'
  BY <1>1, <1>4, <1>I DEF FlagPayment, Fails, Ends
<1>5. ASSUME NEW h \in Handlers, NEW a \in 1 .. MaxRequests, NEW r \in Reviewers,
             NEW approved \in BOOLEAN, LoadAssessment(h, a, r, approved)
      PROVE  ReviewInv'
  <2> DEFINE j == [at |-> "compare", assessment |-> a, reviewer |-> r, approved |-> approved,
                   changed |-> {}]
  <2>1. j.at = "compare" /\ j.assessment = a
    OBVIOUS
  <2>2. /\ handler' = [handler EXCEPT ![h] = j] /\ handler[h].at = "idle"
        /\ disputed' = IF Reviewing(a) # {} THEN disputed \union {a} ELSE disputed
        /\ UNCHANGED <<assessments, verdict>>
    BY <1>5 DEF LoadAssessment, Arrives, At
  <2> HIDE DEF j
  <2>3. \A k \in Handlers : handler'[k] = IF k = h THEN j ELSE handler[k]
    BY <1>T, <2>2
  <2>4. \A b : Reviewing(b)' = IF b = a THEN Reviewing(a) \union {h} ELSE Reviewing(b)
    BY <2>1, <2>2, <2>3 DEF Reviewing
  <2>5. BlockedOnlyByReviewer' /\ NamesRight' /\ LastReviewStands'
    BY <2>1, <2>2, <2>3
    DEF ReviewInv, BlockedOnlyByReviewer, NamesRight, LastReviewStands
  <2>6. ReviewsRight'
    <3> SUFFICES ASSUME NEW k \in Handlers, handler'[k].at \in {"compare", "update"},
                        handler'[k].assessment \notin disputed'
                 PROVE  /\ \A l \in Reviewing(handler[k].assessment)' : l = k
                        /\ handler'[k].at = "update" =>
                             handler'[k].changed =
                               Changed(handler'[k], assessments'[handler'[k].assessment])
      BY <2>2 DEF ReviewInv, ReviewsRight
    <3>1. CASE k = h
      <4>1. Reviewing(a) = {}
        BY <2>1, <2>2, <2>3, <3>1
      <4> QED
        BY <2>1, <2>3, <2>4, <3>1, <4>1
    <3>2. CASE k # h
      <4>1. handler'[k] = handler[k] /\ k \in Reviewing(handler[k].assessment)
        BY <2>3, <3>2 DEF Reviewing
      <4>2. handler[k].assessment # a /\ handler[k].assessment \notin disputed
        BY <2>2, <4>1
      <4> QED
        BY <2>2, <2>4, <4>1, <4>2 DEF ReviewInv, ReviewsRight
    <3> QED
      BY <3>1, <3>2
  <2> QED
    BY <2>5, <2>6 DEF ReviewInv
<1>6. ASSUME NEW h \in Handlers, CompareReview(h) PROVE ReviewInv'
  <2> DEFINE row == assessments[handler[h].assessment]  c == Changed(handler[h], row)
             j == [handler[h] EXCEPT !.at = "update", !.changed = c]
  <2>1. handler[h] \in ReviewJobs /\ handler[h].at = "compare"
    BY <1>6, <1>T, Kinds DEF CompareReview, At
  <2>2. handler' = [handler EXCEPT ![h] = j] /\ UNCHANGED <<assessments, disputed, verdict>>
    BY <1>6, <1>T DEF CompareReview
  <2>3. "reviewedBy" \notin c => row.reviewedBy # Nobody
    BY <2>1 DEF Changed, ReviewJobs
  <2> HIDE DEF c
  <2>4. /\ j.at = "update" /\ j.assessment = handler[h].assessment /\ j.changed = c
        /\ j.reviewer = handler[h].reviewer /\ j.approved = handler[h].approved
    BY <2>1 DEF ReviewJobs
  <2>5. c = Changed(j, row)
    BY <2>4 DEF c, Changed
  <2> HIDE DEF j
  <2>6. \A k \in Handlers : handler'[k] = IF k = h THEN j ELSE handler[k]
    BY <1>T, <2>2
  <2>7. \A b : Reviewing(b)' = Reviewing(b)
    BY <2>1, <2>4, <2>6 DEF Reviewing
  <2>8. BlockedOnlyByReviewer' /\ LastReviewStands'
    BY <2>2 DEF ReviewInv, BlockedOnlyByReviewer, LastReviewStands
  <2>9. NamesRight'
    BY <2>2, <2>3, <2>4, <2>6 DEF ReviewInv, NamesRight
  <2>10. ReviewsRight'
    <3> SUFFICES ASSUME NEW k \in Handlers, handler'[k].at \in {"compare", "update"},
                        handler'[k].assessment \notin disputed'
                 PROVE  /\ \A l \in Reviewing(handler[k].assessment)' : l = k
                        /\ handler'[k].at = "update" =>
                             handler'[k].changed =
                               Changed(handler'[k], assessments'[handler'[k].assessment])
      BY <2>2 DEF ReviewInv, ReviewsRight
    <3>1. handler'[k].assessment = handler[k].assessment
            /\ handler[k].at \in {"compare", "update"}
      BY <2>1, <2>4, <2>6
    <3>2. \A l \in Reviewing(handler[k].assessment)' : l = k
      <4>1. Reviewing(handler[k].assessment)' = Reviewing(handler[k].assessment)
        BY <2>1, <2>4, <2>6, <3>1 DEF Reviewing
      <4> QED
        BY <2>2, <3>1, <4>1 DEF ReviewInv, ReviewsRight
    <3>3. CASE k = h
      BY <2>2, <2>4, <2>5, <2>6, <3>2, <3>3 DEF row
    <3>4. CASE k # h
      BY <2>2, <2>6, <3>2, <3>4 DEF ReviewInv, ReviewsRight
    <3> QED
      BY <3>3, <3>4
  <2> QED
    BY <2>8, <2>9, <2>10 DEF ReviewInv
<1>7. ASSUME NEW h \in Handlers, UpdateReview(h) PROVE ReviewInv'
  <2> DEFINE job == handler[h]  a == job.assessment  row == assessments[a]
  <2>1. /\ job \in ReviewJobs /\ job.at = "update" /\ a \in DOMAIN assessments
        /\ DOMAIN assessments' = DOMAIN assessments
        /\ \A b \in DOMAIN assessments \ {a} : assessments'[b] = assessments[b]
        /\ assessments'[a].blocked = IF "blocked" \in job.changed THEN ~job.approved
                                     ELSE row.blocked
        /\ assessments'[a].reviewedBy = IF "reviewedBy" \in job.changed THEN job.reviewer
                                        ELSE row.reviewedBy
        /\ handler' = [handler EXCEPT ![h] = Idle]
        /\ verdict' = [verdict EXCEPT ![a] = [by |-> job.reviewer, approved |-> job.approved]]
        /\ UNCHANGED disputed
    BY <1>7, <1>T, UpdateEffect
  <2>2. /\ job.reviewer # Nobody /\ job.approved \in BOOLEAN /\ row.blocked \in BOOLEAN
        /\ a \in 1 .. MaxRequests
    BY <1>T, <2>1 DEF ReviewJobs, Assessments
  <2>3. assessments'[a].reviewedBy # Nobody
    BY <2>1, <2>2 DEF ReviewInv, NamesRight
  <2>4. a \notin disputed =>
          assessments'[a].reviewedBy = job.reviewer /\ assessments'[a].blocked = ~job.approved
    <3> SUFFICES ASSUME a \notin disputed
                 PROVE  assessments'[a].reviewedBy = job.reviewer
                          /\ assessments'[a].blocked = ~job.approved
      OBVIOUS
    <3>1. job.changed = Changed(job, row)
      BY <2>1 DEF ReviewInv, ReviewsRight
    <3>2. "reviewedBy" \in job.changed <=> row.reviewedBy # job.reviewer
      BY <3>1 DEF Changed
    <3>3. "blocked" \in job.changed <=> row.blocked = job.approved
      BY <3>1 DEF Changed
    <3> QED
      BY <2>1, <2>2, <3>2, <3>3
  <2>5. \A k \in Handlers : handler'[k] = IF k = h THEN Idle ELSE handler[k]
    BY <1>T, <2>1
  <2>6. \A b \in 1 .. MaxRequests :
          verdict'[b] = IF b = a THEN [by |-> job.reviewer, approved |-> job.approved]
                        ELSE verdict[b]
    BY <1>T, <2>1
  <2>7. BlockedOnlyByReviewer'
    BY <2>1, <2>3 DEF ReviewInv, BlockedOnlyByReviewer
  <2>8. NamesRight'
    <3> SUFFICES ASSUME NEW k \in Handlers, handler'[k].at = "update",
                        "reviewedBy" \notin handler'[k].changed
                 PROVE  assessments'[handler'[k].assessment].reviewedBy # Nobody
      BY DEF NamesRight
    <3>1. handler'[k] = handler[k] /\ handler[k].assessment \in DOMAIN assessments
      BY <1>I, <1>T, <2>5, Kinds
    <3> QED
      BY <2>1, <2>3, <3>1 DEF ReviewInv, NamesRight
  <2>9. ReviewsRight'
    <3>1. \A b \in 1 .. MaxRequests : verdict'[b].by # Nobody => b \in DOMAIN assessments
      BY <2>1, <2>6 DEF ReviewInv, ReviewsRight
    <3> SUFFICES ASSUME NEW k \in Handlers, handler'[k].at \in {"compare", "update"},
                        handler'[k].assessment \notin disputed'
                 PROVE  /\ \A l \in Reviewing(handler[k].assessment)' : l = k
                        /\ handler'[k].at = "update" =>
                             handler'[k].changed =
                               Changed(handler'[k], assessments'[handler'[k].assessment])
      BY <2>1, <3>1 DEF ReviewsRight
    <3>2. /\ k # h /\ handler'[k] = handler[k] /\ handler[k].assessment \in DOMAIN assessments
          /\ handler[k].assessment \notin disputed
      BY <1>I, <1>T, <2>1, <2>5, Kinds
    <3>3. Reviewing(handler[k].assessment)' \subseteq Reviewing(handler[k].assessment)
      BY <1>I, <2>5, <3>2 DEF Reviewing
    <3>4. \A l \in Reviewing(handler[k].assessment) : l = k
      BY <3>2 DEF ReviewInv, ReviewsRight
    <3>5. handler[k].assessment # a
      BY <2>1, <3>2, <3>4 DEF Reviewing
    <3> QED
      BY <2>1, <3>2, <3>3, <3>4, <3>5 DEF ReviewInv, ReviewsRight
  <2>10. LastReviewStands'
    <3> SUFFICES ASSUME NEW b \in 1 .. MaxRequests, b \notin disputed, verdict'[b].by # Nobody
                 PROVE  /\ assessments'[b].reviewedBy = verdict'[b].by
                        /\ assessments'[b].blocked = ~verdict'[b].approved
      BY <2>1 DEF LastReviewStands
    <3>1. CASE b = a
      BY <2>4, <2>6, <3>1
    <3>2. CASE b # a
      BY <2>1, <2>6, <3>2 DEF ReviewInv, ReviewsRight, LastReviewStands
    <3> QED
      BY <3>1, <3>2
  <2> QED
    BY <2>7, <2>8, <2>9, <2>10 DEF ReviewInv
<1>8. ASSUME UNCHANGED <<assessments, handler, disputed, verdict>> PROVE ReviewInv'
  BY <1>8, <1>T, NoReview
<1> QED
  BY <1>2, <1>3, <1>4, <1>5, <1>6, <1>7, <1>8 DEF Next, Step, Pay, HourPasses, vars

\* No assessment is blocked but by a reviewer, for any payments and amounts.
THEOREM ScoresBlockNothing == Spec => []BlockedOnlyByReviewer
<1>1. ReviewInv => BlockedOnlyByReviewer
  BY DEF ReviewInv
<1> QED
  BY <1>1, MarkInit, MarkStep, ReviewInit, ReviewStep, PTL DEF Spec

\* The last review of an assessment stands, unless reviews of it overlapped.
THEOREM ReviewsStand == Spec => []LastReviewStands
<1>1. ReviewInv => LastReviewStands
  BY DEF ReviewInv
<1> QED
  BY <1>1, MarkInit, MarkStep, ReviewInit, ReviewStep, PTL DEF Spec

-----------------------------------------------------------------------------
(* Marks and the latest assessment.                                         *)

Latest(a, p) ==
  /\ assessments[a].payment = p
  /\ \A b \in DOMAIN assessments : assessments[b].payment = p => b <= a

LatestScore(p, s) == \A a \in DOMAIN assessments : Latest(a, p) => assessments[a].score = s

\* Unless assessments of a payment overlapped or failed, there is one at a time, and until it
\* has written an assessment the payment has the score of the latest one; from then on it is
\* the one the assessment is about to write.
LatestInv ==
  \A p \in DOMAIN payments \ contested :
    /\ \A h, k \in Assessing(p) : h = k
    /\ (\A h \in Assessing(p) : handler[h].at = "save") => LatestScore(p, payments[p].score)
    /\ \A h \in Assessing(p) : handler[h].at = "flag" => LatestScore(p, handler[h].score)

LEMMA LatestInit == Init => LatestInv
BY DEF Init, NoRows, LatestInv

\* A step that leaves the assessments and a payment's score and handlers alone.
LEMMA LatestKept ==
  ASSUME LatestInv, UNCHANGED assessments, NEW p \in DOMAIN payments \ contested,
         payments'[p].score = payments[p].score,
         \A h \in Handlers :
           \/ handler'[h] = handler[h]
           \/ h \notin Assessing(p) /\ h \notin Assessing(p)'
           \/ handler[h].at = "save" /\ h \notin Assessing(p)'
  PROVE  /\ \A h, k \in Assessing(p)' : h = k
         /\ (\A h \in Assessing(p)' : handler'[h].at = "save")
              => LatestScore(p, payments[p].score)'
         /\ \A h \in Assessing(p)' : handler'[h].at = "flag" => LatestScore(p, handler[h].score)'
<1>1. Assessing(p)' \subseteq Assessing(p)
  BY DEF Assessing
<1>2. \A h \in Assessing(p)' : handler'[h] = handler[h]
  BY <1>1 DEF Assessing
<1>3. \A h \in Assessing(p) \ Assessing(p)' : handler[h].at = "save"
  BY DEF Assessing
<1>4. \A h, k \in Assessing(p) : h = k
  BY DEF LatestInv
<1>5. \A s : LatestScore(p, s)' <=> LatestScore(p, s)
  BY DEF LatestScore, Latest
<1>6. ASSUME \A h \in Assessing(p)' : handler'[h].at = "save"
      PROVE  LatestScore(p, payments[p].score)'
  <2>1. \A h \in Assessing(p) : handler[h].at = "save"
    BY <1>2, <1>3, <1>6
  <2>2. LatestScore(p, payments[p].score)
    BY <2>1 DEF LatestInv
  <2> QED
    BY <2>2 DEF LatestScore, Latest
<1>7. ASSUME NEW h \in Assessing(p)', handler'[h].at = "flag"
      PROVE  LatestScore(p, handler[h].score)'
  <2>1. handler'[h] = handler[h] /\ h \in Assessing(p)
    BY <1>1, <1>2, <1>7
  <2>2. LatestScore(p, handler[h].score)
    BY <1>7, <2>1 DEF LatestInv
  <2> QED
    BY <2>1, <2>2 DEF LatestScore, Latest
<1> QED
  BY <1>1, <1>4, <1>6, <1>7

LEMMA LatestStep == MarkInv /\ LatestInv /\ [Next]_vars => LatestInv'
<1> SUFFICES ASSUME MarkInv, LatestInv, [Next]_vars PROVE LatestInv'
  OBVIOUS
<1>T. /\ TypeOK
      /\ handler \in [Handlers -> {Idle} \union AssessmentJobs \union ReviewJobs]
      /\ DOMAIN payments \subseteq PaymentIds
  BY DEF MarkInv, TypeOK
<1>I. Idle.at = "idle"
  BY DEF Idle
<1>1. ASSUME UNCHANGED assessments, DOMAIN payments' = DOMAIN payments,
             contested \subseteq contested',
             \A p \in DOMAIN payments \ contested' :
               /\ payments'[p].score = payments[p].score
               /\ \A h \in Handlers :
                    \/ handler'[h] = handler[h]
                    \/ h \notin Assessing(p) /\ h \notin Assessing(p)'
                    \/ handler[h].at = "save" /\ h \notin Assessing(p)'
      PROVE  LatestInv'
  <2> SUFFICES ASSUME NEW p \in DOMAIN payments \ contested'
               PROVE  /\ \A h, k \in Assessing(p)' : h = k
                      /\ (\A h \in Assessing(p)' : handler'[h].at = "save")
                           => LatestScore(p, payments[p].score)'
                      /\ \A h \in Assessing(p)' :
                           handler'[h].at = "flag" => LatestScore(p, handler[h].score)'
    BY <1>1 DEF LatestInv
  <2> QED
    BY <1>1, LatestKept
<1>2. ASSUME NEW h \in Handlers, NEW p \in PaymentIds \union {NoPayment},
             NEW amount \in AskedAmounts, LoadPayments(h, p, amount)
      PROVE  LatestInv'
  <2> DEFINE j == [at |-> "save", payment |-> p, score |-> Score(amount)]
  <2>1. /\ handler' = [handler EXCEPT ![h] = j] /\ handler[h].at = "idle"
        /\ contested' = IF p # NoPayment /\ Assessing(p) # {} THEN contested \union {p}
                        ELSE contested
        /\ UNCHANGED <<payments, assessments>>
    BY <1>2 DEF LoadPayments, Arrives, At
  <2>2. j.at = "save" /\ j.payment = p
    OBVIOUS
  <2> HIDE DEF j
  <2>3. \A k \in Handlers : handler'[k] = IF k = h THEN j ELSE handler[k]
    BY <1>T, <2>1
  <2> SUFFICES ASSUME NEW q \in DOMAIN payments \ contested'
               PROVE  /\ \A k, l \in Assessing(q)' : k = l
                      /\ (\A k \in Assessing(q)' : handler'[k].at = "save")
                           => LatestScore(q, payments[q].score)'
                      /\ \A k \in Assessing(q)' :
                           handler'[k].at = "flag" => LatestScore(q, handler[k].score)'
    BY <2>1 DEF LatestInv
  <2>4. q # NoPayment /\ q \in DOMAIN payments \ contested
    BY <1>T, <2>1
  <2>5. CASE q # p
    <3>1. h \notin Assessing(q) /\ h \notin Assessing(q)'
      BY <2>1, <2>2, <2>3, <2>5 DEF Assessing
    <3> QED
      BY <2>1, <2>3, <2>4, <3>1, LatestKept
  <2>6. CASE q = p
    <3>1. Assessing(p) = {}
      BY <2>1, <2>4, <2>6
    <3>2. Assessing(p)' = {h} /\ handler'[h].at = "save"
      BY <2>2, <2>3, <3>1 DEF Assessing
    <3>3. LatestScore(p, payments[p].score)
      BY <2>4, <2>6, <3>1 DEF LatestInv
    <3> QED
      BY <2>1, <2>6, <3>2, <3>3 DEF LatestScore, Latest
  <2> QED
    BY <2>5, <2>6
<1>3. ASSUME NEW h \in Handlers, SaveAssessment(h) PROVE LatestInv'
  <2> DEFINE p == handler[h].payment
             x == [payment |-> p, score |-> handler[h].score, blocked |-> FALSE,
                   reviewedBy |-> Nobody]
             j == IF p = NoPayment THEN Idle ELSE [handler[h] EXCEPT !.at = "flag"]
             n == Len(assessments) + 1
  <2>1. /\ handler[h] \in AssessmentJobs /\ x \in Assessments /\ handler[h].at = "save"
        /\ assessments' = Append(assessments, x)
        /\ handler' = [handler EXCEPT ![h] = j]
        /\ UNCHANGED <<payments, contested>>
    BY <1>3, SaveEffect DEF SaveAssessment, At
  <2>2. /\ x.payment = p /\ x.score = handler[h].score
        /\ p # NoPayment => j.at = "flag" /\ j.payment = p /\ j.score = handler[h].score
        /\ p = NoPayment => j.at = "idle"
    BY <1>I, <2>1 DEF AssessmentJobs
  <2> HIDE DEF x, j
  <2>3. /\ DOMAIN assessments' = DOMAIN assessments \union {n} /\ n \notin DOMAIN assessments
        /\ assessments'[n] = x
        /\ \A a \in DOMAIN assessments : assessments'[a] = assessments[a] /\ a \in Nat /\ a <= n
        /\ n \in Nat
    BY <1>T, <2>1, Appended
  <2> HIDE DEF n
  <2>4. \A k \in Handlers : handler'[k] = IF k = h THEN j ELSE handler[k]
    BY <1>T, <2>1
  <2> SUFFICES ASSUME NEW q \in DOMAIN payments \ contested
               PROVE  /\ \A k, l \in Assessing(q)' : k = l
                      /\ (\A k \in Assessing(q)' : handler'[k].at = "save")
                           => LatestScore(q, payments[q].score)'
                      /\ \A k \in Assessing(q)' :
                           handler'[k].at = "flag" => LatestScore(q, handler[k].score)'
    BY <2>1 DEF LatestInv
  <2>5. q # NoPayment
    BY <1>T
  <2>6. CASE q # p
    <3>1. /\ Assessing(q)' = Assessing(q)
          /\ \A k \in Assessing(q) : handler'[k] = handler[k]
      BY <2>2, <2>4, <2>6 DEF Assessing
    <3>2. \A s : (\A a \in DOMAIN assessments' :
                    (/\ assessments'[a].payment = q
                     /\ \A b \in DOMAIN assessments' : assessments'[b].payment = q => b <= a)
                    => assessments'[a].score = s)
                 <=> LatestScore(q, s)
      BY <2>2, <2>3, <2>6 DEF LatestScore, Latest
    <3>3. \A k, l \in Assessing(q)' : k = l
      BY <2>1, <3>1 DEF LatestInv
    <3>4. ASSUME \A k \in Assessing(q)' : handler'[k].at = "save"
          PROVE  LatestScore(q, payments[q].score)'
      <4>1. LatestScore(q, payments[q].score)
        BY <2>1, <3>1, <3>4 DEF LatestInv
      <4>2. \A a \in DOMAIN assessments' :
              (/\ assessments'[a].payment = q
               /\ \A b \in DOMAIN assessments' : assessments'[b].payment = q => b <= a)
              => assessments'[a].score = payments[q].score
        BY <3>2, <4>1
      <4> QED
        BY <2>1, <4>2 DEF LatestScore, Latest
    <3>5. ASSUME NEW k \in Assessing(q)', handler'[k].at = "flag"
          PROVE  LatestScore(q, handler[k].score)'
      <4>1. handler'[k] = handler[k] /\ LatestScore(q, handler[k].score)
        BY <2>1, <3>1, <3>5 DEF LatestInv
      <4>2. \A a \in DOMAIN assessments' :
              (/\ assessments'[a].payment = q
               /\ \A b \in DOMAIN assessments' : assessments'[b].payment = q => b <= a)
              => assessments'[a].score = handler[k].score
        BY <3>2, <4>1
      <4> QED
        BY <4>1, <4>2 DEF LatestScore, Latest
    <3> QED
      BY <3>3, <3>4, <3>5
  <2>7. CASE q = p
    <3>1. Assessing(q) = {h}
      BY <2>1, <2>7 DEF Assessing, LatestInv
    <3>2. Assessing(q)' = {h} /\ handler'[h] = j /\ j.at = "flag"
      BY <2>2, <2>4, <2>5, <2>7, <3>1 DEF Assessing
    <3>3. \A a \in DOMAIN assessments' :
            (/\ assessments'[a].payment = q
             /\ \A b \in DOMAIN assessments' : assessments'[b].payment = q => b <= a)
            => assessments'[a].score = handler[h].score
      <4> SUFFICES ASSUME NEW a \in DOMAIN assessments',
                          \A b \in DOMAIN assessments' : assessments'[b].payment = q => b <= a
                   PROVE  assessments'[a].score = handler[h].score
        OBVIOUS
      <4>1. n <= a
        BY <2>2, <2>3, <2>7
      <4>2. a = n
        BY <2>3, <4>1
      <4> QED
        BY <2>2, <2>3, <4>2
    <3> QED
      BY <2>2, <2>5, <2>7, <3>2, <3>3 DEF LatestScore, Latest
  <2> QED
    BY <2>6, <2>7
<1>4. ASSUME NEW h \in Handlers, FlagPayment(h) PROVE LatestInv'
  <2> DEFINE p == handler[h].payment
  <2>1. /\ p \in DOMAIN payments /\ handler[h].at = "flag"
        /\ DOMAIN payments' = DOMAIN payments
        /\ payments'[p].score = handler[h].score
        /\ \A q \in DOMAIN payments \ {p} : payments'[q] = payments[q]
        /\ handler' = [handler EXCEPT ![h] = Idle]
        /\ UNCHANGED <<assessments, contested>>
    BY <1>4, FlagEffect
  <2>2. \A k \in Handlers : handler'[k] = IF k = h THEN Idle ELSE handler[k]
    BY <1>T, <2>1
  <2> SUFFICES ASSUME NEW q \in DOMAIN payments \ contested
               PROVE  /\ \A k, l \in Assessing(q)' : k = l
                      /\ (\A k \in Assessing(q)' : handler'[k].at = "save")
                           => LatestScore(q, payments[q].score)'
                      /\ \A k \in Assessing(q)' :
                           handler'[k].at = "flag" => LatestScore(q, handler[k].score)'
    BY <2>1 DEF LatestInv
  <2>3. CASE q # p
    <3>1. h \notin Assessing(q) /\ h \notin Assessing(q)'
      BY <1>I, <2>2, <2>3 DEF Assessing
    <3> QED
      BY <2>1, <2>2, <2>3, <3>1, LatestKept
  <2>4. CASE q = p
    <3>1. h \in Assessing(p)
      BY <2>1 DEF Assessing
    <3>2. Assessing(p) = {h} /\ LatestScore(p, handler[h].score)
      BY <2>1, <2>4, <3>1 DEF LatestInv
    <3>3. Assessing(q) = {h}
      BY <2>4, <3>2
    <3>4. Assessing(q)' = {}
      BY <1>I, <2>2, <3>3 DEF Assessing
    <3>5. LatestScore(q, payments[q].score)'
      BY <2>1, <2>4, <3>2 DEF LatestScore, Latest
    <3> QED
      BY <3>4, <3>5
  <2> QED
    BY <2>3, <2>4
<1>5. ASSUME NEW h \in Handlers, NEW a \in 1 .. MaxRequests, NEW r \in Reviewers,
             NEW approved \in BOOLEAN, LoadAssessment(h, a, r, approved)
      PROVE  LatestInv'
  <2> DEFINE j == [at |-> "compare", assessment |-> a, reviewer |-> r, approved |-> approved,
                   changed |-> {}]
  <2>1. j.at = "compare"
    OBVIOUS
  <2>2. /\ handler' = [handler EXCEPT ![h] = j] /\ handler[h].at = "idle"
        /\ UNCHANGED <<payments, assessments, contested>>
    BY <1>5 DEF LoadAssessment, Arrives, At
  <2> HIDE DEF j
  <2>3. \A k \in Handlers : handler'[k] = IF k = h THEN j ELSE handler[k]
    BY <1>T, <2>2
  <2>4. \A q : h \notin Assessing(q) /\ h \notin Assessing(q)'
    BY <2>1, <2>2, <2>3 DEF Assessing
  <2> QED
    BY <1>1, <2>2, <2>3, <2>4
<1>6. ASSUME NEW h \in Handlers, CompareReview(h) PROVE LatestInv'
  <2> DEFINE j == [handler[h] EXCEPT !.at = "update",
                     !.changed = Changed(handler[h], assessments[handler[h].assessment])]
  <2>1. handler[h] \in ReviewJobs /\ handler[h].at = "compare"
    BY <1>6, <1>T, Kinds DEF CompareReview, At
  <2>2. handler' = [handler EXCEPT ![h] = j] /\ UNCHANGED <<payments, assessments, contested>>
    BY <1>6, <1>T DEF CompareReview
  <2>3. j.at = "update"
    BY <2>1 DEF ReviewJobs
  <2> HIDE DEF j
  <2>4. \A k \in Handlers : handler'[k] = IF k = h THEN j ELSE handler[k]
    BY <1>T, <2>2
  <2>5. \A q : h \notin Assessing(q) /\ h \notin Assessing(q)'
    BY <2>1, <2>3, <2>4 DEF Assessing
  <2> QED
    BY <1>1, <2>2, <2>4, <2>5
<1>7. ASSUME NEW h \in Handlers, UpdateReview(h) PROVE LatestInv'
  <2>1. /\ handler[h].at = "update"
        /\ DOMAIN assessments' = DOMAIN assessments
        /\ \A b \in DOMAIN assessments : /\ assessments'[b].payment = assessments[b].payment
                                         /\ assessments'[b].score = assessments[b].score
        /\ handler' = [handler EXCEPT ![h] = Idle]
        /\ UNCHANGED <<payments, contested>>
    BY <1>7, <1>T, UpdateEffect
  <2>2. \A k \in Handlers : handler'[k] = IF k = h THEN Idle ELSE handler[k]
    BY <1>T, <2>1
  <2>3. \A q : /\ Assessing(q)' = Assessing(q)
               /\ \A k \in Assessing(q) : handler'[k] = handler[k]
    BY <1>I, <2>1, <2>2 DEF Assessing
  <2>4. \A q, s : (\A a \in DOMAIN assessments' :
                     (/\ assessments'[a].payment = q
                      /\ \A b \in DOMAIN assessments' : assessments'[b].payment = q => b <= a)
                     => assessments'[a].score = s)
                  <=> LatestScore(q, s)
    BY <2>1 DEF LatestScore, Latest
  <2> QED
    BY <2>1, <2>3, <2>4 DEF LatestInv, LatestScore, Latest
<1>8. ASSUME NEW p \in PaymentIds, NEW amount \in PaidAmounts, Pay(p, amount) PROVE LatestInv'
  <2>1. /\ p \notin DOMAIN payments /\ DOMAIN payments' = DOMAIN payments \union {p}
        /\ \A q \in DOMAIN payments : payments'[q] = payments[q]
        /\ UNCHANGED <<assessments, handler, contested>>
    BY <1>8, <1>T, PayEffect
  <2>2. p # NoPayment
    OBVIOUS
  <2>3. Assessing(p) = {} /\ \A a \in DOMAIN assessments : assessments[a].payment # p
    BY <2>1, <2>2 DEF MarkInv, JobsRight, MarksRight, Assessing
  <2> SUFFICES ASSUME NEW q \in DOMAIN payments' \ contested
               PROVE  /\ \A k, l \in Assessing(q)' : k = l
                      /\ (\A k \in Assessing(q)' : handler'[k].at = "save")
                           => LatestScore(q, payments[q].score)'
                      /\ \A k \in Assessing(q)' :
                           handler'[k].at = "flag" => LatestScore(q, handler[k].score)'
    BY <2>1 DEF LatestInv
  <2>4. CASE q = p
    <3>1. Assessing(q)' = {}
      BY <2>1, <2>3, <2>4 DEF Assessing
    <3> QED
      BY <2>1, <2>3, <2>4, <3>1 DEF LatestScore, Latest
  <2>5. CASE q # p
    BY <2>1, <2>5, LatestKept
  <2> QED
    BY <2>4, <2>5
<1>9. ASSUME HourPasses PROVE LatestInv'
  <2>1. /\ DOMAIN payments' = DOMAIN payments
        /\ \A q \in DOMAIN payments : payments'[q].score = payments[q].score
        /\ UNCHANGED <<assessments, handler, contested>>
    BY <1>9, <1>T, HourEffect
  <2> QED
    BY <1>1, <2>1
<1>10. ASSUME NEW h \in Handlers, Fails(h) PROVE LatestInv'
  <2>1. /\ handler' = [handler EXCEPT ![h] = Idle]
        /\ contested' = IF handler[h].at = "flag" THEN contested \union {handler[h].payment}
                        ELSE contested
        /\ UNCHANGED <<payments, assessments>>
    BY <1>10 DEF Fails, Ends
  <2>2. \A k \in Handlers : handler'[k] = IF k = h THEN Idle ELSE handler[k]
    BY <1>T, <2>1
  <2>3. \A q : /\ h \notin Assessing(q)'
               /\ h \in Assessing(q) => handler[h].at = "save" \/ q \in contested'
    BY <1>I, <2>1, <2>2 DEF Assessing
  <2> QED
    BY <1>1, <2>1, <2>2, <2>3
<1>11. ASSUME UNCHANGED vars PROVE LatestInv'
  BY <1>1, <1>11 DEF vars
<1> QED
  BY <1>2, <1>3, <1>4, <1>5, <1>6, <1>7, <1>8, <1>9, <1>10, <1>11 DEF Next, Step

\* Between assessments, a payment's mark is that of the latest one, unless assessments of it
\* overlapped or one failed between its two writes.
THEOREM MarksFollow == Spec => []MarkFollowsLatest
<1>1. LatestInv => MarkFollowsLatest
  BY DEF LatestInv, MarkFollowsLatest, LatestScore, Latest
<1> QED
  BY <1>1, MarkInit, MarkStep, LatestInit, LatestStep, PTL DEF Spec
===============================================================================
