---------------------------- MODULE PaymentsProofs ----------------------------
(***************************************************************************)
(* Types, completed deposits and the bounds of every wallet, for any       *)
(* number of users, deposits, handlers and payments.                       *)
(***************************************************************************)
EXTENDS Payments, FiniteSetTheorems, TLAPS

USE PaymentsAssumption

-----------------------------------------------------------------------------
(* What `+=` makes of a decimal column.                                     *)

LEMMA DepositSum == ASSUME NEW b PROVE WithDeposit(b) = NotANumber
BY DEF WithDeposit, AppendedTo

LEMMA PaymentSum ==
  ASSUME NEW b \in Nat, NEW amount, WithPayment(b, amount) # NotANumber
  PROVE  WithPayment(b, amount) \in {b, b + 1}
BY DEF WithPayment, AppendedTo

-----------------------------------------------------------------------------
(* Jobs and the rows they work on.                                          *)

Webhook == {"retrieve", "select", "save", "credit"}

\* A deposit's handler works on a row that is there, and its intent is not yet at Stripe when
\* it is about to be created.
DepositJobRight(j) ==
  /\ j \in DepositJobs
  /\ deposits[j.deposit] # NoRow
  /\ j.at = "intent" => provider[j.deposit] = "none"

\* A webhook that will complete a deposit knows it paid or was told so.
WebhookJobRight(j) ==
  /\ j \in WebhookJobs
  /\ deposits[j.deposit] # NoRow
  /\ j.says = "COMPLETED"
       => provider[j.deposit] = "paid" \/ <<j.deposit, "COMPLETED">> \in told

PaymentJobRight(j) == j \in PaymentJobs /\ j.amount <= j.from

JobsRight ==
  \A h \in Handlers :
    \/ handler[h] = Idle
    \/ DepositJobRight(handler[h])
    \/ WebhookJobRight(handler[h])
    \/ PaymentJobRight(handler[h])

NothingBeforeTheRow == \A d \in Deposits : deposits[d] = NoRow => provider[d] = "none"

IntentsApart ==
  \A h, k \in Handlers :
    (handler[h].at = "intent" /\ handler[k].at = "intent"
      /\ handler[h].deposit = handler[k].deposit) => h = k

DepositInv == TypeOK /\ JobsRight /\ NothingBeforeTheRow /\ IntentsApart /\ CompletedWasPaid

\* The places a job can be at tell its kind.
LEMMA JobKinds ==
  ASSUME DepositInv, NEW h \in Handlers
  PROVE  /\ handler[h].at = "idle" <=> handler[h] = Idle
         /\ handler[h].at \in {"intent", "store", "completing"} => DepositJobRight(handler[h])
         /\ handler[h].at \in Webhook => WebhookJobRight(handler[h])
         /\ handler[h].at \in {"insert", "move"} => PaymentJobRight(handler[h])
<1>1. \/ handler[h] = Idle \/ DepositJobRight(handler[h])
      \/ WebhookJobRight(handler[h]) \/ PaymentJobRight(handler[h])
  BY DEF DepositInv, JobsRight
<1>2. Idle.at = "idle"
  BY DEF Idle
<1>3. DepositJobRight(handler[h]) => handler[h].at \in {"intent", "store", "completing"}
  BY DEF DepositJobRight, DepositJobs
<1>4. WebhookJobRight(handler[h]) => handler[h].at \in Webhook
  BY DEF WebhookJobRight, WebhookJobs, Webhook
<1>5. PaymentJobRight(handler[h]) => handler[h].at \in {"insert", "move"}
  BY DEF PaymentJobRight, PaymentJobs
<1> QED
  BY <1>1, <1>2, <1>3, <1>4, <1>5 DEF Webhook

LEMMA DepositInit == Init => DepositInv
<1> SUFFICES ASSUME Init PROVE DepositInv
  OBVIOUS
<1>1. TypeOK
  <2>1. NoRow \in Rows
    BY DEF NoRow, Rows, Methods
  <2>2. /\ balance \in [Users -> Nat] /\ deposits \in [Deposits -> Rows]
        /\ provider \in [Deposits -> {"none", "intent", "known", "paid"}]
        /\ handler \in [Handlers -> {Idle} \union DepositJobs \union WebhookJobs \union PaymentJobs]
    BY <2>1 DEF Init
  <2>3. ledger \in [made : 0 .. MaxPayments, total : Nat]
    BY DEF Init
  <2>4. /\ crashes \in 0 .. MaxCrashes /\ moved \in Nat
        /\ owed \subseteq Deposits /\ dropped \subseteq Deposits /\ credited \subseteq Deposits
        /\ told \subseteq Deposits \X Outcomes
    BY DEF Init
  <2>5. overlapped \in BOOLEAN
    BY DEF Init
  <2> QED
    BY <2>2, <2>3, <2>4, <2>5, Zenon DEF TypeOK
<1>2. \A h \in Handlers : handler[h] = Idle /\ handler[h].at # "intent"
  BY DEF Init, Idle
<1>3. NothingBeforeTheRow /\ CompletedWasPaid
  BY DEF Init, NothingBeforeTheRow, CompletedWasPaid, NoRow
<1> QED
  BY <1>1, <1>2, <1>3 DEF DepositInv, JobsRight, IntentsApart

\* A step that touches neither deposits nor providers, and gives at most one handler another
\* job.
LEMMA HandlerOnly ==
  ASSUME DepositInv, UNCHANGED <<deposits, provider>>, told \subseteq told', TypeOK',
         NEW h \in Handlers, NEW j, handler' = [handler EXCEPT ![h] = j],
         \/ j = Idle \/ (DepositJobRight(j) /\ j.at # "intent")
         \/ WebhookJobRight(j)' \/ PaymentJobRight(j)
  PROVE  DepositInv'
<1>1. handler \in [Handlers -> {Idle} \union DepositJobs \union WebhookJobs \union PaymentJobs]
  BY DEF DepositInv, TypeOK
<1>2. JobsRight'
  <2> SUFFICES ASSUME NEW k \in Handlers
               PROVE  (handler[k] = Idle \/ DepositJobRight(handler[k])
                        \/ WebhookJobRight(handler[k]) \/ PaymentJobRight(handler[k]))'
    BY DEF JobsRight
  <2>1. CASE k = h
    BY <1>1, <2>1 DEF DepositJobRight, WebhookJobRight, PaymentJobRight
  <2>2. CASE k # h
    BY <1>1, <2>2 DEF DepositInv, JobsRight, DepositJobRight, WebhookJobRight, PaymentJobRight
  <2> QED
    BY <2>1, <2>2
<1>3. j.at # "intent"
  BY DEF Idle, PaymentJobRight, PaymentJobs, WebhookJobRight, WebhookJobs
<1>4. IntentsApart'
  BY <1>1, <1>3 DEF DepositInv, IntentsApart
<1>5. NothingBeforeTheRow' /\ CompletedWasPaid'
  BY DEF DepositInv, NothingBeforeTheRow, CompletedWasPaid
<1> QED
  BY <1>2, <1>4, <1>5 DEF DepositInv

LEMMA DepositStep == DepositInv /\ [Next]_vars => DepositInv'
<1> SUFFICES ASSUME DepositInv, [Next]_vars PROVE DepositInv'
  OBVIOUS
<1>T. /\ balance \in [Users -> Nat] /\ deposits \in [Deposits -> Rows]
      /\ provider \in [Deposits -> {"none", "intent", "known", "paid"}]
      /\ handler \in [Handlers -> {Idle} \union DepositJobs \union WebhookJobs \union PaymentJobs]
      /\ ledger \in [made : 0 .. MaxPayments, total : Nat] /\ crashes \in 0 .. MaxCrashes
      /\ owed \subseteq Deposits /\ dropped \subseteq Deposits /\ credited \subseteq Deposits
      /\ told \subseteq Deposits \X Outcomes
      /\ moved \in Nat /\ overlapped \in BOOLEAN
  BY DEF DepositInv, TypeOK
<1>1. ASSUME NEW h \in Handlers, NEW d \in Deposits, NEW m \in Methods, Deposit(h, d, m)
      PROVE  DepositInv'
  <2> DEFINE row == [status |-> "PENDING", method |-> m, stored |-> FALSE]
             j == IF m = "CREDIT_CARD" THEN [at |-> "intent", deposit |-> d] ELSE Idle
             p == IF m = "CRYPTO" THEN "known" ELSE "none"
  <2>1. /\ deposits' = [deposits EXCEPT ![d] = row] /\ handler' = [handler EXCEPT ![h] = j]
        /\ provider' = [provider EXCEPT ![d] = p]
        /\ deposits[d] = NoRow
        /\ UNCHANGED <<balance, owed, ledger, crashes, history>>
    BY <1>1 DEF Deposit
  <2>2. row \in Rows /\ row # NoRow /\ row.status # "COMPLETED"
    BY DEF Rows, NoRow
  <2>3. j = Idle \/ (j \in DepositJobs /\ j.at = "intent" /\ j.deposit = d /\ p = "none")
    BY DEF DepositJobs
  <2>4. p \in {"none", "known"}
    OBVIOUS
  <2>5. \A k \in Handlers : DepositJobRight(handler[k]) \/ WebhookJobRight(handler[k])
                             => handler[k].deposit # d
    BY <2>1 DEF DepositJobRight, WebhookJobRight
  <2> HIDE DEF row, j, p
  <2>6. TypeOK'
    BY <1>T, <2>1, <2>2, <2>3, <2>4 DEF TypeOK, history
  <2>7. JobsRight'
    <3> SUFFICES ASSUME NEW k \in Handlers
                 PROVE  (handler[k] = Idle \/ DepositJobRight(handler[k])
                          \/ WebhookJobRight(handler[k]) \/ PaymentJobRight(handler[k]))'
      BY DEF JobsRight
    <3>1. CASE k = h
      <4>1. handler'[k] = j
        BY <1>T, <2>1, <3>1
      <4>2. CASE j = Idle
        BY <4>1, <4>2
      <4>3. CASE j \in DepositJobs /\ j.at = "intent" /\ j.deposit = d /\ p = "none"
        BY <1>T, <4>1, <4>3, <2>1, <2>2 DEF DepositJobRight
      <4> QED
        BY <4>2, <4>3, <2>3
    <3>2. CASE k # h
      <4>1. handler'[k] = handler[k]
        BY <1>T, <2>1, <3>2
      <4>2. CASE DepositJobRight(handler[k])
        <5>1. handler[k].deposit \in Deposits /\ handler[k].deposit # d
          BY <4>2, <2>5 DEF DepositJobRight, DepositJobs
        <5> QED
          BY <1>T, <4>1, <4>2, <5>1, <2>1 DEF DepositJobRight
      <4>3. CASE WebhookJobRight(handler[k])
        <5>1. handler[k].deposit \in Deposits /\ handler[k].deposit # d
          BY <4>3, <2>5 DEF WebhookJobRight, WebhookJobs
        <5> QED
          BY <1>T, <4>1, <4>3, <5>1, <2>1 DEF WebhookJobRight, history
      <4> QED
        BY <4>1, <4>2, <4>3 DEF DepositInv, JobsRight, PaymentJobRight
    <3> QED
      BY <3>1, <3>2
  <2>8. IntentsApart'
    <3>1. \A k \in Handlers : handler[k].at = "intent" => handler[k].deposit # d
      BY <2>5, JobKinds
    <3>2. j.at = "intent" => j.deposit = d
      BY <2>3 DEF Idle
    <3> QED
      BY <1>T, <2>1, <3>1, <3>2 DEF DepositInv, IntentsApart
  <2>9. NothingBeforeTheRow' /\ CompletedWasPaid'
    BY <1>T, <2>1, <2>2 DEF DepositInv, NothingBeforeTheRow, CompletedWasPaid, history
  <2> QED
    BY <2>6, <2>7, <2>8, <2>9 DEF DepositInv
<1>2. ASSUME NEW h \in Handlers, CreateIntent(h) \/ StoreIntent(h) PROVE DepositInv'
  <2> DEFINE d == handler[h].deposit
             step == IF CreateIntent(h) THEN "intent" ELSE "store"
             j == IF CreateIntent(h) THEN [handler[h] EXCEPT !.at = "store"] ELSE Idle
  <2>1. /\ d \in Deposits /\ deposits[d] # NoRow /\ handler[h] \in DepositJobs
        /\ handler[h].at = "intent" => provider[d] = "none"
    BY <1>2, JobKinds DEF CreateIntent, StoreIntent, At, DepositJobRight, DepositJobs
  <2>2. /\ handler' = [handler EXCEPT ![h] = j]
        /\ UNCHANGED <<balance, owed, ledger, crashes, history>>
    BY <1>2 DEF CreateIntent, StoreIntent, At, Goes, Ends
  <2>3. /\ deposits' = deposits
           \/ deposits' = [deposits EXCEPT ![d].stored = TRUE]
        /\ \/ handler[h].at = "intent" /\ provider' = [provider EXCEPT ![d] = "intent"]
           \/ provider' = [provider EXCEPT ![d] = IF @ = "intent" THEN "known" ELSE @]
    BY <1>2 DEF CreateIntent, StoreIntent, At
  <2>4. /\ deposits' \in [Deposits -> Rows]
        /\ \A x \in Deposits : /\ deposits'[x].status = deposits[x].status
                               /\ deposits'[x] = NoRow => deposits[x] = NoRow /\ x # d
    <3>1. CASE deposits' = deposits
      BY <1>T, <2>1, <3>1
    <3>2. CASE deposits' = [deposits EXCEPT ![d].stored = TRUE]
      <4>1. deposits[d] \in Rows
        BY <1>T, <2>1
      <4>2. /\ [deposits[d] EXCEPT !.stored = TRUE] \in Rows
            /\ [deposits[d] EXCEPT !.stored = TRUE].status = deposits[d].status
            /\ [deposits[d] EXCEPT !.stored = TRUE].stored
        BY <4>1 DEF Rows
      <4>3. ~NoRow.stored
        BY DEF NoRow
      <4>4. \A x \in Deposits : x # d => deposits'[x] = deposits[x]
        BY <1>T, <3>2
      <4>5. deposits'[d] = [deposits[d] EXCEPT !.stored = TRUE]
        BY <1>T, <2>1, <3>2
      <4>6. deposits' \in [Deposits -> Rows]
        BY <1>T, <3>2, <4>2
      <4> HIDE DEF d
      <4> QED
        BY <4>2, <4>3, <4>4, <4>5, <4>6
    <3> QED
      BY <2>3, <3>1, <3>2
  <2>5. /\ provider' \in [Deposits -> {"none", "intent", "known", "paid"}]
        /\ \A x \in Deposits : /\ provider[x] = "paid" => provider'[x] = "paid"
                               /\ x # d => provider'[x] = provider[x]
                               /\ handler[h].at # "intent" /\ provider[x] = "none"
                                    => provider'[x] = "none"
    BY <1>T, <2>1, <2>3
  <2>6. j = Idle \/ (j \in DepositJobs /\ j.at = "store" /\ j.deposit = d)
    BY <2>1 DEF DepositJobs
  <2> HIDE DEF d, j
  <2>7. TypeOK'
    BY <1>T, <2>2, <2>4, <2>5, <2>6 DEF TypeOK, history
  <2>8. JobsRight'
    <3> SUFFICES ASSUME NEW k \in Handlers
                 PROVE  (handler[k] = Idle \/ DepositJobRight(handler[k])
                          \/ WebhookJobRight(handler[k]) \/ PaymentJobRight(handler[k]))'
      BY DEF JobsRight
    <3>1. CASE k = h
      <4>1. handler'[k] = j
        BY <1>T, <2>2, <3>1
      <4> QED
        BY <4>1, <2>6, <2>4, <2>1 DEF DepositJobRight
    <3>2. CASE k # h
      <4>1. handler'[k] = handler[k]
        BY <1>T, <2>2, <3>2
      <4>2. CASE DepositJobRight(handler[k])
        <5>1. handler[k].deposit \in Deposits
          BY <4>2 DEF DepositJobRight, DepositJobs
        <5>2. handler[k].at = "intent" /\ handler[h].at = "intent" => handler[k].deposit # d
          BY <3>2 DEF DepositInv, IntentsApart, d
        <5>3. handler[k].at = "intent" => provider'[handler[k].deposit] = "none"
          BY <4>2, <5>1, <5>2, <2>5 DEF DepositJobRight
        <5> QED
          BY <4>1, <4>2, <5>1, <5>3, <2>4, <2>5 DEF DepositJobRight
      <4>3. CASE WebhookJobRight(handler[k])
        <5>1. handler[k].deposit \in Deposits
          BY <4>3 DEF WebhookJobRight, WebhookJobs
        <5> QED
          BY <4>1, <4>3, <5>1, <2>2, <2>4, <2>5 DEF WebhookJobRight, history
      <4> QED
        BY <4>1, <4>2, <4>3 DEF DepositInv, JobsRight, PaymentJobRight
    <3> QED
      BY <3>1, <3>2
  <2>9. IntentsApart'
    <3>1. j.at # "intent"
      BY <2>6 DEF Idle
    <3> QED
      BY <1>T, <2>2, <3>1 DEF DepositInv, IntentsApart
  <2>10. NothingBeforeTheRow' /\ CompletedWasPaid'
    <3>1. \A x \in Deposits : deposits'[x] = NoRow => provider'[x] = "none"
      BY <2>4, <2>5 DEF DepositInv, NothingBeforeTheRow
    <3>2. CompletedWasPaid'
      BY <2>2, <2>4, <2>5 DEF DepositInv, CompletedWasPaid, history
    <3> QED
      BY <3>1, <3>2 DEF NothingBeforeTheRow
  <2> QED
    BY <2>7, <2>8, <2>9, <2>10 DEF DepositInv
<1>3. ASSUME NEW d \in Deposits, ClientPays(d) PROVE DepositInv'
  <2>1. /\ provider' = [provider EXCEPT ![d] = "paid"] /\ provider[d] = "known"
        /\ UNCHANGED <<balance, deposits, handler, ledger, crashes, history>>
        /\ owed' \subseteq owed \union {d}
    BY <1>3 DEF ClientPays
  <2>2. TypeOK'
    BY <1>T, <2>1 DEF TypeOK, history
  <2>3. JobsRight'
    BY <1>T, <2>1
    DEF DepositInv, JobsRight, DepositJobRight, DepositJobs, WebhookJobRight, WebhookJobs,
        PaymentJobRight, history
  <2>4. NothingBeforeTheRow' /\ CompletedWasPaid' /\ IntentsApart'
    BY <1>T, <2>1 DEF DepositInv, NothingBeforeTheRow, CompletedWasPaid, IntentsApart, history
  <2> QED
    BY <2>2, <2>3, <2>4 DEF DepositInv
<1>4. ASSUME NEW h \in Handlers, NEW d \in Deposits, LoadToComplete(h, d) PROVE DepositInv'
  <2> DEFINE j == [at |-> "completing", deposit |-> d]
  <2>1. j \in DepositJobs /\ j.at # "intent"
    BY DEF DepositJobs
  <2>2. deposits[d] # NoRow
    BY <1>4 DEF LoadToComplete, NoRow
  <2>3. DepositJobRight(j)
    BY <2>1, <2>2 DEF DepositJobRight
  <2> HIDE DEF j
  <2>4. /\ handler' = [handler EXCEPT ![h] = j]
        /\ UNCHANGED <<balance, deposits, provider, owed, ledger, crashes, history>>
    BY <1>4 DEF LoadToComplete, j
  <2>5. TypeOK'
    BY <1>T, <2>1, <2>4 DEF TypeOK, history
  <2> QED
    BY <2>1, <2>3, <2>4, <2>5, HandlerOnly DEF history
<1>5. ASSUME NEW h \in Handlers, NEW d \in Deposits, Deliver(h, d) PROVE DepositInv'
  <2> DEFINE j == [at |-> "retrieve", deposit |-> d, by |-> "stripe", says |-> "COMPLETED"]
  <2>1. j \in WebhookJobs /\ j.deposit = d
    BY DEF WebhookJobs, Outcomes
  <2>2. provider[d] = "paid" /\ deposits[d] # NoRow
    BY <1>5 DEF Deliver, DepositInv, NothingBeforeTheRow
  <2>3. /\ handler' = [handler EXCEPT ![h] = j]
        /\ UNCHANGED <<balance, deposits, provider, owed, ledger, crashes, history>>
    BY <1>5 DEF Deliver
  <2> HIDE DEF j
  <2>4. WebhookJobRight(j)'
    BY <2>1, <2>2, <2>3 DEF WebhookJobRight
  <2>5. TypeOK'
    BY <1>T, <2>1, <2>3 DEF TypeOK, history
  <2> QED
    BY <2>3, <2>4, <2>5, HandlerOnly DEF history
<1>6. ASSUME NEW h \in Handlers, NEW d \in Deposits, NEW status \in Outcomes,
              CryptoEvent(h, d, status)
       PROVE  DepositInv'
  <2> DEFINE j == [at |-> "select", deposit |-> d, by |-> "crypto", says |-> status]
  <2>1. j \in WebhookJobs /\ j.deposit = d /\ j.says = status
    BY DEF WebhookJobs
  <2>2. /\ handler' = [handler EXCEPT ![h] = j] /\ deposits[d] # NoRow
        /\ told' = told \union {<<d, status>>}
        /\ UNCHANGED <<balance, deposits, provider, owed, ledger, crashes,
                        dropped, credited, moved, overlapped>>
    BY <1>6 DEF CryptoEvent
  <2> HIDE DEF j
  <2>3. WebhookJobRight(j)'
    BY <2>1, <2>2 DEF WebhookJobRight
  <2>4. TypeOK'
    BY <1>T, <2>1, <2>2 DEF TypeOK
  <2> QED
    BY <2>2, <2>3, <2>4, HandlerOnly
<1>7. ASSUME NEW h \in Handlers, SaveCompletion(h) \/ CreditWallet(h) PROVE DepositInv'
  <2>1. /\ handler' = [handler EXCEPT ![h] = Idle]
        /\ UNCHANGED <<balance, deposits, provider, ledger, crashes, history>>
        /\ owed' \subseteq owed
    <3>1. [balance EXCEPT ![FirstUser] = balance[FirstUser]] = balance
      BY <1>T
    <3>2. CASE SaveCompletion(h)
      <4> DEFINE d == handler[h].deposit
      <4>1. d \in Deposits
        BY <3>2, JobKinds DEF SaveCompletion, At, DepositJobRight, DepositJobs
      <4>2. balance' = balance /\ credited' = credited
        BY <3>1, <3>2, DepositSum DEF SaveCompletion
      <4>3. deposits' = [deposits EXCEPT ![d].status = deposits[d].status]
        BY <3>2, DepositSum DEF SaveCompletion
      <4>4. deposits' = deposits
        BY <1>T, <4>1, <4>3 DEF Rows
      <4> QED
        BY <3>2, <4>2, <4>4 DEF SaveCompletion, Ends, history
    <3>3. CASE CreditWallet(h)
      <4>1. balance' = balance /\ credited' = credited
        BY <3>1, <3>3, DepositSum DEF CreditWallet
      <4> QED
        BY <3>3, <4>1 DEF CreditWallet, Ends, Answers, history
    <3> QED
      BY <1>7, <3>2, <3>3
  <2>2. TypeOK'
    BY <1>T, <2>1 DEF TypeOK, history
  <2> QED
    BY <2>1, <2>2, HandlerOnly DEF history
<1>8. ASSUME NEW h \in Handlers, RetrieveIntent(h) \/ SelectDeposit(h) PROVE DepositInv'
  <2> DEFINE save == [handler[h] EXCEPT !.at = "save"]
             select == [handler[h] EXCEPT !.at = "select"]
  <2>1. WebhookJobRight(handler[h])
    BY <1>8, JobKinds DEF RetrieveIntent, SelectDeposit, At, Webhook
  <2>2. /\ save \in WebhookJobs /\ save.deposit = handler[h].deposit
        /\ save.says = handler[h].says
        /\ select \in WebhookJobs /\ select.deposit = handler[h].deposit
        /\ select.says = handler[h].says
    BY <2>1 DEF WebhookJobRight, WebhookJobs
  <2>3. /\ UNCHANGED <<balance, deposits, provider, ledger, crashes, history>>
        /\ owed' \subseteq owed
        /\ \/ handler' = [handler EXCEPT ![h] = save]
           \/ handler' = [handler EXCEPT ![h] = select]
           \/ handler' = [handler EXCEPT ![h] = Idle]
    BY <1>8 DEF RetrieveIntent, SelectDeposit, Goes, Ends, Answers
  <2> HIDE DEF save, select
  <2>4. WebhookJobRight(save) /\ WebhookJobRight(select)
    BY <2>1, <2>2 DEF WebhookJobRight
  <2>5. TypeOK'
    BY <1>T, <2>2, <2>3 DEF TypeOK, history
  <2>6. \A j : WebhookJobRight(j) => WebhookJobRight(j)'
    BY <2>3 DEF WebhookJobRight, history
  <2>7. PICK j : handler' = [handler EXCEPT ![h] = j] /\ (j = Idle \/ WebhookJobRight(j))
    BY <2>3, <2>4
  <2>8. j = Idle \/ WebhookJobRight(j)'
    BY <2>6, <2>7
  <2> QED
    BY <2>3, <2>5, <2>7, <2>8, HandlerOnly DEF history
<1>9. ASSUME NEW h \in Handlers, SaveDeposit(h) PROVE DepositInv'
  <2> DEFINE d == handler[h].deposit
             credit == [handler[h] EXCEPT !.at = "credit"]
  <2>1. WebhookJobRight(handler[h]) /\ d \in Deposits /\ handler[h].says \in Outcomes
    BY <1>9, JobKinds DEF SaveDeposit, At, Webhook, WebhookJobRight, WebhookJobs
  <2>2. credit \in WebhookJobs /\ credit.deposit = d /\ credit.says = handler[h].says
    BY <2>1 DEF WebhookJobRight, WebhookJobs
  <2>3. PICK j : handler' = [handler EXCEPT ![h] = j] /\ (j = Idle \/ j = credit)
    BY <1>9 DEF SaveDeposit, Goes, Answers, Ends
  <2>4. /\ deposits' = [deposits EXCEPT ![d].status = handler[h].says]
        /\ owed' \subseteq owed
        /\ UNCHANGED <<balance, provider, ledger, crashes, history>>
    BY <1>9 DEF SaveDeposit, Answers
  <2>5. /\ deposits' \in [Deposits -> Rows]
        /\ \A x \in Deposits : /\ deposits'[x] = NoRow => deposits[x] = NoRow
                               /\ deposits'[x].status = "COMPLETED"
                                    => \/ x = d /\ handler[h].says = "COMPLETED"
                                       \/ deposits[x].status = "COMPLETED"
    BY <1>T, <2>1, <2>4 DEF Rows, NoRow, Outcomes
  <2>6. \A k : WebhookJobRight(k) => WebhookJobRight(k)'
    <3> HIDE DEF d
    <3> QED
      BY <2>4, <2>5 DEF WebhookJobRight, WebhookJobs, history
  <2> HIDE DEF credit
  <2>7. j = Idle \/ WebhookJobRight(j)
    BY <2>1, <2>2, <2>3 DEF WebhookJobRight
  <2>8. j \in {Idle} \union WebhookJobs /\ j.at # "intent"
    BY <2>7 DEF WebhookJobRight, WebhookJobs, Idle
  <2> HIDE DEF d
  <2>9. TypeOK'
    BY <1>T, <2>4, <2>5, <2>3, <2>8 DEF TypeOK, history
  <2>10. JobsRight'
    <3> SUFFICES ASSUME NEW k \in Handlers
                 PROVE  (handler[k] = Idle \/ DepositJobRight(handler[k])
                          \/ WebhookJobRight(handler[k]) \/ PaymentJobRight(handler[k]))'
      BY DEF JobsRight
    <3>1. CASE k = h
      <4>1. handler'[k] = j
        BY <1>T, <2>3, <3>1
      <4> QED
        BY <4>1, <2>6, <2>7 DEF WebhookJobRight
    <3>2. CASE k # h
      <4>1. handler'[k] = handler[k]
        BY <1>T, <2>3, <3>2
      <4>2. DepositJobRight(handler[k]) => DepositJobRight(handler[k])'
        BY <4>1, <2>4, <2>5 DEF DepositJobRight, DepositJobs
      <4>3. WebhookJobRight(handler[k]) => WebhookJobRight(handler[k])'
        BY <4>1, <2>4, <2>5 DEF WebhookJobRight, WebhookJobs, history
      <4> QED
        BY <4>1, <4>2, <4>3 DEF DepositInv, JobsRight, PaymentJobRight
    <3> QED
      BY <3>1, <3>2
  <2>11. IntentsApart'
    BY <1>T, <2>3, <2>8 DEF DepositInv, IntentsApart
  <2>12. NothingBeforeTheRow'
    BY <2>4, <2>5 DEF DepositInv, NothingBeforeTheRow
  <2>13. CompletedWasPaid'
    BY <2>1, <2>4, <2>5 DEF DepositInv, CompletedWasPaid, WebhookJobRight, history, d
  <2> QED
    BY <2>9, <2>10, <2>11, <2>12, <2>13 DEF DepositInv
<1>10. ASSUME NEW h \in Handlers, NEW to \in Creators, NEW amount \in Amounts,
             LoadToPay(h, to, amount)
      PROVE  DepositInv'
  <2> DEFINE j == [at |-> "insert", to |-> to, amount |-> amount,
                   from |-> balance[FirstUser], gets |-> balance[to]]
  <2>1. j \in PaymentJobs /\ j.amount = amount /\ j.from = balance[FirstUser]
    BY <1>T DEF PaymentJobs
  <2>2. /\ handler' = [handler EXCEPT ![h] = j] /\ balance[FirstUser] >= amount
        /\ UNCHANGED <<balance, deposits, provider, owed, ledger, crashes, dropped, told,
                       credited, moved>>
        /\ overlapped' = (overlapped \/ Paying # {})
    BY <1>10 DEF LoadToPay
  <2>3. PaymentJobRight(j)
    BY <1>T, <2>1, <2>2 DEF PaymentJobRight
  <2> HIDE DEF j
  <2>4. TypeOK'
    BY <1>T, <2>1, <2>2 DEF TypeOK
  <2> QED
    BY <2>2, <2>3, <2>4, HandlerOnly
<1>11. ASSUME NEW h \in Handlers, InsertPayment(h) PROVE DepositInv'
  <2> DEFINE j == [handler[h] EXCEPT !.at = "move"]
  <2>1. PaymentJobRight(handler[h]) /\ handler[h].amount \in Nat
    BY <1>11, JobKinds DEF InsertPayment, At, PaymentJobRight, PaymentJobs
  <2>2. j \in PaymentJobs /\ j.amount = handler[h].amount /\ j.from = handler[h].from
    BY <2>1 DEF PaymentJobRight, PaymentJobs
  <2>3. /\ handler' = [handler EXCEPT ![h] = j] /\ ledger.made < MaxPayments
        /\ ledger' = [made |-> ledger.made + 1, total |-> ledger.total + handler[h].amount]
        /\ UNCHANGED <<balance, deposits, provider, owed, crashes, history>>
    BY <1>11 DEF InsertPayment, Goes
  <2> HIDE DEF j
  <2>4. TypeOK'
    BY <1>T, <2>1, <2>2, <2>3 DEF TypeOK, history
  <2>5. PaymentJobRight(j)
    BY <2>1, <2>2 DEF PaymentJobRight
  <2> QED
    BY <2>3, <2>4, <2>5, HandlerOnly DEF history
<1>12. ASSUME NEW h \in Handlers, MoveMoney(h) PROVE DepositInv'
  <2> DEFINE job == handler[h]  sum == WithPayment(job.gets, job.amount)
  <2>1. /\ job.from \in Nat /\ job.gets \in Nat /\ job.amount \in Nat /\ job.to \in Users
        /\ job.amount <= job.from
    BY <1>12, JobKinds DEF MoveMoney, At, PaymentJobRight, PaymentJobs
  <2>2. /\ handler' = [handler EXCEPT ![h] = Idle]
        /\ UNCHANGED <<deposits, provider, owed, ledger, crashes, dropped, told, credited,
                       overlapped>>
    BY <1>12 DEF MoveMoney, Ends
  <2>3. balance' \in [Users -> Nat] /\ moved' \in Nat
    <3>1. CASE sum = NotANumber
      BY <1>T, <1>12, <3>1 DEF MoveMoney
    <3>2. CASE sum # NotANumber
      <4>1. sum \in Nat
        BY <2>1, <3>2, PaymentSum
      <4>2. /\ balance' = [balance EXCEPT ![FirstUser] = job.from - job.amount, ![job.to] = sum]
            /\ moved' = moved + IF job.to = FirstUser THEN 0 ELSE job.amount
        BY <1>12, <3>2 DEF MoveMoney
      <4> QED
        BY <1>T, <2>1, <4>1, <4>2
    <3> QED
      BY <3>1, <3>2
  <2>4. TypeOK'
    BY <1>T, <2>2, <2>3 DEF TypeOK
  <2> QED
    BY <2>2, <2>4, HandlerOnly
<1>13. ASSUME NEW h \in Handlers, Fails(h) PROVE DepositInv'
  <2>1. /\ handler' = [handler EXCEPT ![h] = Idle]
        /\ UNCHANGED <<balance, deposits, provider, ledger, crashes, told, credited, moved,
                       overlapped>>
        /\ owed' \subseteq owed
    BY <1>13 DEF Fails, Ends, Answers
  <2>2. dropped' \subseteq Deposits
    BY <1>13, <1>T, JobKinds DEF Fails, Webhook, WebhookJobRight, WebhookJobs
  <2>3. TypeOK'
    BY <1>T, <2>1, <2>2 DEF TypeOK
  <2> QED
    BY <2>1, <2>3, HandlerOnly
<1>14. ASSUME Crash PROVE DepositInv'
  <2>1. /\ handler' = [h \in Handlers |-> Idle] /\ crashes' \in 0 .. MaxCrashes
        /\ UNCHANGED <<balance, deposits, provider, owed, ledger, history>>
    BY <1>14, <1>T DEF Crash
  <2>2. TypeOK'
    BY <1>T, <2>1 DEF TypeOK, history
  <2>3. JobsRight' /\ IntentsApart'
    BY <2>1 DEF JobsRight, IntentsApart, Idle
  <2> QED
    BY <2>1, <2>2, <2>3 DEF DepositInv, NothingBeforeTheRow, CompletedWasPaid, history
<1>15. ASSUME UNCHANGED vars PROVE DepositInv'
  BY <1>15
  DEF vars, DepositInv, TypeOK, JobsRight, DepositJobRight, WebhookJobRight, PaymentJobRight,
      NothingBeforeTheRow, IntentsApart, CompletedWasPaid
<1> QED
  BY <1>1, <1>2, <1>3, <1>4, <1>5, <1>6, <1>7, <1>8,
     <1>9, <1>10, <1>11, <1>12, <1>13, <1>14, <1>15
  DEF Next, Continue, Request

\* No sequence of payments makes a wallet negative, whatever overlaps, fails or crashes.
THEOREM PaymentTypes == Spec => []TypeOK
<1>1. DepositInv => TypeOK
  BY DEF DepositInv
<1> QED
  BY <1>1, DepositInit, DepositStep, PTL DEF Spec

\* A deposit is completed only if its provider was paid or the crypto endpoint, which takes it
\* on trust, was told so: no order of the saves of completeDeposit and of the two webhooks,
\* of failures and of crashes completes another one.
THEOREM CompletedArePaid == Spec => []CompletedWasPaid
<1>1. DepositInv => CompletedWasPaid
  BY DEF DepositInv
<1> QED
  BY <1>1, DepositInit, DepositStep, PTL DEF Spec

-----------------------------------------------------------------------------
(* The bounds of a wallet.                                                  *)

\* What the payment rows say was taken from a user.
Out(u) == IF u = FirstUser THEN ledger.total ELSE 0

\* A payment that is in the ledger and has yet to move its money: its amount, and the cent
\* that a sum may be off by.
Owes(j) == IF j.at = "move" THEN j.amount ELSE 0
Cents(j) == IF j.at = "move" THEN 1 ELSE 0

\* The balances a payment was loaded with keep the bounds when they are saved, however old
\* they are; unless payments overlapped, they are not old.
Accounted(j) ==
  /\ Opening + Owes(j) <= j.from + ledger.total
  /\ Opening <= j.gets + Out(j.to)
  /\ j.from <= Opening + ledger.made
  /\ j.gets + Cents(j) <= Opening + ledger.made
  /\ ~overlapped => /\ j.from = balance[FirstUser] /\ j.gets = balance[j.to]
                    /\ balance[FirstUser] + Cents(j) <= Opening - moved + ledger.made

AtMostACentEach == \A u \in Users : balance[u] <= Opening + ledger.made

OnePayment == ~overlapped => \A h, k \in Paying : h = k

MoneyInv ==
  /\ NeverOvercharged /\ AtMostACentEach /\ DebitedUnlessOverlapped /\ OnePayment
  /\ \A h \in Paying : Accounted(handler[h])

LEMMA MoneyInit == Init => MoneyInv
<1> SUFFICES ASSUME Init PROVE MoneyInv
  OBVIOUS
<1>1. Paying = {}
  BY DEF Init, Paying, Idle
<1>2. \A u \in Users : balance[u] = Opening
  BY DEF Init
<1>3. ledger.made = 0 /\ ledger.total = 0 /\ moved = 0
  BY DEF Init
<1> QED
  BY <1>1, <1>2, <1>3
  DEF MoneyInv, NeverOvercharged, AtMostACentEach, DebitedUnlessOverlapped, OnePayment

\* A step that moves no money and starts no payment.
LEMMA NoMoneyMoves ==
  ASSUME MoneyInv, UNCHANGED <<balance, ledger, moved, overlapped>>,
         \A h \in Handlers : handler'[h].at \in {"insert", "move"} => handler'[h] = handler[h]
  PROVE  MoneyInv'
<1>1. Paying' \subseteq Paying /\ \A h \in Paying' : handler'[h] = handler[h]
  BY DEF Paying
<1> QED
  BY <1>1
  DEF MoneyInv, NeverOvercharged, AtMostACentEach, DebitedUnlessOverlapped, OnePayment,
      Accounted, Out, Owes, Cents

LEMMA MoneyStep == DepositInv /\ MoneyInv /\ [Next]_vars => MoneyInv'
<1> SUFFICES ASSUME DepositInv, MoneyInv, [Next]_vars PROVE MoneyInv'
  OBVIOUS
<1>T. /\ balance \in [Users -> Nat] /\ ledger.made \in Nat /\ ledger.total \in Nat
      /\ handler \in [Handlers -> {Idle} \union DepositJobs \union WebhookJobs \union PaymentJobs]
      /\ moved \in Nat
  BY DEF DepositInv, TypeOK
<1>J. \A h \in Paying : /\ handler[h].from \in Nat /\ handler[h].gets \in Nat
                        /\ handler[h].amount \in Nat /\ handler[h].to \in Users
                        /\ handler[h].amount <= handler[h].from
  BY JobKinds DEF Paying, PaymentJobRight, PaymentJobs
<1>1. ASSUME NEW h \in Handlers, NEW j, handler' = [handler EXCEPT ![h] = j],
             j.at \notin {"insert", "move"},
             UNCHANGED <<balance, ledger, moved, overlapped>>
      PROVE  MoneyInv'
  BY <1>T, <1>1, NoMoneyMoves
<1>I. Idle.at \notin {"insert", "move"}
  BY DEF Idle
<1>2. ASSUME NEW h \in Handlers, NEW d \in Deposits, NEW m \in Methods, Deposit(h, d, m)
      PROVE  MoneyInv'
  <2> DEFINE j == IF m = "CREDIT_CARD" THEN [at |-> "intent", deposit |-> d] ELSE Idle
  <2>1. handler' = [handler EXCEPT ![h] = j] /\ UNCHANGED <<balance, ledger, moved, overlapped>>
    BY <1>2 DEF Deposit, history
  <2>2. j.at \notin {"insert", "move"}
    BY <1>I
  <2> HIDE DEF j
  <2> QED
    BY <1>1, <2>1, <2>2
<1>3. ASSUME NEW h \in Handlers,
             CreateIntent(h) \/ StoreIntent(h) \/ RetrieveIntent(h) \/ SelectDeposit(h)
               \/ SaveDeposit(h)
      PROVE  MoneyInv'
  <2>1. DepositJobRight(handler[h]) \/ WebhookJobRight(handler[h])
    BY <1>3, JobKinds DEF CreateIntent, StoreIntent, RetrieveIntent, SelectDeposit, SaveDeposit,
                          At, Webhook
  <2>2. \A step : [handler[h] EXCEPT !.at = step].at = step
    BY <2>1 DEF DepositJobRight, DepositJobs, WebhookJobRight, WebhookJobs
  <2>3. /\ UNCHANGED <<balance, ledger, moved, overlapped>>
        /\ \/ handler' = [handler EXCEPT ![h] = Idle]
           \/ \E step \in {"store", "select", "save", "credit"} :
                handler' = [handler EXCEPT ![h] = [handler[h] EXCEPT !.at = step]]
    BY <1>3 DEF CreateIntent, StoreIntent, RetrieveIntent, SelectDeposit, SaveDeposit, Goes, Ends,
                Answers, history
  <2> QED
    BY <1>1, <1>I, <2>2, <2>3
<1>4. ASSUME NEW d \in Deposits, ClientPays(d) PROVE MoneyInv'
  BY <1>4, NoMoneyMoves DEF ClientPays, history
<1>5. ASSUME NEW h \in Handlers, NEW d \in Deposits, LoadToComplete(h, d) PROVE MoneyInv'
  <2>1. /\ handler' = [handler EXCEPT ![h] = [at |-> "completing", deposit |-> d]]
        /\ UNCHANGED <<balance, ledger, moved, overlapped>>
    BY <1>5 DEF LoadToComplete, history
  <2> QED
    BY <1>1, <2>1
<1>6. ASSUME NEW h \in Handlers, NEW d \in Deposits,
             Deliver(h, d) \/ \E status \in Outcomes : CryptoEvent(h, d, status)
      PROVE  MoneyInv'
  <2>1. \E at \in {"retrieve", "select"} : \E by, says :
          handler' = [handler EXCEPT ![h] =
                        [at |-> at, deposit |-> d, by |-> by, says |-> says]]
    BY <1>6 DEF Deliver, CryptoEvent
  <2>2. UNCHANGED <<balance, ledger, moved, overlapped>>
    BY <1>6 DEF Deliver, CryptoEvent, history
  <2> QED
    BY <1>1, <2>1, <2>2
<1>7. ASSUME NEW h \in Handlers, SaveCompletion(h) \/ CreditWallet(h) PROVE MoneyInv'
  <2>1. balance' = [balance EXCEPT ![FirstUser] = balance[FirstUser]]
    BY <1>7, DepositSum DEF SaveCompletion, CreditWallet
  <2>2. /\ balance' = balance /\ handler' = [handler EXCEPT ![h] = Idle]
        /\ UNCHANGED <<ledger, moved, overlapped>>
    BY <1>7, <1>T, <2>1 DEF SaveCompletion, CreditWallet, Ends, Answers
  <2> QED
    BY <1>1, <1>I, <2>2
<1>8. ASSUME NEW h \in Handlers, Fails(h) PROVE MoneyInv'
  BY <1>1, <1>8, <1>I DEF Fails, Ends, Answers
<1>9. ASSUME Crash PROVE MoneyInv'
  BY <1>9, <1>I, NoMoneyMoves DEF Crash, history
<1>10. ASSUME NEW h \in Handlers, NEW to \in Creators, NEW amount \in Amounts,
              LoadToPay(h, to, amount)
       PROVE  MoneyInv'
  <2> DEFINE j == [at |-> "insert", to |-> to, amount |-> amount,
                   from |-> balance[FirstUser], gets |-> balance[to]]
  <2>1. /\ handler' = [handler EXCEPT ![h] = j] /\ UNCHANGED <<balance, ledger, moved>>
        /\ overlapped' = (overlapped \/ Paying # {})
    BY <1>10 DEF LoadToPay
  <2>2. j.at = "insert" /\ j.to = to /\ j.from = balance[FirstUser] /\ j.gets = balance[to]
    OBVIOUS
  <2> HIDE DEF j
  <2>3. /\ Paying' = Paying \union {h} /\ handler'[h] = j
        /\ \A k \in Paying \ {h} : handler'[k] = handler[k]
    BY <1>T, <2>1, <2>2 DEF Paying
  <2>4. Accounted(handler[h])'
    <3>1. balance[FirstUser] \in Nat /\ balance[to] \in Nat
      BY <1>T
    <3>2. /\ Opening <= balance[FirstUser] + ledger.total
          /\ balance[FirstUser] <= Opening + ledger.made
      BY DEF MoneyInv, NeverOvercharged, AtMostACentEach
    <3>3. Opening <= balance[to] + Out(to) /\ balance[to] <= Opening + ledger.made
      BY DEF MoneyInv, NeverOvercharged, AtMostACentEach, Out
    <3>4. ~overlapped' => balance[FirstUser] <= Opening - moved + ledger.made
      BY <2>1 DEF MoneyInv, DebitedUnlessOverlapped
    <3> QED
      BY <1>T, <2>1, <2>2, <2>3, <3>1, <3>2, <3>3, <3>4 DEF Accounted, Out, Owes, Cents
  <2>5. OnePayment'
    BY <2>1, <2>3 DEF OnePayment
  <2>6. \A k \in Paying \ {h} : Accounted(handler[k])'
    BY <2>1, <2>3 DEF MoneyInv, Accounted, Out, Owes, Cents
  <2>7. NeverOvercharged' /\ AtMostACentEach' /\ DebitedUnlessOverlapped'
    BY <2>1 DEF MoneyInv, NeverOvercharged, AtMostACentEach, DebitedUnlessOverlapped
  <2> QED
    BY <2>3, <2>4, <2>5, <2>6, <2>7 DEF MoneyInv
<1>11. ASSUME NEW h \in Handlers, InsertPayment(h) PROVE MoneyInv'
  <2> DEFINE j == [handler[h] EXCEPT !.at = "move"]  amount == handler[h].amount
  <2>1. h \in Paying /\ handler[h].at = "insert" /\ PaymentJobRight(handler[h])
    BY <1>11, JobKinds DEF InsertPayment, At, Paying
  <2>2. /\ j.at = "move" /\ j.to = handler[h].to /\ j.amount = amount
        /\ j.from = handler[h].from /\ j.gets = handler[h].gets
    BY <2>1 DEF PaymentJobRight, PaymentJobs
  <2>3. /\ ledger'.made = ledger.made + 1 /\ ledger'.total = ledger.total + amount
        /\ handler' = [handler EXCEPT ![h] = j]
        /\ UNCHANGED <<balance, moved, overlapped>>
    BY <1>11 DEF InsertPayment, Goes, history
  <2> HIDE DEF j
  <2>4. amount \in Nat /\ handler[h].from \in Nat /\ handler[h].gets \in Nat
    BY <1>J, <2>1
  <2> HIDE DEF amount
  <2>5. /\ Paying' = Paying /\ handler'[h] = j
        /\ \A k \in Paying \ {h} : handler'[k] = handler[k]
    BY <1>T, <2>1, <2>2, <2>3 DEF Paying
  <2>6. Accounted(handler[h])'
    <3>1. /\ Opening <= handler[h].from + ledger.total
          /\ Opening <= handler[h].gets + Out(handler[h].to)
          /\ handler[h].from <= Opening + ledger.made
          /\ handler[h].gets <= Opening + ledger.made
          /\ ~overlapped => /\ handler[h].from = balance[FirstUser]
                            /\ handler[h].gets = balance[handler[h].to]
                            /\ balance[FirstUser] <= Opening - moved + ledger.made
      BY <2>1, <2>4, <1>T DEF MoneyInv, Accounted, Owes, Cents
    <3>2. balance[FirstUser] \in Nat
      BY <1>T
    <3> QED
      BY <1>T, <2>2, <2>3, <2>4, <2>5, <3>1, <3>2 DEF Accounted, Out, Owes, Cents
  <2>7. \A k \in Paying \ {h} : Accounted(handler[k])'
    <3> SUFFICES ASSUME NEW k \in Paying \ {h} PROVE Accounted(handler[k])'
      OBVIOUS
    <3>1. Accounted(handler[k]) /\ overlapped
      BY <2>1 DEF MoneyInv, OnePayment
    <3>2. Owes(handler[k]) \in Nat /\ Cents(handler[k]) \in Nat
      BY <1>J DEF Owes, Cents
    <3>3. /\ handler'[k] = handler[k] /\ overlapped'
          /\ handler[k].from \in Nat /\ handler[k].gets \in Nat
      BY <1>J, <2>3, <2>5, <3>1
    <3>4. /\ Opening + Owes(handler[k]) <= handler[k].from + ledger'.total
          /\ handler[k].from <= Opening + ledger'.made
          /\ handler[k].gets + Cents(handler[k]) <= Opening + ledger'.made
      BY <1>T, <2>3, <2>4, <3>1, <3>2, <3>3 DEF Accounted
    <3>5. Opening <= handler[k].gets + Out(handler[k].to)'
      BY <1>T, <2>3, <2>4, <2>5, <3>1, <3>3 DEF Accounted, Out
    <3> QED
      BY <3>3, <3>4, <3>5 DEF Accounted, Owes, Cents
  <2>8. NeverOvercharged' /\ AtMostACentEach' /\ DebitedUnlessOverlapped'
    BY <1>T, <2>3, <2>4
    DEF MoneyInv, NeverOvercharged, AtMostACentEach, DebitedUnlessOverlapped
  <2>9. OnePayment'
    BY <2>3, <2>5 DEF MoneyInv, OnePayment
  <2> QED
    BY <2>5, <2>6, <2>7, <2>8, <2>9 DEF MoneyInv
<1>12. ASSUME NEW h \in Handlers, MoveMoney(h) PROVE MoneyInv'
  <2> DEFINE job == handler[h]  sum == WithPayment(job.gets, job.amount)
             paid == IF job.to = FirstUser THEN 0 ELSE job.amount
  <2>1. h \in Paying /\ job.at = "move"
    BY <1>12 DEF MoveMoney, At, Paying
  <2>2. /\ handler' = [handler EXCEPT ![h] = Idle] /\ UNCHANGED <<ledger, overlapped>>
    BY <1>12 DEF MoveMoney, Ends
  <2>3. CASE sum = NotANumber
    BY <1>1, <1>12, <1>I, <2>2, <2>3 DEF MoveMoney
  <2>4. CASE sum # NotANumber
    <3>1. /\ job.from \in Nat /\ job.gets \in Nat /\ job.amount \in Nat /\ job.to \in Users
          /\ job.amount <= job.from
      BY <1>J, <2>1
    <3>2. sum \in {job.gets, job.gets + 1}
      BY <2>4, <3>1, PaymentSum
    <3>3. /\ balance' = [balance EXCEPT ![FirstUser] = job.from - job.amount, ![job.to] = sum]
          /\ moved' = moved + paid
      BY <1>12, <2>4 DEF MoveMoney
    <3>4. /\ Opening + job.amount <= job.from + ledger.total
          /\ Opening <= job.gets + Out(job.to)
          /\ job.from <= Opening + ledger.made
          /\ job.gets + 1 <= Opening + ledger.made
          /\ ~overlapped => /\ job.from = balance[FirstUser] /\ job.gets = balance[job.to]
                            /\ balance[FirstUser] + 1 <= Opening - moved + ledger.made
      BY <2>1 DEF MoneyInv, Accounted, Owes, Cents
    <3> HIDE DEF sum, job
    <3>5. /\ balance'[job.to] = sum
          /\ job.to # FirstUser => balance'[FirstUser] = job.from - job.amount
          /\ \A u \in Users \ {FirstUser, job.to} : balance'[u] = balance[u]
      BY <1>T, <3>1, <3>3
    <3>6. NeverOvercharged'
      <4> SUFFICES ASSUME NEW u \in Users PROVE (balance[u] + Out(u) >= Opening)'
        BY DEF NeverOvercharged, Out
      <4>1. CASE u = job.to
        BY <1>T, <2>2, <3>1, <3>2, <3>4, <3>5, <4>1 DEF Out
      <4>2. CASE u # job.to /\ u = FirstUser
        BY <1>T, <2>2, <3>1, <3>4, <3>5, <4>2 DEF Out
      <4>3. CASE u # job.to /\ u # FirstUser
        BY <2>2, <3>5, <4>3 DEF MoneyInv, NeverOvercharged, Out
      <4> QED
        BY <4>1, <4>2, <4>3
    <3>7. AtMostACentEach'
      <4> SUFFICES ASSUME NEW u \in Users PROVE (balance[u] <= Opening + ledger.made)'
        BY DEF AtMostACentEach
      <4>1. CASE u = job.to
        BY <1>T, <2>2, <3>1, <3>2, <3>4, <3>5, <4>1
      <4>2. CASE u # job.to /\ u = FirstUser
        BY <1>T, <2>2, <3>1, <3>4, <3>5, <4>2
      <4>3. CASE u # job.to /\ u # FirstUser
        BY <2>2, <3>5, <4>3 DEF MoneyInv, AtMostACentEach
      <4> QED
        BY <4>1, <4>2, <4>3
    <3>8. DebitedUnlessOverlapped'
      <4> SUFFICES ASSUME ~overlapped PROVE (balance[FirstUser] <= Opening - moved + ledger.made)'
        BY <2>2 DEF DebitedUnlessOverlapped
      <4>1. CASE job.to = FirstUser
        BY <1>T, <2>2, <3>1, <3>2, <3>3, <3>4, <3>5, <4>1
      <4>2. CASE job.to # FirstUser
        BY <1>T, <2>2, <3>1, <3>3, <3>4, <3>5, <4>2
      <4> QED
        BY <4>1, <4>2
    <3>9. Paying' = Paying \ {h} /\ \A k \in Paying' : handler'[k] = handler[k]
      BY <1>T, <1>I, <2>2 DEF Paying
    <3>10. \A k \in Paying' : overlapped
      BY <2>1, <3>9 DEF MoneyInv, OnePayment
    <3>11. \A k \in Paying' : Accounted(handler[k])'
      BY <2>2, <3>9, <3>10 DEF MoneyInv, Accounted, Out, Owes, Cents
    <3>12. OnePayment'
      BY <2>2, <3>9 DEF MoneyInv, OnePayment
    <3> QED
      BY <3>6, <3>7, <3>8, <3>11, <3>12 DEF MoneyInv
  <2> QED
    BY <2>3, <2>4
<1>13. ASSUME UNCHANGED vars PROVE MoneyInv'
  BY <1>13, NoMoneyMoves DEF vars, history
<1> QED
  BY <1>2, <1>3, <1>4, <1>5, <1>6, <1>7, <1>8, <1>9, <1>10, <1>11, <1>12, <1>13
  DEF Next, Continue, Request

\* Whatever payments overlap, fail or are cut short, no wallet loses more than its payments.
THEOREM NobodyIsOvercharged == Spec => []NeverOvercharged
<1>1. MoneyInv => NeverOvercharged
  BY DEF MoneyInv
<1> QED
  BY <1>1, DepositInit, DepositStep, MoneyInit, MoneyStep, PTL DEF Spec

\* As long as no two payments overlap, each of them is debited, up to the cents that rounding
\* makes, whichever requests fail between the statements and whenever the server dies.
THEOREM SerialPaymentsAreDebited == Spec => []DebitedUnlessOverlapped
<1>1. MoneyInv => DebitedUnlessOverlapped
  BY DEF MoneyInv
<1> QED
  BY <1>1, DepositInit, DepositStep, MoneyInit, MoneyStep, PTL DEF Spec

\* However often events are delivered, a wallet gains no more than paid deposits and a cent
\* for each payment: no deposit is credited at all.
THEOREM NoMoneyIsMade ==
  ASSUME IsFiniteSet(Deposits)
  PROVE  Spec => []NoMoneyFromNothing
<1>1. DepositInv /\ MoneyInv => NoMoneyFromNothing
  <2> SUFFICES ASSUME DepositInv, MoneyInv, NEW u \in Users
               PROVE  balance[u] <= Opening + ledger.made + DepositAmount
                                      * Cardinality({d \in Deposits : provider[d] = "paid"})
    BY DEF NoMoneyFromNothing
  <2> DEFINE n == Cardinality({d \in Deposits : provider[d] = "paid"})
  <2>1. n \in Nat
    BY FS_Subset, FS_CardinalityType
  <2>2. balance[u] \in Nat /\ ledger.made \in Nat
    BY DEF DepositInv, TypeOK
  <2>3. balance[u] <= Opening + ledger.made
    BY DEF MoneyInv, AtMostACentEach
  <2> HIDE DEF n
  <2>4. DepositAmount * n \in Nat
    BY <2>1
  <2> QED
    BY <2>2, <2>3, <2>4 DEF n
<1> QED
  BY <1>1, DepositInit, DepositStep, MoneyInit, MoneyStep, PTL DEF Spec
===============================================================================
