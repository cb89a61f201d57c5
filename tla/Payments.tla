------------------------------ MODULE Payments ------------------------------
(***************************************************************************)
(* Deposits, the providers' webhooks and fan payments, await by await.     *)
(* Every handler works on the row FirstUser: FansController passes         *)
(* req.user.sub, which the JWT strategy does not fill, and TypeORM drops a *)
(* condition that is undefined.  Amounts are in cents.                     *)
(***************************************************************************)
EXTENDS Integers, FiniteSets

CONSTANTS
  Users, FirstUser,
  Creators,        \* the users whose role is CREATOR
  Handlers,        \* requests the server works on at the same time
  Deposits,        \* ids of deposit rows
  DepositAmount,
  Amounts,         \* amounts of payments
  Opening,         \* a wallet's balance at the start
  MaxPayments, MaxCrashes   \* bounds

ASSUME PaymentsAssumption ==
  /\ FirstUser \in Users /\ Creators \subseteq Users
  /\ DepositAmount \in Nat /\ Amounts \subseteq Nat
  /\ Opening \in Nat
  /\ MaxPayments \in Nat /\ MaxCrashes \in Nat

VARIABLES
  balance,     \* wallets.balance
  deposits,    \* the deposit rows
  provider,    \* how far each deposit is at Stripe or at the crypto provider
  owed,        \* deposits whose event Stripe still has to deliver
  handler,     \* what each handler is about to do
  ledger,      \* number and total of the payment rows, all of them COMPLETED
  crashes,
  dropped,     \* Stripe's events answered although their handling failed (history)
  told,        \* what the crypto endpoint was told, of which deposit (history)
  credited,    \* deposits that reached a wallet (history)
  moved,       \* total of the payments to others that were debited (history)
  overlapped   \* two payments were under way at the same time (history)

vars == <<balance, deposits, provider, owed, handler, ledger, crashes,
          dropped, told, credited, moved, overlapped>>
history == <<dropped, told, credited, moved, overlapped>>

Methods == {"CREDIT_CARD", "CRYPTO", "WALLET"}
NoRow == [status |-> "none", method |-> "WALLET", stored |-> FALSE]
Outcomes == {"COMPLETED", "FAILED"}
Rows == [status : {"none", "PENDING"} \union Outcomes, method : Methods, stored : BOOLEAN]

Idle == [at |-> "idle"]
DepositJobs == [at : {"intent", "store", "completing"}, deposit : Deposits]
WebhookJobs ==
  [at : {"retrieve", "select", "save", "credit"}, deposit : Deposits,
   by : {"stripe", "crypto"}, says : Outcomes]
PaymentJobs ==
  [at : {"insert", "move"}, to : Creators, amount : Amounts, from : Nat, gets : Nat]

(* A wallet's balance is never negative, and no handler holds a row or a    *)
(* balance that no row ever had.                                            *)
TypeOK ==
  /\ balance \in [Users -> Nat]
  /\ deposits \in [Deposits -> Rows]
  /\ provider \in [Deposits -> {"none", "intent", "known", "paid"}]
  /\ owed \subseteq Deposits
  /\ handler \in [Handlers -> {Idle} \union DepositJobs \union WebhookJobs \union PaymentJobs]
  /\ ledger \in [made : 0 .. MaxPayments, total : Nat]
  /\ crashes \in 0 .. MaxCrashes
  /\ dropped \subseteq Deposits /\ credited \subseteq Deposits
  /\ told \subseteq Deposits \X Outcomes
  /\ moved \in Nat
  /\ overlapped \in BOOLEAN

Init ==
  /\ balance = [u \in Users |-> Opening]
  /\ deposits = [d \in Deposits |-> NoRow]
  /\ provider = [d \in Deposits |-> "none"]
  /\ owed = {} /\ dropped = {} /\ told = {} /\ credited = {}
  /\ handler = [h \in Handlers |-> Idle]
  /\ ledger = [made |-> 0, total |-> 0]
  /\ crashes = 0 /\ moved = 0
  /\ overlapped = FALSE

-----------------------------------------------------------------------------
(* `wallet.balance += amount`: the driver returns a decimal column as text   *)
(* with two decimals, so the amount is appended to it.  The column refuses    *)
(* a text with two points and rounds the third decimal.                       *)

NotANumber == -1

FirstDigit[n \in Nat] == IF n < 10 THEN n ELSE FirstDigit[n \div 10]

AppendedTo(b, amount, point) ==
  IF point THEN NotANumber
  ELSE IF FirstDigit[amount \div 100] >= 5 THEN b + 1 ELSE b

(* A deposit's amount comes from a decimal column too, a payment's from the *)
(* request's JSON.                                                          *)
(* Mutant: the column is converted to a number first. *)
WithDeposit_AsNumber(b) == b + DepositAmount
WithDeposit(b) == AppendedTo(b, DepositAmount, TRUE)
WithPayment(b, amount) == AppendedTo(b, amount, amount % 100 # 0)

-----------------------------------------------------------------------------
(* Deposits *)

At(h, step) == handler[h].at = step
Goes(h, step) == handler' = [handler EXCEPT ![h].at = step]
Ends(h) == handler' = [handler EXCEPT ![h] = Idle]

(* deposit: the row comes first, then the provider.  The id of a crypto      *)
(* payment is not stored; another method is refused and leaves the row.      *)
Deposit(h, d, m) ==
  /\ At(h, "idle") /\ deposits[d] = NoRow
  /\ deposits' = [deposits EXCEPT ![d] = [status |-> "PENDING", method |-> m, stored |-> FALSE]]
  /\ handler' = [handler EXCEPT ![h] =
                   IF m = "CREDIT_CARD" THEN [at |-> "intent", deposit |-> d] ELSE Idle]
  /\ provider' = [provider EXCEPT ![d] = IF m = "CRYPTO" THEN "known" ELSE "none"]
  /\ UNCHANGED <<balance, owed, ledger, crashes, history>>

(* Mutant: the client is told how to pay before the id is stored. *)
CreateIntent_TellsClient(h) ==
  /\ At(h, "intent")
  /\ provider' = [provider EXCEPT ![handler[h].deposit] = "known"]
  /\ Goes(h, "store")
  /\ UNCHANGED <<balance, deposits, owed, ledger, crashes, history>>

CreateIntent(h) ==
  /\ At(h, "intent")
  /\ provider' = [provider EXCEPT ![handler[h].deposit] = "intent"]
  /\ Goes(h, "store")
  /\ UNCHANGED <<balance, deposits, owed, ledger, crashes, history>>

(* Only the answer after this update tells the client how to pay. *)
StoreIntent(h) ==
  /\ At(h, "store")
  /\ deposits' = [deposits EXCEPT ![handler[h].deposit].stored = TRUE]
  /\ provider' = [provider EXCEPT ![handler[h].deposit] = IF @ = "intent" THEN "known" ELSE @]
  /\ Ends(h)
  /\ UNCHANGED <<balance, owed, ledger, crashes, history>>

ClientPays(d) ==
  /\ provider[d] = "known"
  /\ provider' = [provider EXCEPT ![d] = "paid"]
  /\ owed' = IF deposits[d].method = "CREDIT_CARD" THEN owed \union {d} ELSE owed
  /\ UNCHANGED <<balance, deposits, handler, ledger, crashes, history>>

(* completeDeposit: the client asks for it whether the deposit was paid or   *)
(* not.  The wallet is saved first and its save is refused, which leaves the  *)
(* deposit as it was.                                                         *)
LoadToComplete(h, d) ==
  /\ At(h, "idle")
  /\ deposits[d].status = "PENDING"
  /\ handler' = [handler EXCEPT ![h] = [at |-> "completing", deposit |-> d]]
  /\ UNCHANGED <<balance, deposits, provider, owed, ledger, crashes, history>>

(* Mutant: the deposit is saved before the wallet. *)
SaveCompletion_DepositFirst(h) ==
  /\ At(h, "completing")
  /\ deposits' = [deposits EXCEPT ![handler[h].deposit].status = "COMPLETED"]
  /\ Ends(h)
  /\ UNCHANGED <<balance, provider, owed, ledger, crashes, history>>

SaveCompletion(h) ==
  /\ At(h, "completing")
  /\ LET sum == WithDeposit(balance[FirstUser])
     IN /\ balance' = [balance EXCEPT ![FirstUser] = IF sum = NotANumber THEN @ ELSE sum]
        /\ deposits' = [deposits EXCEPT ![handler[h].deposit].status =
                          IF sum = NotANumber THEN @ ELSE "COMPLETED"]
        /\ credited' = IF sum = NotANumber THEN credited
                       ELSE credited \union {handler[h].deposit}
  /\ Ends(h)
  /\ UNCHANGED <<provider, owed, ledger, crashes, dropped, told, moved, overlapped>>

-----------------------------------------------------------------------------
(* Stripe's webhook.  Stripe delivers an event until it is answered, and     *)
(* perhaps again.                                                             *)

Deliver(h, d) ==
  /\ At(h, "idle")
  /\ deposits[d].method = "CREDIT_CARD" /\ provider[d] = "paid"
  /\ handler' = [handler EXCEPT ![h] =
                   [at |-> "retrieve", deposit |-> d, by |-> "stripe", says |-> "COMPLETED"]]
  /\ UNCHANGED <<balance, deposits, provider, owed, ledger, crashes, history>>

RetrieveIntent(h) ==
  /\ At(h, "retrieve")
  /\ Goes(h, "select")
  /\ UNCHANGED <<balance, deposits, provider, owed, ledger, crashes, history>>

(* The crypto provider's webhook: the provider is a stand-in, so any deposit *)
(* may be named with any outcome, at any time and paid for or not.           *)
CryptoEvent(h, d, status) ==
  /\ At(h, "idle") /\ deposits[d] # NoRow
  /\ handler' = [handler EXCEPT ![h] =
                   [at |-> "select", deposit |-> d, by |-> "crypto", says |-> status]]
  /\ told' = told \union {<<d, status>>}
  /\ UNCHANGED <<balance, deposits, provider, owed, ledger, crashes,
                 dropped, credited, moved, overlapped>>

(* Either webhook finds the deposit by the id that was stored. *)
Answers(h) ==
  /\ Ends(h)
  /\ owed' = IF handler[h].by = "stripe" THEN owed \ {handler[h].deposit} ELSE owed

SelectDeposit(h) ==
  /\ At(h, "select")
  /\ IF deposits[handler[h].deposit].stored
       THEN Goes(h, "save") /\ UNCHANGED owed
       ELSE Answers(h)
  /\ UNCHANGED <<balance, deposits, provider, ledger, crashes, history>>

SaveDeposit(h) ==
  /\ At(h, "save")
  /\ deposits' = [deposits EXCEPT ![handler[h].deposit].status = handler[h].says]
  /\ IF handler[h].says = "COMPLETED"
       THEN Goes(h, "credit") /\ UNCHANGED owed
       ELSE Answers(h)
  /\ UNCHANGED <<balance, provider, ledger, crashes, history>>

(* The user's wallet is loaded and saved; an error is caught. *)
CreditWallet(h) ==
  /\ At(h, "credit")
  /\ LET sum == WithDeposit(balance[FirstUser])
     IN /\ balance' = [balance EXCEPT ![FirstUser] = IF sum = NotANumber THEN @ ELSE sum]
        /\ credited' = IF sum = NotANumber THEN credited
                       ELSE credited \union {handler[h].deposit}
  /\ Answers(h)
  /\ UNCHANGED <<deposits, provider, ledger, crashes, dropped, told, moved, overlapped>>

-----------------------------------------------------------------------------
(* payCreator and payByAlias *)

Paying == {h \in Handlers : handler[h].at \in {"insert", "move"}}

(* Mutant: the balance is not checked. *)
LoadToPay_Unchecked(h, to, amount) ==
  /\ At(h, "idle")
  /\ handler' = [handler EXCEPT ![h] =
                   [at |-> "insert", to |-> to, amount |-> amount,
                    from |-> balance[FirstUser], gets |-> balance[to]]]
  /\ overlapped' = (overlapped \/ Paying # {})
  /\ UNCHANGED <<balance, deposits, provider, owed, ledger, crashes, dropped, told, credited, moved>>

(* Mutant: the payment row is forgotten. *)
LoadToPay_NoRow(h, to, amount) ==
  /\ At(h, "idle")
  /\ balance[FirstUser] >= amount
  /\ handler' = [handler EXCEPT ![h] =
                   [at |-> "move", to |-> to, amount |-> amount,
                    from |-> balance[FirstUser], gets |-> balance[to]]]
  /\ overlapped' = (overlapped \/ Paying # {})
  /\ UNCHANGED <<balance, deposits, provider, owed, ledger, crashes, dropped, told, credited, moved>>

LoadToPay(h, to, amount) ==
  /\ At(h, "idle") /\ ledger.made < MaxPayments
  /\ balance[FirstUser] >= amount
  /\ handler' = [handler EXCEPT ![h] =
                   [at |-> "insert", to |-> to, amount |-> amount,
                    from |-> balance[FirstUser], gets |-> balance[to]]]
  /\ overlapped' = (overlapped \/ Paying # {})
  /\ UNCHANGED <<balance, deposits, provider, owed, ledger, crashes, dropped, told, credited, moved>>

InsertPayment(h) ==
  /\ At(h, "insert") /\ ledger.made < MaxPayments
  /\ ledger' = [made |-> ledger.made + 1, total |-> ledger.total + handler[h].amount]
  /\ Goes(h, "move")
  /\ UNCHANGED <<balance, deposits, provider, owed, crashes, history>>

(* Both wallets in one transaction, the recipient's last. *)
(* Mutant: the payer's wallet is forgotten. *)
MoveMoney_RecipientOnly(h) ==
  LET job == handler[h]
      sum == WithPayment(job.gets, job.amount)
  IN /\ At(h, "move")
     /\ IF sum = NotANumber
          THEN UNCHANGED <<balance, moved>>
          ELSE /\ balance' = [balance EXCEPT ![job.to] = sum]
               /\ moved' = moved + IF job.to = FirstUser THEN 0 ELSE job.amount
     /\ Ends(h)
     /\ UNCHANGED <<deposits, provider, owed, ledger, crashes, dropped, told, credited, overlapped>>

MoveMoney(h) ==
  LET job == handler[h]
      sum == WithPayment(job.gets, job.amount)
  IN /\ At(h, "move")
     /\ IF sum = NotANumber
          THEN UNCHANGED <<balance, moved>>
          ELSE /\ balance' = [balance EXCEPT ![FirstUser] = job.from - job.amount, ![job.to] = sum]
               /\ moved' = moved + IF job.to = FirstUser THEN 0 ELSE job.amount
     /\ Ends(h)
     /\ UNCHANGED <<deposits, provider, owed, ledger, crashes, dropped, told, credited, overlapped>>

-----------------------------------------------------------------------------
(* A statement or a call of Stripe's fails: the request ends.  A webhook      *)
(* answers {received: false} with a status that Stripe takes for success.     *)
Fails(h) ==
  /\ ~At(h, "idle")
  /\ IF handler[h].at \in {"retrieve", "select", "save", "credit"}
       THEN /\ Answers(h)
            /\ dropped' = IF handler[h].by = "stripe"
                            THEN dropped \union {handler[h].deposit} ELSE dropped
       ELSE Ends(h) /\ UNCHANGED <<owed, dropped>>
  /\ UNCHANGED <<balance, deposits, provider, ledger, crashes, told, credited, moved, overlapped>>

Crash ==
  /\ crashes < MaxCrashes
  /\ crashes' = crashes + 1
  /\ handler' = [h \in Handlers |-> Idle]
  /\ UNCHANGED <<balance, deposits, provider, owed, ledger, history>>

Continue(h) ==
  \/ CreateIntent(h) \/ StoreIntent(h) \/ SaveCompletion(h)
  \/ RetrieveIntent(h) \/ SelectDeposit(h) \/ SaveDeposit(h) \/ CreditWallet(h)
  \/ InsertPayment(h) \/ MoveMoney(h) \/ Fails(h)

Request(h) ==
  \/ \E d \in Deposits : \/ \E m \in Methods : Deposit(h, d, m)
                         \/ LoadToComplete(h, d)
                         \/ Deliver(h, d)
                         \/ \E status \in Outcomes : CryptoEvent(h, d, status)
  \/ \E to \in Creators, amount \in Amounts : LoadToPay(h, to, amount)

Next ==
  \/ \E h \in Handlers : Continue(h) \/ Request(h)
  \/ \E d \in Deposits : ClientPays(d)
  \/ Crash

(* Every await ends, and Stripe delivers what it owes again and again        *)
(* until the server has taken and answered it.                                *)
Fairness ==
  /\ \A h \in Handlers : WF_vars(Continue(h))
  /\ \A d \in Deposits : SF_vars(d \in owed /\ \E h \in Handlers : Deliver(h, d))

Spec == Init /\ [][Next]_vars /\ Fairness

-----------------------------------------------------------------------------
(* A deposit is COMPLETED only if its provider was paid or the crypto         *)
(* endpoint, which takes it on trust, was told so.  completeDeposit takes the *)
(* client's word for it, and the order of its two saves is all that stands in *)
(* the way; Stripe's route never completes an unpaid one.                     *)
CompletedWasPaid ==
  \A d \in Deposits :
    deposits[d].status = "COMPLETED" => provider[d] = "paid" \/ <<d, "COMPLETED">> \in told

(* Whatever payments overlap, fail or are cut short, no wallet loses more     *)
(* than the payments recorded against it.                                     *)
NeverOvercharged ==
  \A u \in Users :
    balance[u] + (IF u = FirstUser THEN ledger.total ELSE 0) >= Opening

(* However often events are delivered, a wallet grows by no more than the     *)
(* deposits that were paid and, for the digits a payment appends, a cent each.*)
NoMoneyFromNothing ==
  \A u \in Users :
    balance[u] <= Opening + ledger.made
                    + DepositAmount * Cardinality({d \in Deposits : provider[d] = "paid"})

(* Payments that did not overlap were debited, each of them once: a lost      *)
(* debit takes two that were under way at the same time.                      *)
DebitedUnlessOverlapped ==
  ~overlapped => balance[FirstUser] <= Opening - moved + ledger.made

(* A card deposit whose money Stripe has becomes COMPLETED, unless the        *)
(* handling of its event failed or the crypto endpoint was told that the      *)
(* deposit failed: no event comes before the deposit can be found by it.      *)
PaidDepositCompletes ==
  \A d \in Deposits :
    (deposits[d].method = "CREDIT_CARD" /\ provider[d] = "paid")
      ~> \/ deposits[d].status = "COMPLETED"
         \/ d \in dropped \/ <<d, "FAILED">> \in told

(* "If successful, update user wallet balance": the webhook credits the       *)
(* deposit it has completed, unless an error, a crash or an answer still      *)
(* outstanding kept it from it; the crypto endpoint's events are left aside.  *)
CompletedDepositsCredited ==
  \A d \in Deposits :
    (/\ deposits[d].status = "COMPLETED" /\ d \notin dropped
     /\ crashes = 0 /\ d \notin owed /\ <<d, "COMPLETED">> \notin told)
      => d \in credited
=============================================================================
