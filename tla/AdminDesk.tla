----------------------------- MODULE AdminDesk -----------------------------
(***************************************************************************)
(* What administrators do to escrows and disputes: releaseEscrow,          *)
(* refundEscrow and resolveDispute of AdminService                         *)
(* (src/src/modules/admin/admin.service.ts).  Unlike the requests of       *)
(* Escrow and Dispute these run outside of any transaction, so that each   *)
(* statement is a step of its own and the requests of the parties, the     *)
(* jobs and the other administrators come between them.                    *)
(*                                                                         *)
(* desk[a] is the request administrator a is waiting for: what it has      *)
(* still to write, in the order it writes it.                              *)
(***************************************************************************)
EXTENDS Dispute, Sequences

CONSTANTS Admins,     \* administrators, with one request at a time each
          Overshoot,  \* bound: how far below 0 or above the total a custom share may be
          Idle        \* the desk of an administrator without a request

ASSUME AdminAssumption == Overshoot \in Nat

VARIABLE desk

adminVars == <<allVars, desk>>

AdminInit == DisputeInit /\ desk = [a \in Admins |-> Idle]

Credit(u, n) == [to |-> u, amount |-> n]

\* Custom amounts are checked to add up to the total and nothing else; all to one side is the
\* same as naming 0 and the total.
Shares(e) == {<<b, Total[e] - b>> : b \in (0 - Overshoot) .. (Total[e] + Overshoot)}

\* Mutant: a share is credited whatever its sign.
Credits_Signed(e, share) == <<Credit(Buyer[e], share[1]), Credit(Seller[e], share[2])>>

\* The buyer's credit comes first; only positive shares are credited.
Credits(e, share) ==
  LET IfPositive(u, n) == IF n > 0 THEN <<Credit(u, n)>> ELSE <<>>
  IN  IfPositive(Buyer[e], share[1]) \o IfPositive(Seller[e], share[2])

\* Half each, both of them positive; where the total is odd, the column the balance is kept in
\* rounds half a cent either way.
Halves(e) ==
  LET half == {Total[e] \div 2, (Total[e] + 1) \div 2} IN
  {<<Credit(Buyer[e], b), Credit(Seller[e], s)>> : b, s \in half}

Transfers(e) == {Credits(e, share) : share \in Shares(e)} \cup Halves(e)

------------------------------------------------------------------------------
(* A request loads and checks the row, then writes without looking again. *)
Request(disputes, e, s, credits) ==
  [disputes |-> disputes, escrow |-> e, mark |-> s, credits |-> credits,
   step |-> IF disputes = {} THEN "escrow" ELSE "dispute", balance |-> 0]

ReleaseEscrow(a, e) ==
  /\ desk[a] = Idle
  /\ status[e] \in {"FUNDED", "DISPUTED"}
  /\ desk' = [desk EXCEPT ![a] =
                Request({}, e, "RELEASED", <<Credit(Seller[e], Total[e])>>)]
  /\ UNCHANGED allVars

RefundEscrow(a, e) ==
  /\ desk[a] = Idle
  /\ status[e] \in {"FUNDED", "DISPUTED"}
  /\ desk' = [desk EXCEPT ![a] =
                Request({}, e, "REFUNDED", <<Credit(Buyer[e], Total[e])>>)]
  /\ UNCHANGED allVars

ResolveDispute(a, d, credits) ==
  /\ desk[a] = Idle
  /\ dispute[d] \in Active
  /\ desk' = [desk EXCEPT ![a] = Request({d}, DisputeOf[d], "COMPLETED", credits)]
  /\ UNCHANGED allVars

RecordDispute(a) ==
  /\ desk[a] # Idle /\ desk[a].step = "dispute"
  /\ desk' = [desk EXCEPT ![a].step = "escrow"]
  /\ UNCHANGED <<vars, heard, pastDeadline, creating, resolving, deadlineRun>>
  /\ \E d \in desk[a].disputes : SaveDispute(d, "RESOLVED_BY_ADMIN")

\* Mutant: the escrow is given back to its parties.
RecordEscrow_Resumes(a) ==
  /\ desk[a] # Idle /\ desk[a].step = "escrow"
  /\ status' = [status EXCEPT ![desk[a].escrow] = "FUNDED"]
  /\ desk' = [desk EXCEPT ![a].step = "load"]
  /\ UNCHANGED <<wallet, payment, milestone, proof, due, releaseRun, disputeVars>>

RecordEscrow(a) ==
  /\ desk[a] # Idle /\ desk[a].step = "escrow"
  /\ status' = [status EXCEPT ![desk[a].escrow] = desk[a].mark]
  /\ desk' = [desk EXCEPT ![a].step = "load"]
  /\ UNCHANGED <<wallet, payment, milestone, proof, due, releaseRun, disputeVars>>

LoadPayee(a) ==
  /\ desk[a] # Idle /\ desk[a].step = "load"
  /\ desk' = [desk EXCEPT ![a].step = "credit",
                          ![a].balance = wallet[Head(desk[a].credits).to]]
  /\ UNCHANGED allVars

\* The log row saved next lacks the columns TransactionLog does not allow to be null (type,
\* entityType, data): the save throws, and the request ends after its first credit.
CreditPayee(a) ==
  /\ desk[a] # Idle /\ desk[a].step = "credit"
  /\ wallet' = [wallet EXCEPT ![Head(desk[a].credits).to] =
                  desk[a].balance + Head(desk[a].credits).amount]
  /\ desk' = [desk EXCEPT ![a] = Idle]
  /\ UNCHANGED <<status, payment, milestone, proof, due, releaseRun, disputeVars>>

\* A statement fails or the server restarts: what was written stays written.
DeskFails(a) ==
  /\ desk[a] # Idle
  /\ desk' = [desk EXCEPT ![a] = Idle]
  /\ UNCHANGED allVars

AdminStep(a) ==
  \/ \E e \in Escrows : ReleaseEscrow(a, e) \/ RefundEscrow(a, e)
  \/ \E d \in Disputes : \E credits \in Transfers(DisputeOf[d]) : ResolveDispute(a, d, credits)
  \/ RecordDispute(a)
  \/ RecordEscrow(a)
  \/ LoadPayee(a)
  \/ CreditPayee(a)
  \/ DeskFails(a)

AdminNext ==
  \/ DisputeNext /\ UNCHANGED desk
  \/ \E a \in Admins : AdminStep(a)

AdminSpec == AdminInit /\ [][AdminNext]_adminVars

------------------------------------------------------------------------------
(* Properties; DeliveryWasPaid holds here too. *)

\* The type invariant.  Administrators overwrite balances with sums of what they read long
\* before, and may be asked for negative shares, yet no wallet becomes negative.
AdminTypeOK ==
  /\ DisputeTypeOK
  /\ \A a \in Admins : desk[a] # Idle =>
       /\ desk[a].disputes \subseteq Disputes
       /\ desk[a].escrow \in Escrows
       /\ desk[a].mark \in {"RELEASED", "REFUNDED", "COMPLETED"}
       /\ desk[a].step \in {"dispute", "escrow", "load", "credit"}
       /\ desk[a].balance \in Nat
       /\ \A i \in DOMAIN desk[a].credits : desk[a].credits[i].to \in Users
=============================================================================
