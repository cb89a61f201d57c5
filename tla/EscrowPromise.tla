---------------------------- MODULE EscrowPromise ----------------------------
(***************************************************************************)
(* What the escrow service promises about money, with no mention of        *)
(* milestones, proofs, payment rows, permissions or schedulers: the buyer's*)
(* money is taken once, held, and then leaves the escrow exactly once,     *)
(* either to the seller or back to the buyer.                              *)
(*                                                                         *)
(* Abstract counterpart of EscrowService in                                *)
(* src/src/modules/security/escrow.service.ts; Escrow.tla implements it.   *)
(***************************************************************************)
EXTENDS Integers

CONSTANTS Users,          \* the holders of wallets
          Escrows,        \* the escrow agreements that may be made
          Buyer,          \* Buyer[e]: the user whose money escrow e holds
          Seller,         \* Seller[e]: the user escrow e is to pay
          Total,          \* Total[e]: the amount, in cents
          InitialBalance  \* InitialBalance[u]: what u's wallet starts with

VARIABLES purse,  \* purse[u]: the money user u can spend
          phase   \* phase[e]: where the money of escrow e is

pvars == <<purse, phase>>

Phases == {"none", "agreed", "held", "paid", "returned", "calledOff"}

PInit ==
  /\ purse = InitialBalance
  /\ phase = [e \in Escrows |-> "none"]

Move(e, from, to) ==
  /\ phase[e] = from
  /\ phase' = [phase EXCEPT ![e] = to]

Agree(e) == Move(e, "none", "agreed") /\ UNCHANGED purse

CallOff(e) == Move(e, "agreed", "calledOff") /\ UNCHANGED purse

\* Money is held only if the buyer has it.
Hold(e) ==
  /\ Move(e, "agreed", "held")
  /\ purse[Buyer[e]] >= Total[e]
  /\ purse' = [purse EXCEPT ![Buyer[e]] = @ - Total[e]]

Pay(e) ==
  /\ Move(e, "held", "paid")
  /\ purse' = [purse EXCEPT ![Seller[e]] = @ + Total[e]]

Return(e) ==
  /\ Move(e, "held", "returned")
  /\ purse' = [purse EXCEPT ![Buyer[e]] = @ + Total[e]]

PNext == \E e \in Escrows : Agree(e) \/ CallOff(e) \/ Hold(e) \/ Pay(e) \/ Return(e)

PSpec == PInit /\ [][PNext]_pvars
==============================================================================
