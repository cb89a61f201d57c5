----------------------------- MODULE MCPayments -----------------------------
(* The first user, who is a creator too, and another creator; one deposit and *)
(* two payments, of six dollars (whose digit rounds up) and of one and a half *)
(* (whose sum is no number); two handlers and one crash.                      *)
EXTENDS Payments

CONSTANTS ana, ben, h1, h2, d1

MCUsers == {ana, ben}
MCHandlers == {h1, h2}
MCDeposits == {d1}
MCAmounts == {600, 150}
=============================================================================
