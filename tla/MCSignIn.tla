------------------------------- MODULE MCSignIn -------------------------------
(***************************************************************************)
(* Instances of SignIn for TLC: one account, whose handlers overlap.       *)
(***************************************************************************)
EXTENDS SignIn, TLC

\* Workers differ only in name.
WorkerSymmetry == Permutations(Workers)
==============================================================================
