------------------------------- MODULE MCRisk -------------------------------
(* Three payments, as many as make a rapid succession; amounts below and      *)
(* above the limit of a large one; two handlers, two reviewers and three      *)
(* requests.                                                                  *)
EXTENDS Risk, TLC

CONSTANTS p1, p2, p3, h1, h2, r1, r2

MCPaymentIds == {p1, p2, p3}
MCHandlers == {h1, h2}
MCReviewers == {r1, r2}
MCPaidAmounts == {20}
MCAskedAmounts == {20, 300}

Symmetry == Permutations(MCHandlers) \union Permutations(MCReviewers)
              \union Permutations(MCPaymentIds)
=============================================================================
