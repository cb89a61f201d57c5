\* Three requests in two handlers while the user pays.
SPECIFICATION Spec
CONSTANTS
  p1 = p1
  p2 = p2
  p3 = p3
  h1 = h1
  h2 = h2
  r1 = r1
  r2 = r2
  NoPayment = NoPayment
  Nobody = Nobody
  PaymentIds <- MCPaymentIds
  Reviewers <- MCReviewers
  Handlers <- MCHandlers
  PaidAmounts <- MCPaidAmounts
  AskedAmounts <- MCAskedAmounts
  MaxRequests = 3
SYMMETRY Symmetry
INVARIANT BlockedOnlyByReviewer
INVARIANT MarkedWasAssessed
INVARIANT MarkFollowsLatest
INVARIANT LastReviewStands
