\* Two handlers, one deposit, two payments, late and repeated events, one crash.
SPECIFICATION Spec
CONSTANTS
  ana = ana
  ben = ben
  h1 = h1
  h2 = h2
  d1 = d1
  Users <- MCUsers
  FirstUser = ana
  Creators <- MCUsers
  Handlers <- MCHandlers
  Deposits <- MCDeposits
  DepositAmount = 500
  Amounts <- MCAmounts
  Opening = 1000
  MaxPayments = 2
  MaxCrashes = 1
INVARIANT TypeOK
INVARIANT CompletedWasPaid
INVARIANT NeverOvercharged
INVARIANT NoMoneyFromNothing
INVARIANT DebitedUnlessOverlapped
PROPERTY PaidDepositCompletes
