\* The book and the contract together: three orders, amounts that do not
\* divide each other, prices with one binary digit after the point.
CONSTANTS
  User = {u1}
  NoUser = NoUser
  FirstToken = first
  SecondToken = second
  Amount <- MCAmount
  MaxOrders = 3
  Scale = 2
CHECK_DEADLOCK FALSE
SPECIFICATION Spec
INVARIANTS
  BookAgrees
  RestingPriceKept
  RestingCovered
  MatchesExecute
