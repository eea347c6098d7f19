SPECIFICATION SessionSpec
CONSTANTS
  Tags <- TwoTags
  MaxBalance = 1
  MaxOrders = 2
INVARIANT SessionTypeOK
INVARIANT OneRowAfterBad
INVARIANT OneConnectAfterKill
INVARIANT RowIsWhole
INVARIANT FillIsItsOwn
PROPERTY BadStarves
PROPERTY Resubscribes
PROPERTY BalanceReachesRow
