\* Three users and one order.  Orders end, so a state where it has ended has no
\* successor.
SPECIFICATION FairSpec
CONSTANTS
  Users = {u1, u2, u3}
  Orders = {o1}
  Whole = 4
  Ratios = {0, 4}
  Price = 3
  Quota = 5
  MaxMembers = 3
  Opening = 3
  MaxInvites = 2
  MaxChanges = 1
  MaxSpent = 1
  None = None
INVARIANTS ConfirmedIsReserved MoneyFollowsOrder DeliveredOnce Conserved
PROPERTIES SharesFrozen DueExpires
CHECK_DEADLOCK FALSE
