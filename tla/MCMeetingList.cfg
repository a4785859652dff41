CONSTANTS
  g1 = g1  g2 = g2  n1 = n1  n2 = n2  d1 = d1
  None = None
  Meetings = {g1, g2}
  Neighborhoods = {n1, n2}
  Dates = {d1}
  Filters <- SomeFilters
  Chips = {"all", "available"}
  Listings <- SomeListings
  MaxChanges = 1
  Polls = {q1, q2}
SPECIFICATION FairSpec
INVARIANTS TypeOK PinnedTooltipOpen
PROPERTIES NeverBackwards FilterKept UserNotDisturbed ListCatchesUp
