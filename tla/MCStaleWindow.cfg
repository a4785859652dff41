CONSTANTS
  WindowUpdates = {w1, w2}
  VisibilityUpdates = {v1}
  Openings <- FormOpenings
  Grid = 4
  MaxNow = 8
  MaxStops = 1
  NoRow = NoRow
  Clients = {c1}
  TicksPerMs = 2
  MaxTimer = 3
SPECIFICATION Spec
INVARIANTS OpensAsScheduled
