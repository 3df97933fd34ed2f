\* Three players on two workers and two maps.
CONSTANTS
  p1 = p1
  p2 = p2
  p3 = p3
  w1 = w1
  w2 = w2
  Players = {p1, p2, p3}
  Workers = {w1, w2}
  Maps = {m1, m2}
  ThreadOf <- MCThreadOf
SPECIFICATION Spec
 
INVARIANT ScreenIsMap
INVARIANT MovesOfShown
PROPERTY ReadyGetsIn
CHECK_DEADLOCK FALSE
