CONSTANTS
  Worker = {w1, w2}
  Connection = {c1}
  Room = {r1}
  Statistics = TRUE
  MaxReloads = 1
  MaxTicks = 1
  Nobody = Nobody
SPECIFICATION Spec
INVARIANTS TypeOK NeverOpenedTwice AcceptsAreKept 
PROPERTIES StopEndsOrIsBlocked 
CHECK_DEADLOCK FALSE
