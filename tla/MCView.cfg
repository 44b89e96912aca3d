CONSTANTS
  Width = 16
  Height = 16
  SectorSize = 8
  Unit = 2
  Cell = {me, c1}
  Me = me
  Session = {s1, s2}
  Nowhere = Nowhere
  Nobody = Nobody
  Spots <- SquareSpots
  Radii = {2, 4}
  FoodRadius = 2
  MaxRadius = 3
  Half = 3
SPECIFICATION Spec
INVARIANTS TypeOK NeverFails QueryFindsAll GhostsAreReported
 
SYMMETRY AnySession
