CONSTANTS
  Width = 16
  Height = 8
  SectorSize = 8
  Unit = 2
  Cell = {me, c1}
  Me = me
  Session = {s1}
  Nowhere = Nowhere
  Nobody = Nobody
  Spots <- FlatSpots
  Radii = {2}
  FoodRadius = 2
  MaxRadius = 3
  Half = 3
SPECIFICATION Spec
INVARIANT AssertionsHold
