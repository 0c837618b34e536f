SPECIFICATION Spec
CONSTANTS
  None = None
  Latitudes <- AroundEquator
  Longitudes <- AroundDateLine
  Radii = {1, 2}
  MaxRadius = 2
  Metre = 3
  Hundred = 30
  Circle = 36
  Sights = {"own", "none"}
  Limits = {1, 2}
  Offsets = {0, 1}
  MaxRows = 3
CHECK_DEADLOCK FALSE
INVARIANTS TypeOK ListedMatch NearestListed FirstListed EndLosesLargerOnly RangeLosesNothing PageOfVisible
