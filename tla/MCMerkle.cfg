SPECIFICATION LeavesSpec
CONSTANTS
  LeafValues = {1, 2}
  MaxLeaves = 9
INVARIANTS
  RootOfFilledUp
  RootBindsLeaves
