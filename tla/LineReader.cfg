SPECIFICATION LinesSpec
CONSTANTS
  Characters = {"a", "b"}
  MaxText = 4
  MaxExits = 1
INVARIANTS LinesAreWhole
CHECK_DEADLOCK FALSE
