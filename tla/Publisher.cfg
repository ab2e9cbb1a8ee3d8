SPECIFICATION Spec
CONSTANTS
  None = None
  Derived = Derived
  Ids = {i1, i2}
  Addresses = {x, y}
  Modes = {"tunnel", "warp", "spectrum", "workers", "dns", "redirect"}
  LostAnswers = TRUE
  StoreFaults = TRUE
  MaxEdits = 1
INVARIANT NothingForgotten
INVARIANT CleanedMeansGone
INVARIANT PublishedIsComplete
INVARIANT NeverRefusesItself
PROPERTY OnlyOwnTouched
PROPERTY KeepsContract
SYMMETRY Symmetry
CONSTRAINT LostBound
CHECK_DEADLOCK FALSE
