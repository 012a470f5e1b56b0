\* A publish that does not wait for its window.
CONSTANTS
  Addr = {1, 2}
  MaxId = 4
  MaxFrame = 4
  Fallback = TRUE
SPECIFICATION Spec
INVARIANTS
  EvaluatedIsAligned
