\* Two addresses, the lower of which may come in late and shift the other.
CONSTANTS
  Addr = {1, 2}
  MaxId = 4
  MaxFrame = 4
  Fallback = FALSE
SPECIFICATION Spec
INVARIANTS
  TypeOK
  EvaluatedIsAligned
  InsertsArePublished
