\* A pair in a flow sequence nests one level deeper than the depth limit.
CONSTANTS
  Kinds <- FlowKinds
  Columns <- NoLines
  MaxText = 4
  MaxEvents = 0
  MaxDepth = 1
  CkptSpacing = 2

SPECIFICATION Spec

INVARIANTS
  DeliveredDepth
