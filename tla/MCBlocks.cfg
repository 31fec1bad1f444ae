\* Block collections, explicit and simple keys, and flow collections as keys, on lines of two columns; the cache of the lookahead answers as a new lookahead would, and its answer is what the scanner later finds.
CONSTANTS
  Kinds <- BlockKinds
  Columns <- TwoColumns
  MaxText = 5
  MaxEvents = 0
  MaxDepth = 0
  CkptSpacing = 2

SPECIFICATION Spec

INVARIANTS
  FramesMatchEvents
  FlowKeyCacheAgrees
  NoMissedFlowKey

PROPERTIES
  WellFormed
