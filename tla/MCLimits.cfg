\* Both limits, and scanner errors, in texts that reach them: the limits bound the events and the frames, and what was stopped stays so.
CONSTANTS
  Kinds <- NestedKinds
  Columns <- FirstColumn
  MaxText = 5
  MaxEvents = 7
  MaxDepth = 1
  CkptSpacing = 2

SPECIFICATION Spec

INVARIANTS
  EventLimit
  FrameLimit
  NestingBound
  LimitsAreReached

PROPERTIES
  StaysStopped
  WellFormed
