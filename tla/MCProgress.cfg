\* No call runs for ever, and a caller who keeps calling gets to the end of the stream, or to an error.
CONSTANTS
  Kinds <- EveryKind
  Columns <- FirstColumn
  MaxText = 3
  MaxEvents = 0
  MaxDepth = 0
  CkptSpacing = 2

SPECIFICATION PatientCaller

PROPERTIES
  CallReturns
  StreamEnds
