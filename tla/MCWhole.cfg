\* The incremental parser, the fallback and the eager parser together, with the event limit and a caller who goes on after an error: what is delivered again is what was delivered, and both parsers are of one language.
CONSTANTS
  Kinds <- WholeKinds
  Columns <- FirstColumn
  MaxText = 5
  MaxEvents = 9
  MaxDepth = 0
  CkptSpacing = 2
  MaxErrors = 2

SPECIFICATION WholeSpec

INVARIANTS
  FallbackRepeats
  ParsersAgree
  EventsCountedOnce
  WholeEventLimit
  WholeStream

PROPERTIES
  WholeWellFormed
