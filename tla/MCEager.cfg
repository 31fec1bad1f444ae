\* The eager parser from the start, with the depth limit, all kinds of collections and their properties: nothing of a document is left for the next one, and every property is its own node's.
CONSTANTS
  Kinds <- EagerKinds
  Columns <- FirstColumn
  MaxText = 4
  MaxEvents = 0
  MaxDepth = 2
  CkptSpacing = 2
  MaxErrors = 1

SPECIFICATION EagerSpec

INVARIANTS
  EagerDepthLimit
  CleanBetweenChunks
  PropertiesInOrder
