\* Documents in a row, explicit and implicit, empty, ended or not, with directives, literals, properties and stray flow indicators: nothing of a document is left when the next one starts, and the scanner keeps to the parser's context.
CONSTANTS
  Kinds <- DocumentKinds
  Columns <- FirstColumn
  MaxText = 5
  MaxEvents = 0
  MaxDepth = 0
  CkptSpacing = 2

SPECIFICATION Spec

INVARIANTS
  CleanBetweenDocuments
  ScannerFollowsFrames
