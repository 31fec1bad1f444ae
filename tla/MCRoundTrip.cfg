\* Streams of up to two documents, emitted in all contexts and with settings that change on the way, and longer ones with mappings of two entries: their text is read back as the same events.
CONSTANTS
  Nodes <- AllNodes
  Styles = {"MINIMAL"}
  Indents = {0}
  MaxNodes = 6
  MaxDocuments = 2
  MaxSettings = 1

SPECIFICATION Spec

CONSTRAINT WithinBounds

INVARIANTS
  TypeOK
  ReadsBack
  LexemesStayApart
  ContextsFollowEvents
  FlagsMatchPlace
