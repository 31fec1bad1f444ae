\* Names that are redefined, used in their own nodes and expanded, mappings merged into one another, and both limits, over two documents: the passes over the list compute what merging and expanding mean on the tree.
CONSTANTS
  Names = {"x", "y"}
  Keys = {"a", "b"}
  FirstNodes <- FirstDocuments
  LaterNodes <- LaterDocuments
  MaxDocuments = 2
  MaxEvents = 27
  MaxDepth = 4
  MaxPasses = 32

SPECIFICATION Spec

INVARIANTS
  ExpansionMeaning
  NamesUnique
  FlagsAreTheEndless
  ExpansionWithinLimit
  LimitsExact

PROPERTIES
  FlagsStayAligned
  ExpansionEnds
