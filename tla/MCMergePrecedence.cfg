\* A source that merges another mapping loses the entries it has from there to a later source.
CONSTANTS
  Names = {"x", "y"}
  Keys = {"a", "b"}
  FirstNodes <- NestedMerges
  LaterNodes = {}
  MaxDocuments = 1
  MaxEvents = 0
  MaxDepth = 0
  MaxPasses = 32

SPECIFICATION Spec

INVARIANTS
  EarlierSourcesWin
