\* Flow collections, pairs, explicit keys, properties and aliases on one line: the frames account for every event, and a pending property reaches its own node.
CONSTANTS
  Kinds <- FlowKinds
  Columns <- NoLines
  MaxText = 6
  MaxEvents = 0
  MaxDepth = 0
  CkptSpacing = 2

SPECIFICATION Spec

INVARIANTS
  TypeOK
  FramesMatchEvents
  PropertiesReachTheirNode
