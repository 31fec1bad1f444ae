\* Every place malloc may choose for a block, sizes up to SIZE_MAX and alignments larger than a block: what is given out is the arena's, shared with nothing, and aligned.
CONSTANTS
  Width = 6
  HeaderSize = 3
  MinCapacity = 4
  Grain = 2
  Sizes = {0, 3, 6, 62, 63}
  Alignments = {0, 1, 3, 4, 32}
  MaxLive = 3

SPECIFICATION Spec

INVARIANTS
  MemoryApart
  PointersAligned
