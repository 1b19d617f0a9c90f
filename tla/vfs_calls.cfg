\* Two descriptors and one stream over five blocks: lookups lose blocks, the
\* table fills, blocks are used again.
SPECIFICATION Spec
CONSTANTS
  MAX_FDS = 2
  Slots = {s1, s2, s3, s4, s5}
  Streams = {1}
  Paths <- MCPaths
  Directory <- MCDirectory
  Readable <- MCReadable
  Length <- MCLength
  ROOT = 2
  MaxOffset = 2
  NULL = NULL
  SPINS = SPINS
SYMMETRY Blocks
INVARIANTS HeldIsLive LossesAreKnown
PROPERTY DescriptorsSpec
CHECK_DEADLOCK FALSE
