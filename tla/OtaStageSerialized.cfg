SPECIFICATION StageSpec
CONSTANTS
  Buffers = {b1, b2}
  Idents = {i1, i2}
  NoImage = NoImage
  Expiry = 2
  Retry = 1
INVARIANT Serialized
