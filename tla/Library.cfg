CONSTANTS
  CharBits = 2
  ShortBits = 3
  IntBits = 4
  LongBits = 5
  PRINTF_NTOA_BUFFER_SIZE = 8
  PRINTF_FTOA_BUFFER_SIZE = 12
  FracBits = 6
  MantBits = 12
  NaN = NaN
  ThresMax = 31
  Conversions <- Mixed
  Alone <- Singles
  MaxItems = 2
  MaxLens = {0, 1, 6, 100}
  B = 6
  L = 2
  ByteBits = 3
  MaxLen = 13
SPECIFICATION MCSpec
INVARIANTS MatchesC BufferHoldsPrefix
  BytesAccounted PartialBlockKept LengthCounted UnusedZeroed
PROPERTY DigestSpec
