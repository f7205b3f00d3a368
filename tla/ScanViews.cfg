SPECIFICATION ScanSpec
CONSTANTS
  LayerCap = 4
  RouteCaps <- MCRouteCaps
  NoRouteCap = NoRouteCap
  MaxUsize = 6
  FrameSizes <- MCFrameSizes
  MaxFrames = 5
  Chars <- MCChars
  HexDigits <- MCHexDigits
  ByteOf <- MCByteOf
  Queries <- MCQueries
  Headers <- MCHeaders
INVARIANTS
  TypeOK
  NoTruncation
  BoundedIntake
  WholeRequestScanned
  NeverInsideEscape
PROPERTY ImplementsVerdict
CHECK_DEADLOCK FALSE
