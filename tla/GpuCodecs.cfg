SPECIFICATION MCSpec
CONSTANTS
  Width = 6
  Mantissa = 3
  Narrow = 2
  Deltas <- MCDeltas
  Sizes = {4, 6}
  Kwargs = {Unset, "cupy", "cccl"}
  Pins <- MCPins
  MaxCalls = 3
  Unset = Unset
  Layouts <- MCLayouts
  MaxItems = 3
  MaxChunksPerCall = 2
  Tails = FALSE
  None = None
  SpecNbytes = 8
  BodyNbytes = 6
  Befores = {"none", "shuffle"}
  Metadata <- MCMetadata
  ChunkNbytes = 8
CHECK_DEADLOCK FALSE
INVARIANTS
  SettingsAreScoped
  FiltersInvert
  RoundsToNearestEven
  DecodesOrRaises
  RaisesOnlyUnsupported
  ReadsBack
  OrdinaryChainsDecode
