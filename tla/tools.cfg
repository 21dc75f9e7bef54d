CONSTANTS
  p1 = p1
  p2 = p2
  Procs = {p1, p2}
  First = p1
  k1 = k1
  k2 = k2
  k3 = k3
  Instances = {k1, k2, k3}
  NULL = NULL
  MaxFd = 3
  ForeignFd = 1
  Settings <- MCSettings
  MaxCalls = 3
  MaxDomain = 17
  CommandLines <- MCCommandLines
  Covered <- MCCovered
  Blocks <- MCBlocks
  Addresses <- MCAddresses
  addr_to_line <- MCAddrToLine
  NoFile = NoFile
  Searched = {"h"}
  Invalid = Invalid
  MaxRecords = 5
  MaxInput = 3
  FileLength = 8
  BlockSize = 1
  MaxWords = 4
  MaxReads = 6
  Strings <- MCStrings
  ListFiles <- MCListFiles
  Functions <- MCFunctions
  FunctionAt <- MCFunctionAt
  Names <- MCNames
  LengthOf <- MCLengthOf
  Chunk = 4
  Die <- MCDie
  Units <- MCUnits
  DataTypes <- MCDataTypes
  NameToSize <- MCNameToSize
  AddrSize = 8
  FakeSize = 1048576
SPECIFICATION ToolsSpec
SYMMETRY Symmetric
INVARIANT DumpComplete
INVARIANT OwnFilesOnly
INVARIANT FaultsOnlyAtEnds
INVARIANT PictureFaithful
INVARIANT BlocksMerged
INVARIANT CoverageAddsUp
INVARIANT ReadsTheFile
INVARIANT TreeSound
INVARIANT StringsInterned
INVARIANT TypesResolved
INVARIANT BitfieldsExact
INVARIANT HolesAddUp
INVARIANT LayoutTiles
INVARIANT TypesFound
CHECK_DEADLOCK FALSE
