\* Pages of four bytes; packets of one header and up to six bytes.
SPECIFICATION FairChangingSpec
CONSTANTS
  ChunkSize = 8
  PageSize = 4
  FileSizes <- MCFileSizes
  GlobalHeaderSize = 3
  PacketHeaderSize = 2
  EthernetHeaderSize = 2
  IPv4HeaderSize = 3
  InclLens <- MCInclLens
  FlushEvery = 1
INVARIANTS
  ChangingTypeOK
  FaultOnlyIfShrunk
  SameFileNeverSucceeds
  SameFileWritesNothing
  FabricatedInLastPage
PROPERTIES
  Termination
  RunsDown
