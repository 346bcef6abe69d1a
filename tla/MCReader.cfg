\* The input side: four chunks and every way packets can straddle them.
SPECIFICATION FairSpec
CONSTANTS
  ChunkSize = 10
  FileSizes <- MCFileSizes
  GlobalHeaderSize = 3
  PacketHeaderSize = 2
  EthernetHeaderSize = 50
  IPv4HeaderSize = 1
  InclLens <- MCInclLens
  FlushEvery = 50
INVARIANTS
  TypeOK
  WindowIsFile
  WindowInBounds
  ChunksPartitionPrefix
  MappingsAligned
  RefusedOnlyIfTruncated
  TooSmallOnlyForHugePackets
PROPERTIES
  StreamSpec
  Termination
  RunsDown
