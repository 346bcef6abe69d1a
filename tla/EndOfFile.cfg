\* A capture whose packets end where a chunk ends.
SPECIFICATION Spec
CONSTANTS
  ChunkSize = 10
  FileSizes <- MCFileSizes
  GlobalHeaderSize = 3
  PacketHeaderSize = 2
  EthernetHeaderSize = 50
  IPv4HeaderSize = 1
  InclLens <- MCInclLens
  FlushEvery = 50
INVARIANT ParsesUntilEndOfFile
