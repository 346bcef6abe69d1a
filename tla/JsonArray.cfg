\* The array of a capture with one packet.
SPECIFICATION Spec
CONSTANTS
  ChunkSize = 10
  FileSizes <- MCFileSizes
  GlobalHeaderSize = 1
  PacketHeaderSize = 1
  EthernetHeaderSize = 1
  IPv4HeaderSize = 1
  InclLens <- MCInclLens
  FlushEvery = 2
INVARIANT OutputIsJson
