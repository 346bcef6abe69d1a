\* The output side: at most five packets, flushed in twos.
SPECIFICATION FairSpec
CONSTANTS
  ChunkSize = 10
  FileSizes <- MCFileSizes
  GlobalHeaderSize = 1
  PacketHeaderSize = 1
  EthernetHeaderSize = 1
  IPv4HeaderSize = 1
  InclLens <- MCInclLens
  FlushEvery = 2
INVARIANTS
  OutputIsPrefix
  NothingLostOnExit
  PendingIsBounded
  OutputOpenedAfterInput
PROPERTY
  LogSpec
