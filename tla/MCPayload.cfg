\* Every packet of MCPackets; UDP lengths up to MaxLength, words just above.
SPECIFICATION Spec
CONSTANTS
  WordSize = 200
  MaxLength = 60
  Packets <- MCPackets
INVARIANTS
  TypeOK
  UdpPayloadIsTheSenders
  SpanLeavesPacketOnlyIf
PROPERTY
  ImplementsProcessPayload
