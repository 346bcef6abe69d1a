\* Flag sets of four bits, two of them named; groups of at most two entries.
SPECIFICATION Spec
CONSTANTS
  Bits <- MCBits
  NamedBits <- MCNamedBits
  Packets <- MCPackets
INVARIANTS
  TypeOK
  JsonExactlyUnless
  FlagsAreListed
