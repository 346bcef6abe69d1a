\* A SecurityStatus is decoded.
SPECIFICATION Spec
CONSTANTS
  Wires <- MCWires
  StrayHeaders <- MCStrayHeaders
  StrayCounts <- MCStrayCounts
INVARIANT StatusLayoutIsThePackets
