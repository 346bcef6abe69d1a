\* A SecurityDefinition whose groups differ in length is decoded.
SPECIFICATION Spec
CONSTANTS
  Wires <- MCWires
  StrayHeaders <- MCStrayHeaders
  StrayCounts <- MCStrayCounts
INVARIANT GroupSizesAreForTheirEntries
