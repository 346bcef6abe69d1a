\* Messages of real sizes; group counts of at most two.
SPECIFICATION FairSpec
CONSTANTS
  Wires <- MCWires
  StrayHeaders <- MCStrayHeaders
  StrayCounts <- MCStrayCounts
INVARIANTS
  TypeOK
  DecodesWhatWasSent
  ReportsLastHeader
  OnlyLastMessageIncomplete
PROPERTIES
  Termination
  RunsDown
