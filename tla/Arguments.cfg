\* Up to five arguments, both spellings of one flag.
SPECIFICATION Spec
CONSTANTS
  PcapFlags = {"-p", "--pcap_dump"}
  OutFlags = {"-o"}
  Names = {"", "a", "output.json"}
  NoName = ""
  DefaultOutput = "output.json"
  MaxArgs = 5
INVARIANTS
  TypeOK
  NamesAreTheArguments
  StartsWithBothNames
