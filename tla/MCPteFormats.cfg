SPECIFICATION Spec
CONSTANTS
  PAddr <- MC_PAddr
  HugeAligned <- MC_HugeAligned
INVARIANTS FlagsKept AddressKept KindKept
