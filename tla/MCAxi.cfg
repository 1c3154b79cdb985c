CONSTANTS
  N = 2
  Value = {0, 1}
  Writes = {1}
  STALL_SETS <- MCStallSets
  ZERO = 0
  NONE = NONE
  NoTxn = NoTxn
  Addr <- MCAddr
  PeriAddr <- MCPeri
  BASES <- MCBases
  SIZES <- MCSizes
  STALLS <- MCStalls
SPECIFICATION FairSpec
INVARIANTS FabricInv
PROPERTIES ImplementsPort ImplementsBus AlwaysAnswers
