CONSTANTS
  NPC = 1
  COUNT_MOD = 2
  LSU_LIVE_LOAD = TRUE
  PERI = 4
  EA <- MCEA
  Tval <- MCTval
  XLEN = 1
  EXC_TVAL = 9
  NoPc = NoPc
  LINES = {"MEI"}
  Kinds = {"load", "store", "csr", "wfi", "div"}
  LENS = {1}
  SIZES = {4}
  CsrForms <- MCEnable
  WFI_PAIRS = FALSE
SPECIFICATION FairSpec
INVARIANTS ExecInv RequestIsTheOps
PROPERTIES ImplementsHart NoStuckStall
