CONSTANTS
  NPC = 3
  COUNT_MOD = 1
  LSU_LIVE_LOAD = TRUE
  PERI = 4
  EA <- MCEA
  Tval <- MCTval
  XLEN = 2
  EXC_TVAL = 9
  NoPc = NoPc
  LINES = {"MEI", "MSI"}
  Kinds = {"csr", "wfi"}
  LENS = {1}
  SIZES = {4}
  CsrForms <- MCEnable
  WFI_PAIRS = TRUE
SPECIFICATION Spec
PROPERTY WakeReturnsAfterWfi
