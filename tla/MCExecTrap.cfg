CONSTANTS
  NPC = 2
  COUNT_MOD = 1
  LSU_LIVE_LOAD = TRUE
  PERI = 4
  EA <- MCEA
  Tval <- MCTval
  XLEN = 2
  EXC_TVAL = 9
  NoPc = NoPc
  LINES = {"MEI", "MSI"}
  Kinds = {"csr", "mret", "wfi", "exception", "branch"}
  LENS = {1}
  SIZES = {4}
  CsrForms <- MCModify
  WFI_PAIRS = FALSE
SPECIFICATION Spec
INVARIANTS CsrReadFresh
PROPERTIES PreciseTraps ImplementsHart
