CONSTANTS
  BLOCKS = 5
  IMEM_BLOCKS = 3
  EXEC_REDIR_INCYCLE = TRUE
  BOOT_ADDR = 0
  Image <- MCImage
  Instr <- MCInstr
  ZERO = 0
  NoAddr = NoAddr
SPECIFICATION FairSpec
INVARIANTS FetchInv ReqPcNotOverwritten
PROPERTIES ImplementsStream KeepsDelivering
