SPECIFICATION DecodeSpec
CONSTANTS
  BLOCKS = 4
  IMEM_BLOCKS = 3
  BOOT_ADDR = 0
  BUF_DEPTH = 4
  NoAddr = NoAddr
  Image <- MCImageSpan
  ZERO <- MCZero
  PHT <- MCPHT
  Words <- MCNoWord
PROPERTY FaultNamesInstruction
