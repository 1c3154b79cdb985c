SPECIFICATION EitherSpec
CONSTANTS
  Pins = {p0, p1}
  p0 = p0
  p1 = p1
  Outputs = {p0}
  Type <- MCType
  SRC_N = 4
  PLIC_SRC_GPIO = 2
  Others = {1, 3}
  Enabled = {2, 3}
  NoWrite = NoWrite
  NoRead = NoRead
  NoEnable = NoEnable
  WORD = 4
  FFT_MIN = 3
  I2S_DEPTH = 6
  FRAMES = 4
  PACE = 4
  IrqScripts <- MCIrqScripts
INVARIANTS PendingExact ClaimFindsSource ProgramsPass TickWhenDue
PROPERTIES EventServed ProgramsEnd
