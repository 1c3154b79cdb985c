SPECIFICATION SerialSpec
CONSTANTS
  FIFO_DEPTH = 4
  SLAVE = 80
  NREGS = 4
  Scripts <- EmptyRead
  Faults = {}
  SPI_DEPTH = 2
  W25Q_PAGE_SIZE = 4
  FLASH_SIZE = 8
  SpiScripts = {}
  IN_BUF_SIZE = 7
  UART_DEPTH = 2
  MON_BITS = 4
  MonScripts = {}
  PHASE_CHARS = 2
  HALF = 3
  BUF = 5
  R = 2
  ACC = 4
  KMIN = 4
  KMAX = 63
  FLOOR = 20
  WIDTH = 6
  HEIGHT = 16
  COORD = 32
  GLYPH <- MCGlyph
  FONT_W = 3
  FONT_H = 3
  CHAR_W = 4
INVARIANT CleanReturn
