SPECIFICATION Spec
CONSTANTS
  FIFO_DEPTH = 3
  TUNER_N = 6
  TUNER_HOP = 2
  TUNER_ANIM_STEPS = 2
  TUNER_DECIM = 2
  TUNER_HOLD_FRAMES = 1
  TUNER_IN_TUNE_CENTS = 1
  Notes = {1, 2}
  FLAT = 4
  SHARP = 1
  CHUNK_WORDS = 1
  DRAW_WORDS = 1
  UPDATE_WORDS = 4
INVARIANTS CleanWindow OneHopOld ScreenShowsReading
PROPERTIES NeedleSettles KeepsAnalysing
