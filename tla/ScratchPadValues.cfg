SPECIFICATION PadSpec
CONSTANTS
  Junk = Junk
  Blank = Blank
  END = END
  SCRATCH_PAD_SIZE = 6
  Counts = {0, 2}
  MaxNesting = 3
INVARIANTS
  AllValues
CHECK_DEADLOCK FALSE
