CONSTANTS
  a = a
  one = one
  NUL = NUL
  blank = blank
  Letter <- MCLetter
  Digit <- MCDigit
  KBUF = 3
  MaxLine = 2
  COLS = 2
  TEXT = 2
  ROWS = 3
  TAB = 1
  CLOCK_X = 1
  CLOCK_Y = 2
  CLOCK_LEN = 1
  MaxLeft = 1
  MaxRight = 2
SPECIFICATION Spec
CONSTRAINT FewCharacters
INVARIANTS
  LineIsTyped
  FlagOnlyInScan
  ClockApart
  
PROPERTIES
  EnterEndsScan
