SPECIFICATION FairSpec
CONSTANTS
  COLS = 3
  ROWS = 3
  TAB = 2
  BYTE = 4
  BUF = 10
  Printable <- Letters
  Message <- Switch
  Texts <- KernelTexts
  BootTexts <- ControlTexts
INVARIANTS TerminatorAhead StoresOnScreen ScreenShowsText
PROPERTIES MessageShown PrintReturns
