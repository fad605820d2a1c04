CONSTANTS
  Cell = {0}
  InputSource <- Source
  Code = {QUIT, BYE, EOF, INCFOVERFLOW, IOERR, USERINTERRUPT, ERR}
  OK = OK
  QUIT = QUIT
  BYE = BYE
  EOF = EOF
  INCFOVERFLOW = INCFOVERFLOW
  IOERR = IOERR
  USERINTERRUPT = USERINTERRUPT
  Callback = {}
  NoCallback = NoCallback
  MaxFrames = 4
  UserCode = {ERR, QUIT, BYE}
  Interrupts = TRUE
  S0 = 0
  R0 = 0
  FIB_MAXDEPTH = 2
  MaxFd = 3
  MaxWords = 1
  MaxActs = 3
SPECIFICATION Spec
INVARIANTS
  EvalInv
  SourceIsOwn
PROPERTIES
  LeaksOnlyByJumps
