CONSTANTS
  Cell = {0, 1}
  InputSource = {s0}
  Code = {QUIT, BYE, ERR}
  OK = OK
  QUIT = QUIT
  BYE = BYE
  Callback = {cb}
  NoCallback = NoCallback
  MaxFrames = 3
  ThenCode = {ERR}
  CallbackCatches = TRUE
SPECIFICATION Spec
INVARIANTS
  HandlerInv
  QuiescentWhenIdle
PROPERTIES
  ImplementsHandlerStack
  OnlyOutermostSeesQuit
  OnlyThrownIsReported
  ThenHonoured
