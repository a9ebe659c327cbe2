SPECIFICATION Spec
CONSTANTS
  c1 = c1
  Clients <- OneClient
  Handlers = {h1}
  Keys = {k1}
  MaxCalls <- TwoCalls
  NULL = NULL
INVARIANTS MissesParse
