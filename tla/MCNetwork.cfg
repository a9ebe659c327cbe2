SPECIFICATION FairSpec
CONSTANTS
  c1 = c1
  Clients <- OneClient
  Handlers = {h1}
  Keys = {k1}
  MaxCalls <- TwoCalls
  NULL = NULL
INVARIANTS TypeOK RepliesInOrder AnswersAreTrue AssertsNeedCause ExitKeepsPuts
PROPERTIES RequestsHandled JoinReturns
