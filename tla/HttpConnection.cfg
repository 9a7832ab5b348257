SPECIFICATION Spec
CONSTANTS
  r1 = r1
  r2 = r2
  NoRequest = NoRequest
  Requests <- MCRequests
  Setups <- MCSetups
  Answers = {"full", "error", "page"}
  Window = 1
  MaxConnects = 2
INVARIANT AnswersTrue
INVARIANT Tracked
INVARIANT FlowControl
PROPERTY EveryRequestAnswered
CHECK_DEADLOCK FALSE
