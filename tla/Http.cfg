SPECIFICATION ReadingClientSpec
CONSTANTS
  Conns = {c1, c2}
  Requests = {{}, {"bad_request"}, {"missing_filename", "unauthorized"}}
  None = None
INVARIANTS
  OneResponse
  AnswerFits
  KeptUntilAnswered
PROPERTIES
  EveryRequestAnswered
  ConnectionsEnd
CHECK_DEADLOCK FALSE
