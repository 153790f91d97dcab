SPECIFICATION Spec
CONSTANTS
  Conns = {c1}
  Requests = {{}, {"bad_request"}}
  None = None
INVARIANTS
  BodyOutlivesTasks
CHECK_DEADLOCK FALSE
