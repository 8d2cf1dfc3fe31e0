SPECIFICATION Spec
CONSTANTS
  Kinds = {"thread", "process"}
  Args = {a1, a2}
  NoArg = NoArg
  MaxStarts = 3
  BindFails = TRUE
INVARIANTS
  LiveAccounted
  ArgDelivered
CHECK_DEADLOCK FALSE
