SPECIFICATION FairSpec
CONSTANTS
  Kinds = {"thread"}
  Args = {a1, a2}
  NoArg = NoArg
  MaxStarts = 1
  BindFails = TRUE
PROPERTY StopsWhenTold
CHECK_DEADLOCK FALSE
