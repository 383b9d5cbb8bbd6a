SPECIFICATION Spec
CONSTANTS
  HistorySizes = {1, 2, 3}
  inner_iterations_limit = 5
  MaxSolves = 2
INVARIANT TypeOK
INVARIANT WindowIsRecent
PROPERTY WindowSpec
CHECK_DEADLOCK FALSE
