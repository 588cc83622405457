SPECIFICATION Spec
CONSTANTS
  Nothing = Nothing
  Loads = {l1, l2}
  MaxVersion = 1
  MaxFailures = 1
PROPERTIES
  RecoversFromOutage
CHECK_DEADLOCK FALSE
