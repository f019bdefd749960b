CONSTANTS
  MaxStarts = 2
  MaxFiles = 1
SPECIFICATION Spec
PROPERTIES AbandonedStaysSilent
CHECK_DEADLOCK FALSE
