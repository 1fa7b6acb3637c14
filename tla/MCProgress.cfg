SPECIFICATION Spec
CONSTANTS
  None = None
PROPERTIES ServerProgress  
CHECK_DEADLOCK FALSE
