CONSTANTS
  NAps = 1
  MaxCalls = 2
SPECIFICATION PatientWorkSpec
PROPERTIES PostedWorkIsDone
CHECK_DEADLOCK FALSE
