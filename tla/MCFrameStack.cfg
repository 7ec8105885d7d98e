CONSTANTS
  Addresses = {1, 2, 3, 4, 5, 6}
  NULL = 0
  Data = {"n1", "n2"}
  SaveSteps = {0, 2}
  MaxSteps = 5
SPECIFICATION Spec
INVARIANTS TypeOK StackSound StepsCountDown
PROPERTIES NoLeakWithBackup CommandsActOnHistory
CHECK_DEADLOCK FALSE
