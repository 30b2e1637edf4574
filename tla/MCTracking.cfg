SPECIFICATION FairTracking
CONSTANTS
  l1 = l1
  None = None
  Lines = {l1}
  RejectionPayloads <- AsInTheCodeOrComplete
  Operator = TRUE
  MaxRedeliveries = 0
  MaxLosses = 0
INVARIANTS PageIsTruthful CompleteRejectionCompensated
PROPERTIES StepsMoveForward PagesRecover ReservationsEnd
CHECK_DEADLOCK FALSE
