SPECIFICATION Spec
CONSTANTS
  l1 = l1
  l2 = l2
  None = None
  Lines = {l1}
  RejectionPayloads <- AsInTheCode
  Operator = FALSE
  MaxRedeliveries = 0
  MaxLosses = 0
INVARIANTS RejectionCompensated
CHECK_DEADLOCK FALSE
