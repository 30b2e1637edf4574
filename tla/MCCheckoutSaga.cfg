SPECIFICATION Spec
CONSTANTS
  l1 = l1
  l2 = l2
  None = None
  Lines = {l1, l2}
  RejectionPayloads <- AsInTheCode
  Operator = TRUE
  MaxRedeliveries = 1
  MaxLosses = 1
CONSTRAINT OneFault
INVARIANTS GoodsOnlyForMoney CompensationIsDeserved OutcomeIsComplete
PROPERTIES OrderMovesForward ImplementsExchange
CHECK_DEADLOCK FALSE
