SPECIFICATION FairSpec
CONSTANTS
  o1 = o1
  o2 = o2
  api = api
  worker = worker
  None = None
  Orders = {o1, o2}
  Api = {api}
  Workers = {worker}
  Ids <- MCIds
  Batches <- AllBatches
  InitialStock = 3
INVARIANTS InventoryLoadable StockLedger EventsMatchReservations CommandExecutedOnce
PROPERTIES ReservationsMoveForward TransactionsAreSerial TransactionsEnd
