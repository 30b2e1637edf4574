SPECIFICATION FairSpec
CONSTANTS
  api = api
  worker = worker
  h1 = h1
  h2 = h2
  None = None
  Api = {api}
  Workers = {worker}
  Hashes = {h1, h2}
  Keys <- MCKeys
  MaxRefunds = 2
INVARIANTS PaymentLoadable ReportedOutcomeIsOnChain OneOutcome AuthorizationAgrees
PROPERTIES PaymentMovesForward PaymentSettles
