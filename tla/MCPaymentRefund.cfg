SPECIFICATION Spec
CONSTANTS
  api = api
  worker = worker
  h1 = h1
  h2 = h2
  None = None
  Api = {worker}
  Workers = {worker}
  Hashes = {h1, h2}
  Keys <- MCKeys
  MaxRefunds = 2
INVARIANTS RefundedOnce
