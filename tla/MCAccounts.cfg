SPECIFICATION Spec
CONSTANTS
  a1 = a1
  a2 = a2
  g1 = g1
  None = None
  Users = {1, 2}
  Wallets = {1, 2, 3}
  Sessions = {1, 2, 3}
  Nonces = {1, 2}
  MaxRotations = 1
  Addresses = {a1, a2}
  Chains = {1, 2}
  Subjects = {g1}
  OAuthWallet <- MCOAuthWallet
  SignChain = 1
  OAuthChain = 2
  FallbackChain = 1
INVARIANTS
  OnePrimary
  KeepsAWallet
  SessionWalletIsOwn
CHECK_DEADLOCK FALSE
