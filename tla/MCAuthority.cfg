CONSTANTS
  c1 = c1  c2 = c2
  a1 = a1  s1 = s1  t1 = t1  r1 = r1
  Connections = {c1, c2}
  Accounts = {a1}
  Sessions = {s1}
  Tokens = {t1}
  Roles = {r1}
  Null = Null
  Identity <- MCIdentity
  Owner <- MCOwner
  Broken = {c2}
  MaxConnectionsPerAccount = 1
  MaxTargets = 1
  MaxSilent = 0
  MaxExpired = 0
  People = {ada, bo}
  Keeper = ada
  SessionIds = {1, 2}
  TokenIds = {t1, t2}
  NarrowTokens = {t2}
  OfferIds = {o1}
  InviteIds = {i1}
  MaxSessions = 1
  MaxTokens = 1
  Unset = Unset

SPECIFICATION AuthorityParts

INVARIANTS
  TheLogTellsAndCloses
  TokensConferNothing
PROPERTIES
  ImplementsThePromise
CHECK_DEADLOCK FALSE
