CONSTANTS
  c1 = c1  c2 = c2
  a1 = a1  s1 = s1  t1 = t1  r1 = r1
  Connections = {c1}
  Accounts = {a1}
  Sessions = {s1}
  Tokens = {t1}
  Roles = {r1}
  Null = Null
  Identity <- MCIdentity
  Owner <- MCOwner
  Broken = {}
  MaxConnectionsPerAccount = 1
  MaxTargets = 2
  MaxSilent = 1
  MaxExpired = 1

SPECIFICATION AdmissionSpec

INVARIANTS
  AdmittedOnAuthority
  ClosesAreTrueAndFinal
PROPERTIES
  WhatIsOwedIsClosed
CHECK_DEADLOCK FALSE
