CONSTANTS
  b1 = b1
  b2 = b2
  l1 = l1
  l2 = l2
  c1 = c1
  c2 = c2
  Browsers = {b1, b2}
  Logins = {l1, l2}
  Callbacks = {c1, c2}
  MaxCodes = 2
  StateTTL = 0
  SessionTTL = 0
  MaxTime = 1
  Realm <- MCRealm
  OpenRead = FALSE
  Backends <- MCBackends
SPECIFICATION Spec
SYMMETRY Symmetry
INVARIANTS
  TypeOK
  OneSessionPerLogin
  AcceptedRightly
  SessionOfOwnLogin
