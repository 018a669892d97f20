CONSTANTS
  w = w
  adm = adm
  r1 = r1
  r2 = r2
  g1 = g1
  c1 = c1
  Req = {r1, r2}
  Users = {w, adm}
  Conns = {c1}
  Subjects = {g1}
  UserOf <- MCUserOf
  Sends <- MCSends
  Caps <- MCCaps
  Member <- MCMember
  Scoped = TRUE
  StoreConns = 1
SPECIFICATION Spec
INVARIANTS
  TypeOK
  RefusedWithCause
  UnauditedOnlyIfGone
PROPERTIES
  ImplementsPolicy
