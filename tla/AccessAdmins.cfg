CONSTANTS
  w = w
  adm = adm
  r1 = r1
  r2 = r2
  g1 = g1
  c1 = c1
  Req = {r1, r2}
  Users = {w, adm}
  Conns = {c1}
  Subjects = {g1}
  UserOf <- AdminsUserOf
  Sends <- AdminsSends
  Caps <- MCCaps
  Member <- MCMember
  Scoped = TRUE
  StoreConns = 1
SPECIFICATION FairSpec
INVARIANTS
  NoOrphanGrants
PROPERTIES
  EveryRequestEnds
