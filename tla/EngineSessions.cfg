CONSTANTS
  r1 = r1
  r2 = r2
  k1 = k1
  Req = {r1, r2}
  Conns = {k1}
  Schemas <- MCSchemas
  Families <- MCFamilies
  MaxBatch = 3
SPECIFICATION FairSpec
INVARIANTS
  TypeOK
  
  RefusedByOwnMode
  RunsUnderOwnPath
  AllOrNothing
  AckMeansDurable
  PoolClean
PROPERTIES
  RequestsServed
