\* One publisher and two readers, one of them without a cache, three
\* generations and a time to live of two ticks.
CONSTANTS
  Publishers = {p1}
  Readers = {r1, r2}
  Caching = {p1, r1}
  Ttl = 2
  MaxVersions = 3
  MaxLate = 1
SPECIFICATION Spec
INVARIANTS
  TypeOK
  StaleDataExpires
PROPERTIES
  ServesPublishedBoards
  SupersededIsForgotten
