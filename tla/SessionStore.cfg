\* Both stores under one worker, whose handlers do not interleave.
SPECIFICATION Spec
CONSTANTS
  ann = ann
  bob = bob
  k1 = k1
  k2 = k2
  Client <- OneBrowser
  Link <- Links
  Owner <- AllAnn
  Workers = 1
  TTL = 2
  MaxEntries = 2
  MaxCalls = 2
  MaxIds = 3
  MaxTime = 3
SYMMETRY LinkSymmetry
INVARIANTS TypeOK CookieHonoured EndedForGood
PROPERTIES GivenInTime EvictsOldest
