\* Both stores under two workers, whose handlers call them in turns, as
\* worker_count = 4 of the README has it; a table of one entry is the smallest
\* that is full.
SPECIFICATION Spec
CONSTANTS
  ann = ann
  bob = bob
  k1 = k1
  k2 = k2
  Client <- TwoBrowsers
  Link <- Links
  Owner <- AnnAndBob
  Workers = 2
  TTL = 2
  MaxEntries = 1
  MaxCalls = 1
  MaxIds = 3
  MaxTime = 3
INVARIANT Private
