SPECIFICATION FairSpec
CONSTANTS
  Threads = {t1, t2, t3, t4}
  Conns = {d1, d2, d3}
  None = None
INVARIANTS SqlTypeOK SemCountsConns CountersHonest
PROPERTIES LeaseImplemented WaitersServed
