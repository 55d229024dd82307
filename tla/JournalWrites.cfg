CONSTANTS
  w1 = w1
  d1 = d1
  g1 = g1
  t1 = t1
  y1 = y1
  c1 = c1
  c2 = c2
  c3 = c3
  Small = {w1}
  Deletes = {d1}
  Bigs = {g1}
  Stabs = {t1}
  SyncOps = {y1}
  Bufs = 2
  PerSector = 2
  Cos = {c1, c2, c3}
  MaxQueue = 2
  MaxFlush = 4
SPECIFICATION MCSpec
INVARIANTS
  BuffersPinned
  OwnWritesEnded
  HeadPending
  BatchesExact
PROPERTIES
  RequestsComplete
  FlushesEnd
CHECK_DEADLOCK FALSE
