SPECIFICATION MCSpec
CONSTANTS
  o1 = o1
  op1 = op1
  op2 = op2
  rq1 = rq1
  rq2 = rq2
  conf = conf
  none = none
  ping = ping
  i1 = i1
  i2 = i2
  Conns = {1, 2}
  Fds = {1, 2}
  Osds = {o1}
  NAddr = 2
  Ops = {op1, op2}
  Conf = conf
  Ping = ping
  Reqs = {rq1, rq2}
  ConfReqs = {rq2}
  SendsData = {op1, rq1}
  GetsData = {op2}
  IdleTime = 1
  PingTime = 1
  Buf = 2
  None = none
  Setups <- MCSetups
  ClientMax = 3
  ServerMax = 2
  MaxSend = 3
  MaxRecv = 2
  MaxSge = 2
  Packet = 1
  DataLens = {0, 1, 3}
  MaxBytes = 7
  Ids = {i1, i2}
  CmOsds = {o1}
  NoOsd = none
  Share = 2
  MinCqe = 2
  CmBounds <- MCCmBounds
INVARIANTS
  AnsweredOnce
  LinksSane
  RdmaExact
  CmExact
PROPERTIES
  OpsAnswered
CHECK_DEADLOCK FALSE
