SPECIFICATION FairConnSpec
CONSTANTS
  w1 = w1
  w2 = w2
  j1 = j1
  j2 = j2
  j3 = j3
  tcp = tcp
  doh = doh
  udp = udp
  r1 = r1
  r2 = r2
  Workers = {w1, w2}
  Jobs = {j1, j2, j3}
  Capacity = 2
  Endless = {j1}
  NoWorker = NoWorker
  NoJob = NoJob
  Listeners = {tcp, doh}
  Web = {doh}
  Receivers = {r1, r2}
  Udp = udp
  Via <- MCVia
  MaxDelay = 3
  MaxPipelined = 1
  MaxQueries = 1
  MaxFaults = 2
INVARIANTS
  ConnectionsOK
  AcceptedInOnePlace
PROPERTIES
  ServiceSpec
  AcceptedJobsEnd
  LoopsComeBack
CHECK_DEADLOCK FALSE
