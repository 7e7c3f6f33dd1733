SPECIFICATION Spec
CONSTANTS
  Root = Root
  com = com
  a = a
  b = b
  k = k
  p = p
  q = q
  w = w
  v = v
  x = x
  nc = nc
  nb = nb
  nk = nk
  y = y
  y2 = y2
  np = np
  nq = nq
  r1 = r1
  r2 = r2
  c1 = c1
  b1 = b1
  k1 = k1
  d1 = d1
  f1 = f1
  NoServer = NoServer
  Names <- MCNames
  Under <- MCUnder
  Zones <- MCZones
  NS <- MCNs
  Glue <- MCGlue
  Addrs = {r1, r2, c1, b1, k1, d1, f1}
  RootServers = {r1, r2}
  Forwarders = {f1}
  Hosts <- MCHosts
  Broken = {k1}
  Existing <- MCExisting
  Target <- MCTarget
  Canonical <- MCTarget
  Address <- MCAddress
  Junk <- MCJunk
  Questions <- MCQuestions
  MaxReferrals = 6
  MaxDepth = 2
  MaxFaults = 2
  Sound <- MCSound
  Healthy <- MCHealthy
  Detour <- MCDetour
  Nesting <- MCNesting
INVARIANT HealthyResolved
CHECK_DEADLOCK FALSE
