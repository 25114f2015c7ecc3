SPECIFICATION Spec
CONSTANTS
  nas = nas
  Nas = Nas
  tv = tv
  bad = bad
  v1 = v1
  v2 = v2
  Requests = {r1}
  Macs = {m1, m2}
  MacType = 0
  Ips = {i1, i2}
  HighIps = {i2}
  Names = {nas, Nas, tv, bad}
  Refused = {bad}
  Lower <- MCLower
  Vlans = {v1, v2}
  Default = v1
  VlanOf <- MCVlanOf
  KeaReservations <- NoReservations
  NoName = noname
  NoMac = nomac
  NoIp = noip
  InitialStates <- OneRequest
INVARIANTS
  ReservedIsServed
CHECK_DEADLOCK FALSE
