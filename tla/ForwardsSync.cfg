SPECIFICATION Spec
CONSTANTS
  web = web
  alt = alt
  Requests = {r1, r2}
  Boot = boot
  Asked = {"local", "external"}
  ExtPorts = {p1}
  Targets = {web}
  Routed = {web}
  OtherPorts = {}
  Same = same
  Unspecified = unspecified
  Invalid = invalid
  NoForward = none
  NoAsk = noask
  DnatTouches <- MCTouches
  AcceptTouches <- MCTouches
  SnatTouches <- MCTouches
INVARIANTS
  TypeOK
  ExternalInForce
  LocalInForce
SYMMETRY RequestSymmetry
VIEW SyncView
