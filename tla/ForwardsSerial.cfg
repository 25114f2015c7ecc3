SPECIFICATION SerialSpec
CONSTANTS
  web = web
  alt = alt
  Requests = {r1}
  Boot = boot
  Asked = {"local", "external"}
  ExtPorts = {p1, p2}
  Targets = {web, alt}
  Routed = {web, alt}
  OtherPorts = {}
  Same = same
  Unspecified = unspecified
  Invalid = invalid
  NoForward = none
  NoAsk = noask
  DnatTouches <- MCTouches
  AcceptTouches <- MCTouches
  SnatTouches <- MCTouches
INVARIANTS
  NoHoleLeft
  PortsUnique
PROPERTIES
  BehavesAsTable
SYMMETRY PortSymmetry
VIEW SerialView
