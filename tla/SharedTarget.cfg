SPECIFICATION WholeSpec
CONSTANTS
  web = web
  alt = alt
  Requests = {r1}
  Boot = boot
  Asked = {"external"}
  ExtPorts = {p1, p2}
  Targets = {web}
  Routed = {web}
  OtherPorts = {}
  Same = same
  Unspecified = unspecified
  Invalid = invalid
  NoForward = none
  NoAsk = noask
  DnatTouches <- MCTouches
  AcceptTouches <- MCTouches
  SnatTouches <- MCTouches
INVARIANTS
  ForwardsAreAllowed
