SPECIFICATION FairSpec
CONSTANTS
  PRIMARY_INTERFACE = wan0
  SECONDARY_INTERFACE = wan1
  NONE = none
  p1 = p1
  p2 = p2
  s1 = s1
  Gateway <- MCGateway
  Offered <- MCOffered
  RouteText <- MCRouteText
  PRIMARY_STABILITY_THRESHOLD = 3
  CounterCap = 3
  MaxEvents = 1
  MaxSwitches = 1
PROPERTIES
  FailsBack
  FailsOver
