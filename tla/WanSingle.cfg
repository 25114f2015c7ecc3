SPECIFICATION FairSpec
CONSTANTS
  PRIMARY_INTERFACE = wan0
  SECONDARY_INTERFACE = none
  NONE = none
  p1 = p1
  p2 = p2
  s1 = s1
  Gateway <- MCGateway
  Offered <- MCOffered
  RouteText <- MCRouteText
  PRIMARY_STABILITY_THRESHOLD = 3
  CounterCap = 3
  MaxEvents = 3
  MaxSwitches = 1
PROPERTY
  FailsBack
