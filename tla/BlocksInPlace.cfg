SPECIFICATION Spec
CONSTANTS
  Days = 2
  Slots = 3
  NOENTRY = noentry
  Address = {mac1, mac2, bad}
  Valid = {mac1, mac2}
  Request = {r1}
  Schedules <- MCSchedules
  NOFILE = nofile
  PARTIAL = partial
  MaxEdits = 3
  MaxReboots = 0
PROPERTY
  BlocksInPlace
