SPECIFICATION Spec
CONSTANTS
  Days = 2
  Slots = 3
  NOENTRY = noentry
  Address = {mac1, mac2, bad}
  Valid = {mac1, mac2}
  Request = {r1, r2}
  Schedules <- MCSchedules
  NOFILE = nofile
  PARTIAL = partial
  MaxEdits = 4
  MaxReboots = 1
INVARIANTS
  TypeOK
  RunEnforcesSchedule
  AnswersAddUp
  StateIsRecorded
  UniformIsExact
