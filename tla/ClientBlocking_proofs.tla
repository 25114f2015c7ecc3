----------------------- MODULE ClientBlocking_proofs -----------------------
(***************************************************************************)
(* Proofs about ClientBlocking, for any list, any schedules, any length of *)
(* the day and the week, and any number of requests under way.             *)
(***************************************************************************)
EXTENDS ClientBlocking, TLAPS

(***************************************************************************)
(* The clock and the schedule.                                             *)
(***************************************************************************)

\* A remainder lies below the divisor: the clock stays in its range.
LEMMA Remainder ==
    ASSUME NEW n \in Nat, NEW m \in Nat \ {0}
    PROVE  n % m \in 0 .. m - 1
OBVIOUS

\* The default schedule of the API is a schedule.
LEMMA DefaultIsSchedule == DefaultSchedule \in Schedule
BY BlockScheduleAssumption DEF DefaultSchedule, Schedule, Entry, Time

\* Where every day has the same entry, the entry of today tells whether a
\* window is open: the part after midnight belongs to yesterday's entry, which
\* is the same one (is_active_time, overnight case).
LEMMA UniformWindows ==
    ASSUME NEW s \in Schedule, Uniform(s), NEW d \in Day, NEW t \in Time
    PROVE  ShouldBlock(s, d, t) <=> InWindow(s, d, t)
<1>1. Yesterday(d) \in Day
  BY BlockScheduleAssumption DEF Yesterday, Day
<1>2. s[Yesterday(d)] = s[d]
  BY <1>1 DEF Uniform
<1>3. CASE s[d] = NOENTRY
  BY <1>2, <1>3 DEF ShouldBlock, InWindow, OpenedToday, OpenSinceYesterday
<1>4. CASE s[d] # NOENTRY
  <2>1. s[d] \in Entry
    BY <1>4 DEF Schedule
  <2>2. /\ t \in Int /\ s[d].startTime \in Int /\ s[d].endTime \in Int
    BY <2>1, BlockScheduleAssumption DEF Entry, Time
  <2>3. QED
    BY <1>2, <1>4, <2>2
    DEF ShouldBlock, IsActiveTime, InWindow, OpenedToday, OpenSinceYesterday, Overnight
<1>5. QED  BY <1>3, <1>4

(***************************************************************************)
(* Types.                                                                  *)
(***************************************************************************)

\* Contents is a set of addresses.
LEMMA ContentsType ==
    ASSUME list = NOFILE \/ list \in SUBSET Address
    PROVE  Contents \in SUBSET Address
BY DEF Contents

\* An edited list is a set of addresses again.
LEMMA EditedType ==
    ASSUME NEW op \in Op, NEW mac \in Address, NEW macs \in SUBSET Address
    PROVE  Edited(op, mac, macs) \in SUBSET Address
BY DEF Edited, Op

\* The request that is put in place of another is typed, and so is the table.
LEMMA TableType ==
    ASSUME TypeOK, NEW r \in Request, NEW q \in ReqType,
           q.pc # "idle" => q.mac \in Address,
           q.pc \in {"truncate", "write"} => list' # NOFILE,
           list # NOFILE => list' # NOFILE,
           req' = [req EXCEPT ![r] = q]
    PROVE  /\ req' \in [Request -> ReqType]
           /\ \A p \in Request : /\ req'[p].pc # "idle" => req'[p].mac \in Address
                                 /\ req'[p].pc \in {"truncate", "write"} => list' # NOFILE
BY DEF TypeOK

\* Idle is a request.
LEMMA IdleType == Idle \in ReqType /\ Idle.pc = "idle"
BY DEF Idle, ReqType, Op

\* An answered request leaves the table of requests and the expected list typed.
LEMMA AnswerType ==
    ASSUME TypeOK, NEW r \in Request, req[r].pc # "idle", Answer(r),
           list # NOFILE => list' # NOFILE
    PROVE  /\ req' \in [Request -> ReqType]
           /\ \A p \in Request : /\ req'[p].pc # "idle" => req'[p].mac \in Address
                                 /\ req'[p].pc \in {"truncate", "write"} => list' # NOFILE
           /\ wanted' \subseteq Address
<1>1. req[r].op \in Op /\ req[r].mac \in Address
  BY DEF TypeOK, ReqType
<1>2. wanted' \subseteq Address
  BY <1>1 DEF Answer, Op, TypeOK
<1>3. QED  BY <1>2, IdleType, TableType DEF Answer

\* So does one that goes on, when the file exists.
LEMMA ProceedType ==
    ASSUME TypeOK, NEW r \in Request, req[r].pc # "idle",
           NEW addresses \in SUBSET Address, Proceed(r, addresses), list' # NOFILE
    PROVE  /\ req' \in [Request -> ReqType]
           /\ \A p \in Request : /\ req'[p].pc # "idle" => req'[p].mac \in Address
                                 /\ req'[p].pc \in {"truncate", "write"} => list' # NOFILE
           /\ wanted' \subseteq Address
<1> DEFINE macs == Edited(req[r].op, req[r].mac, addresses)
           q == [req[r] EXCEPT !.pc = "truncate", !.macs = macs]
<1>1. req[r].op \in Op /\ req[r].mac \in Address /\ req[r] \in ReqType
  BY DEF TypeOK, ReqType
<1>2. macs \in SUBSET Address
  BY <1>1, EditedType
<1>3. CASE macs = addresses
  BY <1>3, AnswerType DEF Proceed
<1>4. CASE macs # addresses
  <2>1. /\ req' = [req EXCEPT ![r].pc = "truncate", ![r].macs = macs]
        /\ wanted' = wanted
    BY <1>4 DEF Proceed
  <2>2. req' = [req EXCEPT ![r] = q]
    BY <2>1 DEF TypeOK
  <2>3. q \in ReqType /\ q.mac \in Address
    BY <1>1, <1>2 DEF ReqType
  <2>4. wanted' \subseteq Address
    BY <2>1 DEF TypeOK
  <2> HIDE DEF q
  <2>5. QED  BY <2>2, <2>3, <2>4, TableType
<1>5. QED  BY <1>3, <1>4

\* TypeOK is inductive.
LEMMA TypeStep == TypeOK /\ [Next]_vars => TypeOK'
<1> SUFFICES ASSUME TypeOK, [Next]_vars PROVE TypeOK'
  OBVIOUS
<1> USE ClientBlockingAssumption, BlockScheduleAssumption
<1>1. ASSUME NEW r \in Request, NEW op \in Op, NEW mac \in Address, Arrive(r, op, mac)
      PROVE  TypeOK'
  <2> DEFINE q == [pc |-> "read", op |-> op, mac |-> mac, macs |-> {}]
  <2>1. q \in ReqType /\ q.pc = "read" /\ q.mac = mac
    BY DEF ReqType
  <2>2. req' = [req EXCEPT ![r] = q] /\ list' = list
    BY <1>1 DEF Arrive, fileVars
  <2> HIDE DEF q
  <2>3. /\ req' \in [Request -> ReqType]
        /\ \A p \in Request : /\ req'[p].pc # "idle" => req'[p].mac \in Address
                              /\ req'[p].pc \in {"truncate", "write"} => list' # NOFILE
    BY <2>1, <2>2, TableType
  <2>4. edits' \in 0..MaxEdits
    BY <1>1 DEF Arrive, TypeOK
  <2>5. QED
    BY <1>1, <2>3, <2>4 DEF Arrive, TypeOK, fileVars, schedulerVars, clockVars
<1>2. ASSUME NEW r \in Request, Read(r)
      PROVE  TypeOK'
  <2>1. /\ req' \in [Request -> ReqType]
        /\ \A p \in Request : /\ req'[p].pc # "idle" => req'[p].mac \in Address
                              /\ req'[p].pc \in {"truncate", "write"} => list' # NOFILE
        /\ wanted' \subseteq Address
    <3>1. req[r].pc = "read" /\ list' = list
      BY <1>2 DEF Read, fileVars
    <3>2. CASE list = NOFILE
      <4> DEFINE q == [req[r] EXCEPT !.pc = "create"]
      <4>1. req[r] \in ReqType /\ req[r].mac \in Address
        BY <3>1 DEF TypeOK
      <4>2. q \in ReqType /\ q.pc = "create" /\ q.mac \in Address
        BY <4>1 DEF ReqType
      <4>3. req' = [req EXCEPT ![r] = q] /\ wanted' = wanted
        BY <1>2, <3>2 DEF Read, TypeOK
      <4>4. wanted' \subseteq Address
        BY <4>3 DEF TypeOK
      <4> HIDE DEF q
      <4>5. QED  BY <3>1, <4>2, <4>3, <4>4, TableType
    <3>3. CASE list # NOFILE
      <4>1. list \in SUBSET Address
        BY <3>3 DEF TypeOK
      <4>2. Proceed(r, list)
        BY <1>2, <3>3 DEF Read
      <4>3. QED  BY <3>1, <3>3, <4>1, <4>2, ProceedType
    <3>4. QED  BY <3>2, <3>3
  <2>2. QED
    BY <1>2, <2>1 DEF Read, TypeOK, fileVars, schedulerVars, clockVars
<1>3. ASSUME NEW r \in Request, Create(r)
      PROVE  TypeOK'
  <2>1. list' = {} /\ req[r].pc = "create" /\ Proceed(r, {})
    BY <1>3 DEF Create
  <2>2. {} \in SUBSET Address /\ {} # NOFILE
    OBVIOUS
  <2>3. /\ req' \in [Request -> ReqType]
        /\ \A p \in Request : /\ req'[p].pc # "idle" => req'[p].mac \in Address
                              /\ req'[p].pc \in {"truncate", "write"} => list' # NOFILE
        /\ wanted' \subseteq Address
    BY <2>1, <2>2, ProceedType
  <2>4. QED
    BY <1>3, <2>1, <2>2, <2>3 DEF Create, TypeOK, schedulerVars, clockVars
<1>4. ASSUME NEW r \in Request, Truncate(r)
      PROVE  TypeOK'
  <2> DEFINE q == [req[r] EXCEPT !.pc = "write"]
  <2>1. req[r] \in ReqType /\ req[r].mac \in Address
    BY <1>4 DEF Truncate, TypeOK
  <2>2. q \in ReqType /\ q.mac \in Address
    BY <2>1 DEF ReqType
  <2>3. req' = [req EXCEPT ![r] = q] /\ list' = {} /\ {} # NOFILE
    BY <1>4 DEF Truncate, TypeOK
  <2> HIDE DEF q
  <2>4. /\ req' \in [Request -> ReqType]
        /\ \A p \in Request : /\ req'[p].pc # "idle" => req'[p].mac \in Address
                              /\ req'[p].pc \in {"truncate", "write"} => list' # NOFILE
    BY <2>2, <2>3, TableType
  <2>5. QED
    BY <1>4, <2>3, <2>4 DEF Truncate, TypeOK, schedulerVars, clockVars
<1>5. ASSUME NEW r \in Request, Write(r)
      PROVE  TypeOK'
  <2>1. req[r].macs \in SUBSET Address
    BY DEF TypeOK, ReqType
  <2>2. list \in SUBSET Address
    BY <1>5 DEF Write, TypeOK
  <2>3. list' \in SUBSET Address
    BY <1>5, <2>1, <2>2 DEF Write
  <2>4. QED
    BY <1>5, <2>3, AnswerType DEF Write, TypeOK, schedulerVars, clockVars
<1>s. ASSUME NEW s \in Schedule, SaveSchedule(s), edits' \in 0..MaxEdits, lacking' \in BOOLEAN
      PROVE  TypeOK'
  <2>1. s # NOFILE
    OBVIOUS
  <2>2. schedule' = PARTIAL /\ saving' = s /\ calm' = FALSE
    BY <1>s DEF SaveSchedule
  <2>4. /\ list' = list /\ req' = req /\ rules' = rules /\ state' = state
        /\ task' = task /\ todo' = todo /\ day' = day /\ time' = time
        /\ reboots' = reboots /\ wanted' = wanted /\ apart' = apart
    BY <1>s DEF SaveSchedule, schedulerVars, clockVars
  <2>5. /\ schedule' \in Schedule \cup {NOFILE, PARTIAL}
        /\ saving' \in Schedule \cup {NOFILE}
        /\ saving' # NOFILE
    BY <2>1, <2>2
  <2>6. QED  BY <1>s, <2>2, <2>4, <2>5 DEF TypeOK
<1>6. CASE PutSchedule \/ SaveDefault \/ GetSchedule
  <2>1. edits' \in 0..MaxEdits /\ lacking' \in BOOLEAN
    <3>1. lacking \in BOOLEAN
      BY Zenon DEF TypeOK
    <3>2. lacking' = lacking \/ lacking' = TRUE \/ lacking' = FALSE
      BY <1>6 DEF PutSchedule, SaveDefault, GetSchedule
    <3>3. lacking' \in BOOLEAN
      BY <3>1, <3>2, Zenon
    <3>4. edits' \in 0..MaxEdits
      <4>1. edits \in 0..MaxEdits /\ MaxEdits \in Nat
        BY ClientBlockingAssumption DEF TypeOK
      <4>2. edits' = edits \/ (edits < MaxEdits /\ edits' = edits + 1)
        BY <1>6 DEF PutSchedule, SaveDefault, GetSchedule
      <4>3. QED  BY <4>1, <4>2
    <3>5. QED  BY <3>3, <3>4
  <2>2. CASE GetSchedule
    BY <2>1, <2>2 DEF GetSchedule, TypeOK, schedulerVars, clockVars
  <2>3. CASE PutSchedule \/ SaveDefault
    <3>1. \E s \in Schedule : SaveSchedule(s)
      BY <2>3, DefaultIsSchedule, ClientBlockingAssumption DEF PutSchedule, SaveDefault
    <3>2. QED  BY <1>s, <2>1, <3>1
  <2>4. QED  BY <1>6, <2>2, <2>3
<1>7. CASE WriteSchedule
  BY <1>7 DEF WriteSchedule, TypeOK, schedulerVars, clockVars
<1>8. CASE Cron
  <2>1. time' \in Time
    BY <1>8, Remainder DEF Cron, TypeOK, Time
  <2>2. (day + 1) % Days \in Day
    BY Remainder DEF TypeOK, Day
  <2>3. day' \in Day
    BY <1>8, <2>2 DEF Cron, TypeOK
  <2>4. QED  BY <1>8, <2>1, <2>3 DEF Cron, TypeOK, fileVars
<1>9. CASE Main
  BY <1>9 DEF Main, TypeOK, fileVars, clockVars
<1>10. CASE BlockClients
  BY <1>10 DEF BlockClients, TypeOK, fileVars, clockVars
<1>11. ASSUME NEW a \in Address, InsertRule(a)
       PROVE  TypeOK'
  BY <1>11 DEF InsertRule, TypeOK, fileVars, clockVars
<1>12. CASE Blocked
  BY <1>12 DEF Blocked, TypeOK, fileVars, clockVars
<1>13. CASE ClearBlocks
  BY <1>13 DEF ClearBlocks, TypeOK, fileVars, clockVars
<1>14. CASE Reboot
  <2>1. \A p \in Request : req'[p] = Idle
    BY <1>14 DEF Reboot
  <2>2. /\ req' \in [Request -> ReqType]
        /\ \A p \in Request : /\ req'[p].pc # "idle" => req'[p].mac \in Address
                              /\ req'[p].pc \in {"truncate", "write"} => list' # NOFILE
    BY <1>14, <2>1, IdleType DEF Reboot
  <2>3. reboots' \in 0..MaxReboots /\ reboots' > 0
    BY <1>14 DEF Reboot, TypeOK
  <2>4. QED  BY <1>14, <2>2, <2>3 DEF Reboot, TypeOK, clockVars
<1>15. CASE UNCHANGED vars
  BY <1>15 DEF vars, TypeOK
<1>16. QED
  BY <1>1, <1>2, <1>3, <1>4, <1>5, <1>6, <1>7, <1>8, <1>9, <1>10, <1>11, <1>12, <1>13,
     <1>14, <1>15
  DEF Next, ListRequest, Scheduler

\* Type correctness of the files, the requests, the rules and the scheduler.
THEOREM TypeCorrect == Spec => []TypeOK
<1>1. Init => TypeOK
  <2>1. 0 \in Day /\ 0 \in Time /\ 0 \in 0..MaxEdits /\ 0 \in 0..MaxReboots
    BY ClientBlockingAssumption, BlockScheduleAssumption DEF Day, Time
  <2>2. ASSUME Init
        PROVE  /\ req \in [Request -> ReqType]
               /\ \A r \in Request : req[r].pc = "idle"
    BY <2>2, IdleType DEF Init
  <2>3. ASSUME Init
        PROVE  schedule # PARTIAL
    BY <2>3, ClientBlockingAssumption DEF Init
  <2>4. QED  BY <2>1, <2>2, <2>3 DEF Init, TypeOK
<1>2. QED  BY <1>1, TypeStep, PTL DEF Spec

(***************************************************************************)
(* The schedule.                                                           *)
(***************************************************************************)

\* With the same entry every day, main's test of today's entry decides exactly
\* whether a window is open, in every reachable state.
THEOREM UniformIsDecidedExactly == Spec => []UniformIsExact
<1>1. TypeOK => UniformIsExact
  BY UniformWindows DEF TypeOK, UniformIsExact, BlockTime
<1>2. QED  BY <1>1, TypeCorrect, PTL

\* What the scheduler has established, at each place it can be, if nothing has
\* happened to the files since its run began.
RunInv ==
    calm /\ schedule \in Schedule =>
        /\ task = "idle" =>
              IF BlockTime THEN Contents \cap Valid # {} => rules # {} ELSE rules = {}
        /\ task = "block" => BlockTime /\ rules = {}
        /\ task = "insert" => BlockTime /\ Contents \cap Valid \subseteq rules \cup todo
        /\ task = "unblock" => ~BlockTime

\* Steps that leave alone what the run has read keep RunInv.
LEMMA RunInvFrame ==
    ASSUME RunInv, calm' => calm, calm' => Contents' = Contents,
           schedule' = schedule, rules' = rules, day' = day, time' = time,
           task' = task, todo' = todo
    PROVE  RunInv'
BY DEF RunInv, BlockTime

\* RunInv is inductive, relative to TypeOK.
LEMMA RunInvStep == TypeOK /\ RunInv /\ [Next]_vars => RunInv'
<1> SUFFICES ASSUME TypeOK, RunInv, [Next]_vars PROVE RunInv'
  OBVIOUS
<1>1. ASSUME NEW r \in Request, NEW op \in Op, NEW mac \in Address, Arrive(r, op, mac)
      PROVE  RunInv'
  BY <1>1, RunInvFrame DEF Arrive, fileVars, schedulerVars, clockVars, Contents
<1>2. ASSUME NEW r \in Request, Read(r)
      PROVE  RunInv'
  BY <1>2, RunInvFrame DEF Read, fileVars, schedulerVars, clockVars, Contents
<1>3. ASSUME NEW r \in Request, Create(r) \/ Truncate(r) \/ Write(r)
      PROVE  RunInv'
  BY <1>3 DEF Create, Truncate, Write, RunInv
<1>4. ASSUME NEW s \in Schedule, SaveSchedule(s)
      PROVE  RunInv'
  BY <1>4 DEF SaveSchedule, RunInv
<1>5. CASE WriteSchedule \/ Reboot
  BY <1>5 DEF WriteSchedule, Reboot, RunInv
<1>6. CASE Cron
  BY <1>6 DEF Cron, RunInv
<1>7. CASE Main
  <2>1. /\ schedule' = schedule /\ list' = list /\ rules' = rules
        /\ day' = day /\ time' = time
    BY <1>7 DEF Main, fileVars, clockVars
  <2>2. BlockTime' <=> BlockTime
    BY <2>1 DEF BlockTime
  <2>3. schedule \in Schedule =>
           /\ task' = "idle" => IF BlockTime THEN rules # {} ELSE rules = {}
           /\ task' = "block" => BlockTime /\ rules = {}
           /\ task' # "insert"
           /\ task' = "unblock" => ~BlockTime
    BY <1>7 DEF Main
  <2>4. QED  BY <2>1, <2>2, <2>3 DEF RunInv
<1>8. CASE BlockClients
  <2>1. /\ schedule' = schedule /\ list' = list /\ rules' = {} /\ calm' = calm
        /\ day' = day /\ time' = time /\ task = "block"
    BY <1>8 DEF BlockClients, fileVars, clockVars
  <2>2. (BlockTime' <=> BlockTime) /\ Contents' = Contents
    BY <2>1 DEF BlockTime, Contents
  <2>3. CASE list = NOFILE
    <3>1. task' = "idle" /\ Contents = {}
      BY <1>8, <2>3 DEF BlockClients, Contents
    <3>2. QED  BY <2>1, <2>2, <3>1 DEF RunInv
  <2>4. CASE list # NOFILE
    <3>1. task' = "insert" /\ todo' = Contents
      BY <1>8, <2>4 DEF BlockClients, Contents
    <3>2. QED  BY <2>1, <2>2, <3>1 DEF RunInv
  <2>5. QED  BY <2>3, <2>4
<1>9. ASSUME NEW a \in Address, InsertRule(a)
      PROVE  RunInv'
  <2>1. /\ schedule' = schedule /\ list' = list /\ calm' = calm
        /\ day' = day /\ time' = time /\ task = "insert" /\ task' = "insert"
    BY <1>9 DEF InsertRule, fileVars, clockVars
  <2>2. (BlockTime' <=> BlockTime) /\ Contents' = Contents
    BY <2>1 DEF BlockTime, Contents
  <2>3. (rules \cup todo) \cap Valid \subseteq rules' \cup todo'
    BY <1>9 DEF InsertRule
  <2>4. QED  BY <2>1, <2>2, <2>3 DEF RunInv
<1>10. CASE Blocked
  <2>1. /\ schedule' = schedule /\ list' = list /\ calm' = calm /\ rules' = rules
        /\ day' = day /\ time' = time /\ task = "insert" /\ task' = "idle" /\ todo = {}
    BY <1>10 DEF Blocked, fileVars, clockVars
  <2>2. (BlockTime' <=> BlockTime) /\ Contents' = Contents
    BY <2>1 DEF BlockTime, Contents
  <2>3. QED  BY <2>1, <2>2 DEF RunInv
<1>11. CASE ClearBlocks
  <2>1. /\ schedule' = schedule /\ list' = list /\ calm' = calm /\ rules' = {}
        /\ day' = day /\ time' = time /\ task = "unblock" /\ task' = "idle"
    BY <1>11 DEF ClearBlocks, fileVars, clockVars
  <2>2. (BlockTime' <=> BlockTime) /\ Contents' = Contents
    BY <2>1 DEF BlockTime, Contents
  <2>3. QED  BY <2>1, <2>2 DEF RunInv
<1>12. CASE UNCHANGED vars
  BY <1>12, RunInvFrame DEF vars, Contents
<1>g. CASE GetSchedule
  BY <1>g, RunInvFrame DEF GetSchedule, schedulerVars, clockVars, Contents
<1>13. QED
  BY <1>1, <1>2, <1>3, <1>4, <1>5, <1>6, <1>7, <1>8, <1>9, <1>10, <1>11, <1>12,
     <1>g, DefaultIsSchedule, ClientBlockingAssumption
  DEF Next, ListRequest, PutSchedule, SaveDefault, Scheduler

\* A run of the scheduler that nobody disturbs leaves the forward chain as the
\* schedule wants it, whatever rules and files it found.
THEOREM RunsEnforceTheSchedule == Spec => []RunEnforcesSchedule
<1>1. Init => RunInv
  BY DEF Init, RunInv
<1>2. RunInv => RunEnforcesSchedule
  BY DEF RunInv, RunEnforcesSchedule
<1>3. QED  BY <1>1, <1>2, RunInvStep, TypeCorrect, PTL DEF Spec

(***************************************************************************)
(* The recorded state.                                                     *)
(***************************************************************************)

\* What block_state.json says, at each place the scheduler can be.
StateInv ==
    reboots = 0 =>
        /\ task \in {"idle", "main"} => (state = "blocked" <=> rules # {})
        /\ task = "block" => rules = {} /\ state # "blocked"
        /\ task = "insert" => state # "blocked"

\* StateInv is inductive, relative to TypeOK.
LEMMA StateInvStep == TypeOK /\ StateInv /\ [Next]_vars => StateInv'
<1> SUFFICES ASSUME TypeOK, StateInv, [Next]_vars PROVE StateInv'
  OBVIOUS
<1>1. CASE UNCHANGED <<rules, state, task, reboots>>
  BY <1>1 DEF StateInv
<1>2. CASE Cron
  BY <1>2 DEF Cron, StateInv
<1>3. CASE Main
  BY <1>3 DEF Main, StateInv
<1>4. CASE BlockClients
  BY <1>4 DEF BlockClients, StateInv
<1>5. CASE Blocked
  BY <1>5 DEF Blocked, StateInv
<1>6. CASE ClearBlocks
  BY <1>6 DEF ClearBlocks, StateInv
<1>7. ASSUME NEW a \in Address, InsertRule(a)
      PROVE  StateInv'
  BY <1>7 DEF InsertRule, StateInv
<1>8. CASE Reboot
  <2>1. reboots' # 0
    BY <1>8 DEF Reboot, TypeOK
  <2>2. QED  BY <2>1 DEF StateInv
<1>9. ASSUME NEW r \in Request, ListRequest(r)
      PROVE  UNCHANGED <<rules, state, task, reboots>>
  BY <1>9 DEF ListRequest, Read, Create, Truncate, Write, schedulerVars
<1>10. ASSUME NEW s, SaveSchedule(s)
       PROVE  UNCHANGED <<rules, state, task, reboots>>
  BY <1>10 DEF SaveSchedule, schedulerVars
<1>11. ASSUME NEW r \in Request, NEW op \in Op, NEW mac \in Address, Arrive(r, op, mac)
       PROVE  UNCHANGED <<rules, state, task, reboots>>
  BY <1>11 DEF Arrive, schedulerVars
<1>12. GetSchedule \/ WriteSchedule \/ UNCHANGED vars => UNCHANGED <<rules, state, task, reboots>>
  BY DEF GetSchedule, WriteSchedule, schedulerVars, vars
<1>13. QED
  BY <1>1, <1>2, <1>3, <1>4, <1>5, <1>6, <1>7, <1>8, <1>9, <1>10, <1>11, <1>12
  DEF Next, PutSchedule, SaveDefault, Scheduler

\* As long as the machine is not rebooted, block_state.json and the forward
\* chain agree between runs.
THEOREM StateAgreesWithRules == Spec => []StateIsRecorded
<1>1. Init => StateInv
  BY DEF Init, StateInv
<1>2. StateInv => StateIsRecorded
  BY DEF StateInv, StateIsRecorded
<1>3. QED  BY <1>1, <1>2, StateInvStep, TypeCorrect, PTL DEF Spec

(***************************************************************************)
(* The list.                                                               *)
(***************************************************************************)

\* Requests one at a time: the list is what the answers add up to until a
\* request truncates it, and that request then carries what it has to become.
ListInv ==
    apart =>
        /\ \A q, r \in Request : req[q].pc # "idle" /\ req[r].pc # "idle" => q = r
        /\ (\A r \in Request : req[r].pc # "write") => Contents = wanted
        /\ \A r \in Request : req[r].pc \in {"truncate", "write"} =>
              req[r].macs = Edited(req[r].op, req[r].mac, wanted)
        /\ \A r \in Request : req[r].pc = "write" => list = {}
        /\ \A r \in Request : req[r].pc = "create" => list = NOFILE

\* What an answer adds is what the request has written.
LEMMA AnswerAdds ==
    ASSUME NEW r \in Request, Answer(r)
    PROVE  wanted' = Edited(req[r].op, req[r].mac, wanted)
BY DEF Answer, Edited

\* An answered request that was the only one leaves none.
LEMMA AnswerEnds ==
    ASSUME TypeOK, NEW r \in Request, Answer(r),
           \A q \in Request : req[q].pc # "idle" => q = r
    PROVE  \A q \in Request : req'[q].pc = "idle"
BY DEF Answer, Idle, TypeOK

\* A request that is the only one and has read what the answers add up to
\* keeps ListInv when it goes on.
LEMMA ProceedKeepsList ==
    ASSUME TypeOK, NEW r \in Request, Proceed(r, wanted),
           \A q \in Request : req[q].pc # "idle" => q = r,
           Contents' = wanted
    PROVE  ListInv'
<1> DEFINE macs == Edited(req[r].op, req[r].mac, wanted)
<1>1. CASE macs = wanted
  <2>1. Answer(r)
    BY <1>1 DEF Proceed
  <2>2. \A q \in Request : req'[q].pc = "idle"
    BY <2>1, AnswerEnds
  <2>3. wanted' = wanted
    BY <1>1, <2>1, AnswerAdds
  <2>4. QED  BY <2>2, <2>3 DEF ListInv
<1>2. CASE macs # wanted
  <2>1. /\ req' = [req EXCEPT ![r].pc = "truncate", ![r].macs = macs]
        /\ wanted' = wanted
    BY <1>2 DEF Proceed
  <2>2. req[r] \in ReqType
    BY DEF TypeOK
  <2>3. req' = [req EXCEPT ![r] = [req[r] EXCEPT !.pc = "truncate", !.macs = macs]]
    BY <2>1 DEF TypeOK
  <2>4. /\ req'[r].pc = "truncate" /\ req'[r].macs = macs
        /\ req'[r].op = req[r].op /\ req'[r].mac = req[r].mac
    BY <2>2, <2>3 DEF TypeOK, ReqType
  <2>5. \A q \in Request : q # r => req'[q].pc = "idle"
    BY <2>3 DEF TypeOK
  <2>6. req'[r].macs = Edited(req'[r].op, req'[r].mac, wanted')
    BY <2>1, <2>4
  <2>7. QED  BY <2>1, <2>4, <2>5, <2>6 DEF ListInv
<1>3. QED  BY <1>1, <1>2

\* ListInv is inductive, relative to TypeOK.
LEMMA ListInvStep == TypeOK /\ ListInv /\ [Next]_vars => ListInv'
<1> SUFFICES ASSUME TypeOK, ListInv, [Next]_vars PROVE ListInv'
  OBVIOUS
<1> USE ClientBlockingAssumption
<1>1. CASE UNCHANGED <<list, req, wanted, apart>>
  BY <1>1 DEF ListInv, Contents
<1>2. ASSUME NEW r \in Request, NEW op \in Op, NEW mac \in Address, Arrive(r, op, mac)
      PROVE  ListInv'
  <2> SUFFICES ASSUME apart' PROVE ListInv'
    BY DEF ListInv
  <2>1. apart /\ \A q \in Request : req[q].pc = "idle"
    BY <1>2 DEF Arrive
  <2>2. req' = [req EXCEPT ![r] = [pc |-> "read", op |-> op, mac |-> mac, macs |-> {}]]
    BY <1>2 DEF Arrive
  <2>3. /\ req'[r].pc = "read"
        /\ \A q \in Request : q # r => req'[q].pc = "idle"
    BY <2>1, <2>2 DEF TypeOK
  <2>4. Contents' = wanted'
    BY <1>2, <2>1 DEF Arrive, fileVars, ListInv, Contents
  <2>5. QED  BY <2>3, <2>4 DEF ListInv
<1>3. ASSUME NEW r \in Request, Read(r) \/ Create(r)
      PROVE  ListInv'
  <2> SUFFICES ASSUME apart' PROVE ListInv'
    BY DEF ListInv
  <2>1. apart /\ req[r].pc \in {"read", "create"}
    BY <1>3 DEF Read, Create
  <2>2. \A q \in Request : req[q].pc # "idle" => q = r
    BY <2>1 DEF ListInv
  <2>3. Contents = wanted
    BY <2>1, <2>2 DEF ListInv
  <2>4. CASE Read(r) /\ list # NOFILE
    <3>1. list = wanted /\ list' = list /\ Proceed(r, list)
      BY <2>3, <2>4 DEF Contents, Read, fileVars
    <3>2. Contents' = wanted
      BY <2>4, <3>1 DEF Contents
    <3>3. QED  BY <2>2, <3>1, <3>2, ProceedKeepsList
  <2>5. CASE Read(r) /\ list = NOFILE
    <3>1. /\ req' = [req EXCEPT ![r].pc = "create"]
          /\ list' = list /\ wanted' = wanted
      BY <2>5 DEF Read, fileVars
    <3>2. req[r] \in ReqType
      BY DEF TypeOK
    <3>3. req' = [req EXCEPT ![r] = [req[r] EXCEPT !.pc = "create"]]
      BY <3>1 DEF TypeOK
    <3>4. /\ req'[r].pc = "create"
          /\ \A q \in Request : q # r => req'[q].pc = "idle"
      BY <2>2, <3>2, <3>3 DEF TypeOK, ReqType
    <3>5. Contents' = wanted'
      BY <2>3, <3>1 DEF Contents
    <3>6. QED  BY <2>5, <3>1, <3>4, <3>5 DEF ListInv
  <2>6. CASE Create(r)
    <3>1. CASE list = NOFILE
      <4>1. wanted = {} /\ list' = {} /\ Proceed(r, wanted)
        BY <2>3, <2>6, <3>1 DEF Contents, Create
      <4>2. Contents' = wanted
        BY <4>1 DEF Contents
      <4>3. QED  BY <2>2, <4>1, <4>2, ProceedKeepsList
    <3>2. CASE list # NOFILE
      BY <2>1, <2>6, <3>2 DEF ListInv, Create
    <3>3. QED  BY <3>1, <3>2
  <2>7. QED  BY <1>3, <2>4, <2>5, <2>6
<1>4. ASSUME NEW r \in Request, Truncate(r)
      PROVE  ListInv'
  <2> SUFFICES ASSUME apart' PROVE ListInv'
    BY DEF ListInv
  <2>1. apart /\ req[r].pc = "truncate" /\ wanted' = wanted
    BY <1>4 DEF Truncate
  <2>2. \A q \in Request : q # r => req[q].pc = "idle"
    BY <2>1 DEF ListInv
  <2>3. req' = [req EXCEPT ![r] = [req[r] EXCEPT !.pc = "write"]] /\ req[r] \in ReqType
    BY <1>4 DEF Truncate, TypeOK
  <2>4. /\ req'[r].pc = "write" /\ req'[r].macs = req[r].macs
        /\ req'[r].op = req[r].op /\ req'[r].mac = req[r].mac
    BY <2>3 DEF TypeOK, ReqType
  <2>5. \A q \in Request : q # r => req'[q].pc = "idle"
    BY <2>2, <2>3 DEF TypeOK
  <2>6. req'[r].macs = Edited(req'[r].op, req'[r].mac, wanted')
    BY <2>1, <2>4 DEF ListInv
  <2>7. list' = {}
    BY <1>4 DEF Truncate
  <2>8. QED  BY <2>4, <2>5, <2>6, <2>7 DEF ListInv
<1>5. ASSUME NEW r \in Request, Write(r)
      PROVE  ListInv'
  <2> SUFFICES ASSUME apart' PROVE ListInv'
    BY DEF ListInv
  <2>1. apart /\ req[r].pc = "write" /\ Answer(r)
    BY <1>5 DEF Write
  <2>2. list = {}
    BY <2>1 DEF ListInv
  <2>3. list' = req[r].macs
    BY <1>5, <2>2 DEF Write
  <2>4. \A q \in Request : req[q].pc # "idle" => q = r
    BY <2>1 DEF ListInv
  <2>5. \A q \in Request : req'[q].pc = "idle"
    BY <2>1, <2>4, AnswerEnds
  <2>6. req[r].macs \in SUBSET Address
    BY DEF TypeOK, ReqType
  <2>7. Contents' = wanted'
    BY <2>1, <2>6, <2>3, AnswerAdds DEF ListInv, Contents
  <2>8. QED  BY <2>5, <2>7 DEF ListInv
<1>6. CASE Reboot
  <2> SUFFICES ASSUME apart' PROVE ListInv'
    BY DEF ListInv
  <2>1. /\ apart /\ list' = list /\ wanted' = wanted
        /\ \A r \in Request : req[r].pc = "idle"
    BY <1>6 DEF Reboot
  <2>2. \A r \in Request : req'[r].pc = "idle"
    BY <1>6 DEF Reboot, Idle
  <2>3. QED  BY <2>1, <2>2 DEF ListInv, Contents
<1>7. ASSUME NEW s, SaveSchedule(s)
      PROVE  UNCHANGED <<list, req, wanted, apart>>
  BY <1>7 DEF SaveSchedule
<1>8. ASSUME NEW a \in Address, InsertRule(a)
      PROVE  UNCHANGED <<list, req, wanted, apart>>
  BY <1>8 DEF InsertRule, fileVars
<1>9. \/ GetSchedule \/ WriteSchedule \/ Cron \/ Main \/ BlockClients \/ Blocked \/ ClearBlocks
      \/ UNCHANGED vars
      => UNCHANGED <<list, req, wanted, apart>>
  BY DEF GetSchedule, WriteSchedule, Cron, Main, BlockClients, Blocked, ClearBlocks, vars, fileVars
<1>10. QED
  BY <1>1, <1>2, <1>3, <1>4, <1>5, <1>6, <1>7, <1>8, <1>9
  DEF Next, ListRequest, PutSchedule, SaveDefault, Scheduler

\* Requests that do not overlap lose nothing: the list is what their answers
\* add up to, whatever the scheduler does meanwhile.
THEOREM AnswersAreKept == Spec => []AnswersAddUp
<1>1. Init => ListInv
  BY DEF Init, ListInv, Idle, Contents
<1>2. ListInv => AnswersAddUp
  BY DEF ListInv, AnswersAddUp
<1>3. QED  BY <1>1, <1>2, ListInvStep, TypeCorrect, PTL DEF Spec
=============================================================================
