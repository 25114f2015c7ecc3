--------------------------- MODULE ClientBlocking ---------------------------
(***************************************************************************)
(* Blocked clients.  The web interface edits a list of addresses and a     *)
(* weekly schedule, both files under /etc/darkflows; cron runs             *)
(* block_scheduler.py, which turns the list into drop rules of the forward *)
(* chain at block time and removes them again.  Nothing locks the files,   *)
(* and every await of a request is a place where the others go on.         *)
(***************************************************************************)
EXTENDS BlockSchedule, FiniteSets

CONSTANTS
    Address,       \* what the interface may put on the list
    Valid,         \* those that validate_ip or validate_mac, and nft, accept
    Request,       \* requests on the list that may be under way together
    Schedules,     \* the schedules a user may save
    NOFILE,        \* a file that does not exist
    PARTIAL,       \* a schedule that has been truncated and not yet written
    MaxEdits,      \* bound: requests to the two APIs
    MaxReboots     \* bound: reboots

ASSUME ClientBlockingAssumption ==
    /\ Valid \subseteq Address
    /\ Schedules \subseteq Schedule
    /\ \A A \in SUBSET Address : A # NOFILE
    /\ NOFILE \notin Schedule /\ PARTIAL \notin Schedule /\ NOFILE # PARTIAL
    /\ MaxEdits \in Nat /\ MaxReboots \in Nat

VARIABLES
    list,      \* blocked_clients.txt
    req,       \* the requests on it
    schedule,  \* block_schedule.json
    lacking,   \* a GET has found no schedule and is going to write the default
    saving,    \* the schedule that has still to be written, NOFILE if none
    rules,     \* the addresses with a drop rule in the forward chain
    state,     \* block_state.json
    day, time, \* the clock, in slots of the scheduler
    task,      \* where the scheduler and its script are
    todo,      \* addresses block_clients.sh has read and not yet dealt with
    edits, reboots,
    \* What the properties remember of the past.
    wanted,    \* the list the answered requests should have produced
    apart,     \* no two requests have overlapped, no reboot has cut one short
    calm       \* nobody but the scheduler has acted since its run began

fileVars == <<list, schedule, lacking, saving>>
schedulerVars == <<rules, state, task, todo>>
clockVars == <<day, time>>
vars == <<list, req, schedule, lacking, saving, rules, state, day, time, task,
          todo, edits, reboots, wanted, apart, calm>>

Op == {"GET", "POST", "DELETE"}

Idle == [pc |-> "idle", op |-> "GET", mac |-> "none", macs |-> {}]

ReqType == [pc : {"idle", "read", "create", "truncate", "write"}, op : Op,
            mac : Address \cup {"none"}, macs : SUBSET Address]

TypeOK ==
    /\ list = NOFILE \/ list \in SUBSET Address
    /\ req \in [Request -> ReqType]
    /\ \A r \in Request : /\ req[r].pc # "idle" => req[r].mac \in Address
                          /\ req[r].pc \in {"truncate", "write"} => list # NOFILE
    /\ schedule \in Schedule \cup {NOFILE, PARTIAL}
    /\ lacking \in BOOLEAN
    /\ saving \in Schedule \cup {NOFILE}
    /\ (schedule = PARTIAL => saving # NOFILE) \/ reboots > 0
    /\ rules \subseteq Valid
    /\ state \in {"none", "blocked", "unblocked"}
    /\ day \in Day
    /\ time \in Time
    /\ task \in {"idle", "main", "block", "insert", "unblock"}
    /\ todo \subseteq Address
    /\ task # "insert" => todo = {}
    /\ edits \in 0..MaxEdits
    /\ reboots \in 0..MaxReboots
    /\ wanted \subseteq Address
    /\ apart \in BOOLEAN
    /\ calm \in BOOLEAN

Init ==
    /\ list = NOFILE
    /\ req = [r \in Request |-> Idle]
    /\ schedule = NOFILE
    /\ lacking = FALSE
    /\ saving = NOFILE
    /\ rules = {}
    /\ state = "none"
    /\ day = 0
    /\ time = 0
    /\ task = "idle"
    /\ todo = {}
    /\ edits = 0
    /\ reboots = 0
    /\ wanted = {}
    /\ apart = TRUE
    /\ calm = FALSE

(***************************************************************************)
(* /api/blocked-clients: a request reads the file, changes its copy, and   *)
(* writes it back; writeFile truncates the file before it writes.          *)
(***************************************************************************)

Arrive(r, op, mac) ==
    /\ req[r].pc = "idle"
    /\ edits < MaxEdits
    /\ req' = [req EXCEPT ![r] = [pc |-> "read", op |-> op, mac |-> mac, macs |-> {}]]
    /\ edits' = edits + 1
    /\ apart' = (apart /\ \A q \in Request : req[q].pc = "idle")
    /\ UNCHANGED <<fileVars, schedulerVars, clockVars, reboots, wanted, calm>>

\* The addresses in the file; none if there is no file.
Contents == IF list = NOFILE THEN {} ELSE list

\* The request has its answer; what it asked for is now owed to the user.
Answer(r) ==
    /\ req' = [req EXCEPT ![r] = Idle]
    /\ wanted' = CASE req[r].op = "POST"   -> wanted \cup {req[r].mac}
                   [] req[r].op = "DELETE" -> wanted \ {req[r].mac}
                   [] OTHER                -> wanted

\* Mutant: splice is called without the test of the index, and -1 takes the
\* last entry away.
EditedMutant(op, mac, macs) ==
    CASE op = "POST" -> macs \cup {mac}
      [] op = "DELETE" /\ mac \in macs -> macs \ {mac}
      [] op = "DELETE" /\ macs # {} -> macs \ {CHOOSE m \in macs : TRUE}
      [] OTHER -> macs

\* push, or splice at the index found.
Edited(op, mac, macs) ==
    CASE op = "POST"   -> macs \cup {mac}
      [] op = "DELETE" -> macs \ {mac}
      [] OTHER         -> macs

\* The request goes on with the addresses it has read: a GET, or an edit that
\* changes nothing, is answered without a write.
Proceed(r, addresses) ==
    LET macs == Edited(req[r].op, req[r].mac, addresses)
    IN  IF macs = addresses
        THEN Answer(r)
        ELSE /\ req' = [req EXCEPT ![r].pc = "truncate", ![r].macs = macs]
             /\ UNCHANGED wanted

\* readBlockedClients; without the file, an empty one has to be written first.
Read(r) ==
    /\ req[r].pc = "read"
    /\ IF list = NOFILE
       THEN req' = [req EXCEPT ![r].pc = "create"] /\ UNCHANGED wanted
       ELSE Proceed(r, list)
    /\ UNCHANGED <<fileVars, schedulerVars, clockVars, edits, reboots, apart, calm>>

\* The empty file replaces whatever another request may have written meanwhile.
Create(r) ==
    /\ req[r].pc = "create"
    /\ list' = {}
    /\ Proceed(r, {})
    /\ calm' = FALSE
    /\ UNCHANGED <<schedule, lacking, saving, schedulerVars, clockVars, edits, reboots, apart>>

Truncate(r) ==
    /\ req[r].pc = "truncate"
    /\ list' = {}
    /\ req' = [req EXCEPT ![r].pc = "write"]
    /\ calm' = FALSE
    /\ UNCHANGED <<schedule, lacking, saving, schedulerVars, clockVars, edits, reboots,
                   wanted, apart>>

\* The text is written over the beginning of the file; if another request has
\* filled it since the truncation, what is longer stays behind it.  Which
\* addresses these are depends on the order of the lines, which is left out.
Write(r) ==
    /\ req[r].pc = "write"
    /\ \E kept \in SUBSET list :
          /\ kept # {} => Cardinality(kept) + Cardinality(req[r].macs) <= Cardinality(list)
          /\ list' = req[r].macs \cup kept
    /\ Answer(r)
    /\ calm' = FALSE
    /\ UNCHANGED <<schedule, lacking, saving, schedulerVars, clockVars, edits, reboots, apart>>

ListRequest(r) == Read(r) \/ Create(r) \/ Truncate(r) \/ Write(r)

(***************************************************************************)
(* /api/block-schedule.  The page sends one PUT at a time; a GET that      *)
(* finds no file writes the default, every day from 00:00 to 23:59, over   *)
(* what a PUT may have written meanwhile.  All schedules have the same     *)
(* length, so that the one that is written last is there as a whole, and   *)
(* the two writes may be taken one after the other.                        *)
(***************************************************************************)

DefaultSchedule == [d \in Day |-> [startTime |-> 0, endTime |-> Slots - 1]]

\* writeFile truncates the file before it writes.
SaveSchedule(s) ==
    /\ saving = NOFILE
    /\ schedule' = PARTIAL
    /\ saving' = s
    /\ calm' = FALSE
    /\ UNCHANGED <<list, req, schedulerVars, clockVars, reboots, wanted, apart>>

PutSchedule ==
    /\ edits < MaxEdits
    /\ edits' = edits + 1
    /\ \E s \in Schedules : SaveSchedule(s)
    /\ UNCHANGED lacking

\* readSchedule finds no file.
GetSchedule ==
    /\ schedule = NOFILE
    /\ ~lacking
    /\ edits < MaxEdits
    /\ edits' = edits + 1
    /\ lacking' = TRUE
    /\ UNCHANGED <<list, schedule, saving, req, schedulerVars, clockVars, reboots,
                   wanted, apart, calm>>

SaveDefault ==
    /\ lacking
    /\ lacking' = FALSE
    /\ SaveSchedule(DefaultSchedule)
    /\ UNCHANGED edits

WriteSchedule ==
    /\ saving # NOFILE
    /\ schedule' = saving
    /\ saving' = NOFILE
    /\ calm' = FALSE
    /\ UNCHANGED <<list, lacking, req, schedulerVars, clockVars, edits, reboots,
                   wanted, apart>>

(***************************************************************************)
(* block_scheduler.py, with the script it starts.                          *)
(***************************************************************************)

\* Cron: the next slot begins, and with it a run.  A run is over long before
\* the next one.
Cron ==
    /\ task = "idle"
    /\ task' = "main"
    /\ time' = (time + 1) % Slots
    /\ day' = IF time' = 0 THEN (day + 1) % Days ELSE day
    /\ calm' = TRUE
    /\ UNCHANGED <<fileVars, req, rules, state, todo, edits, reboots, wanted, apart>>

BlockTime == ShouldBlock(schedule, day, time)

\* Mutant: the branches of a day without entry and of no-block time forget the
\* blocks that are left over.
MainMutant ==
    /\ task = "main"
    /\ task' = IF schedule \notin Schedule THEN "idle"
               ELSE IF BlockTime /\ rules = {} THEN "block"
               ELSE "idle"
    /\ UNCHANGED <<fileVars, req, rules, state, clockVars, todo, edits, reboots,
                   wanted, apart, calm>>

\* main: a schedule that cannot be read ends the run; otherwise a script is run
\* if the rules of the chain, and not the list, are not what the hour wants.
Main ==
    /\ task = "main"
    /\ task' = IF schedule \notin Schedule THEN "idle"
               ELSE IF BlockTime /\ rules = {} THEN "block"
               ELSE IF ~BlockTime /\ rules # {} THEN "unblock"
               ELSE "idle"
    /\ UNCHANGED <<fileVars, req, rules, state, clockVars, todo, edits, reboots,
                   wanted, apart, calm>>

\* block_clients.sh up to the loop: the old rules go and the list is read; it
\* fails without the file.
BlockClients ==
    /\ task = "block"
    /\ rules' = {}
    /\ IF list = NOFILE
       THEN task' = "idle" /\ UNCHANGED todo
       ELSE task' = "insert" /\ todo' = list
    /\ UNCHANGED <<fileVars, req, state, clockVars, edits, reboots, wanted, apart, calm>>

\* Mutant: an address of the wrong format is passed to nft all the same.
InsertRuleMutant(a) ==
    /\ task = "insert"
    /\ a \in todo
    /\ todo' = todo \ {a}
    /\ rules' = rules \cup {a}
    /\ UNCHANGED <<fileVars, req, state, clockVars, task, edits, reboots, wanted,
                   apart, calm>>

\* One turn of its loop: nft insert, or a warning.
InsertRule(a) ==
    /\ task = "insert"
    /\ a \in todo
    /\ todo' = todo \ {a}
    /\ rules' = IF a \in Valid THEN rules \cup {a} ELSE rules
    /\ UNCHANGED <<fileVars, req, state, clockVars, task, edits, reboots, wanted,
                   apart, calm>>

\* Mutant: the state is written without the verification.
BlockedMutant ==
    /\ task = "insert"
    /\ todo = {}
    /\ task' = "idle"
    /\ state' = "blocked"
    /\ UNCHANGED <<fileVars, req, rules, clockVars, todo, edits, reboots, wanted,
                   apart, calm>>

\* execute_command verifies that there are blocks before write_state.
Blocked ==
    /\ task = "insert"
    /\ todo = {}
    /\ task' = "idle"
    /\ state' = IF rules # {} THEN "blocked" ELSE state
    /\ UNCHANGED <<fileVars, req, rules, clockVars, todo, edits, reboots, wanted,
                   apart, calm>>

\* clear_blocks.sh, then the same verification.
ClearBlocks ==
    /\ task = "unblock"
    /\ task' = "idle"
    /\ rules' = {}
    /\ state' = "unblocked"
    /\ UNCHANGED <<fileVars, req, clockVars, todo, edits, reboots, wanted, apart, calm>>

Scheduler ==
    \/ Main \/ BlockClients \/ Blocked \/ ClearBlocks
    \/ \E a \in Address : InsertRule(a)

(***************************************************************************)
(* A reboot ends every process; nftables.sh builds an empty forward chain. *)
(***************************************************************************)

Reboot ==
    /\ reboots < MaxReboots
    /\ reboots' = reboots + 1
    /\ rules' = {}
    /\ task' = "idle"
    /\ todo' = {}
    /\ req' = [r \in Request |-> Idle]
    /\ lacking' = FALSE
    /\ saving' = NOFILE
    /\ apart' = (apart /\ \A r \in Request : req[r].pc = "idle")
    /\ calm' = FALSE
    /\ UNCHANGED <<list, schedule, state, clockVars, edits, wanted>>

Next ==
    \/ \E r \in Request, op \in Op, mac \in Address : Arrive(r, op, mac)
    \/ \E r \in Request : ListRequest(r)
    \/ PutSchedule \/ GetSchedule \/ SaveDefault \/ WriteSchedule
    \/ Cron \/ Scheduler \/ Reboot

\* Cron keeps its clock, the scheduler and the web server go on with what they
\* have begun; users need not do anything.
Fairness ==
    /\ WF_vars(Cron)
    /\ WF_vars(Scheduler)
    /\ WF_vars(SaveDefault)
    /\ WF_vars(WriteSchedule)
    /\ \A r \in Request : WF_vars(ListRequest(r))

Spec == Init /\ [][Next]_vars

FairSpec == Spec /\ Fairness

(***************************************************************************)
(* Properties.                                                             *)
(***************************************************************************)

\* A run that nobody disturbs leaves the chain as the schedule wants it: drop
\* rules at block time if the list has any client to drop, none otherwise.
RunEnforcesSchedule ==
    (task = "idle" /\ calm /\ schedule \in Schedule) =>
        IF BlockTime THEN Contents \cap Valid # {} => rules # {}
                     ELSE rules = {}

\* As long as requests do not overlap and no reboot cuts one short, the list is
\* what the answered requests add up to, also while the scheduler reads it.
AnswersAddUp ==
    (apart /\ \A r \in Request : req[r].pc = "idle") => Contents = wanted

\* Between runs block_state.json says blocked exactly when the chain has drop
\* rules, although execute_command may fail half-way and writes the file only
\* at the end; a reboot empties the chain and is not recorded.
StateIsRecorded ==
    task \in {"idle", "main"} /\ reboots = 0 => (state = "blocked" <=> rules # {})

\* With one entry for every day, looking at today's entry alone is enough to
\* know whether a window is open, overnight windows included.
UniformIsExact ==
    schedule \in Schedule /\ Uniform(schedule) =>
        (BlockTime <=> InWindow(schedule, day, time))

\* Once users are quiet, and if the schedule has both kinds of time, every run
\* ends with exactly the listed clients blocked at block time and nobody
\* blocked otherwise: edits made during a window count from the next one on.
ListTakesEffect ==
    LET mixed == /\ schedule \in Schedule
                 /\ \E d \in Day, t \in Time : ~ShouldBlock(schedule, d, t)
        right == rules = IF BlockTime THEN Contents \cap Valid ELSE {}
    IN  <>[](mixed /\ task = "idle" => right)

(***************************************************************************)
(* What comments and messages of block_scheduler.py say, and the code does *)
(* not keep.                                                               *)
(***************************************************************************)

\* block_scheduler.py:169: at block time, a run that takes no action has found
\* the blocks already in place.
BlocksInPlace ==
    [][task = "main" /\ task' = "idle" /\ schedule \in Schedule /\ BlockTime
          => Contents \cap Valid \subseteq rules]_vars
=============================================================================
