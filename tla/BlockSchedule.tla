--------------------------- MODULE BlockSchedule ---------------------------
(***************************************************************************)
(* The weekly schedule of client blocking, as src/bin/block_scheduler.py   *)
(* reads it.  A time is the slot of one run of the scheduler by cron: the  *)
(* schedule is only ever looked at then.                                   *)
(***************************************************************************)
EXTENDS Integers

CONSTANTS
    Days,     \* days in the cycle, a week in the code
    Slots,    \* runs of the scheduler in a day
    NOENTRY   \* a day that the schedule does not mention

ASSUME BlockScheduleAssumption == Days \in Nat \ {0} /\ Slots \in Nat \ {0}

Day == 0 .. Days - 1
Time == 0 .. Slots - 1
Entry == [startTime : Time, endTime : Time]

ASSUME NoEntryAssumption == NOENTRY \notin Entry

Schedule == [Day -> Entry \cup {NOENTRY}]

Yesterday(d) == IF d = 0 THEN Days - 1 ELSE d - 1

\* Mutant: `and' for `or' in the overnight case, which nothing satisfies.
IsActiveTimeMutant(entry, t) == entry.startTime <= t /\ t <= entry.endTime

\* is_active_time
IsActiveTime(entry, t) ==
    IF entry.startTime <= entry.endTime
    THEN entry.startTime <= t /\ t <= entry.endTime
    ELSE t >= entry.startTime \/ t <= entry.endTime

\* should_block in main: only the entry of the present day is consulted, and a
\* day without entry is never a time to block.
ShouldBlock(s, d, t) == s[d] # NOENTRY /\ IsActiveTime(s[d], t)

(***************************************************************************)
(* The reference.  An entry opens a window at its start time on its own    *)
(* day; the window closes at the end time, on the next day when that comes *)
(* before the start time.                                                  *)
(***************************************************************************)

Overnight(entry) == entry.startTime > entry.endTime

OpenedToday(s, d, t) ==
    /\ s[d] # NOENTRY
    /\ t >= s[d].startTime
    /\ Overnight(s[d]) \/ t <= s[d].endTime

OpenSinceYesterday(s, d, t) ==
    LET y == Yesterday(d)
    IN  s[y] # NOENTRY /\ Overnight(s[y]) /\ t <= s[y].endTime

InWindow(s, d, t) == OpenedToday(s, d, t) \/ OpenSinceYesterday(s, d, t)

\* The same entry every day, which is what the web interface starts from.
Uniform(s) == \A d, e \in Day : s[d] = s[e]
=============================================================================
