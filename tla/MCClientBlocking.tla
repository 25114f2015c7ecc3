-------------------------- MODULE MCClientBlocking --------------------------
(***************************************************************************)
(* The small instances of ClientBlocking that TLC checks: three slots in a *)
(* day, two days, and schedules with a day without entry, with a window    *)
(* that ends after midnight, and with windows that differ between days.    *)
(***************************************************************************)
EXTENDS ClientBlocking

E(s, e) == [startTime |-> s, endTime |-> e]

Nightly == [d \in Day |-> E(2, 0)]
OneNight == [d \in Day |-> IF d = 0 THEN E(2, 0) ELSE NOENTRY]
Changing == [d \in Day |-> IF d = 0 THEN E(1, 1) ELSE E(1, 2)]

MCSchedules == {Nightly, OneNight, Changing}
=============================================================================
