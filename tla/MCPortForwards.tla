--------------------------- MODULE MCPortForwards ---------------------------
(***************************************************************************)
(* The small instances of PortForwards that TLC checks.  Of the targets,   *)
(* web is 10.0.0.2:80 and alt is 10.0.0.2:8080, whose text begins with it. *)
(***************************************************************************)
EXTENDS PortForwards, TLC

CONSTANTS web, alt

MCTouches == [t \in Targets |-> IF t = web THEN {web, alt} \cap Targets ELSE {t}]

RequestSymmetry == Permutations(Requests)
PortSymmetry == Permutations(ExtPorts)

\* Where scripts and requests overlap: no guard and no other variable is computed
\* from the SNAT and accept rules, torn and apart.
SyncView == <<file, missing, dnat, opened, doubled, pc, list, ask, unread, absent,
              seen, adds, drops, half, lone, good, checked>>

\* Where they do not: none is computed from good, lone and checked.
SerialView == <<files, ruleset, pc, list, editVars, syncVars, apart, torn>>
=============================================================================
