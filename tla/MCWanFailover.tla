--------------------------- MODULE MCWanFailover ---------------------------
(***************************************************************************)
(* The small instances of WanFailover that TLC checks.                     *)
(***************************************************************************)
EXTENDS WanFailover

CONSTANTS p1, p2, s1

\* The primary's provider may renumber its router, the secondary's does not.
MCGateway == {p1, p2, s1}
MCOffered == [w \in WAN |-> IF w = PRIMARY_INTERFACE THEN {p1, p2} ELSE {s1}]

\* The secondary's gateway sorts between the two of the primary.
MCRouteText == [r \in Route |-> IF r.gw = p1 THEN 0 ELSE IF r.gw = s1 THEN 1 ELSE 2]
=============================================================================
