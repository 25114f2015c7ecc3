---------------------------- MODULE ForwardTable ----------------------------
(***************************************************************************)
(* What the port-forwards API promises its user: one table of forwards,    *)
(* kept as a list of local and a list of external ones, in which a port is *)
(* used at most once.  A forward is added if its port is free, removed if  *)
(* it is there, and nothing else changes the table, except that a list may *)
(* be lost as a whole when the server dies while it is saved.              *)
(***************************************************************************)
CONSTANTS
    ExtPorts,      \* external ports
    Allowed,       \* of each list, what a port may be forwarded to
    NoForward      \* the value of a port without forward

VARIABLE table     \* of each list, the value of each port

Lists == {"local", "external"}

Nothing == [p \in ExtPorts |-> NoForward]

Free(p) == \A l \in Lists : table[l][p] = NoForward

Init == table = [l \in Lists |-> Nothing]

Add(l, p) ==
    /\ Free(p)
    /\ \E v \in Allowed[l] : table' = [table EXCEPT ![l][p] = v]

Remove(l, p) ==
    /\ table[l][p] # NoForward
    /\ table' = [table EXCEPT ![l][p] = NoForward]

Lose(l) == table' = [table EXCEPT ![l] = Nothing]

Next ==
    /\ table' # table
    /\ \E l \in Lists :
           \/ \E p \in ExtPorts : Add(l, p) \/ Remove(l, p)
           \/ Lose(l)

Spec == Init /\ [][Next]_table

\* A port has at most one forward in the two lists together.
OneForwardPerPort ==
    \A p \in ExtPorts :
        table["local"][p] = NoForward \/ table["external"][p] = NoForward
=============================================================================
