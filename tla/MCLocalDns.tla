----------------------------- MODULE MCLocalDns -----------------------------
(***************************************************************************)
(* The small instances of LocalDns that TLC checks: two VLANs, two machines *)
(* with addresses in the second, and four names, of which Nas is nas in     *)
(* upper case and bad is not a valid name.                                  *)
(***************************************************************************)
EXTENDS LocalDns, TLC

CONSTANTS nas, Nas, tv, bad, v1, v2

MCLower == (nas :> nas) @@ (Nas :> nas) @@ (tv :> tv)
MCVlanOf == [i \in Ips |-> v2]

\* The files and tables that earlier requests can have left for VLAN 2.
NameLists == {<<nas>>, <<tv>>, <<nas, tv>>, <<tv, nas>>}
EntrySet == [ip : Ips, names : NameLists]
Files == {s \in BoundedSeq(EntrySet, 2) : WellFormed(s)}
Tables == {{[mac |-> m, ip |-> f[m].ip, name |-> f[m].name, vlan |-> v2]
               : m \in {n \in Macs : f[n].ip # NoIp}}
              : f \in [Macs -> [ip : Ips, name : Names] \cup {[ip |-> NoIp, name |-> NoName]}]}

Empty == [hosts |-> {}, dns |-> [v \in Vlans |-> <<>>], left |-> 1]

\* Two requests from the beginning on, or one after any earlier ones.
MCInitialStates ==
    {[Empty EXCEPT !.left = 2]}
    \cup {[hosts |-> t, dns |-> [v \in Vlans |-> IF v = v2 THEN f ELSE <<>>], left |-> 1]
             : t \in Tables, f \in Files}

OneRequest == {Empty}
NoReservations == <<>>
=============================================================================
