-------------------------- MODULE LocalDns_proofs --------------------------
(***************************************************************************)
(* Proofs about LocalDns, for any VLANs, machines, addresses, names and    *)
(* reservations, any number of requests that run together, and any tables  *)
(* and files that earlier requests have left.                              *)
(***************************************************************************)
EXTENDS LocalDns, SequenceTheorems, FiniteSetTheorems, WellFoundedInduction, TLAPS

(***************************************************************************)
(* Types.                                                                  *)
(***************************************************************************)

Stages == {"idle", "check", "insert", "lookup", "delete", "query", "list",
           "update", "sync", "run", "save"}

Kinds == {"none", "reserve", "release", "resync", "addhost", "removehost", "rename"}

JobType == [kind : Kinds, mac : Macs \cup {NoMac}, ip : Ips \cup {NoIp},
            name : Names \cup {NoName}, vlan : Vlans]

AddCommand == [op : {"add"}, ip : Ips, name : Names, vlan : Vlans]
RemoveCommand == [op : {"remove"}, ip : {NoIp}, name : Names, vlan : Vlans]
Command == AddCommand \cup RemoveCommand

Reservation == Row \cup KeaReservation

StateTypes ==
    /\ hosts \subseteq Row /\ IsFiniteSet(hosts)
    /\ dns \in [Vlans -> Seq(Entry)]
    /\ \A v \in Vlans : WellFormed(dns[v])
    /\ left \in Nat /\ result \in JobType

RequestTypes ==
    /\ pc \in [Requests -> Stages]
    /\ job \in [Requests -> JobType]
    /\ todo \in [Requests -> Seq(Command)]
    /\ then \in [Requests -> {"update", "sync", "synced", "resynced", "end"}]
    /\ rows \in [Requests -> Seq(Reservation)]
    /\ listing \in [Requests -> Seq(Entry)]
    /\ at \in [Requests -> Nat]
    /\ entries \in [Requests -> Seq(Entry)]

\* What a request of each kind holds, and which requests reach which stage.
JobControl(r) ==
    LET j == job[r]
    IN  /\ j.kind = "none" <=> pc[r] = "idle"
        /\ j.kind \in {"reserve", "addhost", "rename"} => j.ip \in Ips
        /\ j.kind \in {"addhost", "removehost", "rename"} => j.name \in Names
        /\ j.kind \in {"reserve", "release"} => j.mac \in Macs
        /\ pc[r] \in {"check", "insert"} => j.kind = "reserve"
        /\ pc[r] \in {"lookup", "delete"} => j.kind = "release"
        /\ pc[r] = "query" => j.kind = "resync"
        /\ pc[r] = "list" => j.kind \in {"resync", "rename"}
        /\ pc[r] = "update" \/ then[r] = "update" => j.kind = "rename"
        /\ pc[r] = "sync" => j.kind \in {"reserve", "release", "rename"}
        /\ then[r] = "sync" => j.kind \in {"reserve", "release"}
        /\ then[r] = "synced" => j.kind \in {"reserve", "release", "rename"}
        /\ then[r] = "resynced" => j.kind = "resync"
        /\ pc[r] = "lookup" => then[r] = "end"
        /\ pc[r] \in {"run", "save"} /\ then[r] = "end" => j.kind \in {"addhost", "removehost"}
        /\ pc[r] = "sync" /\ j.kind # "rename" => then[r] = "sync" /\ todo[r] = <<>>

\* What holds while its commands run.
CommandControl(r) ==
    /\ WellFormed(listing[r]) /\ WellFormed(entries[r])
    /\ pc[r] = "save" => todo[r] # <<>> /\ ~Fails(Head(todo[r]))
    /\ at[r] <= Len(listing[r]) + Len(rows[r])
    /\ ~Syncing(r) => at[r] = 0
    /\ Syncing(r) => /\ pc[r] \in {"run", "save"}
                     /\ \A k \in DOMAIN todo[r] : todo[r][k].vlan = SyncVlan(r)

Typed ==
    /\ StateTypes
    /\ RequestTypes
    /\ \A r \in Requests : JobControl(r) /\ CommandControl(r)

(***************************************************************************)
(* One request at a time.                                                  *)
(***************************************************************************)

Alone ==
    /\ lone => \A r, s \in Requests : pc[r] # "idle" /\ pc[s] # "idle" => r = s
    /\ result.kind # "none" => Quiet
    /\ lone => \A r \in Requests :
                  pc[r] = "save" => entries[r] = dns[Head(todo[r]).vlan]

(***************************************************************************)
(* Edits outside the default VLAN.                                         *)
(***************************************************************************)

EditOver(r) == (then[r] = "sync" /\ todo[r] = <<>>) \/ then[r] = "synced"

\* What a request that edits a name has done, and what it has still to do.
Edited(r) ==
    LET j == job[r]
        file == dns[j.vlan]
    IN  /\ j.kind = "reserve" /\ j.name # NoName =>
              /\ then[r] = "sync" /\ todo[r] # <<>> =>
                    todo[r] = <<Add(j.ip, j.name, j.vlan)>>
              /\ EditOver(r) =>
                    Lower[j.name] \in NamesAt(file, j.ip)
        /\ j.kind = "release" /\ j.name \in LowerNames /\ clean =>
              /\ then[r] = "sync" /\ todo[r] # <<>> =>
                    todo[r] = <<RemoveName(j.name, j.vlan)>> /\ Clean(file, <<>>)
              /\ EditOver(r) =>
                    \A i \in Ips : j.name \notin NamesAt(file, i)

EditInv ==
    /\ VlanEditsShow
    /\ lone => \A r \in Requests : job[r].vlan # Default => Edited(r)

(***************************************************************************)
(* Resynchronisation.  The loops and the file they work on, for a listing  *)
(* L, reservations res, p turns of the loops taken, commands c left of the *)
(* last one and the file F as it is.                                       *)
(***************************************************************************)

\* The first loop leaves the entry alone.
Kept(e, res) == \E m \in DOMAIN res : res[m].ip = e.ip /\ res[m].name = e.names[1]

\* The i-th listed entry is still in the file, or part of it is.
OldAt(L, res, p, c, i) ==
    /\ i \in DOMAIN L
    /\ \/ i > p
       \/ Kept(L[i], res)
       \/ i = p /\ c # <<>> /\ c[1].op = "remove"

OldIp(L, res, p, c, ip) == \E i \in DOMAIN L : OldAt(L, res, p, c, i) /\ L[i].ip = ip

\* An entry the first loop has added.
NewEntry(e, res) ==
    \E m \in DOMAIN res : /\ res[m].ip = e.ip /\ res[m].name \notin Refused
                          /\ e.names = <<Lower[res[m].name]>>

\* The commands c replace an entry of address ip that has now the names ns.
Replaces(c, ip, ns, res, vlan) ==
    LET removals == RemoveAllNames([ip |-> ip, names |-> ns], vlan)
    IN  \/ /\ \A m \in DOMAIN res : res[m].ip # ip
           /\ c = removals
        \/ \E m \in DOMAIN res : /\ res[m].ip = ip
                                 /\ c = Append(removals, Add(ip, res[m].name, vlan))

\* Every entry is listed or added, and the listed ones come first.
EachOldOrNew(L, res, p, c, F) ==
    \A k \in DOMAIN F : OldIp(L, res, p, c, F[k].ip) \/ NewEntry(F[k], res)
OldFirst(L, res, p, c, F) ==
    \A k \in DOMAIN F : OldIp(L, res, p, c, F[k].ip) =>
        \A j \in 1..k : OldIp(L, res, p, c, F[j].ip)
OldPresent(L, res, p, c, F) ==
    \A i \in DOMAIN L : OldAt(L, res, p, c, i) =>
        \E k \in DOMAIN F : /\ F[k].ip = L[i].ip
                            /\ ToSet(F[k].names) \subseteq ToSet(L[i].names)
                            /\ i # p \/ Kept(L[i], res) => F[k].names = L[i].names
\* An entry that was to be replaced has been.
ReplacedPresent(L, res, p, c, F) ==
    \A i \in DOMAIN L :
        (/\ i <= p /\ (i = p => c = <<>>)
         /\ \E m \in DOMAIN res : res[m].ip = L[i].ip)
            => \E k \in DOMAIN F : F[k].ip = L[i].ip
\* The entry whose turn it is.
CurrentEntry(L, res, p, c, F, vlan) ==
    p \in DOMAIN L /\ c # <<>> =>
        /\ ~Kept(L[p], res)
        /\ \E ns \in {<<>>} \cup {F[k].names : k \in DOMAIN F} :
              /\ Replaces(c, L[p].ip, ns, res, vlan)
              /\ ToSet(ns) \subseteq ToSet(L[p].names)
              /\ \A k \in DOMAIN F : F[k].ip = L[p].ip => ns # <<>> /\ F[k].names = ns

FirstLoop(L, res, p, c, F, vlan) ==
    /\ EachOldOrNew(L, res, p, c, F)
    /\ OldFirst(L, res, p, c, F)
    /\ OldPresent(L, res, p, c, F)
    /\ ReplacedPresent(L, res, p, c, F)
    /\ p = 0 => c = <<>>
    /\ CurrentEntry(L, res, p, c, F, vlan)

\* The second loop: every entry has a reserved name first, and the reservations
\* gone through, or listed under their name, are in the file.
SecondLoop(L, res, p, c, F, vlan) ==
    /\ \A k \in DOMAIN F : \E m \in DOMAIN res :
          /\ res[m].ip = F[k].ip /\ res[m].name \notin Refused
          /\ Lower[res[m].name] = F[k].names[1]
    /\ \A m \in DOMAIN res :
          (\/ m < p - Len(L)
           \/ m = p - Len(L) /\ c = <<>>
           \/ res[m].name \in NamesAt(L, res[m].ip))
             => res[m].name \notin Refused /\ Lower[res[m].name] \in NamesAt(F, res[m].ip)
    /\ c # <<>> => /\ p - Len(L) \in DOMAIN res
                   /\ c = <<Add(res[p - Len(L)].ip, res[p - Len(L)].name, vlan)>>

Loops(L, res, p, c, F, vlan) ==
    IF p <= Len(L) THEN FirstLoop(L, res, p, c, F, vlan) ELSE SecondLoop(L, res, p, c, F, vlan)

Reserved(vlan) == {h \in hosts : h.vlan = vlan /\ h.name # NoName}

\* The answer to the query is still true.
Queried(r) ==
    job[r].kind = "resync" /\ (pc[r] = "list" \/ then[r] = "resynced") =>
        /\ \A m \in DOMAIN rows[r] : rows[r][m] \in Reserved(job[r].vlan)
        /\ \A h \in Reserved(job[r].vlan) : \E m \in DOMAIN rows[r] : rows[r][m] = h

Resyncing(r) ==
    then[r] = "resynced" /\ clean =>
        /\ Clean(listing[r], rows[r])
        /\ Loops(listing[r], rows[r], at[r], todo[r], dns[job[r].vlan], job[r].vlan)

ResyncInv ==
    /\ ResyncMatches
    /\ lone => \A r \in Requests : Queried(r) /\ Resyncing(r)

(***************************************************************************)
(* Sequences and files.                                                    *)
(***************************************************************************)

\* A set of numbers that is not empty has a least one.
LEMMA MinNat ==
    ASSUME NEW T, T \subseteq Nat, T # {}
    PROVE  Min(T) \in T /\ \A y \in T : Min(T) <= y
<1>1. PICK x \in T : \A y \in T : ~(<<y, x>> \in OpToRel(<, Nat))
  <2>1. IsWellFoundedOn(OpToRel(<, Nat), Nat)
    BY NatLessThanWellFounded
  <2>2. QED  BY <2>1, WFMin
<1>2. \A y \in T : ~(y < x)
  BY <1>1 DEF OpToRel
<1>3. \A y \in T : x <= y
  BY <1>2
<1>4. QED  BY <1>3 DEF Min

\* RemoveAt closes the gap.
LEMMA RemoveAtFacts ==
    ASSUME NEW E, NEW s \in Seq(E), NEW i \in 1..Len(s)
    PROVE  /\ RemoveAt(s, i) \in Seq(E)
           /\ Len(RemoveAt(s, i)) = Len(s) - 1
           /\ \A k \in 1..(Len(s) - 1) :
                 RemoveAt(s, i)[k] = IF k < i THEN s[k] ELSE s[k + 1]
<1>1. /\ SubSeq(s, 1, i - 1) \in Seq(E) /\ Len(SubSeq(s, 1, i - 1)) = i - 1
      /\ \A k \in 1..(i - 1) : SubSeq(s, 1, i - 1)[k] = s[k]
  OBVIOUS
<1>2. /\ SubSeq(s, i + 1, Len(s)) \in Seq(E)
      /\ Len(SubSeq(s, i + 1, Len(s))) = Len(s) - i
      /\ \A k \in 1..(Len(s) - i) : SubSeq(s, i + 1, Len(s))[k] = s[k + i]
  OBVIOUS
<1>3. PICK a \in Seq(E), b \in Seq(E) :
        /\ RemoveAt(s, i) = a \o b /\ Len(a) = i - 1 /\ Len(b) = Len(s) - i
        /\ \A k \in 1..(i - 1) : a[k] = s[k]
        /\ \A k \in 1..(Len(s) - i) : b[k] = s[k + i]
  BY <1>1, <1>2 DEF RemoveAt
<1>4. a \o b \in Seq(E) /\ Len(a \o b) = Len(s) - 1
  BY <1>3
<1>5. \A k \in 1..(Len(s) - 1) : (a \o b)[k] = IF k < i THEN s[k] ELSE s[k + 1]
  BY <1>3
<1>6. QED  BY <1>3, <1>4, <1>5

\* Removing a name from a list of distinct names.
LEMMA RemoveFirstFacts ==
    ASSUME NEW E, NEW s \in Seq(E), IsInjective(s), NEW x \in ToSet(s)
    PROVE  /\ RemoveFirst(s, x) \in Seq(E)
           /\ Len(RemoveFirst(s, x)) = Len(s) - 1
           /\ IsInjective(RemoveFirst(s, x))
           /\ ToSet(RemoveFirst(s, x)) = ToSet(s) \ {x}
           /\ s[1] = x => RemoveFirst(s, x) = Tail(s)
<1> DEFINE I == {k \in 1..Len(s) : s[k] = x}
<1>1. PICK i \in 1..Len(s) : s[i] = x
  BY DEF ToSet
<1>2. RemoveFirst(s, x) = RemoveAt(s, Min(I))
  BY <1>1 DEF RemoveFirst, SelectInSeq
<1>3. Min(I) \in I
  <2>1. I \subseteq Nat /\ I # {}
    BY <1>1
  <2> HIDE DEF I
  <2>2. QED  BY <2>1, MinNat
<1>4. Min(I) = i
  BY <1>1, <1>3 DEF IsInjective
<1>5. PICK q \in Seq(E) :
        /\ RemoveFirst(s, x) = q /\ Len(q) = Len(s) - 1
        /\ \A k \in 1..(Len(s) - 1) : q[k] = IF k < i THEN s[k] ELSE s[k + 1]
  BY <1>2, <1>4, RemoveAtFacts
<1>6. \A k \in 1..Len(s) : k # i => s[k] # x
  BY <1>1 DEF IsInjective
<1>7. IsInjective(q)
  <2> SUFFICES ASSUME NEW a \in DOMAIN q, NEW b \in DOMAIN q, q[a] = q[b] PROVE a = b
    BY DEF IsInjective
  <2> DEFINE up(k) == IF k < i THEN k ELSE k + 1
  <2>1. /\ a \in 1..(Len(s) - 1) /\ b \in 1..(Len(s) - 1)
        /\ up(a) \in 1..Len(s) /\ up(b) \in 1..Len(s)
        /\ q[a] = s[up(a)] /\ q[b] = s[up(b)]
    BY <1>5
  <2>0. \A u, v \in 1..Len(s) : s[u] = s[v] => u = v
    BY DEF IsInjective
  <2> HIDE DEF up
  <2>2. up(a) = up(b)
    BY <2>0, <2>1
  <2>3. QED  BY <2>1, <2>2 DEF up
<1>8. ToSet(q) = ToSet(s) \ {x}
  <2>1. ASSUME NEW y \in ToSet(q) PROVE y \in ToSet(s) \ {x}
    BY <1>5, <1>6 DEF ToSet
  <2>2. ASSUME NEW y \in ToSet(s) \ {x} PROVE y \in ToSet(q)
    <3>1. PICK k \in 1..Len(s) : s[k] = y /\ k # i
      BY <1>1 DEF ToSet
    <3>2. CASE k < i
      <4>1. k \in DOMAIN q /\ q[k] = y
        BY <1>5, <3>1, <3>2
      <4>2. QED  BY <4>1 DEF ToSet
    <3>3. CASE k > i
      <4>1. k - 1 \in DOMAIN q /\ q[k - 1] = y
        BY <1>5, <3>1, <3>3
      <4>2. QED  BY <4>1 DEF ToSet
    <3>4. QED  BY <3>1, <3>2, <3>3
  <2>3. QED  BY <2>1, <2>2
<1>9. ASSUME s[1] = x PROVE q = Tail(s)
  <2>1. i = 1
    BY <1>6, <1>9, <1>1
  <2>2. Tail(s) \in Seq(E) /\ Len(Tail(s)) = Len(s) - 1
        /\ \A k \in 1..(Len(s) - 1) : Tail(s)[k] = s[k + 1]
    BY <1>1
  <2>3. QED  BY <1>5, <2>1, <2>2, SeqEqual
<1>10. QED  BY <1>5, <1>7, <1>8, <1>9

\* The file with other names in its k-th entry.
SetNames(file, k, ns) == [file EXCEPT ![k].names = ns]

\* What add_entry does: a new entry at the end, nothing, or a name at the end.
LEMMA AddEntryCases ==
    ASSUME NEW file \in Seq(Entry), NEW ip, NEW name
    PROVE  \/ /\ \A k \in DOMAIN file : file[k].ip # ip
              /\ AddEntry(file, ip, name) = Append(file, [ip |-> ip, names |-> <<name>>])
           \/ \E k \in DOMAIN file :
                 /\ file[k].ip = ip
                 /\ \/ name \in ToSet(file[k].names) /\ AddEntry(file, ip, name) = file
                    \/ /\ name \notin ToSet(file[k].names)
                       /\ AddEntry(file, ip, name)
                            = SetNames(file, k, Append(file[k].names, name))
<1> DEFINE I == {k \in 1..Len(file) : file[k].ip = ip}
           n == Min(I)
<1>1. CASE I = {}
  <2>1. AddEntry(file, ip, name) = Append(file, [ip |-> ip, names |-> <<name>>])
    BY <1>1 DEF AddEntry, SelectInSeq
  <2>2. \A k \in DOMAIN file : file[k].ip # ip
    BY <1>1
  <2>3. QED  BY <2>1, <2>2
<1>2. CASE I # {}
  <2>1. n \in I
    <3>1. I \subseteq Nat
      OBVIOUS
    <3> HIDE DEF I
    <3>2. QED  BY <1>2, <3>1, MinNat
  <2>2. n \in DOMAIN file /\ n # 0 /\ file[n].ip = ip /\ file[n] \in Entry
    BY <2>1
  <2>3. Contains(file[n].names, name) <=> name \in ToSet(file[n].names)
    <3>1. DOMAIN file[n].names = 1..Len(file[n].names)
      BY <2>2 DEF Entry
    <3> HIDE DEF n
    <3>2. QED  BY <3>1 DEF Contains, ToSet
  <2>4. AddEntry(file, ip, name) =
           IF Contains(file[n].names, name) THEN file
           ELSE SetNames(file, n, Append(file[n].names, name))
    BY <1>2, <2>2 DEF AddEntry, SelectInSeq, SetNames
  <2> HIDE DEF n
  <2>5. QED  BY <2>2, <2>3, <2>4
<1>3. QED  BY <1>1, <1>2

\* What remove_entry does with a name: nothing if nobody has it; else the first
\* entry that has it goes, or loses it.
LEMMA RemoveEntryCases ==
    ASSUME NEW file \in Seq(Entry), NEW name
    PROVE  \/ /\ \A k \in DOMAIN file : name \notin ToSet(file[k].names)
              /\ RemoveEntry(file, name) = file
           \/ \E k \in DOMAIN file :
                 /\ name \in ToSet(file[k].names)
                 /\ \A j \in DOMAIN file : name \in ToSet(file[j].names) => k <= j
                 /\ \/ /\ file[k].names = <<name>>
                       /\ RemoveEntry(file, name) = RemoveAt(file, k)
                    \/ /\ file[k].names # <<name>>
                       /\ RemoveEntry(file, name)
                            = SetNames(file, k, RemoveFirst(file[k].names, name))
<1> DEFINE I == {k \in 1..Len(file) : Contains(file[k].names, name)}
           n == Min(I)
<1>1. \A k \in DOMAIN file : Contains(file[k].names, name) <=> name \in ToSet(file[k].names)
  <2> SUFFICES ASSUME NEW k \in DOMAIN file
               PROVE  Contains(file[k].names, name) <=> name \in ToSet(file[k].names)
    OBVIOUS
  <2>1. DOMAIN file[k].names = 1..Len(file[k].names)
    BY DEF Entry
  <2>2. QED  BY <2>1 DEF Contains, ToSet
<1>2. CASE I = {}
  <2>1. RemoveEntry(file, name) = file
    BY <1>2 DEF RemoveEntry, SelectInSeq
  <2>2. QED  BY <1>1, <1>2, <2>1
<1>3. CASE I # {}
  <2>1. n \in I /\ \A y \in I : n <= y
    <3>1. I \subseteq Nat
      OBVIOUS
    <3> HIDE DEF I
    <3>2. QED  BY <1>3, <3>1, MinNat
  <2>2. n \in DOMAIN file /\ n # 0 /\ Contains(file[n].names, name)
        /\ \A j \in DOMAIN file : Contains(file[j].names, name) => n <= j
    BY <2>1
  <2>3. RemoveEntry(file, name) =
           IF file[n].names = <<name>> THEN RemoveAt(file, n)
           ELSE SetNames(file, n, RemoveFirst(file[n].names, name))
    BY <1>3, <2>2 DEF RemoveEntry, SelectInSeq, SetNames
  <2> HIDE DEF n
  <2>4. QED  BY <1>1, <2>2, <2>3
<1>4. QED  BY <1>2, <1>3

\* The names at an address.
LEMMA NamesAtDef ==
    ASSUME NEW file, NEW ip, NEW n
    PROVE  n \in NamesAt(file, ip) <=>
              \E k \in DOMAIN file : file[k].ip = ip /\ n \in ToSet(file[k].names)
BY DEF NamesAt

\* An entry whose names are replaced.
LEMMA EntryUpdate ==
    ASSUME NEW file \in Seq(Entry), NEW k \in DOMAIN file, NEW ns \in Seq(LowerNames)
    PROVE  /\ SetNames(file, k, ns) \in Seq(Entry)
           /\ DOMAIN SetNames(file, k, ns) = DOMAIN file
           /\ \A j \in DOMAIN file : SetNames(file, k, ns)[j].ip = file[j].ip
           /\ \A j \in DOMAIN file : j # k => SetNames(file, k, ns)[j] = file[j]
           /\ SetNames(file, k, ns)[k].names = ns
<1> DEFINE e == [file[k] EXCEPT !.names = ns]
           new == SetNames(file, k, ns)
<1>1. file[k] \in Entry
  OBVIOUS
<1>2. e \in Entry /\ e.ip = file[k].ip /\ e.names = ns
  BY <1>1 DEF Entry
<1>3. new = [file EXCEPT ![k] = e]
  BY DEF SetNames
<1> HIDE DEF e, new
<1>4. new \in Seq(Entry) /\ Len(new) = Len(file)
      /\ \A j \in DOMAIN file : new[j] = IF j = k THEN e ELSE file[j]
  BY <1>2, <1>3, ExceptSeq
<1>5. DOMAIN new = DOMAIN file
  BY <1>4
<1>6. QED  BY <1>2, <1>4, <1>5 DEF new

\* The file with a name added: entries and first names stay.
Added(F, ip, name, new) ==
    /\ WellFormed(new)
    /\ \A k \in DOMAIN F : /\ k \in DOMAIN new
                           /\ new[k].ip = F[k].ip
                           /\ new[k].names[1] = F[k].names[1]
                           /\ ToSet(F[k].names) \subseteq ToSet(new[k].names)
    /\ \A k \in DOMAIN new \ DOMAIN F : new[k].ip = ip /\ new[k].names = <<name>>
    /\ \E k \in DOMAIN new : new[k].ip = ip /\ name \in ToSet(new[k].names)

\* Adding a name keeps a file in form, and keeps what is there.
LEMMA AddEntryAdds ==
    ASSUME NEW file, WellFormed(file), NEW ip \in Ips, NEW name \in LowerNames,
           NEW new, new = AddEntry(file, ip, name)
    PROVE  Added(file, ip, name, new)
<1> SUFFICES /\ WellFormed(new)
             /\ \A k \in DOMAIN file : /\ k \in DOMAIN new
                                       /\ new[k].ip = file[k].ip
                                       /\ new[k].names[1] = file[k].names[1]
                                       /\ ToSet(file[k].names) \subseteq ToSet(new[k].names)
             /\ \A k \in DOMAIN new \ DOMAIN file :
                   new[k].ip = ip /\ new[k].names = <<name>>
             /\ \E k \in DOMAIN new : new[k].ip = ip /\ name \in ToSet(new[k].names)
  BY DEF Added
<1>t. file \in Seq(Entry) /\ DOMAIN file = 1..Len(file) /\ Len(file) \in Nat
  BY DEF WellFormed
<1>1. CASE /\ \A k \in DOMAIN file : file[k].ip # ip
           /\ new = Append(file, [ip |-> ip, names |-> <<name>>])
  <2> DEFINE e == [ip |-> ip, names |-> <<name>>]
  <2>1. e \in Entry /\ e.ip = ip /\ e.names = <<name>>
    BY DEF Entry
  <2>2. <<name>> # <<>> /\ IsInjective(<<name>>) /\ name \in ToSet(<<name>>)
    BY DEF IsInjective, ToSet
  <2> HIDE DEF e
  <2>3. /\ new \in Seq(Entry) /\ DOMAIN new = 1..(Len(file) + 1)
        /\ new[Len(file) + 1] = e
        /\ \A k \in DOMAIN file : new[k] = file[k]
    BY <1>t, <1>1, <2>1 DEF e
  <2>4. DOMAIN new = DOMAIN file \cup {Len(file) + 1}
    BY <1>t, <2>3
  <2>5. WellFormed(new)
    BY <1>1, <2>1, <2>2, <2>3, <2>4 DEF WellFormed
  <2>6. QED  BY <2>1, <2>2, <2>3, <2>4, <2>5
<1>2. CASE \E k \in DOMAIN file :
              file[k].ip = ip /\ name \in ToSet(file[k].names) /\ new = file
  BY <1>2
<1>3. CASE \E k \in DOMAIN file :
              /\ file[k].ip = ip /\ name \notin ToSet(file[k].names)
              /\ new = SetNames(file, k, Append(file[k].names, name))
  <2>1. PICK k \in DOMAIN file :
              /\ file[k].ip = ip /\ name \notin ToSet(file[k].names)
              /\ new = SetNames(file, k, Append(file[k].names, name))
    BY <1>3
  <2> DEFINE old == file[k].names
             ns == Append(old, name)
  <2>2. old \in Seq(LowerNames) /\ old # <<>> /\ IsInjective(old)
    <3>1. file[k] \in Entry
      BY <1>t
    <3>2. old \in Seq(LowerNames)
      BY <3>1 DEF Entry
    <3>3. QED  BY <3>2 DEF WellFormed
  <2>3. new = SetNames(file, k, ns)
    BY <2>1
  <2> HIDE DEF old
  <2>4. /\ ns \in Seq(LowerNames) /\ DOMAIN ns = 1..(Len(old) + 1) /\ ns # <<>>
        /\ ns[Len(old) + 1] = name /\ ns[1] = old[1]
        /\ \A j \in 1..Len(old) : ns[j] = old[j]
    BY <2>2
  <2>5. IsInjective(ns) /\ ToSet(old) \subseteq ToSet(ns) /\ name \in ToSet(ns)
    BY <2>1, <2>2, <2>4 DEF IsInjective, ToSet, old
  <2> HIDE DEF ns
  <2>6. /\ new \in Seq(Entry) /\ DOMAIN new = DOMAIN file
        /\ \A j \in DOMAIN file : new[j].ip = file[j].ip
        /\ \A j \in DOMAIN file : j # k => new[j] = file[j]
        /\ new[k].names = ns
    <3>1. file \in Seq(Entry) /\ ns \in Seq(LowerNames)
      BY <1>t, <2>4
    <3>2. QED  BY <2>3, <3>1, EntryUpdate
  <2>7. WellFormed(new)
    BY <2>4, <2>5, <2>6 DEF WellFormed
  <2>8. QED  BY <2>1, <2>4, <2>5, <2>6, <2>7 DEF old
<1>4. \/ /\ \A k \in DOMAIN file : file[k].ip # ip
         /\ new = Append(file, [ip |-> ip, names |-> <<name>>])
      \/ \E k \in DOMAIN file :
            file[k].ip = ip /\ name \in ToSet(file[k].names) /\ new = file
      \/ \E k \in DOMAIN file :
            /\ file[k].ip = ip /\ name \notin ToSet(file[k].names)
            /\ new = SetNames(file, k, Append(file[k].names, name))
  BY <1>t, AddEntryCases
<1>5. QED  BY <1>1, <1>2, <1>3, <1>4


LEMMA AddEntryFacts ==
    ASSUME NEW file, WellFormed(file), NEW ip \in Ips, NEW name \in LowerNames,
           NEW new, new = AddEntry(file, ip, name)
    PROVE  /\ WellFormed(new)
           /\ \A k \in DOMAIN file : /\ k \in DOMAIN new
                                     /\ new[k].ip = file[k].ip
                                     /\ new[k].names[1] = file[k].names[1]
                                     /\ ToSet(file[k].names) \subseteq ToSet(new[k].names)
           /\ \A k \in DOMAIN new \ DOMAIN file :
                 new[k].ip = ip /\ new[k].names = <<name>>
           /\ \E k \in DOMAIN new : new[k].ip = ip /\ name \in ToSet(new[k].names)
<1>1. Added(file, ip, name, new)
  BY AddEntryAdds
<1>2. QED  BY <1>1 DEF Added

\* Taking an entry out keeps the order of the others.
LEMMA RemoveAtFile ==
    ASSUME NEW file, WellFormed(file), NEW k \in DOMAIN file,
           NEW new, new = RemoveAt(file, k)
    PROVE  /\ WellFormed(new)
           /\ \A j \in DOMAIN new : \E i \in DOMAIN file :
                 new[j] = file[i] /\ i # k /\ i = (IF j < k THEN j ELSE j + 1)
           /\ \A i \in DOMAIN file : i # k => \E j \in DOMAIN new : new[j] = file[i]
<1>t. file \in Seq(Entry) /\ DOMAIN file = 1..Len(file) /\ Len(file) \in Nat
  BY DEF WellFormed
<1>1. /\ new \in Seq(Entry) /\ DOMAIN new = 1..(Len(file) - 1)
      /\ \A j \in 1..(Len(file) - 1) : new[j] = IF j < k THEN file[j] ELSE file[j + 1]
  <2>1. k \in 1..Len(file)
    BY <1>t
  <2>2. /\ new \in Seq(Entry) /\ Len(new) = Len(file) - 1
        /\ \A j \in 1..(Len(file) - 1) : new[j] = IF j < k THEN file[j] ELSE file[j + 1]
    BY <1>t, <2>1, RemoveAtFacts, Zenon
  <2>3. QED  BY <2>2
<1>2. \A j \in DOMAIN new : \E i \in DOMAIN file :
                 new[j] = file[i] /\ i # k /\ i = (IF j < k THEN j ELSE j + 1)
  BY <1>t, <1>1
<1>3. \A i \in DOMAIN file : i # k => \E j \in DOMAIN new : new[j] = file[i]
  <2> SUFFICES ASSUME NEW i \in DOMAIN file, i # k
               PROVE  \E j \in DOMAIN new : new[j] = file[i]
    OBVIOUS
  <2>1. CASE i < k
    BY <1>t, <1>1, <2>1
  <2>2. CASE i > k
    <3>1. i - 1 \in DOMAIN new /\ new[i - 1] = file[i]
      BY <1>t, <1>1, <2>2
    <3>2. QED  BY <3>1
  <2>3. QED  BY <1>t, <2>1, <2>2
<1>4. WellFormed(new)
  <2>1. \A j \in DOMAIN new : new[j].names # <<>> /\ IsInjective(new[j].names)
    BY <1>2 DEF WellFormed
  <2>2. ASSUME NEW i \in DOMAIN new, NEW j \in DOMAIN new, new[i].ip = new[j].ip
        PROVE  i = j
    <3>1. PICK a \in DOMAIN file : new[i] = file[a] /\ a = (IF i < k THEN i ELSE i + 1)
      BY <1>2
    <3>2. PICK b \in DOMAIN file : new[j] = file[b] /\ b = (IF j < k THEN j ELSE j + 1)
      BY <1>2
    <3>3. a = b
      BY <2>2, <3>1, <3>2 DEF WellFormed
    <3>4. i \in Nat /\ j \in Nat /\ k \in Nat
      BY <1>1, <1>t
    <3>5. QED  BY <3>1, <3>2, <3>3, <3>4
  <2>3. QED  BY <1>1, <2>1, <2>2 DEF WellFormed
<1>5. QED  BY <1>2, <1>3, <1>4

\* An entry with several names that loses one.
LEMMA LoseName ==
    ASSUME NEW file, WellFormed(file), NEW k \in DOMAIN file,
           NEW name \in ToSet(file[k].names), file[k].names # <<name>>,
           NEW new, new = SetNames(file, k, RemoveFirst(file[k].names, name))
    PROVE  /\ WellFormed(new) /\ DOMAIN new = DOMAIN file
           /\ \A j \in DOMAIN file : new[j].ip = file[j].ip
           /\ \A j \in DOMAIN file : j # k => new[j] = file[j]
           /\ ToSet(new[k].names) = ToSet(file[k].names) \ {name}
           /\ file[k].names[1] = name => new[k].names = Tail(file[k].names)
<1> DEFINE old == file[k].names
           ns == RemoveFirst(old, name)
<1>1. file \in Seq(Entry) /\ old \in Seq(LowerNames) /\ IsInjective(old)
  <2>1. file \in Seq(Entry) /\ file[k] \in Entry
    BY DEF WellFormed
  <2>2. old \in Seq(LowerNames)
    BY <2>1 DEF Entry
  <2>3. QED  BY <2>1, <2>2 DEF WellFormed
<1>2. new = SetNames(file, k, ns)
  OBVIOUS
<1>3. /\ ns \in Seq(LowerNames) /\ Len(ns) = Len(old) - 1 /\ IsInjective(ns)
      /\ ToSet(ns) = ToSet(old) \ {name}
      /\ old[1] = name => ns = Tail(old)
  BY <1>1, RemoveFirstFacts
<1>4. ns # <<>>
  <2>1. SUFFICES ASSUME ns = <<>> PROVE FALSE
    OBVIOUS
  <2>2. Len(old) = 1
    BY <1>1, <1>3, <2>1
  <2>3. old[1] = name
    BY <1>1, <2>2 DEF ToSet
  <2>4. old = <<name>>
    BY <1>1, <2>2, <2>3
  <2>5. QED  BY <2>4
<1> HIDE DEF ns
<1>5. /\ new \in Seq(Entry) /\ DOMAIN new = DOMAIN file
      /\ \A j \in DOMAIN file : new[j].ip = file[j].ip
      /\ \A j \in DOMAIN file : j # k => new[j] = file[j]
      /\ new[k].names = ns
  BY <1>1, <1>2, <1>3, EntryUpdate
<1>6. WellFormed(new)
  BY <1>3, <1>4, <1>5 DEF WellFormed
<1>7. QED  BY <1>3, <1>5, <1>6

\* Removing a name keeps a file in form; if only one address had the name,
\* nobody has it any more.
LEMMA RemoveEntryFacts ==
    ASSUME NEW file, WellFormed(file), NEW name,
           NEW new, new = RemoveEntry(file, name)
    PROVE  /\ WellFormed(new)
           /\ (\A i, k \in DOMAIN file :
                  i # k => ToSet(file[i].names) \cap ToSet(file[k].names) = {})
              => \A k \in DOMAIN new : name \notin ToSet(new[k].names)
<1>t. file \in Seq(Entry)
  BY DEF WellFormed
<1>1. CASE (\A k \in DOMAIN file : name \notin ToSet(file[k].names)) /\ new = file
  BY <1>1
<1>2. CASE \E k \in DOMAIN file : /\ name \in ToSet(file[k].names)
                                  /\ new = RemoveAt(file, k)
  <2>1. PICK k \in DOMAIN file : name \in ToSet(file[k].names) /\ new = RemoveAt(file, k)
    BY <1>2
  <2>2. /\ WellFormed(new)
        /\ \A j \in DOMAIN new : \E i \in DOMAIN file : new[j] = file[i] /\ i # k
    BY <2>1, RemoveAtFile
  <2>3. QED  BY <2>1, <2>2
<1>3. CASE \E k \in DOMAIN file :
              /\ name \in ToSet(file[k].names) /\ file[k].names # <<name>>
              /\ new = SetNames(file, k, RemoveFirst(file[k].names, name))
  <2>1. PICK k \in DOMAIN file :
              /\ name \in ToSet(file[k].names) /\ file[k].names # <<name>>
              /\ new = SetNames(file, k, RemoveFirst(file[k].names, name))
    BY <1>3
  <2>2. /\ WellFormed(new) /\ DOMAIN new = DOMAIN file
        /\ \A j \in DOMAIN file : j # k => new[j] = file[j]
        /\ ToSet(new[k].names) = ToSet(file[k].names) \ {name}
    BY <2>1, LoseName
  <2>3. QED  BY <2>1, <2>2
<1>4. QED  BY <1>t, <1>1, <1>2, <1>3, RemoveEntryCases

(***************************************************************************)
(* Commands.                                                               *)
(***************************************************************************)

\* Lower case.
LEMMA LowerFacts ==
    /\ LowerNames \subseteq Names \ Refused
    /\ \A n \in LowerNames : Lower[n] = n
    /\ \A n \in Names \ Refused : Lower[n] \in LowerNames
BY LocalDnsAssumption DEF LowerNames

\* The removal of all names of an entry.
LEMMA RemovalsFacts ==
    ASSUME NEW e, e.names \in Seq(LowerNames), NEW vlan \in Vlans
    PROVE  /\ RemoveAllNames(e, vlan) \in Seq(RemoveCommand)
           /\ Len(RemoveAllNames(e, vlan)) = Len(e.names)
           /\ \A k \in 1..Len(e.names) :
                 RemoveAllNames(e, vlan)[k] = RemoveName(e.names[k], vlan)
<1> DEFINE ns == e.names
<1>1. \A k \in 1..Len(ns) : RemoveName(ns[k], vlan) \in RemoveCommand
  BY LowerFacts DEF RemoveName, RemoveCommand
<1>2. RemoveAllNames(e, vlan) = [k \in 1..Len(ns) |-> RemoveName(ns[k], vlan)]
  BY DEF RemoveAllNames
<1> HIDE DEF ns
<1>3. Len(ns) \in Nat
  BY DEF ns
<1>4. [k \in 1..Len(ns) |-> RemoveName(ns[k], vlan)] \in Seq(RemoveCommand)
  BY <1>1, <1>3
<1>5. Len([k \in 1..Len(ns) |-> RemoveName(ns[k], vlan)]) = Len(ns)
  BY <1>3
<1>6. QED  BY <1>2, <1>4, <1>5 DEF ns

\* The commands for a listed entry, by the reservation of its address.
LEMMA EntryCommandsCases ==
    ASSUME NEW res \in Seq(Reservation), NEW e, NEW vlan
    PROVE  \/ /\ \A m \in DOMAIN res : res[m].ip # e.ip
              /\ EntryCommands(e, res, vlan) = RemoveAllNames(e, vlan)
           \/ \E m \in DOMAIN res :
                 /\ res[m].ip = e.ip
                 /\ \/ /\ res[m].name = NoName
                       /\ EntryCommands(e, res, vlan) = RemoveAllNames(e, vlan)
                    \/ /\ res[m].name # NoName /\ e.names[1] = res[m].name
                       /\ EntryCommands(e, res, vlan) = <<>>
                    \/ /\ res[m].name # NoName /\ e.names[1] # res[m].name
                       /\ EntryCommands(e, res, vlan) =
                             Append(RemoveAllNames(e, vlan), Add(e.ip, res[m].name, vlan))
<1> DEFINE I == {k \in 1..Len(res) : res[k].ip = e.ip}
           n == Min(I)
<1>1. CASE I = {}
  <2>1. EntryCommands(e, res, vlan) = RemoveAllNames(e, vlan)
    BY <1>1 DEF EntryCommands, SelectInSeq
  <2>2. \A m \in DOMAIN res : res[m].ip # e.ip
    BY <1>1
  <2>3. QED  BY <2>1, <2>2
<1>2. CASE I # {}
  <2>1. n \in I
    <3>1. I \subseteq Nat
      OBVIOUS
    <3> HIDE DEF I
    <3>2. QED  BY <1>2, <3>1, MinNat
  <2>2. n \in DOMAIN res /\ n # 0 /\ res[n].ip = e.ip
    BY <2>1
  <2>3. EntryCommands(e, res, vlan) =
           IF n = 0 \/ res[n].name = NoName THEN RemoveAllNames(e, vlan)
           ELSE IF e.names[1] = res[n].name THEN <<>>
           ELSE Append(RemoveAllNames(e, vlan), Add(e.ip, res[n].name, vlan))
    BY <1>2 DEF EntryCommands, SelectInSeq
  <2> HIDE DEF n
  <2>4. QED  BY <2>2, <2>3
<1>3. QED  BY <1>1, <1>2

\* The fields of a reservation.
LEMMA ReservationFacts ==
    ASSUME NEW x \in Reservation
    PROVE  x.ip \in Ips /\ x.name \in Names \cup {NoName}
BY DEF Reservation, Row, KeaReservation

CommandsFor(vlan) == {c \in Command : c.vlan = vlan}

\* The commands of a turn are commands for the VLAN.
LEMMA SyncCommandsType ==
    ASSUME NEW L \in Seq(Entry), NEW res \in Seq(Reservation), NEW vlan \in Vlans,
           NEW k \in 1..(Len(L) + Len(res))
    PROVE  SyncCommands(L, res, vlan, k) \in Seq(CommandsFor(vlan))
<1>a. ASSUME NEW i \in Ips, NEW n \in Names
      PROVE  Add(i, n, vlan) \in CommandsFor(vlan)
  BY DEF Add, CommandsFor, Command, AddCommand
<1>e. <<>> \in Seq(CommandsFor(vlan))
  BY EmptySeq
<1>1. CASE k <= Len(L)
  <2> DEFINE e == L[k]
  <2>1. e \in Entry
    BY <1>1
  <2>2. e.ip \in Ips /\ e.names \in Seq(LowerNames)
    BY <2>1 DEF Entry
  <2> HIDE DEF e
  <2>3. RemoveAllNames(e, vlan) \in Seq(CommandsFor(vlan))
    <3>1. /\ RemoveAllNames(e, vlan) \in Seq(RemoveCommand)
          /\ Len(RemoveAllNames(e, vlan)) = Len(e.names)
          /\ \A j \in 1..Len(e.names) :
                RemoveAllNames(e, vlan)[j] = RemoveName(e.names[j], vlan)
      BY <2>2, RemovalsFacts
    <3>2. \A j \in 1..Len(e.names) : RemoveName(e.names[j], vlan) \in CommandsFor(vlan)
      BY <2>2, LowerFacts DEF RemoveName, CommandsFor, Command, RemoveCommand
    <3>3. QED  BY <2>2, <3>1, <3>2
  <2>4. EntryCommands(e, res, vlan) \in Seq(CommandsFor(vlan))
    <3>1. CASE EntryCommands(e, res, vlan) \in {<<>>, RemoveAllNames(e, vlan)}
      BY <1>e, <2>3, <3>1, Zenon
    <3>2. CASE \E m \in DOMAIN res :
                  /\ res[m].name # NoName
                  /\ EntryCommands(e, res, vlan) =
                        Append(RemoveAllNames(e, vlan), Add(e.ip, res[m].name, vlan))
      <4>1. PICK m \in DOMAIN res :
                  /\ res[m].name # NoName
                  /\ EntryCommands(e, res, vlan) =
                        Append(RemoveAllNames(e, vlan), Add(e.ip, res[m].name, vlan))
        BY <3>2
      <4>2. res[m] \in Reservation
        OBVIOUS
      <4>3. Add(e.ip, res[m].name, vlan) \in CommandsFor(vlan)
        BY <1>a, <2>2, <4>1, <4>2, ReservationFacts
      <4>4. QED  BY <2>3, <4>1, <4>3
    <3>3. QED  BY <3>1, <3>2, EntryCommandsCases
  <2>5. QED  BY <1>1, <2>4 DEF SyncCommands, e
<1>2. CASE k > Len(L)
  <2> DEFINE x == res[k - Len(L)]
  <2>1. x \in Reservation
    BY <1>2
  <2>2. SyncCommands(L, res, vlan, k) = MissingCommands(L, x, vlan)
    BY <1>2 DEF SyncCommands
  <2> HIDE DEF x
  <2>3. \/ MissingCommands(L, x, vlan) = <<>>
        \/ x.name # NoName /\ MissingCommands(L, x, vlan) = <<Add(x.ip, x.name, vlan)>>
    BY DEF MissingCommands
  <2>4. CASE x.name # NoName /\ MissingCommands(L, x, vlan) = <<Add(x.ip, x.name, vlan)>>
    <3>1. Add(x.ip, x.name, vlan) \in CommandsFor(vlan)
      BY <1>a, <2>1, <2>4, ReservationFacts
    <3>2. QED  BY <2>2, <2>4, <3>1
  <2>5. QED  BY <1>e, <2>2, <2>3, <2>4, Zenon
<1>3. QED  BY <1>1, <1>2

(***************************************************************************)
(* Typing.                                                                 *)
(***************************************************************************)

\* A step of another request does not touch s.
Untouched(s) ==
    /\ pc'[s] = pc[s] /\ job'[s] = job[s] /\ todo'[s] = todo[s] /\ then'[s] = then[s]
    /\ rows'[s] = rows[s] /\ listing'[s] = listing[s] /\ at'[s] = at[s]
    /\ entries'[s] = entries[s]

Others(r) == \A s \in Requests \ {r} : Untouched(s)

\* An empty file is in form.
LEMMA EmptyFile == <<>> \in Seq(Entry) /\ WellFormed(<<>>)
<1>1. <<>> \in Seq(Entry) /\ DOMAIN <<>> = {}
  BY EmptySeq
<1>2. QED  BY <1>1 DEF WellFormed

\* What is read of a file is in form, be it the file or nothing; and a request
\* that is alone and not about to write reads the file.
LEMMA ReadableFacts ==
    ASSUME StateTypes, NEW v \in Vlans, NEW file \in Readable(v)
    PROVE  file \in Seq(Entry) /\ WellFormed(file)
BY EmptyFile DEF Readable, StateTypes

LEMMA AloneReads ==
    ASSUME Alone, lone, NEW r \in Requests, pc[r] \notin {"idle", "save"},
           NEW v, NEW file \in Readable(v)
    PROVE  file = dns[v]
<1>1. \A s \in Requests : pc[s] # "save"
  BY DEF Alone
<1>2. QED  BY <1>1 DEF Readable, Writing

LEMMA NoJobType == NoJob \in JobType /\ NoJob.kind = "none"
BY LocalDnsAssumption DEF NoJob, Job, JobType, Kinds

\* Files that are lost are in form.
LEMMA LostTyping ==
    ASSUME StateTypes, NEW vlans, Lose(vlans)
    PROVE  dns' \in [Vlans -> Seq(Entry)] /\ \A v \in Vlans : WellFormed(dns'[v])
BY EmptyFile DEF Lose, StateTypes

\* The answer ends a request.
LEMMA AnswerEffect ==
    ASSUME RequestTypes, NEW r \in Requests, NEW ok, Answer(r, ok)
    PROVE  /\ RequestTypes' /\ Others(r)
           /\ pc'[r] = "idle" /\ job'[r] = NoJob /\ todo'[r] = <<>> /\ then'[r] = "end"
           /\ rows'[r] = <<>> /\ listing'[r] = <<>> /\ at'[r] = 0 /\ entries'[r] = <<>>
           /\ result' = IF ok /\ lone THEN job[r] ELSE NoJob
<1>1. /\ <<>> \in Seq(Command) /\ <<>> \in Seq(Reservation) /\ <<>> \in Seq(Entry)
  BY EmptySeq
<1>2. NoJob \in JobType /\ "idle" \in Stages
  BY NoJobType DEF Stages
<1>3. RequestTypes'
  BY <1>1, <1>2 DEF Answer, RequestTypes
<1>4. Others(r)
  BY DEF Answer, RequestTypes, Others, Untouched
<1>5. QED  BY <1>3, <1>4 DEF Answer, RequestTypes

\* A request that goes on elsewhere keeps what it holds.
LEMMA GotoEffect ==
    ASSUME RequestTypes, NEW r \in Requests, NEW next \in Stages, Goto(r, next),
           job' \in [Requests -> JobType], rows' \in [Requests -> Seq(Reservation)],
           \A s \in Requests \ {r} : job'[s] = job[s] /\ rows'[s] = rows[s],
           UNCHANGED <<listing, at>>
    PROVE  /\ RequestTypes' /\ Others(r)
           /\ pc'[r] = next /\ UNCHANGED <<todo, then, listing, at, entries, result>>
<1>1. RequestTypes'
  BY DEF Goto, RequestTypes
<1>2. Others(r)
  BY DEF Goto, RequestTypes, Others, Untouched
<1>3. QED  BY <1>1, <1>2 DEF Goto, RequestTypes

\* A request that goes on with commands.
LEMMA RunEffect ==
    ASSUME RequestTypes, NEW r \in Requests, NEW c \in Seq(Command),
           NEW next \in {"update", "sync", "synced", "resynced", "end"},
           RunCommands(r, c, next),
           rows' \in [Requests -> Seq(Reservation)], listing' \in [Requests -> Seq(Entry)],
           \A s \in Requests \ {r} : rows'[s] = rows[s] /\ listing'[s] = listing[s],
           UNCHANGED <<job, at>>
    PROVE  /\ RequestTypes' /\ Others(r)
           /\ pc'[r] = "run" /\ todo'[r] = c /\ then'[r] = next
           /\ UNCHANGED <<job, at, entries, result>>
<1>1. "run" \in Stages
  BY DEF Stages
<1>2. RequestTypes'
  BY <1>1 DEF RunCommands, RequestTypes
<1>3. Others(r)
  BY DEF RunCommands, RequestTypes, Others, Untouched
<1>4. QED  BY <1>2, <1>3 DEF RunCommands, RequestTypes

\* A synchronisation starts.
LEMMA SynchroniseEffect ==
    ASSUME RequestTypes, NEW r \in Requests, NEW file \in Seq(Entry),
           NEW res \in Seq(Reservation), NEW next \in {"synced", "resynced"},
           Synchronise(r, file, res, next), UNCHANGED <<job, at>>
    PROVE  /\ RequestTypes' /\ Others(r)
           /\ pc'[r] = "run" /\ todo'[r] = <<>> /\ then'[r] = next
           /\ rows'[r] = res /\ listing'[r] = file
           /\ UNCHANGED <<job, at, entries, result>>
<1>1. <<>> \in Seq(Command)
  BY EmptySeq
<1>2. /\ rows' \in [Requests -> Seq(Reservation)] /\ listing' \in [Requests -> Seq(Entry)]
      /\ \A s \in Requests \ {r} : rows'[s] = rows[s] /\ listing'[s] = listing[s]
      /\ rows'[r] = res /\ listing'[r] = file
  BY DEF Synchronise, RequestTypes
<1>3. RunCommands(r, <<>>, next)
  BY DEF Synchronise
<1>4. QED  BY <1>1, <1>2, <1>3, RunEffect

\* It is enough to look at the request that moves.
LEMMA TypedByRequest ==
    ASSUME Typed, NEW r \in Requests, StateTypes', RequestTypes', Others(r),
           JobControl(r)', CommandControl(r)'
    PROVE  Typed'
<1>1. ASSUME NEW s \in Requests \ {r} PROVE JobControl(s)' /\ CommandControl(s)'
  <2>1. JobControl(s) /\ CommandControl(s) /\ Untouched(s)
    BY DEF Typed, Others
  <2>2. JobControl(s)'
    BY <2>1 DEF JobControl, Untouched
  <2>3. CommandControl(s)'
    BY <2>1 DEF CommandControl, Untouched, Syncing, SyncVlan
  <2>4. QED  BY <2>2, <2>3
<1>2. QED  BY <1>1 DEF Typed

\* An idle request holds nothing.
LEMMA IdleControl ==
    ASSUME NEW r \in Requests, RequestTypes',
           pc'[r] = "idle", job'[r] = NoJob, todo'[r] = <<>>, then'[r] = "end",
           rows'[r] = <<>>, listing'[r] = <<>>, at'[r] = 0, entries'[r] = <<>>
    PROVE  JobControl(r)' /\ CommandControl(r)'
<1>1. JobControl(r)'
  BY NoJobType DEF JobControl
<1>2. Len(<<>>) = 0
  BY EmptySeq
<1>3. CommandControl(r)'
  BY <1>2, EmptyFile DEF CommandControl, Syncing
<1>4. QED  BY <1>1, <1>3

\* A request that ends keeps the types.
LEMMA AnswerTyping ==
    ASSUME Typed, NEW r \in Requests, NEW ok, Answer(r, ok), UNCHANGED <<hosts, left>>,
           UNCHANGED dns \/ \E vlans : Lose(vlans)
    PROVE  Typed'
<1>1. /\ RequestTypes' /\ Others(r)
      /\ pc'[r] = "idle" /\ job'[r] = NoJob /\ todo'[r] = <<>> /\ then'[r] = "end"
      /\ rows'[r] = <<>> /\ listing'[r] = <<>> /\ at'[r] = 0 /\ entries'[r] = <<>>
      /\ result' = IF ok /\ lone THEN job[r] ELSE NoJob
  BY AnswerEffect DEF Typed
<1>2. result' \in JobType
  BY <1>1, NoJobType DEF Typed, RequestTypes
<1>d. dns' \in [Vlans -> Seq(Entry)] /\ \A v \in Vlans : WellFormed(dns'[v])
  BY LostTyping DEF Typed, StateTypes
<1>3. StateTypes'
  BY <1>2, <1>d DEF Typed, StateTypes
<1>4. JobControl(r)' /\ CommandControl(r)'
  BY <1>1, IdleControl
<1>5. QED  BY <1>1, <1>3, <1>4, TypedByRequest

\* The commands of a renaming.
LEMMA RenameCommandsType ==
    ASSUME NEW file \in Seq(Entry), NEW j, j.ip \in Ips, j.name \in Names, j.vlan \in Vlans
    PROVE  RenameCommands(file, j) \in Seq(Command)
<1> DEFINE I == {k \in 1..Len(file) : file[k].ip = j.ip}
           n == Min(I)
           c == Add(j.ip, j.name, j.vlan)
<1>1. c \in Command
  BY DEF Add, Command, AddCommand
<1>2. CASE I = {}
  <2>1. RenameCommands(file, j) = Append(<<>>, c)
    BY <1>2 DEF RenameCommands, SelectInSeq
  <2>2. <<>> \in Seq(Command)
    BY EmptySeq
  <2> HIDE DEF c
  <2>3. QED  BY <1>1, <2>1, <2>2, AppendProperties
<1>3. CASE I # {}
  <2>1. n \in I
    <3>1. I \subseteq Nat
      OBVIOUS
    <3> HIDE DEF I
    <3>2. QED  BY <1>3, <3>1, MinNat
  <2>2. n \in DOMAIN file /\ n # 0 /\ file[n] \in Entry
    BY <2>1
  <2>3. RenameCommands(file, j) = Append(RemoveAllNames(file[n], j.vlan), c)
    BY <1>3, <2>2 DEF RenameCommands, SelectInSeq
  <2> HIDE DEF n, c
  <2>4. file[n].names \in Seq(LowerNames)
    BY <2>2 DEF Entry
  <2>5. RemoveAllNames(file[n], j.vlan) \in Seq(RemoveCommand)
    BY <2>4, RemovalsFacts
  <2>6. RemoveAllNames(file[n], j.vlan) \in Seq(Command)
    BY <2>5 DEF Command
  <2>7. QED  BY <1>1, <2>3, <2>6, AppendProperties
<1>4. QED  BY <1>2, <1>3

\* The orders in which a query may answer: each row once.
LEMMA SetToSeqsFacts ==
    ASSUME NEW T, NEW W, W \subseteq T, IsFiniteSet(W), NEW s \in SetToSeqs(W)
    PROVE  /\ s \in Seq(T)
           /\ \A m \in DOMAIN s : s[m] \in W
           /\ \A h \in W : \E m \in DOMAIN s : s[m] = h
<1> DEFINE n == Cardinality(W)
           D == 1..n
<1>1. n \in Nat
  BY FS_CardinalityType
<1>2. s \in [D -> W] /\ \A i, j \in D : i # j => s[i] # s[j]
  BY DEF SetToSeqs
<1>3. s \in Injection(D, W)
  BY <1>2 DEF Injection, IsInjective
<1>4. Cardinality(D) = n
  BY <1>1, FS_Interval
<1>5. s \in Surjection(D, W)
  <2> HIDE DEF D, n
  <2>1. Cardinality(D) = Cardinality(W)
    BY <1>4 DEF n
  <2>2. QED  BY <1>3, <2>1, FS_Injection
<1>6. \A h \in W : \E m \in D : s[m] = h
  BY <1>5 DEF Surjection
<1>7. s \in Seq(T)
  BY <1>1, <1>2
<1>8. QED  BY <1>2, <1>6, <1>7

\* A request comes in.
LEMMA BeginTyping ==
    ASSUME Typed, NEW r \in Requests, NEW j \in Jobs, Begin(r, j)
    PROVE  Typed'
<1>1. /\ j \in JobType /\ j.kind # "none"
      /\ j.kind \in {"reserve", "addhost", "rename"} => j.ip \in Ips
      /\ j.kind \in {"addhost", "removehost", "rename"} => j.name \in Names
      /\ j.kind \in {"reserve", "release"} => j.mac \in Macs
  BY LocalDnsAssumption DEF Jobs, Job, JobType, Kinds
<1>2. todo'[r] \in Seq(Command)
  <2>1. CASE j.kind = "addhost"
    <3>1. Add(j.ip, j.name, j.vlan) \in Command
      BY <1>1, <2>1 DEF Add, Command, AddCommand, JobType
    <3>2. todo'[r] = <<Add(j.ip, j.name, j.vlan)>>
      BY <2>1 DEF Begin, Typed, RequestTypes
    <3>3. QED  BY <3>1, <3>2
  <2>2. CASE j.kind = "removehost"
    <3>1. RemoveName(j.name, j.vlan) \in Command
      BY <1>1, <2>2 DEF RemoveName, Command, RemoveCommand, JobType
    <3>2. todo'[r] = <<RemoveName(j.name, j.vlan)>>
      BY <2>2 DEF Begin, Typed, RequestTypes
    <3>3. QED  BY <3>1, <3>2
  <2>3. CASE j.kind \notin {"addhost", "removehost"}
    <3>1. todo'[r] = <<>>
      BY <2>3 DEF Begin, Typed, RequestTypes
    <3>2. <<>> \in Seq(Command)
      BY EmptySeq
    <3>3. QED  BY <3>1, <3>2
  <2>4. QED  BY <2>1, <2>2, <2>3
<1>3. Start(j.kind) \in {"check", "lookup", "query", "list", "run"}
  BY DEF Start
<1>4. /\ pc'[r] = Start(j.kind) /\ job'[r] = j /\ then'[r] = "end" /\ Others(r)
      /\ \A s \in Requests \ {r} : todo'[s] = todo[s]
      /\ UNCHANGED <<hosts, dns, rows, listing, at, entries>>
  BY DEF Begin, Typed, RequestTypes, Others, Untouched
<1>5. RequestTypes'
  <2>1. pc' \in [Requests -> Stages] /\ job' \in [Requests -> JobType]
        /\ then' \in [Requests -> {"update", "sync", "synced", "resynced", "end"}]
    BY <1>1, <1>3 DEF Begin, Typed, RequestTypes, Stages
  <2>2. todo' \in [Requests -> Seq(Command)]
    <3>1. DOMAIN todo' = Requests /\ \A s \in Requests : todo'[s] \in Seq(Command)
      BY <1>2, <1>4 DEF Begin, Typed, RequestTypes
    <3>2. todo' = [s \in Requests |-> todo'[s]]
      BY DEF Begin, Typed, RequestTypes
    <3>3. QED  BY <3>1, <3>2
  <2>3. QED  BY <1>4, <2>1, <2>2 DEF Typed, RequestTypes
<1>6. StateTypes'
  BY NoJobType DEF Begin, Typed, StateTypes
<1>7. JobControl(r)'
  <2>1. j.kind \in Kinds
    BY <1>1 DEF JobType
  <2>2. QED  BY <1>1, <1>4, <2>1 DEF JobControl, Start, Kinds
<1>8. CommandControl(r)'
  <2>1. CommandControl(r) /\ ~Syncing(r)
    BY DEF Typed, Begin, CommandControl
  <2>2. ~Syncing(r)' /\ pc'[r] # "save"
    BY <1>3, <1>4 DEF Syncing
  <2>3. QED  BY <1>4, <2>1, <2>2 DEF CommandControl
<1>9. QED  BY <1>4, <1>5, <1>6, <1>7, <1>8, TypedByRequest

\* A step to another stage that holds no commands.
LEMMA GotoTyping ==
    ASSUME Typed, NEW r \in Requests, NEW next \in Stages, Goto(r, next),
           ~Syncing(r), next \notin {"idle", "save"}, StateTypes',
           job' \in [Requests -> JobType], rows' \in [Requests -> Seq(Reservation)],
           \A s \in Requests \ {r} : job'[s] = job[s] /\ rows'[s] = rows[s],
           UNCHANGED <<listing, at>>, JobControl(r)'
    PROVE  Typed'
<1>1. /\ RequestTypes' /\ Others(r)
      /\ pc'[r] = next /\ UNCHANGED <<todo, then, listing, at, entries>>
  BY GotoEffect DEF Typed
<1>2. CommandControl(r)'
  <2>1. CommandControl(r) /\ at[r] = 0 /\ ~Syncing(r)'
    BY <1>1 DEF Typed, CommandControl, Syncing
  <2>2. Len(listing'[r]) \in Nat /\ Len(rows'[r]) \in Nat
    BY <1>1 DEF RequestTypes
  <2>3. QED  BY <1>1, <2>1, <2>2 DEF CommandControl
<1>3. QED  BY <1>1, <1>2, TypedByRequest

\* A stage after which commands run, and none of a synchronisation.
LEMMA RunTyping ==
    ASSUME Typed, NEW r \in Requests, NEW c \in Seq(Command), NEW next \in {"update", "sync"},
           RunCommands(r, c, next), StateTypes', UNCHANGED <<job, rows, listing, at>>,
           ~Syncing(r), pc[r] # "idle",
           next = "update" => job[r].kind = "rename",
           next = "sync" => job[r].kind \in {"reserve", "release"}
    PROVE  Typed'
<1>1. /\ RequestTypes' /\ Others(r)
      /\ pc'[r] = "run" /\ todo'[r] = c /\ then'[r] = next /\ UNCHANGED entries
  BY RunEffect DEF Typed, RequestTypes
<1>2. JobControl(r)'
  BY <1>1 DEF Typed, JobControl
<1>3. CommandControl(r)'
  <2>1. CommandControl(r) /\ ~Syncing(r)'
    BY <1>1 DEF Typed, Syncing
  <2>2. QED  BY <1>1, <2>1 DEF CommandControl
<1>4. QED  BY <1>1, <1>2, <1>3, TypedByRequest

\* A synchronisation starts.
LEMMA SynchroniseTyping ==
    ASSUME Typed, NEW r \in Requests, NEW res \in Seq(Reservation),
           NEW file \in Seq(Entry), WellFormed(file), NEW next \in {"synced", "resynced"},
           Synchronise(r, file, res, next),
           UNCHANGED <<hosts, dns, job, at, left>>, pc[r] \in {"sync", "list"},
           next = "synced" => job[r].kind \in {"reserve", "release", "rename"},
           next = "resynced" => job[r].kind = "resync"
    PROVE  Typed'
<1>1. /\ RequestTypes' /\ Others(r)
      /\ pc'[r] = "run" /\ todo'[r] = <<>> /\ then'[r] = next
      /\ rows'[r] = res /\ listing'[r] = file
      /\ UNCHANGED <<entries, result>>
  BY SynchroniseEffect DEF Typed
<1>2. StateTypes'
  BY <1>1 DEF Typed, StateTypes
<1>3. JobControl(r)'
  BY <1>1 DEF Typed, JobControl
<1>4. CommandControl(r)'
  <2>1. CommandControl(r) /\ at[r] = 0
    BY DEF Typed, CommandControl, Syncing
  <2>2. WellFormed(listing'[r])
    BY <1>1 DEF Typed, StateTypes
  <2>3. Len(listing'[r]) \in Nat /\ Len(rows'[r]) \in Nat
    BY <1>1 DEF RequestTypes
  <2>4. DOMAIN todo'[r] = {}
    BY <1>1, EmptySeq
  <2>5. Syncing(r)'
    BY <1>1 DEF Syncing
  <2>6. QED  BY <1>1, <2>1, <2>2, <2>3, <2>4, <2>5 DEF CommandControl
<1>5. QED  BY <1>1, <1>2, <1>3, <1>4, TypedByRequest

\* The requests for reservations, up to their commands.
LEMMA ReservationTyping ==
    ASSUME Typed, NEW r \in Requests,
           Check(r) \/ Insert(r) \/ Lookup(r) \/ Delete(r) \/ Query(r)
    PROVE  Typed'
<1>t. /\ RequestTypes /\ StateTypes /\ JobControl(r) /\ CommandControl(r)
      /\ job[r] \in JobType
  BY DEF Typed, RequestTypes
<1>s. ~Syncing(r)
  BY <1>t DEF CommandControl, Check, Insert, Lookup, Delete, Query
<1>1. CASE Check(r)
  <2>1. CASE Answer(r, FALSE)
    BY <1>1, <2>1, AnswerTyping DEF Check
  <2>2. CASE Goto(r, "insert") /\ UNCHANGED <<job, rows, listing, at>>
    <3>1. StateTypes'
      BY <1>1, <1>t, <2>2 DEF Check, Goto, StateTypes
    <3>2. JobControl(r)'
      BY <1>1, <1>t, <2>2 DEF Check, Goto, JobControl, RequestTypes
    <3>3. QED  BY <1>t, <1>s, <2>2, <3>1, <3>2, GotoTyping DEF RequestTypes, Stages
  <2>3. QED  BY <1>1, <2>1, <2>2 DEF Check
<1>2. CASE Insert(r)
  <2>1. CASE Answer(r, FALSE) /\ UNCHANGED hosts
    BY <1>2, <2>1, AnswerTyping DEF Insert
  <2>2. CASE ~(Answer(r, FALSE) /\ UNCHANGED hosts)
    <3> DEFINE j == job[r]
               row == [mac |-> j.mac, ip |-> j.ip, name |-> j.name, vlan |-> j.vlan]
               c == IF j.name = NoName THEN <<>> ELSE <<Add(j.ip, j.name, j.vlan)>>
    <3>1. /\ hosts' = hosts \cup {row} /\ RunCommands(r, c, "sync")
          /\ UNCHANGED <<dns, job, rows, listing, at, left>>
      BY <1>2, <2>2 DEF Insert
    <3>2. /\ j.kind = "reserve" /\ j.mac \in Macs /\ j.ip \in Ips
          /\ j.name \in Names \cup {NoName} /\ j.vlan \in Vlans
      BY <1>2, <1>t DEF Insert, JobControl, JobType
    <3>3. c \in Seq(Command)
      <4>1. <<>> \in Seq(Command)
        BY EmptySeq
      <4>2. j.name # NoName => Add(j.ip, j.name, j.vlan) \in Command
        BY <3>2 DEF Add, Command, AddCommand
      <4> HIDE DEF j
      <4>3. j.name # NoName => <<Add(j.ip, j.name, j.vlan)>> \in Seq(Command)
        BY <4>2
      <4>4. QED  BY <4>1, <4>3
    <3>4. hosts' \subseteq Row /\ IsFiniteSet(hosts')
      <4>1. row \in Row
        BY <3>2 DEF Row
      <4> HIDE DEF row
      <4>2. QED  BY <1>t, <3>1, <4>1, FS_AddElement DEF StateTypes
    <3>5. StateTypes'
      BY <1>t, <3>1, <3>4 DEF StateTypes, RunCommands
    <3> HIDE DEF c
    <3>6. QED  BY <1>2, <1>s, <3>1, <3>2, <3>3, <3>5, RunTyping DEF Insert
  <2>3. QED  BY <2>1, <2>2
<1>3. CASE Lookup(r)
  <2>1. PICK n : /\ n \in (IF RowsOf(job[r].mac) = {} THEN {NoName}
                           ELSE {h.name : h \in RowsOf(job[r].mac)})
                 /\ job' = [job EXCEPT ![r].name = n]
    BY <1>3 DEF Lookup
  <2>2. n \in Names \cup {NoName}
    BY <1>t, <2>1 DEF RowsOf, StateTypes, Row
  <2>3. /\ job' \in [Requests -> JobType] /\ job'[r] = [job[r] EXCEPT !.name = n]
        /\ \A s \in Requests \ {r} : job'[s] = job[s]
    BY <1>t, <2>1, <2>2 DEF RequestTypes, JobType
  <2>4. /\ job'[r].kind = job[r].kind /\ job'[r].mac = job[r].mac
        /\ job'[r].ip = job[r].ip
    BY <1>t, <2>3 DEF JobType
  <2>5. StateTypes'
    BY <1>3, <1>t DEF Lookup, Goto, StateTypes
  <2>6. JobControl(r)'
    BY <1>3, <1>t, <2>4 DEF Lookup, Goto, JobControl, RequestTypes
  <2>7. Goto(r, "delete") /\ UNCHANGED <<rows, listing, at>> /\ "delete" \in Stages
    BY <1>3 DEF Lookup, Stages
  <2>8. QED  BY <1>t, <1>s, <2>3, <2>5, <2>6, <2>7, GotoTyping DEF RequestTypes
<1>4. CASE Delete(r)
  <2> DEFINE j == job[r]
             c == IF j.name = NoName THEN <<>> ELSE <<RemoveName(j.name, j.vlan)>>
  <2>1. /\ hosts' = hosts \ RowsOf(j.mac) /\ RunCommands(r, c, "sync")
        /\ UNCHANGED <<dns, job, rows, listing, at, left>>
    BY <1>4 DEF Delete
  <2>2. j.kind = "release" /\ j.name \in Names \cup {NoName} /\ j.vlan \in Vlans
    BY <1>4, <1>t DEF Delete, JobControl, JobType
  <2>3. c \in Seq(Command)
    <3>1. <<>> \in Seq(Command)
      BY EmptySeq
    <3>2. j.name # NoName => RemoveName(j.name, j.vlan) \in Command
      BY <2>2 DEF RemoveName, Command, RemoveCommand
    <3> HIDE DEF j
    <3>3. j.name # NoName => <<RemoveName(j.name, j.vlan)>> \in Seq(Command)
      BY <3>2
    <3>4. QED  BY <3>1, <3>3
  <2>4. hosts' \subseteq Row /\ IsFiniteSet(hosts')
    BY <1>t, <2>1, FS_Subset DEF StateTypes
  <2>5. StateTypes'
    BY <1>t, <2>1, <2>4 DEF StateTypes, RunCommands
  <2> HIDE DEF c
  <2>6. QED  BY <1>4, <1>s, <2>1, <2>2, <2>3, <2>5, RunTyping DEF Delete
<1>5. CASE Query(r)
  <2> DEFINE W == {h \in hosts : h.vlan = job[r].vlan /\ h.name # NoName}
  <2>1. PICK s \in SetToSeqs(W) : rows' = [rows EXCEPT ![r] = s]
    BY <1>5 DEF Query
  <2>2. W \subseteq Reservation /\ IsFiniteSet(W)
    BY <1>t, FS_Subset DEF StateTypes, Reservation
  <2> HIDE DEF W
  <2>3. s \in Seq(Reservation)
    BY <2>2, SetToSeqsFacts
  <2>4. /\ rows' \in [Requests -> Seq(Reservation)]
        /\ \A q \in Requests \ {r} : rows'[q] = rows[q]
    BY <1>t, <2>1, <2>3 DEF RequestTypes
  <2>5. Goto(r, "list") /\ UNCHANGED <<hosts, dns, left, job, listing, at>> /\ "list" \in Stages
    BY <1>5 DEF Query, Stages
  <2>6. StateTypes'
    BY <1>t, <2>5 DEF StateTypes, Goto
  <2>7. JobControl(r)'
    BY <1>5, <1>t, <2>5 DEF Query, Goto, JobControl, RequestTypes
  <2>8. QED  BY <1>t, <1>s, <2>4, <2>5, <2>6, <2>7, GotoTyping DEF RequestTypes
<1>6. QED  BY <1>1, <1>2, <1>3, <1>4, <1>5

\* The requests for names, and the start of both synchronisations.
LEMMA SyncTyping ==
    ASSUME Typed, NEW r \in Requests, List(r) \/ Update(r) \/ SyncAll(r)
    PROVE  Typed'
<1>t. /\ RequestTypes /\ StateTypes /\ JobControl(r) /\ CommandControl(r)
      /\ job[r] \in JobType /\ job[r].vlan \in Vlans
  BY DEF Typed, RequestTypes, JobType
<1>s. ~Syncing(r)
  BY <1>t DEF CommandControl, List, Update, SyncAll
<1>1. CASE List(r)
  <2>1. CASE job[r].kind = "resync"
    <3>1. /\ UNCHANGED <<hosts, dns, job, at, left>> /\ pc[r] = "list"
          /\ \E file \in Readable(job[r].vlan) : Synchronise(r, file, rows[r], "resynced")
      BY <1>1, <2>1 DEF List
    <3>2. rows[r] \in Seq(Reservation)
      BY <1>t DEF RequestTypes
    <3>3. QED  BY <1>t, <2>1, <3>1, <3>2, ReadableFacts, SynchroniseTyping
  <2>2. CASE job[r].kind # "resync"
    <3>0. PICK file \in Readable(job[r].vlan) : RunCommands(r, RenameCommands(file, job[r]), "update")
      BY <1>1, <2>2 DEF List
    <3> DEFINE c == RenameCommands(file, job[r])
    <3>1. /\ RunCommands(r, c, "update") /\ pc[r] = "list"
          /\ UNCHANGED <<rows, listing, hosts, dns, job, at, left>>
      BY <1>1, <2>2, <3>0 DEF List
    <3>2. job[r].kind = "rename" /\ job[r].ip \in Ips /\ job[r].name \in Names
      BY <1>t, <2>2, <3>1 DEF JobControl
    <3>3. c \in Seq(Command)
      <4>1. file \in Seq(Entry)
        BY <1>t, ReadableFacts
      <4>2. QED  BY <1>t, <3>2, <4>1, RenameCommandsType
    <3>4. StateTypes'
      BY <1>t, <3>1 DEF StateTypes, RunCommands
    <3> HIDE DEF c
    <3>5. QED  BY <1>s, <3>1, <3>2, <3>3, <3>4, RunTyping
  <2>3. QED  BY <2>1, <2>2
<1>2. CASE Update(r)
  <2> DEFINE new(h) == IF Found(h, job[r])
                       THEN [h EXCEPT !.name = job[r].name] ELSE h
             f == [h \in hosts |-> new(h)]
  <2>1. /\ hosts' = {new(h) : h \in hosts} /\ Goto(r, "sync") /\ pc[r] = "update"
        /\ UNCHANGED <<dns, job, rows, listing, at, left>>
    BY <1>2 DEF Update
  <2>2. job[r].kind = "rename" /\ job[r].name \in Names
    BY <1>t, <2>1 DEF JobControl
  <2>3. ASSUME NEW h \in Row PROVE new(h) \in Row
    BY <2>2 DEF Row
  <2> HIDE DEF new
  <2>4. hosts' \subseteq Row
    BY <1>t, <2>1, <2>3 DEF StateTypes
  <2>5. f \in Surjection(hosts, hosts')
    BY <2>1 DEF Surjection
  <2> HIDE DEF f
  <2>6. IsFiniteSet(hosts')
    BY <1>t, <2>5, FS_Surjection DEF StateTypes
  <2>7. StateTypes'
    BY <1>t, <2>1, <2>4, <2>6 DEF StateTypes, Goto
  <2>8. JobControl(r)'
    BY <1>t, <2>1, <2>2 DEF Goto, JobControl, RequestTypes
  <2>9. QED  BY <1>t, <1>s, <2>1, <2>7, <2>8, GotoTyping DEF RequestTypes, Stages
<1>3. CASE SyncAll(r)
  <2>1. /\ UNCHANGED <<hosts, dns, job, at, left>> /\ pc[r] = "sync"
        /\ \E file \in Readable(Default) : Synchronise(r, file, KeaReservations, "synced")
    BY <1>3 DEF SyncAll
  <2>2. KeaReservations \in Seq(Reservation) /\ Default \in Vlans
    BY LocalDnsAssumption DEF Reservation
  <2>3. job[r].kind \in {"reserve", "release", "rename"}
    BY <1>t, <2>1 DEF JobControl
  <2>4. QED  BY <1>t, <2>1, <2>2, <2>3, ReadableFacts, SynchroniseTyping
<1>4. QED  BY <1>1, <1>2, <1>3

\* The VLAN of a synchronisation.
LEMMA SyncVlanType ==
    ASSUME RequestTypes, NEW r \in Requests
    PROVE  SyncVlan(r) \in Vlans
BY LocalDnsAssumption DEF RequestTypes, JobType, SyncVlan

\* What a command makes of a file.
LEMMA ApplyFacts ==
    ASSUME NEW file, WellFormed(file), NEW c \in Command, ~Fails(c)
    PROVE  WellFormed(Apply(file, c))
<1>1. CASE c \in AddCommand
  <2>1. c.op = "add" /\ c.ip \in Ips /\ c.name \in Names \ Refused
    BY <1>1 DEF AddCommand, Fails
  <2>2. Lower[c.name] \in LowerNames
    BY <2>1, LowerFacts
  <2>3. WellFormed(AddEntry(file, c.ip, Lower[c.name]))
    BY <2>1, <2>2, AddEntryFacts
  <2>4. QED  BY <2>1, <2>3 DEF Apply
<1>2. CASE c \in RemoveCommand
  <2>1. c.op = "remove"
    BY <1>2 DEF RemoveCommand
  <2>2. WellFormed(RemoveEntry(file, c.name))
    BY RemoveEntryFacts
  <2>3. QED  BY <2>1, <2>2 DEF Apply
<1>3. QED  BY <1>1, <1>2 DEF Command

\* A command reads the file, and then writes it.
LEMMA CommandTyping ==
    ASSUME Typed, NEW r \in Requests, Load(r) \/ Save(r) \/ NextTurn(r)
    PROVE  Typed'
<1>t. /\ RequestTypes /\ StateTypes /\ JobControl(r) /\ CommandControl(r)
      /\ todo[r] \in Seq(Command)
  BY DEF Typed, RequestTypes
<1>1. CASE Load(r)
  <2> DEFINE v == Head(todo[r]).vlan
  <2>1. Head(todo[r]) \in Command /\ ~Fails(Head(todo[r])) /\ todo[r] # <<>>
    BY <1>1, <1>t DEF Load
  <2>2. v \in Vlans
    BY <2>1 DEF Command, AddCommand, RemoveCommand
  <2>f. PICK file \in Readable(v) : entries' = [entries EXCEPT ![r] = file]
    BY <1>1 DEF Load
  <2>3. file \in Seq(Entry) /\ WellFormed(file)
    BY <1>t, <2>2, ReadableFacts
  <2>4. /\ pc' = [pc EXCEPT ![r] = "save"] /\ entries' = [entries EXCEPT ![r] = file]
        /\ UNCHANGED <<hosts, dns, job, todo, then, rows, listing, at, left, result>>
        /\ pc[r] = "run"
    BY <1>1, <2>f DEF Load
  <2> HIDE DEF v
  <2>5. RequestTypes' /\ Others(r) /\ pc'[r] = "save" /\ entries'[r] = file
    BY <1>t, <2>3, <2>4 DEF RequestTypes, Stages, Others, Untouched
  <2>6. StateTypes'
    BY <1>t, <2>4 DEF StateTypes
  <2>7. JobControl(r)'
    BY <1>t, <2>4, <2>5 DEF JobControl
  <2>8. CommandControl(r)'
    BY <1>t, <2>1, <2>3, <2>4, <2>5 DEF CommandControl, Syncing, SyncVlan
  <2>9. QED  BY <2>5, <2>6, <2>7, <2>8, TypedByRequest
<1>2. CASE Save(r)
  <2> DEFINE c == Head(todo[r])
             new == Apply(entries[r], c)
  <2>1. todo[r] # <<>> /\ c \in Command /\ ~Fails(c) /\ WellFormed(entries[r])
    BY <1>2, <1>t DEF Save, CommandControl
  <2>2. c.vlan \in Vlans
    BY <2>1 DEF Command, AddCommand, RemoveCommand
  <2>3. WellFormed(new) /\ new \in Seq(Entry)
    BY <2>1, ApplyFacts DEF WellFormed
  <2>4. /\ dns' = IF new = entries[r] THEN dns ELSE [dns EXCEPT ![c.vlan] = new]
        /\ pc' = [pc EXCEPT ![r] = "run"] /\ todo' = [todo EXCEPT ![r] = Tail(@)]
        /\ UNCHANGED <<hosts, job, then, rows, listing, at, entries, left, result>>
        /\ pc[r] = "save"
    BY <1>2 DEF Save
  <2> HIDE DEF c, new
  <2>5. dns' \in [Vlans -> Seq(Entry)] /\ \A v \in Vlans : WellFormed(dns'[v])
    BY <1>t, <2>2, <2>3, <2>4 DEF StateTypes
  <2>6. StateTypes'
    BY <1>t, <2>4, <2>5 DEF StateTypes
  <2>7. /\ Tail(todo[r]) \in Seq(Command)
        /\ \A k \in DOMAIN Tail(todo[r]) : k + 1 \in DOMAIN todo[r]
                                          /\ Tail(todo[r])[k] = todo[r][k + 1]
    BY <1>t, <2>1
  <2>8. RequestTypes' /\ Others(r) /\ pc'[r] = "run" /\ todo'[r] = Tail(todo[r])
    BY <1>t, <2>4, <2>7 DEF RequestTypes, Stages, Others, Untouched
  <2>9. JobControl(r)'
    BY <1>t, <2>4, <2>8 DEF JobControl
  <2>10. CommandControl(r)'
    <3>1. \A k \in DOMAIN todo'[r] : k + 1 \in DOMAIN todo[r] /\ todo'[r][k] = todo[r][k + 1]
      BY <2>7, <2>8
    <3>2. Syncing(r)' = Syncing(r) /\ SyncVlan(r)' = SyncVlan(r)
      BY <2>4 DEF Syncing, SyncVlan
    <3>3. QED  BY <1>t, <2>4, <2>8, <3>1, <3>2 DEF CommandControl
  <2>11. QED  BY <2>6, <2>8, <2>9, <2>10, TypedByRequest
<1>3. CASE NextTurn(r)
  <2> DEFINE n == at[r] + 1
             total == Len(listing[r]) + Len(rows[r])
             c == SyncCommands(listing[r], rows[r], SyncVlan(r), n)
  <2>1. /\ listing[r] \in Seq(Entry) /\ rows[r] \in Seq(Reservation) /\ at[r] \in Nat
        /\ total \in Nat
    BY <1>t DEF RequestTypes
  <2>2. at[r] < total /\ pc[r] = "run" /\ Syncing(r)
    BY <1>3 DEF NextTurn
  <2> HIDE DEF total
  <2>3. n \in 1..total
    BY <2>1, <2>2
  <2>4. at' = [at EXCEPT ![r] = n] /\ at'[r] = n
    BY <1>3, <1>t DEF NextTurn, RequestTypes
  <2>5. /\ todo' = [todo EXCEPT ![r] = c]
        /\ UNCHANGED <<hosts, dns, pc, job, then, rows, listing, entries, left, result>>
    BY <1>3, <2>4 DEF NextTurn
  <2> HIDE DEF n
  <2>6. c \in Seq(CommandsFor(SyncVlan(r)))
    BY <1>t, <2>1, <2>3, SyncCommandsType, SyncVlanType DEF total
  <2> HIDE DEF c
  <2>7. c \in Seq(Command) /\ \A k \in DOMAIN c : c[k].vlan = SyncVlan(r)
    BY <2>6 DEF CommandsFor
  <2>8. n \in Nat /\ n <= total
    BY <2>1, <2>3
  <2>9. RequestTypes' /\ Others(r) /\ todo'[r] = c
    BY <1>t, <2>4, <2>5, <2>7, <2>8 DEF RequestTypes, Others, Untouched
  <2>10. StateTypes'
    BY <1>t, <2>5 DEF StateTypes
  <2>11. JobControl(r)'
    BY <1>t, <2>2, <2>5 DEF JobControl
  <2>12. CommandControl(r)'
    BY <1>t, <2>2, <2>4, <2>5, <2>7, <2>8, <2>9 DEF total, CommandControl, Syncing, SyncVlan
  <2>13. QED  BY <2>9, <2>10, <2>11, <2>12, TypedByRequest
<1>4. QED  BY <1>1, <1>2, <1>3

\* The end of a request.
LEMMA EndTyping ==
    ASSUME Typed, NEW r \in Requests, CommandFails(r) \/ Done(r) \/ Stop(r)
    PROVE  Typed'
<1>1. CASE CommandFails(r)
  BY <1>1, AnswerTyping DEF CommandFails
<1>2. CASE Stop(r)
  BY <1>2, AnswerTyping DEF Stop
<1>3. CASE Done(r)
  <2>1. CASE Answer(r, TRUE)
    BY <1>3, <2>1, AnswerTyping DEF Done
  <2>2. CASE ~Answer(r, TRUE)
    <3>t. RequestTypes /\ StateTypes /\ JobControl(r)
      BY DEF Typed
    <3>1. /\ then[r] \in {"update", "sync"} /\ Goto(r, then[r]) /\ pc[r] = "run"
          /\ todo[r] = <<>> /\ UNCHANGED <<hosts, dns, left, job, rows, listing, at>>
      BY <1>3, <2>2 DEF Done
    <3>2. StateTypes'
      BY <3>t, <3>1 DEF StateTypes, Goto
    <3>3. JobControl(r)'
      BY <3>t, <3>1 DEF Goto, JobControl, RequestTypes
    <3>4. then[r] \in Stages /\ then[r] \notin {"idle", "save"} /\ ~Syncing(r)
      BY <3>1 DEF Stages, Syncing
    <3>5. QED  BY <3>t, <3>1, <3>2, <3>3, <3>4, GotoTyping DEF RequestTypes
  <2>3. QED  BY <2>1, <2>2
<1>4. QED  BY <1>1, <1>2, <1>3

\* A state in which no request is under way.
LEMMA IdleTypes ==
    ASSUME pc' = [r \in Requests |-> "idle"], job' = [r \in Requests |-> NoJob],
           todo' = [r \in Requests |-> <<>>], then' = [r \in Requests |-> "end"],
           rows' = [r \in Requests |-> <<>>], listing' = [r \in Requests |-> <<>>],
           at' = [r \in Requests |-> 0], entries' = [r \in Requests |-> <<>>]
    PROVE  RequestTypes' /\ \A r \in Requests : JobControl(r)' /\ CommandControl(r)'
<1>1. /\ <<>> \in Seq(Command) /\ <<>> \in Seq(Reservation) /\ <<>> \in Seq(Entry)
  BY EmptySeq
<1>2. NoJob \in JobType /\ "idle" \in Stages
  BY NoJobType DEF Stages
<1>3. RequestTypes'
  BY <1>1, <1>2 DEF RequestTypes
<1>4. ASSUME NEW r \in Requests PROVE JobControl(r)' /\ CommandControl(r)'
  BY <1>3, IdleControl
<1>5. QED  BY <1>3, <1>4

\* A power failure leaves every file as it is, or empty.
LEMMA RebootTyping ==
    ASSUME Typed, Reboot
    PROVE  Typed'
<1>1. RequestTypes' /\ \A r \in Requests : JobControl(r)' /\ CommandControl(r)'
  BY IdleTypes DEF Reboot
<1>2. dns' \in [Vlans -> Seq(Entry)] /\ \A v \in Vlans : WellFormed(dns'[v])
  BY LostTyping DEF Reboot, Typed
<1>3. StateTypes'
  BY <1>2, NoJobType DEF Reboot, Typed, StateTypes
<1>4. QED  BY <1>1, <1>3 DEF Typed

LEMMA TypedStep ==
    ASSUME Typed, [Next]_vars
    PROVE  Typed'
<1>1. ASSUME NEW r \in Requests, Request(r) PROVE Typed'
  BY <1>1, BeginTyping, ReservationTyping, SyncTyping, CommandTyping, EndTyping DEF Request
<1>2. CASE UNCHANGED vars
  <2>1. StateTypes' /\ RequestTypes'
    BY <1>2 DEF vars, requestVars, Typed, StateTypes, RequestTypes
  <2>2. ASSUME NEW r \in Requests PROVE JobControl(r)' /\ CommandControl(r)'
    BY <1>2 DEF vars, requestVars, Typed, JobControl, CommandControl, Syncing, SyncVlan
  <2>3. QED  BY <2>1, <2>2 DEF Typed
<1>3. QED  BY <1>1, <1>2, RebootTyping DEF Next

LEMMA TypedInit ==
    ASSUME Init
    PROVE  Typed
<1>1. /\ <<>> \in Seq(Command) /\ <<>> \in Seq(Reservation) /\ <<>> \in Seq(Entry)
  BY EmptySeq
<1>2. RequestTypes
  BY <1>1, NoJobType DEF Init, RequestTypes, Stages
<1>3. StateTypes
  BY InitialStatesAssumption, NoJobType DEF Init, StateTypes
<1>4. Len(<<>>) = 0
  BY EmptySeq
<1>5. ASSUME NEW r \in Requests PROVE JobControl(r) /\ CommandControl(r)
  <2>1. JobControl(r)
    BY NoJobType DEF Init, JobControl
  <2>2. CommandControl(r)
    BY <1>4, EmptyFile DEF Init, CommandControl, Syncing
  <2>3. QED  BY <2>1, <2>2
<1>6. QED  BY <1>2, <1>3, <1>5 DEF Typed

LEMMA AlwaysTyped == Spec => []Typed
BY TypedInit, TypedStep, PTL DEF Spec

\* Whatever requests do together, and however one of them or the machine stops,
\* every file has one entry per address, each with at least one name and no name
\* twice.
THEOREM TypeCorrect == Spec => []TypeOK
<1>1. Typed => TypeOK
  <2> SUFFICES ASSUME Typed PROVE TypeOK
    OBVIOUS
  <2>1. /\ hosts \subseteq Row /\ pc \in [Requests -> Stages]
        /\ \A v \in Vlans : WellFormed(dns[v])
    BY DEF Typed, StateTypes, RequestTypes
  <2>2. ASSUME NEW r \in Requests
        PROVE  /\ job[r].kind # "none" <=> pc[r] # "idle"
               /\ pc[r] = "save" => todo[r] # <<>> /\ WellFormed(entries[r])
               /\ then[r] \in {"update", "sync", "synced", "resynced", "end"}
    BY DEF Typed, RequestTypes, JobControl, CommandControl
  <2>3. QED  BY <2>1, <2>2 DEF TypeOK, Stages
<1>2. QED  BY <1>1, AlwaysTyped, PTL

(***************************************************************************)
(* One request at a time.                                                  *)
(***************************************************************************)

\* A step of r leaves the other requests as they are.
LEMMA OthersStep ==
    ASSUME RequestTypes, NEW r \in Requests, Request(r)
    PROVE  Others(r)
<1>1. ASSUME NEW j \in Jobs, Begin(r, j) PROVE Others(r)
  BY <1>1 DEF Begin, RequestTypes, Others, Untouched
<1>2. ASSUME NEW ok, Answer(r, ok) PROVE Others(r)
  BY <1>2 DEF Answer, RequestTypes, Others, Untouched
<1>3. ASSUME Check(r) \/ Insert(r) PROVE Others(r)
  BY <1>2, <1>3 DEF Check, Insert, Goto, RunCommands, RequestTypes, Others, Untouched
<1>4. ASSUME Lookup(r) \/ Delete(r) \/ Query(r) PROVE Others(r)
  BY <1>4 DEF Lookup, Delete, Query, Goto, RunCommands, RequestTypes, Others, Untouched
<1>5. ASSUME List(r) \/ Update(r) \/ SyncAll(r) PROVE Others(r)
  BY <1>5 DEF List, Update, SyncAll, Synchronise, Goto, RunCommands, RequestTypes,
     Others, Untouched
<1>6. ASSUME NextTurn(r) \/ Load(r) \/ Save(r) PROVE Others(r)
  BY <1>6 DEF NextTurn, Load, Save, RequestTypes, Others, Untouched
<1>7. ASSUME CommandFails(r) \/ Done(r) \/ Stop(r) PROVE Others(r)
  BY <1>2, <1>7 DEF CommandFails, Done, Stop, Goto, RequestTypes, Others, Untouched
<1>8. QED  BY <1>1, <1>3, <1>4, <1>5, <1>6, <1>7 DEF Request

\* A request that moves on does not touch what the others have done, and its
\* answer is the only result.
LEMMA MoveFacts ==
    ASSUME NEW r \in Requests, Request(r), ~\E j \in Jobs : Begin(r, j)
    PROVE  /\ pc[r] # "idle" /\ UNCHANGED lone
           /\ \/ UNCHANGED result
              \/ \E ok \in BOOLEAN : Answer(r, ok)
<1>1. ASSUME Check(r) \/ Insert(r)
      PROVE  pc[r] # "idle" /\ UNCHANGED lone /\ (UNCHANGED result \/ Answer(r, FALSE))
  BY <1>1 DEF Check, Insert, Goto, RunCommands
<1>2. ASSUME Lookup(r) \/ Delete(r) \/ Query(r)
      PROVE  pc[r] # "idle" /\ UNCHANGED <<lone, result>>
  BY <1>2 DEF Lookup, Delete, Query, Goto, RunCommands
<1>3. ASSUME List(r) \/ Update(r) \/ SyncAll(r)
      PROVE  pc[r] # "idle" /\ UNCHANGED <<lone, result>>
  BY <1>3 DEF List, Update, SyncAll, Synchronise, Goto, RunCommands
<1>4. ASSUME NextTurn(r) \/ Load(r) \/ Save(r)
      PROVE  pc[r] # "idle" /\ UNCHANGED <<lone, result>>
  BY <1>4 DEF NextTurn, Load, Save
<1>5. ASSUME CommandFails(r) \/ Done(r) \/ Stop(r)
      PROVE  /\ pc[r] # "idle" /\ UNCHANGED lone
             /\ \/ UNCHANGED result
                \/ Answer(r, then[r] = "synced") \/ Answer(r, TRUE) \/ Answer(r, FALSE)
  BY <1>5 DEF CommandFails, Done, Stop, Goto
<1>6. QED  BY <1>1, <1>2, <1>3, <1>4, <1>5 DEF Request

\* Only Load starts to write.
LEMMA SaveByLoad ==
    ASSUME Typed, NEW r \in Requests, Request(r), pc'[r] = "save"
    PROVE  Load(r)
<1>t. RequestTypes
  BY DEF Typed
<1>1. ASSUME NEW j \in Jobs, Begin(r, j) PROVE FALSE
  BY <1>1, <1>t DEF Begin, Start, RequestTypes
<1>2. ASSUME NEW ok, Answer(r, ok) PROVE FALSE
  BY <1>2, <1>t DEF Answer, RequestTypes
<1>3. ASSUME Check(r) \/ Insert(r) \/ Lookup(r) \/ Delete(r) \/ Query(r) PROVE FALSE
  BY <1>2, <1>3, <1>t DEF Check, Insert, Lookup, Delete, Query, Goto, RunCommands, RequestTypes
<1>4. ASSUME List(r) \/ Update(r) \/ SyncAll(r) PROVE FALSE
  BY <1>4, <1>t DEF List, Update, SyncAll, Synchronise, Goto, RunCommands, RequestTypes
<1>5. ASSUME NextTurn(r) \/ Save(r) PROVE FALSE
  BY <1>5, <1>t DEF NextTurn, Save, RequestTypes
<1>6. ASSUME CommandFails(r) \/ Done(r) \/ Stop(r) PROVE FALSE
  BY <1>2, <1>6, <1>t DEF CommandFails, Done, Stop, Goto, RequestTypes
<1>7. QED  BY <1>1, <1>3, <1>4, <1>5, <1>6 DEF Request

LEMMA AloneInit ==
    ASSUME Init
    PROVE  Alone
BY NoJobType DEF Init, Alone

LEMMA AloneStep ==
    ASSUME Typed, Alone, [Next]_vars
    PROVE  Alone'
<1>t. RequestTypes
  BY DEF Typed
<1>1. ASSUME NEW r \in Requests, NEW j \in Jobs, Begin(r, j) PROVE Alone'
  <2>1. lone' = Quiet /\ result' = NoJob /\ Others(r) /\ pc'[r] = Start(j.kind)
    BY <1>1, <1>t DEF Begin, Others, Untouched, RequestTypes
  <2>2. Start(j.kind) # "save"
    BY DEF Start
  <2>3. lone' => \A s \in Requests \ {r} : pc'[s] = "idle"
    BY <2>1 DEF Quiet, Others, Untouched
  <2>4. QED  BY <2>1, <2>2, <2>3, NoJobType DEF Alone
<1>2. ASSUME NEW r \in Requests, Request(r), ~\E j \in Jobs : Begin(r, j) PROVE Alone'
  <2>1. /\ pc[r] # "idle" /\ UNCHANGED lone /\ Others(r)
        /\ UNCHANGED result \/ \E ok \in BOOLEAN : Answer(r, ok)
    BY <1>2, <1>t, MoveFacts, OthersStep
  <2>2. lone => \A s \in Requests \ {r} : pc'[s] = "idle"
    BY <2>1 DEF Alone, Others, Untouched
  <2>3. (result.kind # "none" => Quiet)'
    <3>1. CASE UNCHANGED result
      BY <2>1, <3>1 DEF Alone, Quiet
    <3>2. ASSUME NEW ok \in BOOLEAN, Answer(r, ok) PROVE (result.kind # "none" => Quiet)'
      <4>1. pc'[r] = "idle" /\ result' = IF ok /\ lone THEN job[r] ELSE NoJob
        BY <1>t, <3>2, AnswerEffect
      <4>2. QED  BY <2>2, <4>1, NoJobType DEF Quiet
    <3>3. QED  BY <2>1, <3>1, <3>2
  <2>4. ASSUME lone, pc'[r] = "save" PROVE entries'[r] = dns'[Head(todo'[r]).vlan]
    <3>1. Load(r)
      BY <1>2, <2>4, SaveByLoad
    <3>2. PICK file \in Readable(Head(todo[r]).vlan) : entries' = [entries EXCEPT ![r] = file]
      BY <3>1 DEF Load
    <3>3. file = dns[Head(todo[r]).vlan]
      BY <2>4, <3>1, AloneReads DEF Load
    <3>4. QED  BY <1>t, <3>1, <3>2, <3>3 DEF Load, RequestTypes
  <2>5. QED  BY <2>1, <2>2, <2>3, <2>4 DEF Alone
<1>3. CASE Reboot
  <2>1. result' = NoJob /\ \A s \in Requests : pc'[s] = "idle"
    BY <1>3 DEF Reboot
  <2>2. QED  BY <2>1, NoJobType DEF Alone
<1>4. CASE UNCHANGED vars
  BY <1>4 DEF vars, requestVars, Alone, Quiet
<1>5. QED  BY <1>1, <1>2, <1>3, <1>4 DEF Next

LEMMA AlwaysAlone == Spec => [](Typed /\ Alone)
<1>1. Init => Typed /\ Alone
  BY TypedInit, AloneInit
<1>2. (Typed /\ Alone) /\ [Next]_vars => (Typed /\ Alone)'
  BY TypedStep, AloneStep
<1>3. QED  BY <1>1, <1>2, PTL DEF Spec

(***************************************************************************)
(* Edits outside the default VLAN.                                         *)
(***************************************************************************)

\* Only the two edits have anything to show.
LEMMA EditedOtherwise ==
    ASSUME NEW r, job[r].kind \notin {"reserve", "release"}
    PROVE  Edited(r)
BY DEF Edited

\* A step before the commands, or between their end and the synchronisation.
LEMMA EditedSame ==
    ASSUME NEW r, Edited(r), UNCHANGED clean,
           job'[r] = job[r], todo'[r] = todo[r], then'[r] = then[r],
           dns'[job[r].vlan] = dns[job[r].vlan]
    PROVE  Edited(r)'
BY DEF Edited, EditOver

\* In a synchronisation a request has shown what it had to.
LEMMA EditedSynced ==
    ASSUME NEW r, Edited(r), EditOver(r), UNCHANGED clean,
           job'[r] = job[r], then'[r] = "synced", dns'[job[r].vlan] = dns[job[r].vlan]
    PROVE  Edited(r)'
BY DEF Edited, EditOver

\* The command of an edit is written.
LEMMA EditedSave ==
    ASSUME Typed, Alone, NEW r \in Requests, lone, job[r].vlan # Default, Edited(r), Save(r)
    PROVE  Edited(r)'
<1> DEFINE j == job[r]
           file == dns[j.vlan]
           c == Head(todo[r])
           new == Apply(entries[r], c)
<1>t. /\ RequestTypes /\ StateTypes /\ JobControl(r) /\ CommandControl(r)
      /\ todo[r] \in Seq(Command) /\ todo[r] # <<>> /\ j \in JobType /\ j.vlan \in Vlans
  BY DEF Typed, RequestTypes, CommandControl, Save, JobType
<1>1. /\ dns' = IF new = entries[r] THEN dns ELSE [dns EXCEPT ![c.vlan] = new]
      /\ todo'[r] = Tail(todo[r]) /\ UNCHANGED <<job, then, clean>> /\ pc[r] = "save"
  BY <1>t DEF Save, RequestTypes
<1>2. CASE j.kind \notin {"reserve", "release"}
  BY <1>1, <1>2, EditedOtherwise DEF Edited
<1>3. CASE then[r] = "synced"
  <2>1. c.vlan = Default
    BY <1>t, <1>3 DEF CommandControl, Syncing, SyncVlan
  <2>2. dns'[j.vlan] = dns[j.vlan]
    BY <1>1, <1>t, <2>1 DEF StateTypes
  <2>3. QED  BY <1>1, <1>3, <2>2, EditedSynced DEF EditOver
<1>4. CASE j.kind = "reserve" /\ then[r] = "sync"
  <2>1. CASE j.name = NoName
    BY <1>1, <1>4, <2>1 DEF Edited
  <2>2. CASE j.name # NoName
    <3>1. todo[r] = <<Add(j.ip, j.name, j.vlan)>>
      BY <1>4, <1>t, <2>2 DEF Edited
    <3>2. c = Add(j.ip, j.name, j.vlan) /\ todo'[r] = <<>>
      BY <1>1, <3>1
    <3>3. c.op = "add" /\ c.ip = j.ip /\ c.name = j.name /\ c.vlan = j.vlan
      BY <3>2 DEF Add
    <3>4. j.ip \in Ips /\ j.name \in Names \ Refused
      <4>1. ~Fails(c)
        BY <1>1, <1>t DEF CommandControl
      <4>2. QED  BY <1>4, <1>t, <2>2, <3>3, <4>1 DEF JobControl, JobType, Fails
    <3>5. entries[r] = file
      BY <1>1, <3>3 DEF Alone
    <3>6. new = AddEntry(file, j.ip, Lower[j.name])
      BY <3>3, <3>5 DEF Apply
    <3>7. Lower[j.name] \in NamesAt(new, j.ip)
      <4>1. WellFormed(file) /\ Lower[j.name] \in LowerNames
        BY <1>t, <3>4, LowerFacts DEF StateTypes
      <4> HIDE DEF new, file, j
      <4>2. \E k \in DOMAIN new : new[k].ip = j.ip /\ Lower[j.name] \in ToSet(new[k].names)
        BY <3>4, <3>6, <4>1, AddEntryFacts
      <4>3. QED  BY <4>2, NamesAtDef
    <3>8. dns'[j.vlan] = new
      BY <1>1, <1>t, <3>3, <3>5 DEF StateTypes
    <3>9. QED  BY <1>1, <1>4, <3>2, <3>7, <3>8 DEF Edited
  <2>3. QED  BY <2>1, <2>2
<1>5. CASE j.kind = "release" /\ then[r] = "sync"
  <2>1. CASE ~(j.name \in LowerNames /\ clean)
    BY <1>1, <1>5, <2>1 DEF Edited
  <2>2. CASE j.name \in LowerNames /\ clean
    <3>1. todo[r] = <<RemoveName(j.name, j.vlan)>> /\ Clean(file, <<>>)
      BY <1>5, <1>t, <2>2 DEF Edited
    <3>2. c = RemoveName(j.name, j.vlan) /\ todo'[r] = <<>>
      BY <1>1, <3>1
    <3>3. c.op = "remove" /\ c.name = j.name /\ c.vlan = j.vlan
      BY <3>2 DEF RemoveName
    <3>4. entries[r] = file
      BY <1>1, <3>3 DEF Alone
    <3>5. new = RemoveEntry(file, j.name)
      BY <3>3, <3>4 DEF Apply
    <3>6. \A k \in DOMAIN new : j.name \notin ToSet(new[k].names)
      <4>1. WellFormed(file)
        BY <1>t DEF StateTypes
      <4>2. \A i, k \in DOMAIN file :
               i # k => ToSet(file[i].names) \cap ToSet(file[k].names) = {}
        BY <3>1 DEF Clean
      <4> HIDE DEF new, file, j
      <4>3. QED  BY <3>5, <4>1, <4>2, RemoveEntryFacts
    <3>7. dns'[j.vlan] = new
      BY <1>1, <1>t, <3>3, <3>4 DEF StateTypes
    <3> HIDE DEF new
    <3>8. \A i \in Ips : j.name \notin NamesAt(new, i)
      BY <3>6, NamesAtDef
    <3>9. QED  BY <1>1, <1>5, <3>2, <3>7, <3>8 DEF Edited
  <2>3. QED  BY <2>1, <2>2
<1>6. then[r] \in {"sync", "synced"} \/ j.kind \notin {"reserve", "release"}
  BY <1>1, <1>t DEF JobControl, RequestTypes
<1>7. QED  BY <1>2, <1>3, <1>4, <1>5, <1>6

\* A request that moves on, alone.
LEMMA EditedMove ==
    ASSUME Typed, Alone, NEW r \in Requests, Request(r), ~\E j \in Jobs : Begin(r, j),
           lone, job[r].vlan # Default, Edited(r)
    PROVE  Edited(r)'
<1>t. /\ RequestTypes /\ JobControl(r) /\ CommandControl(r) /\ job[r] \in JobType
  BY DEF Typed, RequestTypes
<1>1. ASSUME NEW ok, Answer(r, ok) PROVE Edited(r)'
  <2>1. job'[r].kind = "none"
    BY <1>1, <1>t, AnswerEffect, NoJobType
  <2>2. QED  BY <2>1 DEF Edited
<1>2. CASE Check(r)
  <2>1. CASE Goto(r, "insert") /\ UNCHANGED job
    BY <1>2, <2>1, EditedSame DEF Check, Goto
  <2>2. QED  BY <1>1, <1>2, <2>1 DEF Check
<1>3. CASE Insert(r)
  <2>1. CASE Answer(r, FALSE)
    BY <1>1, <2>1
  <2>2. CASE ~Answer(r, FALSE)
    <3>1. /\ job'[r] = job[r] /\ then'[r] = "sync" /\ job[r].kind = "reserve"
          /\ job[r].name # NoName => todo'[r] = <<Add(job[r].ip, job[r].name, job[r].vlan)>>
      BY <1>3, <1>t, <2>2 DEF Insert, RunCommands, RequestTypes, JobControl
    <3>2. QED  BY <3>1 DEF Edited, EditOver
  <2>3. QED  BY <2>1, <2>2
<1>4. CASE Lookup(r)
  <2>1. then'[r] = "end"
    BY <1>4, <1>t DEF Lookup, Goto, JobControl
  <2>2. QED  BY <2>1 DEF Edited, EditOver
<1>5. CASE Delete(r)
  <2>1. /\ job'[r] = job[r] /\ then'[r] = "sync" /\ job[r].kind = "release"
        /\ clean' = Clean(dns[job[r].vlan], <<>>) /\ UNCHANGED dns
        /\ job[r].name # NoName => todo'[r] = <<RemoveName(job[r].name, job[r].vlan)>>
    BY <1>5, <1>t DEF Delete, RunCommands, RequestTypes, JobControl
  <2>2. NoName \notin LowerNames
    BY LowerFacts, LocalDnsAssumption
  <2>3. ASSUME job[r].name \in LowerNames, clean'
        PROVE  /\ todo'[r] = <<RemoveName(job[r].name, job[r].vlan)>> /\ todo'[r] # <<>>
               /\ Clean(dns'[job[r].vlan], <<>>)
    BY <2>1, <2>2, <2>3
  <2>4. QED  BY <2>1, <2>3 DEF Edited, EditOver
<1>6. CASE Query(r) \/ List(r) \/ Update(r)
  <2>1. job'[r] = job[r] /\ job[r].kind \notin {"reserve", "release"}
    BY <1>6, <1>t DEF Query, List, Update, JobControl
  <2>2. QED  BY <2>1 DEF Edited
<1>7. CASE SyncAll(r)
  <2>1. /\ UNCHANGED <<dns, job, clean>> /\ then'[r] = "synced" /\ pc[r] = "sync"
    BY <1>7, <1>t DEF SyncAll, Synchronise, RunCommands, RequestTypes
  <2>2. CASE job[r].kind = "rename"
    BY <2>1, <2>2 DEF Edited
  <2>3. CASE job[r].kind # "rename"
    <3>1. EditOver(r)
      BY <1>t, <2>1, <2>3 DEF JobControl, EditOver
    <3>2. QED  BY <2>1, <3>1, EditedSynced
  <2>4. QED  BY <2>2, <2>3
<1>8. CASE NextTurn(r)
  <2>1. UNCHANGED <<dns, job, clean, then>> /\ Syncing(r)
    BY <1>8 DEF NextTurn
  <2>2. CASE then[r] = "synced"
    BY <2>1, <2>2, EditedSynced DEF EditOver
  <2>3. CASE then[r] = "resynced"
    <3>1. job'[r].kind = "resync"
      BY <1>t, <2>1, <2>3 DEF JobControl
    <3>2. QED  BY <3>1 DEF Edited
  <2>4. QED  BY <2>1, <2>2, <2>3 DEF Syncing
<1>9. CASE Load(r)
  BY <1>9, EditedSame DEF Load
<1>10. CASE Save(r)
  BY <1>10, EditedSave
<1>11. CASE Done(r)
  <2>1. CASE Goto(r, then[r]) /\ UNCHANGED job
    BY <1>11, <2>1, EditedSame DEF Done, Goto
  <2>2. QED  BY <1>1, <1>11, <2>1 DEF Done
<1>12. CASE CommandFails(r) \/ Stop(r)
  BY <1>1, <1>12 DEF CommandFails, Stop
<1>13. QED  BY <1>2, <1>3, <1>4, <1>5, <1>6, <1>7, <1>8, <1>9, <1>10, <1>11, <1>12 DEF Request

\* A successful answer comes after the commands.
LEMMA AnswerAfter ==
    ASSUME Typed, NEW r \in Requests, Request(r), ~\E j \in Jobs : Begin(r, j),
           lone, result' # NoJob, ~UNCHANGED result
    PROVE  /\ result' = job[r] /\ UNCHANGED <<hosts, dns, clean>>
           /\ job[r].kind \in {"reserve", "release", "rename"} => then[r] = "synced"
           /\ job[r].kind = "resync" =>
                 /\ then[r] = "resynced" /\ todo[r] = <<>> /\ Done(r)
                 /\ at[r] = Len(listing[r]) + Len(rows[r])
<1>t. /\ RequestTypes /\ JobControl(r) /\ CommandControl(r)
  BY DEF Typed
<1>1. ASSUME Answer(r, FALSE) PROVE FALSE
  BY <1>1 DEF Answer
<1>2. \/ CommandFails(r) /\ Answer(r, then[r] = "synced")
      \/ Done(r) /\ Answer(r, TRUE) /\ then[r] \notin {"update", "sync"}
  BY <1>1 DEF Request, Check, Insert, Lookup, Delete, Query, List, Update, SyncAll,
     Synchronise, Goto, RunCommands, NextTurn, CommandFails, Load, Save, Done, Stop
<1>3. CASE CommandFails(r) /\ Answer(r, then[r] = "synced")
  <2>1. then[r] = "synced" /\ result' = job[r] /\ UNCHANGED <<hosts, dns, clean>>
    BY <1>3 DEF Answer, CommandFails
  <2>2. job[r].kind # "resync"
    BY <1>t, <2>1 DEF JobControl
  <2>3. QED  BY <2>1, <2>2
<1>4. CASE Done(r) /\ Answer(r, TRUE) /\ then[r] \notin {"update", "sync"}
  <2>1. /\ pc[r] = "run" /\ todo[r] = <<>> /\ result' = job[r]
        /\ UNCHANGED <<hosts, dns, clean>>
        /\ Syncing(r) => at[r] = Len(listing[r]) + Len(rows[r])
    BY <1>4 DEF Answer, Done
  <2>2. /\ job[r].kind \in {"reserve", "release", "rename"} => then[r] = "synced"
        /\ job[r].kind = "resync" => then[r] = "resynced"
    BY <1>4, <1>t, <2>1 DEF JobControl, RequestTypes
  <2>3. QED  BY <1>4, <2>1, <2>2 DEF Syncing
<1>5. QED  BY <1>2, <1>3, <1>4

LEMMA EditInit ==
    ASSUME Init
    PROVE  EditInv
BY NoJobType DEF Init, EditInv, VlanEditsShow, Edited

LEMMA EditStep ==
    ASSUME Typed, Alone, EditInv, [Next]_vars
    PROVE  EditInv'
<1>t. RequestTypes
  BY DEF Typed
<1>n. ASSUME result'.kind = "none" PROVE VlanEditsShow'
  BY <1>n DEF VlanEditsShow
<1>i. ASSUME NEW s \in Requests, Typed, pc[s] = "idle" PROVE job[s].kind = "none"
  BY <1>i DEF Typed, JobControl
<1>1. ASSUME NEW r \in Requests, NEW j \in Jobs, Begin(r, j) PROVE EditInv'
  <2>1. /\ lone' = Quiet /\ result' = NoJob /\ Others(r) /\ then'[r] = "end"
    BY <1>1, <1>t DEF Begin, Others, Untouched, RequestTypes
  <2>2. Edited(r)'
    BY <2>1 DEF Edited, EditOver
  <2>3. ASSUME NEW s \in Requests \ {r}, lone' PROVE Edited(s)'
    <3>1. pc[s] = "idle"
      BY <2>1, <2>3 DEF Quiet
    <3>2. job'[s].kind = "none"
      BY <1>i, <2>1, <3>1 DEF Others, Untouched
    <3>3. QED  BY <3>2 DEF Edited
  <2>4. QED  BY <1>n, <2>1, <2>2, <2>3, NoJobType DEF EditInv
<1>2. ASSUME NEW r \in Requests, Request(r), ~\E j \in Jobs : Begin(r, j) PROVE EditInv'
  <2>1. /\ pc[r] # "idle" /\ UNCHANGED lone /\ Others(r)
    BY <1>2, <1>t, MoveFacts, OthersStep
  <2>2. ASSUME lone, NEW s \in Requests \ {r} PROVE Edited(s)'
    <3>1. pc[s] = "idle"
      BY <2>1, <2>2 DEF Alone
    <3>2. job'[s].kind = "none"
      BY <1>i, <2>1, <3>1 DEF Others, Untouched
    <3>3. QED  BY <3>2 DEF Edited
  <2>3. ASSUME lone, job'[r].vlan # Default PROVE Edited(r)'
    <3>1. CASE job[r].vlan # Default
      BY <1>2, <2>3, <3>1, EditedMove DEF EditInv
    <3>2. CASE job[r].vlan = Default
      <4>1. job'[r].vlan = Default
        BY <1>2, <1>t, <3>2 DEF Request, Check, Insert, Lookup, Delete, Query, List, Update,
           SyncAll, NextTurn, CommandFails, Load, Save, Done, Stop, Answer, NoJob, Job,
           RequestTypes, JobType
      <4>2. QED  BY <2>3, <4>1
    <3>3. QED  BY <3>1, <3>2
  <2>4. VlanEditsShow'
    <3>1. CASE UNCHANGED result
      BY <1>n, <2>1, <3>1 DEF Alone, Quiet
    <3>2. CASE result' = NoJob
      BY <1>n, <3>2, NoJobType
    <3>3. CASE ~UNCHANGED result /\ result' # NoJob
      <4>1. lone
        BY <1>2, <3>3, MoveFacts DEF Answer
      <4>2. /\ result' = job[r] /\ UNCHANGED <<dns, clean>>
            /\ job[r].kind \in {"reserve", "release"} => then[r] = "synced"
        BY <1>2, <3>3, <4>1, AnswerAfter
      <4>3. job[r].vlan # Default => Edited(r)
        BY <4>1 DEF EditInv
      <4>4. QED  BY <4>2, <4>3 DEF VlanEditsShow, Edited, EditOver
    <3>4. QED  BY <3>1, <3>2, <3>3
  <2>5. QED  BY <2>1, <2>2, <2>3, <2>4 DEF EditInv
<1>3. CASE Reboot
  <2>1. result' = NoJob /\ \A s \in Requests : job'[s] = NoJob
    BY <1>3 DEF Reboot
  <2>2. \A s \in Requests : Edited(s)'
    BY <2>1, NoJobType DEF Edited
  <2>3. QED  BY <1>n, <2>1, <2>2, NoJobType DEF EditInv
<1>4. CASE UNCHANGED vars
  <2>1. VlanEditsShow'
    BY <1>4 DEF vars, requestVars, EditInv, VlanEditsShow
  <2>2. ASSUME lone, NEW r \in Requests, job[r].vlan # Default PROVE Edited(r)'
    BY <1>4, <2>2, EditedSame DEF vars, requestVars, EditInv
  <2>3. QED  BY <1>4, <2>1, <2>2 DEF vars, requestVars, EditInv
<1>5. QED  BY <1>1, <1>2, <1>3, <1>4 DEF Next

\* Outside the default VLAN, whatever other requests, failures and half-done
\* edits came before, a reservation made alone and without error is served under
\* its name, and the name of one released alone is gone, if it was in lower case
\* and no other address had it.
THEOREM VlanEditsAreShown == Spec => []VlanEditsShow
<1>1. Init => EditInv
  BY EditInit
<1>2. Typed /\ Alone /\ EditInv /\ [Next]_vars => EditInv'
  BY EditStep
<1>3. EditInv => VlanEditsShow
  BY DEF EditInv
<1>4. QED  BY <1>1, <1>2, <1>3, AlwaysAlone, PTL DEF Spec

(***************************************************************************)
(* Resynchronisation: the commands of the first loop.                      *)
(***************************************************************************)

\* What a resync alone works on: a listing, reservations and a file.
Setting(L, res, F) ==
    /\ WellFormed(L) /\ WellFormed(F)
    /\ res \in Seq(Reservation) /\ \A m \in DOMAIN res : res[m].name # NoName
    /\ Clean(L, res)

\* The fields of an entry.
LEMMA EntryFacts ==
    ASSUME NEW file, WellFormed(file), NEW k \in DOMAIN file
    PROVE  /\ file[k].ip \in Ips /\ file[k].names \in Seq(LowerNames)
           /\ file[k].names # <<>> /\ 1 \in DOMAIN file[k].names
           /\ file[k].names[1] \in LowerNames /\ file[k].names[1] \in ToSet(file[k].names)
<1>1. file[k] \in Entry
  BY DEF WellFormed
<1>2. file[k].ip \in Ips /\ file[k].names \in Seq(LowerNames)
  BY <1>1 DEF Entry
<1>3. file[k].names # <<>>
  BY DEF WellFormed
<1> DEFINE ns == file[k].names
<1> HIDE DEF ns
<1>4. ns \in Seq(LowerNames) /\ ns # <<>>
  BY <1>2, <1>3 DEF ns
<1>5. 1 \in DOMAIN ns /\ ns[1] \in LowerNames
  BY <1>4
<1>6. ns[1] \in ToSet(ns)
  BY <1>5 DEF ToSet
<1>7. QED  BY <1>2, <1>3, <1>5, <1>6 DEF ns

\* Commands that replace an entry first remove its first name.
LEMMA ReplacesFacts ==
    ASSUME NEW c, NEW ip, NEW ns \in Seq(LowerNames), NEW res, NEW vlan \in Vlans,
           Replaces(c, ip, ns, res, vlan), c # <<>>
    PROVE  /\ ns = <<>> => \E m \in DOMAIN res : /\ res[m].ip = ip
                                                 /\ c = <<Add(ip, res[m].name, vlan)>>
           /\ ns # <<>> => /\ c[1] = RemoveName(ns[1], vlan)
                           /\ Replaces(Tail(c), ip, Tail(ns), res, vlan)
<1> DEFINE removals(s) == RemoveAllNames([ip |-> ip, names |-> s], vlan)
<1>1. ASSUME NEW s \in Seq(LowerNames)
      PROVE  /\ removals(s) \in Seq(RemoveCommand) /\ Len(removals(s)) = Len(s)
             /\ \A k \in 1..Len(s) : removals(s)[k] = RemoveName(s[k], vlan)
  <2> DEFINE e == [ip |-> ip, names |-> s]
  <2>1. e.names = s
    OBVIOUS
  <2> HIDE DEF e
  <2>2. /\ RemoveAllNames(e, vlan) \in Seq(RemoveCommand)
        /\ Len(RemoveAllNames(e, vlan)) = Len(s)
        /\ \A k \in 1..Len(s) : RemoveAllNames(e, vlan)[k] = RemoveName(s[k], vlan)
    BY <2>1, RemovalsFacts
  <2>3. QED  BY <2>2 DEF e
<1>2. \/ /\ \A m \in DOMAIN res : res[m].ip # ip
         /\ c = removals(ns)
      \/ \E m \in DOMAIN res : /\ res[m].ip = ip
                               /\ c = Append(removals(ns), Add(ip, res[m].name, vlan))
  BY DEF Replaces
<1>d. ASSUME NEW d, NEW s,
             \/ /\ \A m \in DOMAIN res : res[m].ip # ip
                /\ d = removals(s)
             \/ \E m \in DOMAIN res : /\ res[m].ip = ip
                                      /\ d = Append(removals(s), Add(ip, res[m].name, vlan))
      PROVE  Replaces(d, ip, s, res, vlan)
  BY <1>d DEF Replaces
<1> HIDE DEF removals
<1>3. CASE ns = <<>>
  <2>1. removals(ns) = <<>>
    BY <1>1, <1>3, EmptySeq
  <2>2. ASSUME NEW x PROVE Append(<<>>, x) = <<x>>
    OBVIOUS
  <2>3. PICK m \in DOMAIN res : /\ res[m].ip = ip
                                /\ c = Append(<<>>, Add(ip, res[m].name, vlan))
    BY <1>2, <2>1
  <2>4. QED  BY <1>3, <2>2, <2>3
<1>4. CASE ns # <<>>
  <2> DEFINE a == removals(ns)
             b == removals(Tail(ns))
  <2>1. Tail(ns) \in Seq(LowerNames) /\ Len(Tail(ns)) = Len(ns) - 1 /\ Len(ns) \in Nat \ {0}
        /\ \A k \in 1..(Len(ns) - 1) : Tail(ns)[k] = ns[k + 1]
    BY <1>4
  <2>2. /\ a \in Seq(RemoveCommand) /\ Len(a) = Len(ns) /\ a # <<>>
        /\ \A k \in 1..Len(ns) : a[k] = RemoveName(ns[k], vlan)
    BY <1>1, <2>1, EmptySeq
  <2>3. /\ b \in Seq(RemoveCommand) /\ Len(b) = Len(ns) - 1
        /\ \A k \in 1..(Len(ns) - 1) : b[k] = RemoveName(Tail(ns)[k], vlan)
    BY <1>1, <2>1
  <2> HIDE DEF a, b
  <2>4. Tail(a) \in Seq(RemoveCommand) /\ Len(Tail(a)) = Len(ns) - 1
        /\ \A k \in 1..(Len(ns) - 1) : Tail(a)[k] = a[k + 1]
    BY <2>1, <2>2
  <2>5. Tail(a) = b
    <3>1. \A k \in 1..(Len(ns) - 1) : Tail(a)[k] = b[k]
      BY <2>1, <2>2, <2>3, <2>4
    <3>2. QED  BY <2>3, <2>4, <3>1, SeqEqual
  <2>6. a[1] = RemoveName(ns[1], vlan)
    BY <2>1, <2>2
  <2>7. CASE (\A m \in DOMAIN res : res[m].ip # ip) /\ c = a
    BY <1>4, <1>d, <2>5, <2>6, <2>7 DEF b
  <2>8. CASE \E m \in DOMAIN res : /\ res[m].ip = ip
                                   /\ c = Append(a, Add(ip, res[m].name, vlan))
    <3>1. PICK m \in DOMAIN res : /\ res[m].ip = ip
                                  /\ c = Append(a, Add(ip, res[m].name, vlan))
      BY <2>8
    <3> DEFINE x == Add(ip, res[m].name, vlan)
               T == RemoveCommand \cup {x}
    <3>2. a \in Seq(T) /\ b \in Seq(T) /\ x \in T
      BY <2>2, <2>3
    <3> HIDE DEF x, T
    <3>3. Tail(Append(a, x)) = Append(Tail(a), x) /\ Append(a, x)[1] = a[1]
      BY <2>1, <2>2, <3>2
    <3>4. c[1] = RemoveName(ns[1], vlan) /\ Tail(c) = Append(b, x)
      BY <2>5, <2>6, <3>1, <3>3 DEF x
    <3>5. QED  BY <1>4, <1>d, <3>1, <3>4 DEF b, x
  <2>9. QED  BY <1>2, <2>7, <2>8 DEF a
<1>5. QED  BY <1>3, <1>4

\* While the entry has names, the next command removes the first of them.
LEMMA ReplacesRemoval ==
    ASSUME NEW c, NEW ip, NEW ns \in Seq(LowerNames), NEW res, NEW vlan \in Vlans,
           Replaces(c, ip, ns, res, vlan), c # <<>>, ns # <<>>
    PROVE  /\ c[1] = RemoveName(ns[1], vlan)
           /\ Replaces(Tail(c), ip, Tail(ns), res, vlan)
BY ReplacesFacts

\* A list of several names has others after the first.
LEMMA TailNonEmpty ==
    ASSUME NEW T, NEW s \in Seq(T), s # <<>>, s # <<s[1]>>
    PROVE  Tail(s) \in Seq(T) /\ Tail(s) # <<>>
<1>1. Len(s) \in Nat /\ Len(s) # 0
  OBVIOUS
<1>2. Len(s) # 1
  <2>1. ASSUME Len(s) = 1 PROVE FALSE
    <3> DEFINE w == <<s[1]>>
    <3>1. w \in Seq(T) /\ Len(w) = 1 /\ w[1] = s[1]
      BY <2>1
    <3> HIDE DEF w
    <3>2. s = w
      BY <2>1, <3>1, SeqEqual
    <3>3. QED  BY <3>2 DEF w
  <2>2. QED  BY <2>1
<1>3. Tail(s) \in Seq(T) /\ Len(Tail(s)) = Len(s) - 1
  OBVIOUS
<1>4. Len(Tail(s)) # 0
  BY <1>1, <1>2, <1>3
<1>5. QED  BY <1>3, <1>4, EmptySeq

\* Commands that replace an entry that has names start with a removal.
LEMMA ReplacesStart ==
    ASSUME NEW d, NEW ip, NEW s \in Seq(LowerNames), NEW res, NEW vlan \in Vlans,
           Replaces(d, ip, s, res, vlan), s # <<>>
    PROVE  d # <<>> /\ d[1].op = "remove"
<1>1. d # <<>>
  <2> DEFINE e == [ip |-> ip, names |-> s]
             removals == RemoveAllNames(e, vlan)
  <2>1. removals \in Seq(RemoveCommand) /\ Len(removals) = Len(s)
    <3>1. e.names = s
      OBVIOUS
    <3> HIDE DEF e
    <3>2. QED  BY <3>1, RemovalsFacts
  <2>2. d = removals \/ \E x : d = Append(removals, x)
    BY DEF Replaces
  <2> HIDE DEF removals
  <2>3. Len(s) # 0
    OBVIOUS
  <2>4. removals # <<>>
    BY <2>1, <2>3
  <2>5. ASSUME NEW x PROVE Append(removals, x) # <<>>
    BY <2>1
  <2>6. QED  BY <2>2, <2>4, <2>5
<1>2. d[1] = RemoveName(s[1], vlan) /\ Replaces(Tail(d), ip, Tail(s), res, vlan)
  BY <1>1, ReplacesRemoval
<1>3. QED  BY <1>1, <1>2 DEF RemoveName

\* After that, what is left is to add the reserved name, if there is one.
LEMMA ReplacesNone ==
    ASSUME NEW c, NEW ip, NEW res, NEW vlan, Replaces(c, ip, <<>>, res, vlan)
    PROVE  \/ c = <<>> /\ \A m \in DOMAIN res : res[m].ip # ip
           \/ /\ c # <<>> /\ c[1].op = "add"
              /\ \E m \in DOMAIN res : res[m].ip = ip /\ c = <<Add(ip, res[m].name, vlan)>>
<1> DEFINE removals == RemoveAllNames([ip |-> ip, names |-> <<>>], vlan)
<1>1. removals = <<>>
  BY DEF RemoveAllNames
<1>2. \/ c = removals /\ \A m \in DOMAIN res : res[m].ip # ip
      \/ \E m \in DOMAIN res : /\ res[m].ip = ip
                               /\ c = Append(removals, Add(ip, res[m].name, vlan))
  BY DEF Replaces
<1> HIDE DEF removals
<1>3. ASSUME NEW x, c = Append(removals, x) PROVE c = <<x>> /\ c # <<>> /\ c[1] = x
  BY <1>1, <1>3
<1>4. \A n : Add(ip, n, vlan).op = "add"
  BY DEF Add
<1>5. CASE \E m \in DOMAIN res : /\ res[m].ip = ip
                                 /\ c = Append(removals, Add(ip, res[m].name, vlan))
  <2>1. PICK m \in DOMAIN res : /\ res[m].ip = ip
                                /\ c = Append(removals, Add(ip, res[m].name, vlan))
    BY <1>5
  <2> DEFINE x == Add(ip, res[m].name, vlan)
  <2>2. c = <<x>> /\ c # <<>> /\ c[1] = x
    BY <1>3, <2>1
  <2>3. QED  BY <1>4, <2>1, <2>2
<1>6. QED  BY <1>1, <1>2, <1>5

\* Before the first turn the file is the listing.
LEMMA LoopStart ==
    ASSUME NEW L, WellFormed(L), NEW res, NEW vlan
    PROVE  FirstLoop(L, res, 0, <<>>, L, vlan)
<1>1. DOMAIN L = 1..Len(L) /\ Len(L) \in Nat
  BY DEF WellFormed
<1>2. \A i \in DOMAIN L : OldAt(L, res, 0, <<>>, i) /\ ~(i <= 0)
  BY <1>1 DEF OldAt
<1>3. \A i \in DOMAIN L : OldIp(L, res, 0, <<>>, L[i].ip)
  BY <1>2 DEF OldIp
<1>4. EachOldOrNew(L, res, 0, <<>>, L) /\ OldPresent(L, res, 0, <<>>, L)
  BY <1>3 DEF EachOldOrNew, OldPresent
<1>5. OldFirst(L, res, 0, <<>>, L)
  BY <1>1, <1>3 DEF OldFirst
<1>6. ReplacedPresent(L, res, 0, <<>>, L) /\ CurrentEntry(L, res, 0, <<>>, L, vlan)
  BY <1>1, <1>2 DEF ReplacedPresent, CurrentEntry
<1>7. QED  BY <1>4, <1>5, <1>6 DEF FirstLoop

\* The commands for a listed entry: none if it is kept, else they replace it.
LEMMA TurnCommands ==
    ASSUME NEW L, WellFormed(L), NEW res \in Seq(Reservation), NEW q \in DOMAIN L, Clean(L, res),
           \A m \in DOMAIN res : res[m].name # NoName, NEW vlan \in Vlans,
           NEW c, c = EntryCommands(L[q], res, vlan)
    PROVE  \/ Kept(L[q], res) /\ c = <<>>
           \/ /\ ~Kept(L[q], res) /\ c # <<>> /\ c[1].op = "remove"
              /\ Replaces(c, L[q].ip, L[q].names, res, vlan)
<1> DEFINE e == L[q]
           removals == RemoveAllNames(e, vlan)
<1>1. removals = RemoveAllNames([ip |-> e.ip, names |-> e.names], vlan)
  BY DEF RemoveAllNames
<1>2. e.names \in Seq(LowerNames) /\ e.names # <<>>
  BY EntryFacts
<1>3. \A i, m \in DOMAIN res : res[i].ip = res[m].ip => i = m
  BY DEF Clean
<1> HIDE DEF e, removals
<1>4. CASE \E m \in DOMAIN res : res[m].ip = e.ip /\ e.names[1] = res[m].name /\ c = <<>>
  BY <1>4 DEF Kept, e
<1>5. ASSUME \/ (\A m \in DOMAIN res : res[m].ip # e.ip) /\ c = removals
             \/ \E m \in DOMAIN res : /\ res[m].ip = e.ip /\ e.names[1] # res[m].name
                                      /\ c = Append(removals, Add(e.ip, res[m].name, vlan))
      PROVE  /\ ~Kept(e, res) /\ Replaces(c, e.ip, e.names, res, vlan)
             /\ c # <<>> /\ c[1].op = "remove"
  <2>1. ~Kept(e, res)
    BY <1>3, <1>5 DEF Kept
  <2>2. Replaces(c, e.ip, e.names, res, vlan)
    BY <1>1, <1>5 DEF Replaces
  <2>3. /\ removals \in Seq(RemoveCommand) /\ Len(removals) \in Nat \ {0}
    BY <1>2, RemovalsFacts, EmptySeq DEF removals
  <2>4. removals # <<>> /\ removals[1].op = "remove"
    <3>1. removals # <<>> /\ removals[1] \in RemoveCommand
      BY <2>3
    <3>2. QED  BY <3>1 DEF RemoveCommand
  <2>5. ASSUME NEW x, c = Append(removals, x) PROVE c # <<>> /\ c[1] = removals[1]
    <3>1. removals \in Seq(RemoveCommand \cup {x}) /\ x \in RemoveCommand \cup {x}
      BY <2>3
    <3>2. QED  BY <2>3, <2>5, <3>1, AppendProperties, EmptySeq
  <2>6. QED  BY <1>5, <2>1, <2>2, <2>4, <2>5
<1>6. QED  BY <1>4, <1>5, EntryCommandsCases DEF e, removals

\* A turn of the first loop.
LEMMA FirstTurn ==
    ASSUME NEW L, NEW res, NEW F, Setting(L, res, F), NEW vlan \in Vlans,
           NEW p \in Nat, p < Len(L), FirstLoop(L, res, p, <<>>, F, vlan),
           NEW c, c = SyncCommands(L, res, vlan, p + 1)
    PROVE  FirstLoop(L, res, p + 1, c, F, vlan)
<1> DEFINE q == p + 1
<1>t. /\ WellFormed(L) /\ WellFormed(F) /\ DOMAIN L = 1..Len(L) /\ Len(L) \in Nat
      /\ res \in Seq(Reservation) /\ Clean(L, res) /\ \A m \in DOMAIN res : res[m].name # NoName
  BY DEF Setting, WellFormed
<1>1. q \in DOMAIN L /\ c = EntryCommands(L[q], res, vlan)
  BY <1>t DEF SyncCommands
<1>2. \/ Kept(L[q], res) /\ c = <<>>
      \/ /\ ~Kept(L[q], res) /\ c # <<>> /\ c[1].op = "remove"
         /\ Replaces(c, L[q].ip, L[q].names, res, vlan)
  BY <1>1, <1>t, TurnCommands
<1>3. \A i : OldAt(L, res, q, c, i) <=> OldAt(L, res, p, <<>>, i)
  <2>1. \A i \in DOMAIN L : (i > p) <=> (i > q \/ i = q)
    BY <1>t
  <2>2. QED  BY <1>2, <2>1 DEF OldAt
<1>4. \A ip : OldIp(L, res, q, c, ip) <=> OldIp(L, res, p, <<>>, ip)
  BY <1>3 DEF OldIp
<1>5. EachOldOrNew(L, res, q, c, F)
  BY <1>4 DEF FirstLoop, EachOldOrNew
<1>6. OldFirst(L, res, q, c, F)
  BY <1>4 DEF FirstLoop, OldFirst
<1>7. \A i \in DOMAIN L : OldAt(L, res, q, c, i) =>
         \E k \in DOMAIN F : F[k].ip = L[i].ip /\ F[k].names = L[i].names
  <2>1. OldPresent(L, res, p, <<>>, F)
    BY DEF FirstLoop
  <2>2. \A i \in DOMAIN L : OldAt(L, res, p, <<>>, i) => i # p \/ Kept(L[i], res)
    BY <1>t DEF OldAt
  <2>3. QED  BY <1>3, <2>1, <2>2 DEF OldPresent
<1>8. OldPresent(L, res, q, c, F)
  BY <1>7 DEF OldPresent
<1>9. OldAt(L, res, q, c, q)
  BY <1>1, <1>2 DEF OldAt
<1>10. ReplacedPresent(L, res, q, c, F)
  <2> SUFFICES ASSUME NEW i \in DOMAIN L, i <= q, i = q => c = <<>>,
                      \E m \in DOMAIN res : res[m].ip = L[i].ip
               PROVE  \E k \in DOMAIN F : F[k].ip = L[i].ip
    BY DEF ReplacedPresent
  <2>1. CASE i = q
    BY <1>7, <1>9, <2>1
  <2>2. CASE i # q
    <3>1. i <= p
      BY <1>t, <2>2
    <3>2. QED  BY <3>1 DEF FirstLoop, ReplacedPresent
  <2>3. QED  BY <2>1, <2>2
<1>11. CurrentEntry(L, res, q, c, F, vlan)
  <2> SUFFICES ASSUME c # <<>> PROVE CurrentEntry(L, res, q, c, F, vlan)
    BY DEF CurrentEntry
  <2>1. PICK k \in DOMAIN F : F[k].ip = L[q].ip /\ F[k].names = L[q].names
    BY <1>1, <1>7, <1>9
  <2>2. \A j \in DOMAIN F : F[j].ip = L[q].ip => F[j].names = L[q].names
    BY <1>t, <2>1 DEF WellFormed
  <2>3. L[q].names # <<>>
    BY <1>1, <1>t, EntryFacts
  <2>4. QED  BY <1>2, <2>1, <2>2, <2>3 DEF CurrentEntry
<1>12. q # 0
  OBVIOUS
<1>13. QED  BY <1>5, <1>6, <1>8, <1>10, <1>11, <1>12 DEF FirstLoop

\* The k-th entry of the file is the one whose names are being removed, and comes
\* first among those that have the next name.
Current(L, res, F, vlan, p, c, k) ==
    /\ F[k].ip = L[p].ip /\ ToSet(F[k].names) \subseteq ToSet(L[p].names)
    /\ c[1].name = F[k].names[1]
    /\ Replaces(Tail(c), L[p].ip, Tail(F[k].names), res, vlan)
    /\ \A j \in DOMAIN F : c[1].name \in ToSet(F[j].names) => k <= j

LEMMA CurrentFirst ==
    ASSUME NEW L, NEW res, NEW F, Setting(L, res, F), NEW vlan \in Vlans, NEW p \in DOMAIN L,
           NEW c, FirstLoop(L, res, p, c, F, vlan), c # <<>>, c[1].op = "remove"
    PROVE  ~Kept(L[p], res) /\ \E k \in DOMAIN F : Current(L, res, F, vlan, p, c, k)
<1>t. /\ WellFormed(L) /\ WellFormed(F) /\ DOMAIN L = 1..Len(L) /\ Len(L) \in Nat
      /\ DOMAIN F = 1..Len(F) /\ Len(F) \in Nat
  BY DEF Setting, WellFormed
<1>c. \A i, k \in DOMAIN L : i # k => ToSet(L[i].names) \cap ToSet(L[k].names) = {}
  BY DEF Setting, Clean
<1>1. PICK ns \in {<<>>} \cup {F[k].names : k \in DOMAIN F} :
              /\ Replaces(c, L[p].ip, ns, res, vlan)
              /\ ToSet(ns) \subseteq ToSet(L[p].names)
              /\ \A k \in DOMAIN F : F[k].ip = L[p].ip => ns # <<>> /\ F[k].names = ns
  BY DEF FirstLoop, CurrentEntry
<1>2. ~Kept(L[p], res)
  BY DEF FirstLoop, CurrentEntry
<1>3. OldAt(L, res, p, c, p)
  BY DEF OldAt
<1>4. PICK k \in DOMAIN F : F[k].ip = L[p].ip
  BY <1>3 DEF FirstLoop, OldPresent
<1>5. ns # <<>> /\ F[k].names = ns /\ ns \in Seq(LowerNames)
  BY <1>1, <1>4, <1>t, EntryFacts
<1> DEFINE ip == L[p].ip
           name == c[1].name
<1>6. c[1] = RemoveName(ns[1], vlan) /\ Replaces(Tail(c), ip, Tail(ns), res, vlan)
  <2>1. Replaces(c, ip, ns, res, vlan)
    BY <1>1
  <2> HIDE DEF ip
  <2>2. QED  BY <1>5, <2>1, ReplacesRemoval
<1>7. name = ns[1]
  BY <1>6 DEF RemoveName
<1>8. name \in ToSet(F[k].names)
  BY <1>5, <1>7, <1>t, EntryFacts
<1>9. ASSUME NEW j \in DOMAIN F, name \in ToSet(F[j].names), j <= k PROVE j = k
  <2>1. OldIp(L, res, p, c, F[k].ip)
    BY <1>3, <1>4 DEF OldIp
  <2>2. j \in 1..k
    BY <1>9, <1>t
  <2>3. OldIp(L, res, p, c, F[j].ip)
    BY <2>1, <2>2 DEF FirstLoop, OldFirst
  <2>4. PICK i \in DOMAIN L : OldAt(L, res, p, c, i) /\ L[i].ip = F[j].ip
    BY <2>3 DEF OldIp
  <2>5. PICK g \in DOMAIN F : F[g].ip = L[i].ip /\ ToSet(F[g].names) \subseteq ToSet(L[i].names)
    BY <2>4 DEF FirstLoop, OldPresent
  <2>6. \A x, y \in DOMAIN F : F[x].ip = F[y].ip => x = y
    BY <1>t DEF WellFormed
  <2>7. g = j
    BY <2>4, <2>5, <2>6
  <2>8. name \in ToSet(L[i].names) /\ name \in ToSet(L[p].names)
    BY <1>1, <1>5, <1>8, <1>9, <2>5, <2>7
  <2>9. i = p
    BY <1>c, <2>8
  <2>10. QED  BY <1>4, <2>4, <2>6, <2>9
<1>10. \A j \in DOMAIN F : name \in ToSet(F[j].names) => k <= j
  <2> HIDE DEF name
  <2>1. QED  BY <1>9, <1>t
<1>11. QED  BY <1>1, <1>2, <1>4, <1>5, <1>6, <1>7, <1>10 DEF Current

\* The file without its k-th entry, and with fewer names in it.
Without(F, k, new) ==
    /\ WellFormed(new)
    /\ \A j \in DOMAIN new : \E i \in DOMAIN F :
          new[j] = F[i] /\ i # k /\ i = (IF j < k THEN j ELSE j + 1)
    /\ \A i \in DOMAIN F : i # k => \E j \in DOMAIN new : new[j] = F[i]

Shortened(F, k, name, new) ==
    /\ WellFormed(new) /\ DOMAIN new = DOMAIN F
    /\ \A j \in DOMAIN F : new[j].ip = F[j].ip
    /\ \A j \in DOMAIN F : j # k => new[j] = F[j]
    /\ F[k].names[1] = name => new[k].names = Tail(F[k].names)
    /\ ToSet(new[k].names) \subseteq ToSet(F[k].names)

\* Removing a name from the first entry that has it.
LEMMA RemoveFromFirst ==
    ASSUME NEW F, WellFormed(F), NEW k \in DOMAIN F, NEW name \in ToSet(F[k].names),
           \A j \in DOMAIN F : name \in ToSet(F[j].names) => k <= j
    PROVE  \/ F[k].names = <<name>> /\ Without(F, k, RemoveEntry(F, name))
           \/ F[k].names # <<name>> /\ Shortened(F, k, name, RemoveEntry(F, name))
<1> DEFINE new == RemoveEntry(F, name)
<1>t. F \in Seq(Entry) /\ DOMAIN F = 1..Len(F) /\ Len(F) \in Nat
  BY DEF WellFormed
<1>2. PICK i \in DOMAIN F :
        /\ name \in ToSet(F[i].names)
        /\ \A j \in DOMAIN F : name \in ToSet(F[j].names) => i <= j
        /\ \/ F[i].names = <<name>> /\ new = RemoveAt(F, i)
           \/ F[i].names # <<name>> /\ new = SetNames(F, i, RemoveFirst(F[i].names, name))
  BY <1>t, RemoveEntryCases
<1> HIDE DEF new
<1>3. i = k
  BY <1>2, <1>t
<1>4. CASE F[k].names = <<name>> /\ new = RemoveAt(F, k)
  BY <1>4, RemoveAtFile DEF Without, new
<1>5. CASE F[k].names # <<name>> /\ new = SetNames(F, k, RemoveFirst(F[k].names, name))
  <2>1. /\ WellFormed(new) /\ DOMAIN new = DOMAIN F
        /\ \A j \in DOMAIN F : new[j].ip = F[j].ip
        /\ \A j \in DOMAIN F : j # k => new[j] = F[j]
        /\ ToSet(new[k].names) = ToSet(F[k].names) \ {name}
        /\ F[k].names[1] = name => new[k].names = Tail(F[k].names)
    BY <1>5, LoseName
  <2>2. QED  BY <1>5, <2>1 DEF Shortened, new
<1>6. QED  BY <1>2, <1>3, <1>4, <1>5

\* The last name of the entry goes, and the entry with it.
LEMMA FirstRemoveLast ==
    ASSUME NEW L, NEW res, NEW F, Setting(L, res, F), NEW vlan \in Vlans, NEW p \in DOMAIN L,
           NEW c, FirstLoop(L, res, p, c, F, vlan), c # <<>>, c[1].op = "remove",
           ~Kept(L[p], res), NEW k \in DOMAIN F, F[k].ip = L[p].ip,
           Replaces(Tail(c), L[p].ip, <<>>, res, vlan),
           NEW new, Without(F, k, new)
    PROVE  FirstLoop(L, res, p, Tail(c), new, vlan)
<1> DEFINE d == Tail(c)
<1>t. /\ WellFormed(L) /\ WellFormed(F) /\ DOMAIN F = 1..Len(F) /\ Len(F) \in Nat
      /\ DOMAIN L = 1..Len(L) /\ Len(L) \in Nat
  BY DEF Setting, WellFormed
<1>u. /\ \A x, y \in DOMAIN F : F[x].ip = F[y].ip => x = y
      /\ \A x, y \in DOMAIN L : L[x].ip = L[y].ip => x = y
  BY <1>t DEF WellFormed
<1>1. /\ WellFormed(new)
      /\ \A j \in DOMAIN new : \E i \in DOMAIN F :
            new[j] = F[i] /\ i # k /\ i = (IF j < k THEN j ELSE j + 1)
      /\ \A i \in DOMAIN F : i # k => \E j \in DOMAIN new : new[j] = F[i]
  BY DEF Without
<1>2. \/ d = <<>> /\ \A m \in DOMAIN res : res[m].ip # L[p].ip
      \/ d # <<>> /\ d[1].op = "add"
  BY ReplacesNone
<1> HIDE DEF d
<1>4. \A i : OldAt(L, res, p, d, i) <=> OldAt(L, res, p, c, i) /\ i # p
  <2>1. ~(p > p)
    BY <1>t
  <2>2. QED  BY <1>2, <2>1 DEF OldAt
<1>5. \A ip : ip # L[p].ip => (OldIp(L, res, p, d, ip) <=> OldIp(L, res, p, c, ip))
  BY <1>4 DEF OldIp
<1>6. \A i \in DOMAIN F : i # k => F[i].ip # L[p].ip
  BY <1>u
<1>7. EachOldOrNew(L, res, p, d, new)
  <2> SUFFICES ASSUME NEW j \in DOMAIN new
               PROVE  OldIp(L, res, p, d, new[j].ip) \/ NewEntry(new[j], res)
    BY DEF EachOldOrNew
  <2>1. PICK i \in DOMAIN F : new[j] = F[i] /\ i # k
    BY <1>1
  <2>2. OldIp(L, res, p, c, F[i].ip) \/ NewEntry(F[i], res)
    BY DEF FirstLoop, EachOldOrNew
  <2>3. QED  BY <1>5, <1>6, <2>1, <2>2
<1>8. OldFirst(L, res, p, d, new)
  <2> SUFFICES ASSUME NEW j \in DOMAIN new, OldIp(L, res, p, d, new[j].ip), NEW g \in 1..j
               PROVE  OldIp(L, res, p, d, new[g].ip)
    BY DEF OldFirst
  <2>1. DOMAIN new = 1..Len(new) /\ Len(new) \in Nat
    BY <1>1 DEF WellFormed
  <2>2. g \in DOMAIN new /\ g <= j /\ g \in Nat /\ j \in Nat
    BY <2>1
  <2>3. PICK i \in DOMAIN F : new[j] = F[i] /\ i # k /\ i = (IF j < k THEN j ELSE j + 1)
    BY <1>1
  <2>4. PICK h \in DOMAIN F : new[g] = F[h] /\ h # k /\ h = (IF g < k THEN g ELSE g + 1)
    BY <1>1, <2>2
  <2>5. h \in 1..i
    BY <1>t, <2>2, <2>3, <2>4
  <2>6. OldIp(L, res, p, c, F[i].ip)
    BY <1>5, <1>6, <2>3
  <2>7. OldIp(L, res, p, c, F[h].ip)
    BY <2>5, <2>6 DEF FirstLoop, OldFirst
  <2>8. QED  BY <1>5, <1>6, <2>4, <2>7
<1>9. OldPresent(L, res, p, d, new)
  <2> SUFFICES ASSUME NEW i \in DOMAIN L, OldAt(L, res, p, d, i)
               PROVE  \E j \in DOMAIN new :
                         /\ new[j].ip = L[i].ip
                         /\ ToSet(new[j].names) \subseteq ToSet(L[i].names)
                         /\ i # p \/ Kept(L[i], res) => new[j].names = L[i].names
    BY DEF OldPresent
  <2>1. OldAt(L, res, p, c, i) /\ i # p
    BY <1>4
  <2>2. PICK g \in DOMAIN F : F[g].ip = L[i].ip /\ F[g].names = L[i].names
    BY <2>1 DEF FirstLoop, OldPresent
  <2>3. g # k
    BY <1>u, <2>1, <2>2
  <2>4. PICK j \in DOMAIN new : new[j] = F[g]
    BY <1>1, <2>3
  <2>5. QED  BY <2>2, <2>4
<1>10. ReplacedPresent(L, res, p, d, new)
  <2> SUFFICES ASSUME NEW i \in DOMAIN L, i <= p, i = p => d = <<>>,
                      \E m \in DOMAIN res : res[m].ip = L[i].ip
               PROVE  \E j \in DOMAIN new : new[j].ip = L[i].ip
    BY DEF ReplacedPresent
  <2>1. i # p
    BY <1>2
  <2>2. PICK g \in DOMAIN F : F[g].ip = L[i].ip
    BY <2>1 DEF FirstLoop, ReplacedPresent
  <2>3. g # k
    BY <1>u, <2>1, <2>2
  <2>4. QED  BY <1>1, <2>2, <2>3
<1>11. CurrentEntry(L, res, p, d, new, vlan)
  <2>1. \A j \in DOMAIN new : new[j].ip # L[p].ip
    BY <1>1, <1>6
  <2>2. Replaces(d, L[p].ip, <<>>, res, vlan)
    BY DEF d
  <2>3. ToSet(<<>>) \subseteq ToSet(L[p].names)
    BY DEF ToSet
  <2>4. QED  BY <2>1, <2>2, <2>3 DEF CurrentEntry
<1>12. p # 0
  BY <1>t
<1>13. QED  BY <1>7, <1>8, <1>9, <1>10, <1>11, <1>12 DEF FirstLoop, d

\* The entry loses a name and keeps others.
LEMMA FirstRemoveOne ==
    ASSUME NEW L, NEW res, NEW F, Setting(L, res, F), NEW vlan \in Vlans, NEW p \in DOMAIN L,
           NEW c, FirstLoop(L, res, p, c, F, vlan), c # <<>>, c[1].op = "remove",
           ~Kept(L[p], res), NEW k \in DOMAIN F, F[k].ip = L[p].ip,
           ToSet(F[k].names) \subseteq ToSet(L[p].names),
           NEW d, Replaces(d, L[p].ip, Tail(F[k].names), res, vlan),
           d # <<>>, d[1].op = "remove",
           NEW new, Shortened(F, k, F[k].names[1], new)
    PROVE  FirstLoop(L, res, p, d, new, vlan)
<1>t. /\ WellFormed(L) /\ WellFormed(F)
      /\ DOMAIN L = 1..Len(L) /\ Len(L) \in Nat
  BY DEF Setting, WellFormed
<1>u. /\ \A x, y \in DOMAIN F : F[x].ip = F[y].ip => x = y
      /\ \A x, y \in DOMAIN L : L[x].ip = L[y].ip => x = y
  BY <1>t DEF WellFormed
<1>1. /\ WellFormed(new) /\ DOMAIN new = DOMAIN F
      /\ \A j \in DOMAIN F : new[j].ip = F[j].ip
      /\ \A j \in DOMAIN F : j # k => new[j] = F[j]
      /\ new[k].names = Tail(F[k].names)
      /\ ToSet(new[k].names) \subseteq ToSet(F[k].names)
  BY DEF Shortened
<1>2. \A i : OldAt(L, res, p, d, i) <=> OldAt(L, res, p, c, i)
  BY DEF OldAt
<1>3. \A ip : OldIp(L, res, p, d, ip) <=> OldIp(L, res, p, c, ip)
  BY <1>2 DEF OldIp
<1>4. EachOldOrNew(L, res, p, d, new)
  <2> SUFFICES ASSUME NEW j \in DOMAIN F
               PROVE  OldIp(L, res, p, d, new[j].ip) \/ NewEntry(new[j], res)
    BY <1>1 DEF EachOldOrNew
  <2>1. CASE j = k
    <3>1. OldAt(L, res, p, d, p)
      BY DEF OldAt
    <3>2. QED  BY <1>1, <2>1, <3>1 DEF OldIp
  <2>2. CASE j # k
    <3>1. OldIp(L, res, p, c, F[j].ip) \/ NewEntry(F[j], res)
      BY DEF FirstLoop, EachOldOrNew
    <3>2. QED  BY <1>1, <1>3, <2>2, <3>1
  <2>3. QED  BY <2>1, <2>2
<1>5. OldFirst(L, res, p, d, new)
  <2> SUFFICES ASSUME NEW j \in DOMAIN F, OldIp(L, res, p, d, new[j].ip), NEW g \in 1..j
               PROVE  OldIp(L, res, p, d, new[g].ip)
    BY <1>1 DEF OldFirst
  <2>1. g \in DOMAIN F
    BY <1>t DEF WellFormed
  <2>2. OldIp(L, res, p, c, F[j].ip)
    BY <1>1, <1>3
  <2>3. OldIp(L, res, p, c, F[g].ip)
    BY <2>2 DEF FirstLoop, OldFirst
  <2>4. QED  BY <1>1, <1>3, <2>1, <2>3
<1>6. OldPresent(L, res, p, d, new)
  <2> SUFFICES ASSUME NEW i \in DOMAIN L, OldAt(L, res, p, d, i)
               PROVE  \E j \in DOMAIN F :
                         /\ new[j].ip = L[i].ip
                         /\ ToSet(new[j].names) \subseteq ToSet(L[i].names)
                         /\ i # p \/ Kept(L[i], res) => new[j].names = L[i].names
    BY <1>1 DEF OldPresent
  <2>1. CASE i = p
    BY <1>1, <2>1
  <2>2. CASE i # p
    <3>1. PICK g \in DOMAIN F : F[g].ip = L[i].ip /\ F[g].names = L[i].names
      BY <1>2, <2>2 DEF FirstLoop, OldPresent
    <3>2. g # k
      BY <1>u, <2>2, <3>1
    <3>3. QED  BY <1>1, <3>1, <3>2
  <2>3. QED  BY <2>1, <2>2
<1>7. ReplacedPresent(L, res, p, d, new)
  <2> SUFFICES ASSUME NEW i \in DOMAIN L, i <= p, i # p,
                      \E m \in DOMAIN res : res[m].ip = L[i].ip
               PROVE  \E j \in DOMAIN F : new[j].ip = L[i].ip
    BY <1>1 DEF ReplacedPresent
  <2>1. PICK g \in DOMAIN F : F[g].ip = L[i].ip
    BY DEF FirstLoop, ReplacedPresent
  <2>2. QED  BY <1>1, <2>1
<1>8. CurrentEntry(L, res, p, d, new, vlan)
  <2>1. new[k].names # <<>> /\ ToSet(new[k].names) \subseteq ToSet(L[p].names)
    BY <1>1, EntryFacts
  <2>2. \A j \in DOMAIN new : new[j].ip = L[p].ip => j = k
    BY <1>1, <1>u
  <2>3. Replaces(d, L[p].ip, new[k].names, res, vlan)
    BY <1>1
  <2>4. QED  BY <1>1, <2>1, <2>2, <2>3 DEF CurrentEntry
<1>9. p # 0
  BY <1>t
<1>10. QED  BY <1>4, <1>5, <1>6, <1>7, <1>8, <1>9 DEF FirstLoop

\* A name is removed in the first loop.
LEMMA FirstRemove ==
    ASSUME NEW L, NEW res, NEW F, Setting(L, res, F), NEW vlan \in Vlans, NEW p \in DOMAIN L,
           NEW c, FirstLoop(L, res, p, c, F, vlan), c # <<>>, c[1].op = "remove"
    PROVE  FirstLoop(L, res, p, Tail(c), RemoveEntry(F, c[1].name), vlan)
<1>1. ~Kept(L[p], res)
  BY CurrentFirst
<1>0. PICK k \in DOMAIN F : Current(L, res, F, vlan, p, c, k)
  BY CurrentFirst
<1>2. /\ F[k].ip = L[p].ip /\ ToSet(F[k].names) \subseteq ToSet(L[p].names)
      /\ c[1].name = F[k].names[1]
      /\ Replaces(Tail(c), L[p].ip, Tail(F[k].names), res, vlan)
      /\ \A j \in DOMAIN F : c[1].name \in ToSet(F[j].names) => k <= j
  BY <1>0 DEF Current
<1> DEFINE ns == F[k].names
           name == c[1].name
           new == RemoveEntry(F, name)
           d == Tail(c)
           ip == L[p].ip
<1>3. ns \in Seq(LowerNames) /\ ns # <<>> /\ name \in ToSet(ns) /\ WellFormed(F) /\ name = ns[1]
  BY <1>2, EntryFacts DEF Setting
<1>4. \/ ns = <<name>> /\ Without(F, k, new)
      \/ ns # <<name>> /\ Shortened(F, k, name, new)
  <2> HIDE DEF name
  <2>1. QED  BY <1>2, <1>3, RemoveFromFirst DEF name
<1>5. CASE ns = <<name>> /\ Without(F, k, new)
  <2>1. Tail(ns) = <<>>
    BY <1>5
  <2>2. Replaces(Tail(c), L[p].ip, <<>>, res, vlan)
    BY <1>2, <2>1
  <2> HIDE DEF new
  <2>3. FirstLoop(L, res, p, Tail(c), new, vlan)
    BY <1>1, <1>2, <1>5, <2>2, FirstRemoveLast
  <2>4. QED  BY <2>3 DEF new
<1>6. CASE ns # <<name>> /\ Shortened(F, k, name, new)
  <2>1. Tail(ns) \in Seq(LowerNames) /\ Tail(ns) # <<>>
    <3> HIDE DEF ns, name
    <3>1. ns # <<ns[1]>>
      BY <1>3, <1>6
    <3>2. QED  BY <1>3, <3>1, TailNonEmpty
  <2>2. Replaces(d, ip, Tail(ns), res, vlan)
    BY <1>2
  <2> HIDE DEF d, ip
  <2>3. d # <<>> /\ d[1].op = "remove"
    <3>1. PICK s \in Seq(LowerNames) : s # <<>> /\ Replaces(d, ip, s, res, vlan)
      BY <2>1, <2>2
    <3>2. QED  BY <3>1, ReplacesStart
  <2>4. Shortened(F, k, F[k].names[1], new)
    BY <1>3, <1>6
  <2> HIDE DEF new
  <2>5. FirstLoop(L, res, p, d, new, vlan)
    BY <1>1, <1>2, <2>2, <2>3, <2>4, FirstRemoveOne DEF ip
  <2>6. QED  BY <2>5 DEF new, d
<1>7. QED  BY <1>4, <1>5, <1>6

\* A name for an address that is not in the file.
LEMMA AddAbsent ==
    ASSUME NEW file \in Seq(Entry), NEW ip, NEW name, \A k \in DOMAIN file : file[k].ip # ip
    PROVE  AddEntry(file, ip, name) = Append(file, [ip |-> ip, names |-> <<name>>])
<1>1. \/ AddEntry(file, ip, name) = Append(file, [ip |-> ip, names |-> <<name>>])
      \/ \E k \in DOMAIN file : file[k].ip = ip
  BY AddEntryCases, Zenon
<1>2. QED  BY <1>1, Zenon

\* The entry whose names are gone is added again under the reserved name.
LEMMA FirstAdd ==
    ASSUME NEW L, NEW res, NEW F, Setting(L, res, F), NEW vlan \in Vlans, NEW p \in DOMAIN L,
           NEW c, FirstLoop(L, res, p, c, F, vlan), c # <<>>, c[1].op = "add",
           c[1].name \notin Refused
    PROVE  FirstLoop(L, res, p, Tail(c), AddEntry(F, c[1].ip, Lower[c[1].name]), vlan)
<1>t. /\ WellFormed(L) /\ WellFormed(F) /\ DOMAIN L = 1..Len(L) /\ Len(L) \in Nat
      /\ F \in Seq(Entry) /\ DOMAIN F = 1..Len(F) /\ Len(F) \in Nat
      /\ res \in Seq(Reservation) /\ \A m \in DOMAIN res : res[m].name # NoName
  BY DEF Setting, WellFormed
<1>u. \A x, y \in DOMAIN L : L[x].ip = L[y].ip => x = y
  BY <1>t DEF WellFormed
<1>1. PICK ns \in {<<>>} \cup {F[k].names : k \in DOMAIN F} :
              /\ Replaces(c, L[p].ip, ns, res, vlan)
              /\ \A k \in DOMAIN F : F[k].ip = L[p].ip => ns # <<>> /\ F[k].names = ns
  BY DEF FirstLoop, CurrentEntry
<1>2. ~Kept(L[p], res)
  BY DEF FirstLoop, CurrentEntry
<1>3. ns = <<>>
  <2>1. ASSUME ns # <<>> PROVE FALSE
    <3>1. ns \in Seq(LowerNames)
      BY <1>t, <2>1, EntryFacts
    <3>2. c[1].op = "remove"
      BY <1>1, <2>1, <3>1, ReplacesStart
    <3>3. QED  BY <3>2
  <2>2. QED  BY <2>1
<1>4. PICK m \in DOMAIN res : res[m].ip = L[p].ip /\ c = <<Add(L[p].ip, res[m].name, vlan)>>
  BY <1>1, <1>3, ReplacesNone
<1>5. c[1].ip = L[p].ip /\ c[1].name = res[m].name /\ Tail(c) = <<>>
  <2> DEFINE x == Add(L[p].ip, res[m].name, vlan)
  <2>1. x.ip = L[p].ip /\ x.name = res[m].name
    BY DEF Add
  <2> HIDE DEF x
  <2>2. c = <<x>>
    BY <1>4 DEF x
  <2>3. c[1] = x /\ Tail(c) = <<>>
    BY <2>2
  <2>4. QED  BY <2>1, <2>3
<1>6. \A k \in DOMAIN F : F[k].ip # L[p].ip
  BY <1>1, <1>3
<1> DEFINE e == [ip |-> L[p].ip, names |-> <<Lower[res[m].name]>>]
           new == Append(F, e)
<1>7. AddEntry(F, c[1].ip, Lower[c[1].name]) = new
  <2> DEFINE ip == L[p].ip
             n == Lower[res[m].name]
  <2>1. \A k \in DOMAIN F : F[k].ip # ip
    BY <1>6
  <2>2. new = Append(F, [ip |-> ip, names |-> <<n>>])
    OBVIOUS
  <2> HIDE DEF ip, n, new
  <2>3. AddEntry(F, ip, n) = new
    BY <1>t, <2>1, <2>2, AddAbsent
  <2>4. QED  BY <1>5, <2>3 DEF ip, n
<1>8. e.ip = L[p].ip /\ NewEntry(e, res)
  BY <1>4, <1>5 DEF NewEntry
<1>9. /\ DOMAIN new = 1..(Len(F) + 1) /\ new[Len(F) + 1] = e
      /\ \A k \in DOMAIN F : k \in DOMAIN new /\ new[k] = F[k]
  <2>1. F \in Seq(Entry \cup {e}) /\ e \in Entry \cup {e}
    BY <1>t
  <2> HIDE DEF e
  <2>2. QED  BY <1>t, <2>1, AppendProperties
<1> HIDE DEF e, new
<1>10. \A k \in DOMAIN new : k \in DOMAIN F \/ k = Len(F) + 1
  BY <1>9, <1>t
<1>11. \A i : OldAt(L, res, p, <<>>, i) <=> OldAt(L, res, p, c, i)
  BY DEF OldAt
<1>12. \A ip : OldIp(L, res, p, <<>>, ip) <=> OldIp(L, res, p, c, ip)
  BY <1>11 DEF OldIp
<1>13. ~OldIp(L, res, p, <<>>, e.ip)
  <2>1. ~OldAt(L, res, p, <<>>, p)
    BY <1>2, <1>t DEF OldAt
  <2>2. QED  BY <1>8, <1>u, <2>1 DEF OldIp
<1>14. EachOldOrNew(L, res, p, <<>>, new)
  BY <1>8, <1>9, <1>10, <1>12 DEF FirstLoop, EachOldOrNew
<1>15. OldFirst(L, res, p, <<>>, new)
  <2> SUFFICES ASSUME NEW j \in DOMAIN new, OldIp(L, res, p, <<>>, new[j].ip), NEW g \in 1..j
               PROVE  OldIp(L, res, p, <<>>, new[g].ip)
    BY DEF OldFirst
  <2>1. j \in DOMAIN F
    BY <1>9, <1>10, <1>13
  <2>2. g \in DOMAIN F
    BY <1>t, <2>1
  <2>3. OldIp(L, res, p, c, F[j].ip)
    BY <1>9, <1>12, <2>1
  <2>4. OldIp(L, res, p, c, F[g].ip)
    BY <2>1, <2>3 DEF FirstLoop, OldFirst
  <2>5. QED  BY <1>9, <1>12, <2>2, <2>4
<1>16. OldPresent(L, res, p, <<>>, new)
  <2> SUFFICES ASSUME NEW i \in DOMAIN L, OldAt(L, res, p, <<>>, i)
               PROVE  \E j \in DOMAIN new :
                         /\ new[j].ip = L[i].ip
                         /\ ToSet(new[j].names) \subseteq ToSet(L[i].names)
                         /\ i # p \/ Kept(L[i], res) => new[j].names = L[i].names
    BY DEF OldPresent
  <2>1. PICK g \in DOMAIN F : /\ F[g].ip = L[i].ip
                              /\ ToSet(F[g].names) \subseteq ToSet(L[i].names)
                              /\ i # p \/ Kept(L[i], res) => F[g].names = L[i].names
    BY <1>11 DEF FirstLoop, OldPresent
  <2>2. QED  BY <1>9, <2>1
<1>17. ReplacedPresent(L, res, p, <<>>, new)
  <2> SUFFICES ASSUME NEW i \in DOMAIN L, i <= p, \E x \in DOMAIN res : res[x].ip = L[i].ip
               PROVE  \E j \in DOMAIN new : new[j].ip = L[i].ip
    BY DEF ReplacedPresent
  <2>1. CASE i = p
    <3>1. Len(F) + 1 \in DOMAIN new
      BY <1>9, <1>t
    <3>2. QED  BY <1>8, <1>9, <2>1, <3>1
  <2>2. CASE i # p
    <3>1. PICK g \in DOMAIN F : F[g].ip = L[i].ip
      BY <2>2 DEF FirstLoop, ReplacedPresent
    <3>2. QED  BY <1>9, <3>1
  <2>3. QED  BY <2>1, <2>2
<1>18. CurrentEntry(L, res, p, <<>>, new, vlan)
  BY DEF CurrentEntry
<1>19. FirstLoop(L, res, p, <<>>, new, vlan)
  BY <1>14, <1>15, <1>16, <1>17, <1>18 DEF FirstLoop
<1>20. QED  BY <1>5, <1>7, <1>19

(***************************************************************************)
(* Resynchronisation: the second loop.                                     *)
(***************************************************************************)

\* After the last turn of the first loop.
LEMMA LoopsMeet ==
    ASSUME NEW L, NEW res, NEW F, Setting(L, res, F), NEW vlan,
           FirstLoop(L, res, Len(L), <<>>, F, vlan)
    PROVE  SecondLoop(L, res, Len(L), <<>>, F, vlan)
<1> DEFINE p == Len(L)
<1>t. /\ WellFormed(L) /\ WellFormed(F) /\ DOMAIN L = 1..Len(L) /\ Len(L) \in Nat
      /\ res \in Seq(Reservation) /\ \A m \in DOMAIN res : res[m].name # NoName
  BY DEF Setting, WellFormed
<1>u. /\ \A x, y \in DOMAIN F : F[x].ip = F[y].ip => x = y
      /\ \A x, y \in DOMAIN L : L[x].ip = L[y].ip => x = y
      /\ \A x, y \in DOMAIN res : res[x].ip = res[y].ip => x = y
  BY <1>t DEF WellFormed, Setting, Clean
<1>1. ASSUME NEW i \in DOMAIN L, OldAt(L, res, p, <<>>, i), NEW k \in DOMAIN F, F[k].ip = L[i].ip
      PROVE  Kept(L[i], res) /\ F[k].names = L[i].names
  <2>1. Kept(L[i], res)
    BY <1>1, <1>t DEF OldAt
  <2>2. PICK g \in DOMAIN F : F[g].ip = L[i].ip /\ F[g].names = L[i].names
    BY <1>1, <2>1 DEF FirstLoop, OldPresent
  <2>3. QED  BY <1>1, <1>u, <2>1, <2>2
<1>2. ASSUME NEW k \in DOMAIN F
      PROVE  \E m \in DOMAIN res : /\ res[m].ip = F[k].ip /\ res[m].name \notin Refused
                                   /\ Lower[res[m].name] = F[k].names[1]
  <2>1. CASE OldIp(L, res, p, <<>>, F[k].ip)
    <3>1. PICK i \in DOMAIN L : OldAt(L, res, p, <<>>, i) /\ L[i].ip = F[k].ip
      BY <2>1 DEF OldIp
    <3>2. Kept(L[i], res) /\ F[k].names = L[i].names
      BY <1>1, <3>1
    <3>3. PICK m \in DOMAIN res : res[m].ip = L[i].ip /\ res[m].name = L[i].names[1]
      BY <3>2 DEF Kept
    <3>4. L[i].names[1] \in LowerNames
      BY <1>t, EntryFacts
    <3>5. L[i].names[1] \notin Refused /\ Lower[L[i].names[1]] = L[i].names[1]
      BY <3>4, LowerFacts
    <3>6. QED  BY <3>1, <3>2, <3>3, <3>5
  <2>2. CASE NewEntry(F[k], res)
    <3>1. PICK m \in DOMAIN res : /\ res[m].ip = F[k].ip /\ res[m].name \notin Refused
                                  /\ F[k].names = <<Lower[res[m].name]>>
      BY <2>2 DEF NewEntry
    <3>2. F[k].names[1] = Lower[res[m].name]
      BY <3>1
    <3>3. QED  BY <3>1, <3>2
  <2>3. QED  BY <2>1, <2>2 DEF FirstLoop, EachOldOrNew
<1>3. ASSUME NEW m \in DOMAIN res, res[m].name \in NamesAt(L, res[m].ip)
      PROVE  res[m].name \notin Refused /\ Lower[res[m].name] \in NamesAt(F, res[m].ip)
  <2> DEFINE n == res[m].name
  <2>1. PICK i \in DOMAIN L : L[i].ip = res[m].ip /\ n \in ToSet(L[i].names)
    BY <1>3, NamesAtDef
  <2>2. L[i].names \in Seq(LowerNames)
    BY <1>t, EntryFacts
  <2>3. n \in LowerNames
    BY <2>1, <2>2 DEF ToSet
  <2>4. n \notin Refused /\ Lower[n] = n
    BY <2>3, LowerFacts
  <2>5. PICK k \in DOMAIN F : F[k].ip = L[i].ip
    <3>1. i <= p
      BY <1>t
    <3>2. QED  BY <2>1, <3>1 DEF FirstLoop, ReplacedPresent
  <2>6. n \in ToSet(F[k].names)
    <3>1. CASE OldIp(L, res, p, <<>>, F[k].ip)
      <4>1. PICK x \in DOMAIN L : OldAt(L, res, p, <<>>, x) /\ L[x].ip = F[k].ip
        BY <3>1 DEF OldIp
      <4>2. x = i
        BY <1>u, <2>5, <4>1
      <4>3. F[k].names = L[i].names
        BY <1>1, <4>1, <4>2
      <4>4. QED  BY <2>1, <4>3
    <3>2. CASE NewEntry(F[k], res)
      <4>1. PICK x \in DOMAIN res : res[x].ip = F[k].ip /\ F[k].names = <<Lower[res[x].name]>>
        BY <3>2 DEF NewEntry
      <4>2. x = m
        BY <1>u, <2>1, <2>5, <4>1
      <4>3. F[k].names = <<n>>
        BY <2>4, <4>1, <4>2
      <4>4. QED  BY <4>3 DEF ToSet
    <3>3. QED  BY <3>1, <3>2 DEF FirstLoop, EachOldOrNew
  <2>7. n \in NamesAt(F, res[m].ip)
    BY <2>1, <2>5, <2>6, NamesAtDef
  <2>8. QED  BY <2>4, <2>7
<1>4. \A m \in DOMAIN res : ~(m < p - Len(L)) /\ m # p - Len(L)
  BY <1>t
<1>5. QED  BY <1>2, <1>3, <1>4 DEF SecondLoop

\* A turn of the second loop.
LEMMA SecondTurn ==
    ASSUME NEW L, NEW res, NEW F, Setting(L, res, F), NEW vlan,
           NEW p \in Nat, Len(L) <= p, p < Len(L) + Len(res),
           SecondLoop(L, res, p, <<>>, F, vlan),
           NEW c, c = SyncCommands(L, res, vlan, p + 1)
    PROVE  SecondLoop(L, res, p + 1, c, F, vlan)
<1>t. /\ Len(L) \in Nat /\ res \in Seq(Reservation) /\ Len(res) \in Nat
      /\ DOMAIN res = 1..Len(res) /\ \A m \in DOMAIN res : res[m].name # NoName
  BY DEF Setting, WellFormed
<1> DEFINE n == p + 1 - Len(L)
<1>1. n \in DOMAIN res /\ ~(p + 1 <= Len(L))
  BY <1>t
<1>2. c = MissingCommands(L, res[n], vlan)
  BY <1>1 DEF SyncCommands
<1>3. \/ res[n].name \in NamesAt(L, res[n].ip) /\ c = <<>>
      \/ c = <<Add(res[n].ip, res[n].name, vlan)>> /\ c # <<>>
  <2>1. res[n].name # NoName
    BY <1>1, <1>t
  <2> HIDE DEF n
  <2>2. QED  BY <1>2, <2>1 DEF MissingCommands
<1>4. \A m \in DOMAIN res : m < n => m < p - Len(L) \/ m = p - Len(L)
  <2>1. \A a, b, m \in Nat : m < b + 1 - a => m < b - a \/ m = b - a
    OBVIOUS
  <2>2. QED  BY <1>t, <2>1
<1> HIDE DEF n
<1>5. \A m \in DOMAIN res :
         (m < n \/ (m = n /\ c = <<>>) \/ res[m].name \in NamesAt(L, res[m].ip))
            => res[m].name \notin Refused /\ Lower[res[m].name] \in NamesAt(F, res[m].ip)
  BY <1>3, <1>4 DEF SecondLoop
<1>6. QED  BY <1>1, <1>3, <1>5 DEF SecondLoop, n

\* A name is added in the second loop.
LEMMA SecondAdd ==
    ASSUME NEW L, NEW res, NEW F, Setting(L, res, F), NEW vlan, NEW p,
           NEW c, SecondLoop(L, res, p, c, F, vlan), c # <<>>, ~Fails(c[1])
    PROVE  /\ c[1].op = "add"
           /\ SecondLoop(L, res, p, Tail(c), AddEntry(F, c[1].ip, Lower[c[1].name]), vlan)
<1> DEFINE n == p - Len(L)
           ip == res[n].ip
           name == Lower[res[n].name]
           new == AddEntry(F, ip, name)
<1>t. /\ WellFormed(F) /\ res \in Seq(Reservation) /\ \A m \in DOMAIN res : res[m].name # NoName
  BY DEF Setting
<1>1. n \in DOMAIN res /\ c = <<Add(res[n].ip, res[n].name, vlan)>>
  BY DEF SecondLoop
<1>2. c[1] = Add(res[n].ip, res[n].name, vlan) /\ Tail(c) = <<>>
  <2> DEFINE x == Add(res[n].ip, res[n].name, vlan)
  <2>1. c = <<x>>
    BY <1>1
  <2> HIDE DEF x
  <2>2. c[1] = x /\ Tail(c) = <<>>
    BY <2>1
  <2>3. QED  BY <2>2 DEF x
<1>3. c[1].op = "add" /\ c[1].ip = res[n].ip /\ c[1].name = res[n].name
  BY <1>2 DEF Add
<1>4. res[n].name \in Names \ Refused /\ ip \in Ips
  <2>1. res[n] \in Reservation
    BY <1>1, <1>t
  <2>2. QED  BY <1>1, <1>3, <1>t, <2>1, ReservationFacts DEF Fails
<1>5. name \in LowerNames
  BY <1>4, LowerFacts
<1> HIDE DEF n
<1>a. \A m \in DOMAIN res :
         (m < n \/ res[m].name \in NamesAt(L, res[m].ip))
            => res[m].name \notin Refused /\ Lower[res[m].name] \in NamesAt(F, res[m].ip)
  BY DEF SecondLoop, n
<1>b. \A k \in DOMAIN F : \E m \in DOMAIN res :
         /\ res[m].ip = F[k].ip /\ res[m].name \notin Refused
         /\ Lower[res[m].name] = F[k].names[1]
  BY DEF SecondLoop
<1>6. /\ WellFormed(new)
      /\ \A k \in DOMAIN F : /\ k \in DOMAIN new
                             /\ new[k].ip = F[k].ip
                             /\ new[k].names[1] = F[k].names[1]
                             /\ ToSet(F[k].names) \subseteq ToSet(new[k].names)
      /\ \A k \in DOMAIN new \ DOMAIN F : new[k].ip = ip /\ new[k].names = <<name>>
      /\ \E k \in DOMAIN new : new[k].ip = ip /\ name \in ToSet(new[k].names)
  <2> HIDE DEF ip, name
  <2>1. Added(F, ip, name, new)
    BY <1>4, <1>5, <1>t, AddEntryAdds
  <2>2. QED  BY <2>1 DEF Added
<1> HIDE DEF new
<1>7. ASSUME NEW k \in DOMAIN new
      PROVE  \E m \in DOMAIN res : /\ res[m].ip = new[k].ip /\ res[m].name \notin Refused
                                   /\ Lower[res[m].name] = new[k].names[1]
  <2>1. CASE k \in DOMAIN F
    BY <1>b, <1>6, <2>1
  <2>2. CASE k \notin DOMAIN F
    <3>1. new[k].ip = res[n].ip /\ new[k].names[1] = Lower[res[n].name]
      BY <1>6, <2>2
    <3>2. QED  BY <1>1, <1>4, <3>1
  <2>3. QED  BY <2>1, <2>2
<1>8. ASSUME NEW x, NEW i, x \in NamesAt(F, i) PROVE x \in NamesAt(new, i)
  BY <1>6, <1>8, NamesAtDef
<1>9. Lower[res[n].name] \in NamesAt(new, res[n].ip)
  BY <1>6, NamesAtDef
<1>10. \A m \in DOMAIN res :
          (m < n \/ m = n \/ res[m].name \in NamesAt(L, res[m].ip))
             => res[m].name \notin Refused /\ Lower[res[m].name] \in NamesAt(new, res[m].ip)
  BY <1>a, <1>4, <1>8, <1>9
<1>11. SecondLoop(L, res, p, <<>>, new, vlan)
  BY <1>7, <1>10 DEF SecondLoop, n
<1>12. QED  BY <1>2, <1>3, <1>11 DEF new

\* After the last turn the file is as reserved.
LEMMA LoopEnd ==
    ASSUME NEW L, NEW res, NEW F, Setting(L, res, F), NEW vlan,
           NEW p, p = Len(L) + Len(res), Loops(L, res, p, <<>>, F, vlan)
    PROVE  /\ \A m \in DOMAIN res : Lower[res[m].name] \in NamesAt(F, res[m].ip)
           /\ \A k \in DOMAIN F : \E m \in DOMAIN res :
                 res[m].ip = F[k].ip /\ Lower[res[m].name] = F[k].names[1]
<1>t. Len(L) \in Nat /\ Len(res) \in Nat /\ DOMAIN res = 1..Len(res)
  BY DEF Setting, WellFormed
<1>1. SecondLoop(L, res, p, <<>>, F, vlan)
  <2>1. CASE p <= Len(L)
    <3>1. p = Len(L)
      BY <1>t, <2>1
    <3>2. FirstLoop(L, res, Len(L), <<>>, F, vlan)
      BY <2>1, <3>1 DEF Loops
    <3>3. SecondLoop(L, res, Len(L), <<>>, F, vlan)
      BY <3>2, LoopsMeet
    <3>4. QED  BY <3>1, <3>3
  <2>2. QED  BY <2>1 DEF Loops
<1>2. \A m \in DOMAIN res : m < p - Len(L) \/ m = p - Len(L)
  BY <1>t
<1>3. QED  BY <1>1, <1>2 DEF SecondLoop

(***************************************************************************)
(* Resynchronisation: the requests.                                        *)
(***************************************************************************)

\* A turn of either loop.
LEMMA LoopTurn ==
    ASSUME NEW L, NEW res, NEW F, Setting(L, res, F), NEW vlan \in Vlans,
           NEW p \in Nat, p < Len(L) + Len(res), Loops(L, res, p, <<>>, F, vlan),
           NEW c, c = SyncCommands(L, res, vlan, p + 1)
    PROVE  Loops(L, res, p + 1, c, F, vlan)
<1>t. Len(L) \in Nat /\ Len(res) \in Nat
  BY DEF Setting, WellFormed
<1>1. CASE p < Len(L)
  <2>1. FirstLoop(L, res, p, <<>>, F, vlan) /\ p + 1 <= Len(L)
    BY <1>1, <1>t DEF Loops
  <2>2. FirstLoop(L, res, p + 1, c, F, vlan)
    BY <1>1, <2>1, FirstTurn
  <2>3. QED  BY <2>1, <2>2 DEF Loops
<1>2. CASE Len(L) <= p
  <2>1. SecondLoop(L, res, p, <<>>, F, vlan)
    <3>1. CASE p = Len(L)
      <4>1. FirstLoop(L, res, Len(L), <<>>, F, vlan)
        BY <1>t, <3>1 DEF Loops
      <4>2. SecondLoop(L, res, Len(L), <<>>, F, vlan)
        BY <4>1, LoopsMeet
      <4>3. QED  BY <3>1, <4>2
    <3>2. CASE p # Len(L)
      <4>1. ~(p <= Len(L))
        BY <1>2, <1>t, <3>2
      <4>2. QED  BY <4>1 DEF Loops
    <3>3. QED  BY <3>1, <3>2
  <2>2. SecondLoop(L, res, p + 1, c, F, vlan)
    BY <1>2, <2>1, SecondTurn
  <2>3. ~(p + 1 <= Len(L))
    BY <1>2, <1>t
  <2>4. QED  BY <2>2, <2>3 DEF Loops
<1>3. QED  BY <1>1, <1>2, <1>t

\* A command of either loop.
LEMMA LoopCommand ==
    ASSUME NEW L, NEW res, NEW F, Setting(L, res, F), NEW vlan \in Vlans,
           NEW p \in Nat, NEW c, Loops(L, res, p, c, F, vlan), c # <<>>,
           c[1] \in Command, ~Fails(c[1])
    PROVE  Loops(L, res, p, Tail(c), Apply(F, c[1]), vlan)
<1>t. Len(L) \in Nat /\ DOMAIN L = 1..Len(L)
  BY DEF Setting, WellFormed
<1>1. CASE p <= Len(L)
  <2>1. FirstLoop(L, res, p, c, F, vlan)
    BY <1>1 DEF Loops
  <2>2. p \in DOMAIN L
    <3>1. p # 0
      BY <2>1 DEF FirstLoop
    <3>2. QED  BY <1>1, <1>t, <3>1
  <2>3. CASE c[1].op = "remove"
    <3>1. FirstLoop(L, res, p, Tail(c), RemoveEntry(F, c[1].name), vlan)
      BY <2>1, <2>2, <2>3, FirstRemove
    <3>2. QED  BY <1>1, <2>3, <3>1 DEF Loops, Apply
  <2>4. CASE c[1].op = "add"
    <3>1. c[1].name \notin Refused
      BY <2>4 DEF Fails
    <3>2. FirstLoop(L, res, p, Tail(c), AddEntry(F, c[1].ip, Lower[c[1].name]), vlan)
      BY <2>1, <2>2, <2>4, <3>1, FirstAdd
    <3>3. QED  BY <1>1, <2>4, <3>2 DEF Loops, Apply
  <2>5. QED  BY <2>3, <2>4 DEF Command, AddCommand, RemoveCommand
<1>2. CASE ~(p <= Len(L))
  <2>1. SecondLoop(L, res, p, c, F, vlan)
    BY <1>2 DEF Loops
  <2>2. /\ c[1].op = "add"
        /\ SecondLoop(L, res, p, Tail(c), AddEntry(F, c[1].ip, Lower[c[1].name]), vlan)
    BY <2>1, SecondAdd
  <2>3. QED  BY <1>2, <2>2 DEF Loops, Apply
<1>3. QED  BY <1>1, <1>2

\* What a resync that is under way works on.
LEMMA ResyncSetting ==
    ASSUME Typed, NEW r \in Requests, Queried(r), Resyncing(r), then[r] = "resynced", clean
    PROVE  /\ Setting(listing[r], rows[r], dns[job[r].vlan])
           /\ job[r].kind = "resync" /\ job[r].vlan \in Vlans
           /\ Loops(listing[r], rows[r], at[r], todo[r], dns[job[r].vlan], job[r].vlan)
<1>1. job[r].kind = "resync" /\ job[r].vlan \in Vlans
  BY DEF Typed, JobControl, RequestTypes, JobType
<1>2. WellFormed(listing[r]) /\ WellFormed(dns[job[r].vlan]) /\ rows[r] \in Seq(Reservation)
  BY <1>1 DEF Typed, CommandControl, StateTypes, RequestTypes
<1>3. \A m \in DOMAIN rows[r] : rows[r][m].name # NoName
  BY <1>1 DEF Queried, Reserved
<1>4. /\ Clean(listing[r], rows[r])
      /\ Loops(listing[r], rows[r], at[r], todo[r], dns[job[r].vlan], job[r].vlan)
  BY DEF Resyncing
<1>5. QED  BY <1>1, <1>2, <1>3, <1>4 DEF Setting

\* A step of a resync alone that keeps the answer to its query.
LEMMA QueriedSame ==
    ASSUME NEW r, Queried(r), UNCHANGED hosts, job'[r] = job[r], rows'[r] = rows[r],
           (pc'[r] = "list" \/ then'[r] = "resynced") => (pc[r] = "list" \/ then[r] = "resynced")
    PROVE  Queried(r)'
BY DEF Queried, Reserved

\* Commands and turns of a resync alone.
LEMMA ResyncingCommands ==
    ASSUME Typed, Alone, NEW r \in Requests, lone, Queried(r), Resyncing(r),
           NextTurn(r) \/ Load(r) \/ Save(r)
    PROVE  Queried(r)' /\ Resyncing(r)'
<1>t. /\ RequestTypes /\ StateTypes /\ CommandControl(r) /\ JobControl(r)
      /\ at[r] \in Nat /\ todo[r] \in Seq(Command)
  BY DEF Typed, RequestTypes
<1>1. /\ UNCHANGED <<hosts, job, rows, listing, then, clean>> /\ pc'[r] # "list"
  BY <1>t DEF NextTurn, Load, Save, RequestTypes
<1>2. Queried(r)'
  BY <1>1, QueriedSame
<1>3. ASSUME then[r] = "resynced", clean
      PROVE  Loops(listing[r], rows[r], at[r], todo[r], dns[job[r].vlan], job[r].vlan)'
  <2> DEFINE L == listing[r]
             res == rows[r]
             v == job[r].vlan
             F == dns[v]
  <2>1. /\ Setting(L, res, F) /\ job[r].kind = "resync" /\ v \in Vlans
        /\ Loops(L, res, at[r], todo[r], F, v)
    BY <1>3, ResyncSetting
  <2>2. SyncVlan(r) = v
    BY <1>3 DEF SyncVlan
  <2>s. ASSUME NEW p, NEW c, NEW G, p = at'[r], c = todo'[r], G = dns'[v], Loops(L, res, p, c, G, v)
        PROVE  Loops(listing[r], rows[r], at[r], todo[r], dns[job[r].vlan], job[r].vlan)'
    BY <1>1, <2>s DEF Loops, FirstLoop, SecondLoop
  <2>3. CASE NextTurn(r)
    <3> DEFINE c == SyncCommands(L, res, v, at[r] + 1)
    <3>1. /\ todo[r] = <<>> /\ at[r] < Len(L) + Len(res) /\ UNCHANGED dns
      BY <2>3 DEF NextTurn
    <3>2. at'[r] = at[r] + 1 /\ todo'[r] = c
      BY <1>t, <2>2, <2>3 DEF NextTurn, RequestTypes
    <3>3. Loops(L, res, at[r], <<>>, F, v)
      BY <2>1, <3>1
    <3> HIDE DEF L, res, F, v
    <3>4. Loops(L, res, at[r] + 1, c, F, v)
      BY <1>t, <2>1, <3>1, <3>3, LoopTurn
    <3> HIDE DEF c
    <3>5. F = dns'[v]
      BY <3>1 DEF F
    <3>6. QED  BY <2>s, <3>2, <3>4, <3>5
  <2>4. CASE Load(r)
    <3>1. UNCHANGED <<at, todo, dns>>
      BY <2>4 DEF Load
    <3>2. F = dns'[v]
      BY <3>1
    <3> HIDE DEF L, res, F, v
    <3>3. QED  BY <2>s, <2>1, <3>1, <3>2
  <2>5. CASE Save(r)
    <3> DEFINE c == todo[r]
               new == Apply(entries[r], Head(c))
    <3>1. /\ pc[r] = "save" /\ c # <<>> /\ ~Fails(Head(c)) /\ Head(c).vlan = v
      BY <1>t, <1>3, <2>2, <2>5 DEF Save, CommandControl, Syncing
    <3>2. Head(c) = c[1] /\ c[1] \in Command
      BY <1>t, <3>1
    <3>3. entries[r] = F
      BY <3>1 DEF Alone
    <3>4. dns'[v] = Apply(F, c[1])
      BY <1>t, <2>1, <2>5, <3>1, <3>2, <3>3 DEF Save, StateTypes
    <3>5. todo'[r] = Tail(c) /\ at'[r] = at[r]
      BY <1>t, <2>5 DEF Save, RequestTypes
    <3> HIDE DEF L, res, F, v, c
    <3>6. Loops(L, res, at[r], Tail(c), Apply(F, c[1]), v)
      <4>1. Loops(L, res, at[r], c, F, v)
        BY <2>1 DEF c
      <4>2. ~Fails(c[1])
        BY <3>1, <3>2
      <4>3. QED  BY <1>t, <2>1, <3>1, <3>2, <4>1, <4>2, LoopCommand
    <3>7. QED  BY <2>s, <3>4, <3>5, <3>6
  <2>6. QED  BY <2>3, <2>4, <2>5
<1>4. Resyncing(r)'
  BY <1>1, <1>3 DEF Resyncing
<1>5. QED  BY <1>2, <1>4

\* A request that moves on, alone.
LEMMA ResyncingMove ==
    ASSUME Typed, Alone, NEW r \in Requests, Request(r), ~\E j \in Jobs : Begin(r, j),
           lone, Queried(r), Resyncing(r)
    PROVE  Queried(r)' /\ Resyncing(r)'
<1>t. /\ RequestTypes /\ StateTypes /\ JobControl(r) /\ CommandControl(r)
  BY DEF Typed
<1>o. ASSUME job'[r].kind # "resync", then'[r] # "resynced" PROVE Queried(r)' /\ Resyncing(r)'
  BY <1>o DEF Queried, Resyncing
<1>1. ASSUME NEW ok, Answer(r, ok) PROVE Queried(r)' /\ Resyncing(r)'
  <2>1. job'[r].kind = "none" /\ then'[r] = "end"
    BY <1>1, <1>t, AnswerEffect, NoJobType
  <2>2. QED  BY <1>o, <2>1
<1>n. pc[r] \notin {"run", "save"} => then[r] # "resynced"
  BY <1>t DEF CommandControl, Syncing
<1>2. CASE Check(r) \/ Insert(r) \/ Lookup(r) \/ Delete(r)
  <2>1. CASE \E ok : Answer(r, ok)
    BY <1>1, <2>1
  <2>2. CASE ~\E ok : Answer(r, ok)
    <3>1. job'[r].kind = job[r].kind
      BY <1>2, <1>t, <2>2 DEF Check, Insert, Lookup, Delete, RequestTypes, JobType
    <3>2. job[r].kind # "resync" /\ then'[r] # "resynced"
      BY <1>2, <1>n, <1>t, <2>2 DEF Check, Insert, Lookup, Delete, Goto, RunCommands,
         RequestTypes, JobControl
    <3>3. QED  BY <1>o, <3>1, <3>2
  <2>3. QED  BY <2>1, <2>2
<1>3. CASE Query(r)
  <2> DEFINE W == Reserved(job[r].vlan)
  <2>1. PICK s \in SetToSeqs(W) : rows' = [rows EXCEPT ![r] = s]
    BY <1>3 DEF Query, Reserved
  <2>2. W \subseteq hosts /\ IsFiniteSet(W)
    BY <1>t, FS_Subset DEF StateTypes, Reserved
  <2> HIDE DEF W
  <2>3. /\ \A m \in DOMAIN s : s[m] \in W
        /\ \A h \in W : \E m \in DOMAIN s : s[m] = h
    BY <2>2, SetToSeqsFacts
  <2>4. rows'[r] = s /\ UNCHANGED <<hosts, job, then>> /\ then[r] # "resynced"
    BY <1>3, <1>n, <1>t, <2>1 DEF Query, Goto, RequestTypes
  <2>5. Queried(r)'
    BY <2>3, <2>4 DEF Queried, Reserved, W
  <2>6. QED  BY <2>4, <2>5 DEF Resyncing
<1>4. CASE List(r)
  <2>1. CASE job[r].kind = "resync"
    <3> DEFINE v == job[r].vlan
               F == dns[v]
    <3>0. PICK file \in Readable(v) :
              Synchronise(r, file, rows[r], "resynced") /\ clean' = Clean(file, rows[r])
      BY <1>4, <2>1 DEF List
    <3>f. file = F
      BY <1>4, AloneReads DEF List
    <3>1. /\ Synchronise(r, F, rows[r], "resynced") /\ clean' = Clean(F, rows[r])
          /\ UNCHANGED <<hosts, dns, job, at>> /\ pc[r] = "list"
      BY <1>4, <3>0, <3>f DEF List
    <3>2. F \in Seq(Entry) /\ v \in Vlans /\ rows[r] \in Seq(Reservation)
      BY <1>t DEF StateTypes, RequestTypes, JobType
    <3>3. /\ todo'[r] = <<>> /\ rows'[r] = rows[r] /\ listing'[r] = F /\ then'[r] = "resynced"
      BY <1>t, <3>1, <3>2, SynchroniseEffect
    <3>4. at'[r] = 0
      BY <1>n, <1>t, <3>1 DEF CommandControl, Syncing
    <3>5. WellFormed(F)
      BY <1>t, <3>2 DEF StateTypes
    <3>6. Queried(r)'
      BY <3>1, <3>3, QueriedSame
    <3> HIDE DEF F, v
    <3>7. Loops(F, rows[r], 0, <<>>, F, v)
      <4>1. FirstLoop(F, rows[r], 0, <<>>, F, v)
        BY <3>5, LoopStart
      <4>2. 0 <= Len(F)
        BY <3>5 DEF WellFormed
      <4>3. QED  BY <4>1, <4>2 DEF Loops
    <3>8. Resyncing(r)'
      <4>1. ASSUME clean' PROVE Clean(F, rows[r])
        BY <3>1, <4>1
      <4>2. /\ listing'[r] = F /\ rows'[r] = rows[r] /\ at'[r] = 0 /\ todo'[r] = <<>>
            /\ dns'[job'[r].vlan] = F /\ job'[r].vlan = v
        BY <3>1, <3>3, <3>4 DEF F, v
      <4>3. Loops(listing'[r], rows'[r], at'[r], todo'[r], dns'[job'[r].vlan], job'[r].vlan)
        BY <3>7, <4>2
      <4>4. QED  BY <4>1, <4>2, <4>3 DEF Resyncing
    <3>9. QED  BY <3>6, <3>8
  <2>2. CASE job[r].kind # "resync"
    <3>1. job'[r] = job[r] /\ then'[r] = "update"
      BY <1>4, <1>t, <2>2 DEF List, RunCommands, RequestTypes
    <3>2. QED  BY <1>o, <2>2, <3>1
  <2>3. QED  BY <2>1, <2>2
<1>5. CASE Update(r) \/ SyncAll(r)
  <2>1. job'[r] = job[r] /\ job[r].kind # "resync" /\ then'[r] # "resynced"
    BY <1>5, <1>n, <1>t DEF Update, SyncAll, Goto, Synchronise, RunCommands, RequestTypes,
       JobControl
  <2>2. QED  BY <1>o, <2>1
<1>6. CASE NextTurn(r) \/ Load(r) \/ Save(r)
  BY <1>6, ResyncingCommands
<1>7. CASE Done(r)
  <2>1. CASE Answer(r, TRUE)
    BY <1>1, <2>1
  <2>2. CASE ~Answer(r, TRUE)
    <3>1. then[r] \in {"update", "sync"} /\ job'[r] = job[r] /\ then'[r] = then[r]
      BY <1>7, <2>2 DEF Done, Goto
    <3>2. job[r].kind # "resync"
      BY <1>t, <3>1 DEF JobControl
    <3>3. QED  BY <1>o, <3>1, <3>2
  <2>3. QED  BY <2>1, <2>2
<1>8. CASE CommandFails(r) \/ Stop(r)
  BY <1>1, <1>8 DEF CommandFails, Stop
<1>9. QED  BY <1>2, <1>3, <1>4, <1>5, <1>6, <1>7, <1>8 DEF Request

LEMMA ResyncInit ==
    ASSUME Init
    PROVE  ResyncInv
BY NoJobType DEF Init, ResyncInv, ResyncMatches, Queried, Resyncing

LEMMA ResyncStep ==
    ASSUME Typed, Alone, ResyncInv, [Next]_vars
    PROVE  ResyncInv'
<1>t. RequestTypes
  BY DEF Typed
<1>n. ASSUME result'.kind = "none" PROVE ResyncMatches'
  BY <1>n DEF ResyncMatches
<1>i. ASSUME NEW s \in Requests, pc[s] = "idle"
      PROVE  job[s].kind = "none" /\ then[s] # "resynced"
  BY <1>i DEF Typed, JobControl
<1>q. ASSUME NEW s \in Requests, job'[s].kind # "resync", then'[s] # "resynced"
      PROVE  Queried(s)' /\ Resyncing(s)'
  BY <1>q DEF Queried, Resyncing
<1>1. ASSUME NEW r \in Requests, NEW j \in Jobs, Begin(r, j) PROVE ResyncInv'
  <2>1. /\ lone' = Quiet /\ result' = NoJob /\ Others(r) /\ then'[r] = "end"
        /\ pc'[r] = Start(j.kind) /\ job'[r] = j
    BY <1>1, <1>t DEF Begin, Others, Untouched, RequestTypes
  <2>2. Queried(r)' /\ Resyncing(r)'
    BY <2>1 DEF Queried, Resyncing, Start
  <2>3. ASSUME NEW s \in Requests \ {r}, lone' PROVE Queried(s)' /\ Resyncing(s)'
    <3>1. pc[s] = "idle"
      BY <2>1, <2>3 DEF Quiet
    <3>2. job'[s].kind # "resync" /\ then'[s] # "resynced"
      BY <1>i, <2>1, <3>1 DEF Others, Untouched
    <3>3. QED  BY <1>q, <3>2
  <2>4. QED  BY <1>n, <2>1, <2>2, <2>3, NoJobType DEF ResyncInv
<1>2. ASSUME NEW r \in Requests, Request(r), ~\E j \in Jobs : Begin(r, j) PROVE ResyncInv'
  <2>1. /\ pc[r] # "idle" /\ UNCHANGED lone /\ Others(r)
    BY <1>2, <1>t, MoveFacts, OthersStep
  <2>2. ASSUME lone, NEW s \in Requests \ {r} PROVE Queried(s)' /\ Resyncing(s)'
    <3>1. pc[s] = "idle"
      BY <2>1, <2>2 DEF Alone
    <3>2. job'[s].kind # "resync" /\ then'[s] # "resynced"
      BY <1>i, <2>1, <3>1 DEF Others, Untouched
    <3>3. QED  BY <1>q, <3>2
  <2>3. ASSUME lone PROVE Queried(r)' /\ Resyncing(r)'
    BY <1>2, <2>3, ResyncingMove DEF ResyncInv
  <2>4. ResyncMatches'
    <3>1. CASE UNCHANGED result
      BY <1>n, <2>1, <3>1 DEF Alone, Quiet
    <3>2. CASE result' = NoJob
      BY <1>n, <3>2, NoJobType
    <3>3. CASE ~UNCHANGED result /\ result' # NoJob
      <4>1. lone
        BY <1>2, <3>3, MoveFacts DEF Answer
      <4>2. /\ result' = job[r] /\ UNCHANGED <<hosts, dns, clean>>
            /\ job[r].kind = "resync" =>
                  /\ then[r] = "resynced" /\ todo[r] = <<>>
                  /\ at[r] = Len(listing[r]) + Len(rows[r])
        BY <1>2, <3>3, <4>1, AnswerAfter
      <4>3. ASSUME job[r].kind = "resync", clean
            PROVE  /\ \A h \in Reserved(job[r].vlan) :
                         Lower[h.name] \in NamesAt(dns[job[r].vlan], h.ip)
                   /\ \A k \in DOMAIN dns[job[r].vlan] : \E h \in Reserved(job[r].vlan) :
                         /\ h.ip = dns[job[r].vlan][k].ip
                         /\ Lower[h.name] = dns[job[r].vlan][k].names[1]
        <5> DEFINE L == listing[r]
                   res == rows[r]
                   v == job[r].vlan
                   F == dns[v]
                   p == at[r]
        <5>1. Queried(r) /\ Resyncing(r) /\ then[r] = "resynced"
          BY <4>1, <4>2, <4>3 DEF ResyncInv
        <5>2. Setting(L, res, F) /\ Loops(L, res, p, todo[r], F, v)
          BY <4>3, <5>1, ResyncSetting
        <5>3. Loops(L, res, p, <<>>, F, v) /\ p = Len(L) + Len(res)
          BY <4>2, <4>3, <5>2
        <5>4. /\ \A m \in DOMAIN res : res[m] \in Reserved(v)
              /\ \A h \in Reserved(v) : \E m \in DOMAIN res : res[m] = h
          BY <4>3, <5>1 DEF Queried
        <5> HIDE DEF L, res, v, F, p
        <5>5. /\ \A m \in DOMAIN res : Lower[res[m].name] \in NamesAt(F, res[m].ip)
              /\ \A k \in DOMAIN F : \E m \in DOMAIN res :
                    res[m].ip = F[k].ip /\ Lower[res[m].name] = F[k].names[1]
          BY <5>2, <5>3, LoopEnd
        <5>6. /\ \A h \in Reserved(v) : Lower[h.name] \in NamesAt(F, h.ip)
              /\ \A k \in DOMAIN F : \E h \in Reserved(v) :
                    h.ip = F[k].ip /\ Lower[h.name] = F[k].names[1]
          BY <5>4, <5>5
        <5>7. QED  BY <5>6 DEF F, v
      <4>4. QED  BY <4>2, <4>3 DEF ResyncMatches, Reserved
    <3>4. QED  BY <3>1, <3>2, <3>3
  <2>5. QED  BY <2>1, <2>2, <2>3, <2>4 DEF ResyncInv
<1>3. CASE Reboot
  <2>1. result' = NoJob /\ \A s \in Requests : job'[s] = NoJob /\ then'[s] = "end"
    BY <1>3 DEF Reboot
  <2>2. \A s \in Requests : Queried(s)' /\ Resyncing(s)'
    BY <1>q, <2>1, NoJobType
  <2>3. QED  BY <1>n, <2>1, <2>2, NoJobType DEF ResyncInv
<1>4. CASE UNCHANGED vars
  <2>1. ResyncMatches'
    BY <1>4 DEF vars, requestVars, ResyncInv, ResyncMatches
  <2>2. ASSUME lone, NEW r \in Requests PROVE Queried(r)' /\ Resyncing(r)'
    <3>1. Queried(r) /\ Resyncing(r)
      BY <2>2 DEF ResyncInv
    <3>2. Queried(r)'
      BY <1>4, <3>1, QueriedSame DEF vars, requestVars
    <3>3. Resyncing(r)'
      BY <1>4, <3>1 DEF vars, requestVars, Resyncing
    <3>4. QED  BY <3>2, <3>3
  <2>3. QED  BY <1>4, <2>1, <2>2 DEF vars, requestVars, ResyncInv
<1>5. QED  BY <1>1, <1>2, <1>3, <1>4 DEF Next

\* A resync that is on its own, finds no name at two addresses and no address
\* reserved twice, and succeeds makes the names of its VLAN those of its
\* reservations, from whatever table and file, however many entries, names and
\* reservations there are, and in whatever order the database answers.
THEOREM ResyncRepairs == Spec => []ResyncMatches
<1>1. Init => ResyncInv
  BY ResyncInit
<1>2. Typed /\ Alone /\ ResyncInv /\ [Next]_vars => ResyncInv'
  BY ResyncStep
<1>3. ResyncInv => ResyncMatches
  BY DEF ResyncInv
<1>4. QED  BY <1>1, <1>2, <1>3, AlwaysAlone, PTL DEF Spec
=============================================================================
