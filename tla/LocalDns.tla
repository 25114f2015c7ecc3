------------------------------ MODULE LocalDns ------------------------------
(***************************************************************************)
(* DHCP reservations and local DNS names.  Reservations are rows of Kea's  *)
(* hosts table; the names of a VLAN are the file custom-records.conf of    *)
(* its Unbound, which unbound-dns-manager.py reads, changes and writes,    *)
(* one command and one process at a time.  Requests to /api/reservations   *)
(* and /api/dns-hosts change the table and then run commands one by one;   *)
(* most of them end with syncAllSystems.  Nothing locks the files.         *)
(***************************************************************************)
EXTENDS Naturals, SequencesExt

CONSTANTS
    Requests,          \* requests that may be under way together
    Macs,              \* hardware addresses
    MacType,           \* the identifier type under which Kea's table has them
    Ips,               \* addresses
    HighIps,           \* those from 128.0.0.0 on
    Names,             \* host names as a user may type them
    Refused,           \* those the manager refuses
    Lower,             \* the other ones in lower case
    Vlans,             \* VLANs
    Default,           \* VLAN 1, whose directory is called default
    VlanOf,            \* the VLAN whose range an address is in
    KeaReservations,   \* subnet4[0].reservations of kea-dhcp4.conf
    NoName, NoMac, NoIp,
    InitialStates      \* tables and files, with the number of requests to come

\* A reservation of Kea's configuration file.
KeaReservation == [ip : Ips, name : Names \cup {NoName}]

ASSUME LocalDnsAssumption ==
    /\ MacType \in Nat
    /\ HighIps \subseteq Ips
    /\ Refused \subseteq Names
    /\ Lower \in [Names \ Refused -> Names \ Refused]
    /\ \A n \in DOMAIN Lower : Lower[Lower[n]] = Lower[n]
    /\ Default \in Vlans
    /\ VlanOf \in [Ips -> Vlans]
    /\ NoName \notin Names /\ NoMac \notin Macs /\ NoIp \notin Ips
    /\ KeaReservations \in Seq(KeaReservation)

VARIABLES
    hosts,     \* Kea's hosts table
    dns,       \* of each VLAN, the entries of its file, in order
    pc,        \* where each request is
    job,       \* what it was asked for
    todo,      \* commands it has still to run
    then,      \* what it does after them
    rows,      \* the reservations of a synchronisation, in the order of the answer
    listing,   \* the entries it has listed
    at,        \* how many entries, and then reservations, it has gone through
    entries,   \* what the running command has read from the file
    left,      \* requests still to come
    \* What the properties remember of the past.
    lone,      \* no two requests have been under way since all was idle
    clean,     \* the last resync or release found names and addresses distinct
    result     \* the last request, if it succeeded alone and nothing came after

requestVars == <<pc, job, todo, then, rows, listing, at, entries>>
vars == <<hosts, dns, requestVars, left, lone, clean, result>>

LowerNames == {Lower[n] : n \in DOMAIN Lower}

Row == [mac : Macs, ip : Ips, name : Names \cup {NoName}, vlan : Vlans]

\* A request, with the fields that its kind does not have left empty.
Job(kind, mac, ip, name, vlan) ==
    [kind |-> kind, mac |-> mac, ip |-> ip, name |-> name, vlan |-> vlan]

NoJob == Job("none", NoMac, NoIp, NoName, Default)

Jobs ==
    {Job("reserve", m, i, n, v) : m \in Macs, i \in Ips, n \in Names \cup {NoName}, v \in Vlans}
    \cup {Job("release", m, NoIp, NoName, v) : m \in Macs, v \in Vlans}
    \cup {Job("resync", NoMac, NoIp, NoName, v) : v \in Vlans}
    \cup {Job("addhost", NoMac, i, n, v) : i \in Ips, n \in Names, v \in Vlans}
    \cup {Job("removehost", NoMac, NoIp, n, v) : n \in Names, v \in Vlans}
    \cup {Job("rename", m, i, n, Default) : m \in Macs \cup {NoMac}, i \in Ips, n \in Names}

Entry == [ip : Ips, names : Seq(LowerNames)]

\* A file has one entry per address, each with names that differ.
WellFormed(file) ==
    /\ file \in Seq(Entry)
    /\ \A k \in DOMAIN file : file[k].names # <<>> /\ IsInjective(file[k].names)
    /\ \A j, k \in DOMAIN file : file[j].ip = file[k].ip => j = k

ASSUME InitialStatesAssumption ==
    \A s \in InitialStates :
        /\ s.hosts \subseteq Row /\ IsFiniteSet(s.hosts)
        /\ s.dns \in [Vlans -> Seq(Entry)] /\ \A v \in Vlans : WellFormed(s.dns[v])
        /\ s.left \in Nat

TypeOK ==
    /\ hosts \subseteq Row
    /\ \A v \in Vlans : WellFormed(dns[v])
    /\ pc \in [Requests -> {"idle", "check", "insert", "lookup", "delete", "query",
                            "list", "update", "sync", "run", "save"}]
    /\ \A r \in Requests :
           /\ job[r].kind # "none" <=> pc[r] # "idle"
           /\ pc[r] = "save" => todo[r] # <<>> /\ WellFormed(entries[r])
           /\ then[r] \in {"update", "sync", "synced", "resynced", "end"}

-----------------------------------------------------------------------------
(* unbound-dns-manager.py.                                                 *)

NamesAt(file, ip) == UNION {ToSet(file[k].names) : k \in {j \in DOMAIN file : file[j].ip = ip}}

AddEntry(file, ip, name) ==
    LET k == SelectInSeq(file, LAMBDA e : e.ip = ip)
    IN  IF k = 0 THEN Append(file, [ip |-> ip, names |-> <<name>>])
        ELSE IF Contains(file[k].names, name) THEN file
        ELSE [file EXCEPT ![k].names = Append(@, name)]

\* Mutant: the entry is kept, without names.
RemoveEntryMutant(file, name) ==
    LET k == SelectInSeq(file, LAMBDA e : Contains(e.names, name))
    IN  IF k = 0 THEN file ELSE [file EXCEPT ![k].names = RemoveFirst(@, name)]

\* The first address that has the name loses it, and its entry with the last.
RemoveEntry(file, name) ==
    LET k == SelectInSeq(file, LAMBDA e : Contains(e.names, name))
    IN  IF k = 0 THEN file
        ELSE IF file[k].names = <<name>> THEN RemoveAt(file, k)
        ELSE [file EXCEPT ![k].names = RemoveFirst(@, name)]

Add(ip, name, vlan) == [op |-> "add", ip |-> ip, name |-> name, vlan |-> vlan]
RemoveName(name, vlan) == [op |-> "remove", ip |-> NoIp, name |-> name, vlan |-> vlan]

\* A name to be added is put into lower case; one to be removed is not.
Apply(file, c) ==
    IF c.op = "add" THEN AddEntry(file, c.ip, Lower[c.name]) ELSE RemoveEntry(file, c.name)

\* An invalid name to be added is refused before the file is read.
Fails(c) == c.op = "add" /\ c.name \in Refused

\* The command a request runs is about to write the file of a VLAN.
Writing(r, vlan) ==
    LET c == Head(todo[r])
    IN  pc[r] = "save" /\ c.vlan = vlan /\ Apply(entries[r], c) # entries[r]

\* What a command reads: a file that is being written may be empty, because
\* open('w') has truncated it.
Readable(vlan) ==
    {dns[vlan]} \cup (IF \E r \in Requests : Writing(r, vlan) THEN {<<>>} ELSE {})

-----------------------------------------------------------------------------
(* The commands of syncAllSystems and syncDnsWithReservations, which only  *)
(* differ in the reservations they compare the listed entries with.        *)

RemoveAllNames(e, vlan) == [k \in DOMAIN e.names |-> RemoveName(e.names[k], vlan)]

\* For an entry: nothing if its first name is that of the first reservation of
\* its address, else its names are removed and the reserved one is added.
EntryCommands(e, reservations, vlan) ==
    LET k == SelectInSeq(reservations, LAMBDA r : r.ip = e.ip)
    IN  IF k = 0 \/ reservations[k].name = NoName THEN RemoveAllNames(e, vlan)
        ELSE IF e.names[1] = reservations[k].name THEN <<>>
        ELSE Append(RemoveAllNames(e, vlan), Add(e.ip, reservations[k].name, vlan))

\* Mutant: an entry is looked for by its name only.
MissingCommandsMutant(file, r, vlan) ==
    IF r.name = NoName \/ \E k \in DOMAIN file : Contains(file[k].names, r.name)
    THEN <<>> ELSE <<Add(r.ip, r.name, vlan)>>

MissingCommands(file, r, vlan) ==
    IF r.name = NoName \/ r.name \in NamesAt(file, r.ip)
    THEN <<>> ELSE <<Add(r.ip, r.name, vlan)>>

\* The k-th turn of the two loops: one for each entry, one for each reservation.
SyncCommands(file, reservations, vlan, k) ==
    IF k <= Len(file) THEN EntryCommands(file[k], reservations, vlan)
    ELSE MissingCommands(file, reservations[k - Len(file)], vlan)

-----------------------------------------------------------------------------
(* Requests.                                                               *)

\* No name is at two addresses, and no address is reserved twice.
Clean(file, reservations) ==
    /\ \A i, k \in DOMAIN file :
           i # k => ToSet(file[i].names) \cap ToSet(file[k].names) = {}
    /\ \A i, k \in DOMAIN reservations :
           i # k => reservations[i].ip # reservations[k].ip

Quiet == \A r \in Requests : pc[r] = "idle"

Start(kind) ==
    CASE kind = "reserve" -> "check"
      [] kind = "release" -> "lookup"
      [] kind = "resync"  -> "query"
      [] kind = "rename"  -> "list"
      [] OTHER            -> "run"

Begin(r, j) ==
    /\ pc[r] = "idle"
    /\ left > 0
    /\ left' = left - 1
    /\ pc' = [pc EXCEPT ![r] = Start(j.kind)]
    /\ job' = [job EXCEPT ![r] = j]
    /\ todo' = [todo EXCEPT ![r] = CASE j.kind = "addhost" -> <<Add(j.ip, j.name, j.vlan)>>
                                     [] j.kind = "removehost" -> <<RemoveName(j.name, j.vlan)>>
                                     [] OTHER -> <<>>]
    /\ then' = [then EXCEPT ![r] = "end"]
    /\ lone' = Quiet
    /\ result' = NoJob
    /\ UNCHANGED <<hosts, dns, rows, listing, at, entries, clean>>

\* The answer to a request.
Answer(r, ok) ==
    /\ pc' = [pc EXCEPT ![r] = "idle"]
    /\ job' = [job EXCEPT ![r] = NoJob]
    /\ todo' = [todo EXCEPT ![r] = <<>>]
    /\ then' = [then EXCEPT ![r] = "end"]
    /\ rows' = [rows EXCEPT ![r] = <<>>]
    /\ listing' = [listing EXCEPT ![r] = <<>>]
    /\ at' = [at EXCEPT ![r] = 0]
    /\ entries' = [entries EXCEPT ![r] = <<>>]
    /\ result' = IF ok /\ lone THEN job[r] ELSE NoJob

\* The request goes on with commands.
RunCommands(r, commands, next) ==
    /\ pc' = [pc EXCEPT ![r] = "run"]
    /\ todo' = [todo EXCEPT ![r] = commands]
    /\ then' = [then EXCEPT ![r] = next]
    /\ UNCHANGED <<entries, result>>

\* It has listed the entries of a VLAN and compares them with reservations.
Synchronise(r, file, reservations, next) ==
    /\ RunCommands(r, <<>>, next)
    /\ listing' = [listing EXCEPT ![r] = file]
    /\ rows' = [rows EXCEPT ![r] = reservations]

Goto(r, next) ==
    /\ pc' = [pc EXCEPT ![r] = next]
    /\ UNCHANGED <<todo, then, entries, result>>

\* POST /api/reservations.  The default VLAN takes any address.
InSubnet(j) == VlanOf[j.ip] = j.vlan \/ j.vlan = Default

Check(r) ==
    /\ pc[r] = "check"
    /\ IF InSubnet(job[r]) /\ \A h \in hosts : h.mac # job[r].mac
       THEN Goto(r, "insert") /\ UNCHANGED <<job, rows, listing, at>>
       ELSE Answer(r, FALSE)
    /\ UNCHANGED <<hosts, dns, left, lone, clean>>

\* The database refuses a second row of an address in a subnet.
InsertRefused(j) == \E h \in hosts : h.mac = j.mac /\ h.vlan = j.vlan

Insert(r) ==
    LET j == job[r]
    IN  /\ pc[r] = "insert"
        /\ IF InsertRefused(j)
           THEN Answer(r, FALSE) /\ UNCHANGED hosts
           ELSE /\ hosts' = hosts \cup
                       {[mac |-> j.mac, ip |-> j.ip, name |-> j.name, vlan |-> j.vlan]}
                /\ RunCommands(r, IF j.name = NoName THEN <<>>
                                  ELSE <<Add(j.ip, j.name, j.vlan)>>, "sync")
                /\ UNCHANGED <<job, rows, listing, at>>
        /\ UNCHANGED <<dns, left, lone, clean>>

\* DELETE /api/reservations.
RowsOf(mac) == {h \in hosts : h.mac = mac}

Lookup(r) ==
    /\ pc[r] = "lookup"
    /\ \E n \in IF RowsOf(job[r].mac) = {} THEN {NoName}
                ELSE {h.name : h \in RowsOf(job[r].mac)} :
           job' = [job EXCEPT ![r].name = n]
    /\ Goto(r, "delete")
    /\ UNCHANGED <<hosts, dns, rows, listing, at, left, lone, clean>>

\* Mutant: the row is deleted, its name is not.
DeleteMutant(r) ==
    /\ pc[r] = "delete"
    /\ hosts' = hosts \ RowsOf(job[r].mac)
    /\ RunCommands(r, <<>>, "sync")
    /\ clean' = Clean(dns[job[r].vlan], <<>>)
    /\ UNCHANGED <<dns, job, rows, listing, at, left, lone>>

Delete(r) ==
    /\ pc[r] = "delete"
    /\ hosts' = hosts \ RowsOf(job[r].mac)
    /\ RunCommands(r, IF job[r].name = NoName THEN <<>>
                      ELSE <<RemoveName(job[r].name, job[r].vlan)>>, "sync")
    /\ clean' = Clean(dns[job[r].vlan], <<>>)
    /\ UNCHANGED <<dns, job, rows, listing, at, left, lone>>

\* PUT /api/reservations.
Query(r) ==
    /\ pc[r] = "query"
    /\ \E s \in SetToSeqs({h \in hosts : h.vlan = job[r].vlan /\ h.name # NoName}) :
           rows' = [rows EXCEPT ![r] = s]
    /\ Goto(r, "list")
    /\ UNCHANGED <<hosts, dns, job, listing, at, left, lone, clean>>

\* PUT /api/dns-hosts removes the names of the address before it adds the new one.
RenameCommands(file, j) ==
    LET own == SelectInSeq(file, LAMBDA e : e.ip = j.ip)
    IN  Append(IF own = 0 THEN <<>> ELSE RemoveAllNames(file[own], j.vlan),
               Add(j.ip, j.name, j.vlan))

\* The list command, for PUT /api/reservations and PUT /api/dns-hosts.
List(r) ==
    LET j == job[r]
    IN  /\ pc[r] = "list"
        /\ \E file \in Readable(j.vlan) :
               IF j.kind = "resync"
               THEN /\ Synchronise(r, file, rows[r], "resynced")
                    /\ clean' = Clean(file, rows[r])
               ELSE /\ RunCommands(r, RenameCommands(file, j), "update")
                    /\ UNCHANGED <<rows, listing, clean>>
        /\ UNCHANGED <<hosts, dns, job, at, left, lone>>

\* PUT /api/dns-hosts looks for the reservation under identifier type 1, and for
\* its address as a signed number, which one from 128.0.0.0 on never equals.
Found(h, j) == MacType = 1 /\ h.mac = j.mac /\ h.ip = j.ip /\ h.ip \notin HighIps

Update(r) ==
    /\ pc[r] = "update"
    /\ hosts' = {IF Found(h, job[r]) THEN [h EXCEPT !.name = job[r].name] ELSE h : h \in hosts}
    /\ Goto(r, "sync")
    /\ UNCHANGED <<dns, job, rows, listing, at, left, lone, clean>>

\* syncAllSystems compares the default VLAN with the reservations that Kea's
\* configuration file holds.
SyncAll(r) ==
    /\ pc[r] = "sync"
    /\ \E file \in Readable(Default) : Synchronise(r, file, KeaReservations, "synced")
    /\ UNCHANGED <<hosts, dns, job, at, left, lone, clean>>

Syncing(r) == then[r] \in {"synced", "resynced"}

SyncVlan(r) == IF then[r] = "synced" THEN Default ELSE job[r].vlan

\* The loops of both synchronisations: the next entry, then the next reservation.
NextTurn(r) ==
    /\ pc[r] = "run"
    /\ todo[r] = <<>>
    /\ Syncing(r)
    /\ at[r] < Len(listing[r]) + Len(rows[r])
    /\ at' = [at EXCEPT ![r] = @ + 1]
    /\ todo' = [todo EXCEPT ![r] = SyncCommands(listing[r], rows[r], SyncVlan(r), at'[r])]
    /\ UNCHANGED <<hosts, dns, pc, job, then, rows, listing, entries, left, lone, clean, result>>

-----------------------------------------------------------------------------
(* Commands.                                                               *)

\* syncAllSystems keeps its errors to itself; elsewhere the request fails.
CommandFails(r) ==
    /\ pc[r] = "run"
    /\ todo[r] # <<>>
    /\ Fails(Head(todo[r]))
    /\ Answer(r, then[r] = "synced")
    /\ UNCHANGED <<hosts, dns, left, lone, clean>>

Load(r) ==
    /\ pc[r] = "run"
    /\ todo[r] # <<>>
    /\ ~Fails(Head(todo[r]))
    /\ pc' = [pc EXCEPT ![r] = "save"]
    /\ \E file \in Readable(Head(todo[r]).vlan) : entries' = [entries EXCEPT ![r] = file]
    /\ UNCHANGED <<hosts, dns, job, todo, then, rows, listing, at, left, lone, clean, result>>

\* The file is written only if there is something to change.
Save(r) ==
    LET c == Head(todo[r])
        new == Apply(entries[r], c)
    IN  /\ pc[r] = "save"
        /\ dns' = IF new = entries[r] THEN dns ELSE [dns EXCEPT ![c.vlan] = new]
        /\ pc' = [pc EXCEPT ![r] = "run"]
        /\ todo' = [todo EXCEPT ![r] = Tail(@)]
        /\ UNCHANGED <<hosts, job, then, rows, listing, at, entries, left, lone, clean, result>>

Done(r) ==
    /\ pc[r] = "run"
    /\ todo[r] = <<>>
    /\ Syncing(r) => at[r] = Len(listing[r]) + Len(rows[r])
    /\ IF then[r] \in {"update", "sync"}
       THEN Goto(r, then[r]) /\ UNCHANGED <<job, rows, listing, at>>
       ELSE Answer(r, TRUE)
    /\ UNCHANGED <<hosts, dns, left, lone, clean>>

-----------------------------------------------------------------------------
(* Failures.                                                               *)

\* The files of some of these VLANs are left empty, as a command has opened them
\* but not written them.
Lose(vlans) ==
    \E lost \in SUBSET vlans : dns' = [v \in Vlans |-> IF v \in lost THEN <<>> ELSE dns[v]]

\* The web server dies, and a command that it runs with it.
Stop(r) ==
    /\ pc[r] # "idle"
    /\ Lose({v \in Vlans : Writing(r, v)})
    /\ Answer(r, FALSE)
    /\ UNCHANGED <<hosts, left, lone, clean>>

\* A power failure.
Reboot ==
    /\ ~Quiet
    /\ Lose({v \in Vlans : \E r \in Requests : Writing(r, v)})
    /\ pc' = [r \in Requests |-> "idle"]
    /\ job' = [r \in Requests |-> NoJob]
    /\ todo' = [r \in Requests |-> <<>>]
    /\ then' = [r \in Requests |-> "end"]
    /\ rows' = [r \in Requests |-> <<>>]
    /\ listing' = [r \in Requests |-> <<>>]
    /\ at' = [r \in Requests |-> 0]
    /\ entries' = [r \in Requests |-> <<>>]
    /\ result' = NoJob
    /\ UNCHANGED <<hosts, left, lone, clean>>

-----------------------------------------------------------------------------
Init ==
    /\ \E s \in InitialStates : hosts = s.hosts /\ dns = s.dns /\ left = s.left
    /\ pc = [r \in Requests |-> "idle"]
    /\ job = [r \in Requests |-> NoJob]
    /\ todo = [r \in Requests |-> <<>>]
    /\ then = [r \in Requests |-> "end"]
    /\ rows = [r \in Requests |-> <<>>]
    /\ listing = [r \in Requests |-> <<>>]
    /\ at = [r \in Requests |-> 0]
    /\ entries = [r \in Requests |-> <<>>]
    /\ lone = TRUE
    /\ clean = FALSE
    /\ result = NoJob

Request(r) ==
    \/ \E j \in Jobs : Begin(r, j)
    \/ Check(r) \/ Insert(r) \/ Lookup(r) \/ Delete(r) \/ Query(r)
    \/ List(r) \/ Update(r) \/ SyncAll(r) \/ NextTurn(r)
    \/ CommandFails(r) \/ Load(r) \/ Save(r) \/ Done(r)
    \/ Stop(r)

Next == (\E r \in Requests : Request(r)) \/ Reboot

Spec == Init /\ [][Next]_vars

-----------------------------------------------------------------------------
\* A resync that is on its own, finds no name at two addresses and no address
\* reserved twice, and succeeds makes the VLAN's names those of its
\* reservations: each address in the file is reserved, under the name that comes
\* first, and each reserved name is there.  This holds whatever half-done edits
\* left in table and file, and although all commands are chosen from a listing
\* made before the first one runs.
ResyncMatches ==
    result.kind = "resync" /\ clean =>
        LET file == dns[result.vlan]
            reserved == {h \in hosts : h.vlan = result.vlan /\ h.name # NoName}
        IN  /\ \A h \in reserved : Lower[h.name] \in NamesAt(file, h.ip)
            /\ \A k \in DOMAIN file :
                   \E h \in reserved : h.ip = file[k].ip /\ Lower[h.name] = file[k].names[1]

\* Outside the default VLAN a reservation that was made alone and without error
\* is served under its name, and the name of one that was released is gone, if
\* it was in lower case and no other address had it.
VlanEditsShow ==
    result.vlan # Default =>
        /\ result.kind = "reserve" /\ result.name # NoName
               => Lower[result.name] \in NamesAt(dns[result.vlan], result.ip)
        /\ result.kind = "release" /\ result.name \in LowerNames /\ clean
               => \A i \in Ips : result.name \notin NamesAt(dns[result.vlan], i)

-----------------------------------------------------------------------------
(* What the comments say.                                                  *)

\* reservations/route.ts: "If hostname is provided, add DNS entry".  A
\* reservation with a name that was made alone and without error is served.
ReservedIsServed ==
    result.kind = "reserve" /\ result.name # NoName
        => Lower[result.name] \in NamesAt(dns[result.vlan], result.ip)
=============================================================================
