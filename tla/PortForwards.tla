---------------------------- MODULE PortForwards ----------------------------
(***************************************************************************)
(* Port forwards.  The web interface keeps two text files, the local       *)
(* forwards (ports of the router itself) and the external ones (ports of   *)
(* machines on the LAN).  A request reads them, checks, rewrites one and   *)
(* runs a script that compares the file with the rules nft lists and adds  *)
(* and removes what differs.  The boot sequence runs both scripts.         *)
(* Nothing locks the files or the ruleset, and a script may break off      *)
(* between any two of its nft commands.                                    *)
(***************************************************************************)
EXTENDS FiniteSets

CONSTANTS
    Requests,      \* requests that may be under way together
    Boot,          \* the boot sequence
    Asked,         \* the lists that requests are about
    ExtPorts,      \* external ports
    Targets,       \* internal addresses with a port, as a user may give them
    Routed,        \* those that may be routed via INTERNAL_INTERFACE
    OtherPorts,    \* local ports other than the external one
    Same,          \* the local port is the external one
    Unspecified,   \* a local forward posted without local port
    Invalid,       \* a port, address or type that the API refuses
    NoForward,     \* the value of a port that is not on a list
    NoAsk,         \* a process that is not at a request's edit
    \* The targets whose rules hold the text that the removal of a target
    \* looks for: `dnat to ip:port' in a DNAT rule, the address and
    \* `dport port' in a forward rule, address and port in an SNAT rule.
    DnatTouches, AcceptTouches, SnatTouches

LocalPorts == {Same} \cup OtherPorts
Values == Targets \cup LocalPorts \cup {Unspecified}
Processes == Requests \cup {Boot}
Lists == {"local", "external"}

ASSUME PortForwardsAssumption ==
    /\ Boot \notin Requests
    /\ Asked \subseteq Lists
    /\ Routed \subseteq Targets
    /\ NoForward \notin Values /\ Invalid \notin Values \cup {NoForward}
    /\ Unspecified \notin Targets \cup LocalPorts
    /\ Targets \cap LocalPorts = {}
    /\ DnatTouches \in [Targets -> SUBSET Targets]
    /\ AcceptTouches \in [Targets -> SUBSET Targets]
    /\ SnatTouches \in [Targets -> SUBSET Targets]
    /\ \A t \in Targets : /\ t \in DnatTouches[t]
                          /\ DnatTouches[t] \subseteq AcceptTouches[t]
                          /\ AcceptTouches[t] \subseteq SnatTouches[t]

VARIABLES
    file,      \* local_forwards.txt and external_forwards.txt
    missing,   \* those of the two that do not exist yet
    dnat,      \* DNAT rules of external forwards: port and target
    snat,      \* targets with their SNAT rules
    accept,    \* targets with their accept rules in the forward chain
    opened,    \* rules of local forwards: port and local port
    doubled,   \* those of them that are there more than once
    pc,        \* where each process is
    list,      \* the list it edits or synchronises
    ask,       \* what a request asks for
    unread,    \* the lists a request has still to read
    absent,    \* the lists a request has found missing and will create
    seen,      \* the lists as a request has read them
    adds,      \* rules a script has found missing
    drops,     \* rules a script has found stale
    half,      \* the target whose rules a script is adding or deleting
    \* What the properties remember of the past.
    lone,      \* no two processes have been under way since all was idle
    good,      \* the last synchronisation of a list ended without error, and
               \* no other process has been under way with it or since
    apart,     \* no two processes have ever been under way together
    checked,   \* the targets in a subnet of the router's interfaces when the
               \* external list was last compared with the rules
    torn       \* targets whose removal was begun and neither completed since
               \* nor undone by a new forward to them

pastVars == <<lone, good, apart, checked, torn>>
files == <<file, missing>>
ruleset == <<dnat, snat, accept, opened, doubled>>
editVars == <<ask, unread, absent, seen>>
syncVars == <<adds, drops, half>>
vars == <<file, missing, dnat, snat, accept, opened, doubled, pc, list, ask,
          unread, absent, seen, adds, drops, half, lone, good, apart, checked,
          torn>>

AnyContents == [ExtPorts -> Values \cup {NoForward}]
Nothing == [p \in ExtPorts |-> NoForward]
NothingRead == [l \in Lists |-> Nothing]
DnatRules == ExtPorts \X Targets
LocalRules == ExtPorts \X LocalPorts

\* What may be put on a list, and what a request may ask for on it.
Kinds(l) == IF l = "local" THEN LocalPorts \cup {Unspecified} ELSE Targets

Contents(l) == [ExtPorts -> Kinds(l) \cup {NoForward}]

Asks(l) ==
    [op : {"POST"}, port : ExtPorts, value : Kinds(l) \cup {Invalid}]
    \cup [op : {"DELETE"}, port : ExtPorts, value : {NoForward}]

Get == [op |-> "GET"]

\* The places at which a script is in the middle of a forward, and all those at
\* which it changes rules.
Adding == {"addSnat", "addAccept"}
Removing == {"delSnat", "delAccept"}
Syncing == {"sync"} \cup Adding \cup Removing

Rules(l) == IF l = "local" THEN LocalRules ELSE DnatRules

ProcessOK(p) ==
    /\ pc[p] = "read" => ask[p] \in Asks(list[p]) \cup {Get}
    /\ pc[p] = "write" => ask[p] \in Asks(list[p]) /\ ask[p].value # Invalid
    /\ \A l \in Lists : seen[p][l] \in Contents(l)
    /\ pc[p] \notin Syncing => adds[p] = {} /\ drops[p] = {}
    /\ adds[p] \cup drops[p] \subseteq Rules(list[p])
    /\ pc[p] \in Adding \cup Removing => list[p] = "external"
    /\ pc[p] \in Adding => half[p] \in Routed
    /\ pc[p] \in Removing => half[p] \in Targets

TypeOK ==
    /\ file \in [Lists -> AnyContents]
    /\ \A l \in Lists : file[l] \in Contents(l)
    /\ missing \subseteq Lists
    /\ dnat \subseteq ExtPorts \X Routed
    /\ snat \subseteq Routed /\ accept \subseteq Routed
    /\ opened \subseteq LocalRules /\ doubled \subseteq opened
    /\ pc \in [Processes -> {"idle", "read", "write", "compare"} \cup Syncing]
    /\ pc[Boot] \notin {"read", "write"}
    /\ list \in [Processes -> Lists]
    /\ DOMAIN ask = Processes
    /\ unread \in [Processes -> SUBSET Lists]
    /\ absent \in [Processes -> SUBSET Lists]
    /\ seen \in [Processes -> [Lists -> AnyContents]]
    /\ adds \in [Processes -> SUBSET (DnatRules \cup LocalRules)]
    /\ drops \in [Processes -> SUBSET (DnatRules \cup LocalRules)]
    /\ half \in [Processes -> Targets \cup {NoForward}]
    /\ \A p \in Processes : ProcessOK(p)
    /\ lone \in BOOLEAN
    /\ good \in [Lists -> BOOLEAN]
    /\ apart \in BOOLEAN
    /\ checked \subseteq Targets
    /\ torn \subseteq Targets

-----------------------------------------------------------------------------
(* The files.                                                              *)

\* readLocalForwards takes an absent or unreadable local port for the external
\* one; readExternalForwards takes the line as it is.
ReadForwards(c) == [p \in ExtPorts |-> IF c[p] = Unspecified THEN Same ELSE c[p]]

\* The lines the scripts' awk patterns take: `80:undefined', which is what
\* writeLocalForwards makes of an absent local port, is not among them.
Desired(c) == {<<p, c[p]>> : p \in {q \in ExtPorts :
                                        c[q] \notin {NoForward, Unspecified}}}

\* Mutant: only the list of the forward's own type is searched.
InUseMutant(r) == seen[r][list[r]][ask[r].port] # NoForward

InUse(r) == \E l \in Lists : seen[r][l][ask[r].port] # NoForward

\* What ends in an answer without an edit; a GET always does.
Refused(r) ==
    \/ ask[r].op = "GET"
    \/ ask[r].op = "POST" /\ (InUse(r) \/ ask[r].value = Invalid)
    \/ ask[r].op = "DELETE" /\ seen[r][list[r]][ask[r].port] = NoForward

\* Mutant: the new forward is written without the list it belongs to.
EditedMutant(r) == [Nothing EXCEPT ![ask[r].port] = ask[r].value]

\* The list as a request is going to write it.
Edited(r) == [seen[r][list[r]] EXCEPT ![ask[r].port] = ask[r].value]

\* fs.writeFile writes over the beginning of the file: if another request has
\* written a longer text since the truncation, its last lines remain.
Overwritten(new, old) ==
    {[p \in ExtPorts |-> IF new[p] = NoForward /\ p \in tail THEN old[p] ELSE new[p]]
        : tail \in SUBSET ExtPorts}

-----------------------------------------------------------------------------
(* Requests.                                                               *)

Quiet == \A p \in Processes : pc[p] = "idle"

\* Another process is under way from now on.
Overlap ==
    /\ lone' = Quiet
    /\ good' = [k \in Lists |-> good[k] /\ Quiet]
    /\ apart' = (apart /\ Quiet)
    /\ UNCHANGED <<checked, torn>>

Begin(r, l, a) ==
    /\ pc[r] = "idle"
    /\ pc' = [pc EXCEPT ![r] = "read"]
    /\ list' = [list EXCEPT ![r] = l]
    /\ ask' = [ask EXCEPT ![r] = a]
    /\ unread' = [unread EXCEPT ![r] = IF a.op = "POST" THEN Lists ELSE {l}]
    /\ Overlap
    /\ UNCHANGED <<files, ruleset, absent, seen, syncVars>>

\* A GET that finds both files changes nothing, and is left out.
BeginGet(r) ==
    /\ pc[r] = "idle"
    /\ missing # {}
    /\ pc' = [pc EXCEPT ![r] = "read"]
    /\ ask' = [ask EXCEPT ![r] = Get]
    /\ unread' = [unread EXCEPT ![r] = Lists]
    /\ Overlap
    /\ UNCHANGED <<files, ruleset, list, absent, seen, syncVars>>

Read(r, l) ==
    /\ pc[r] = "read"
    /\ l \in unread[r]
    /\ unread' = [unread EXCEPT ![r] = @ \ {l}]
    /\ IF l \in missing
       THEN /\ absent' = [absent EXCEPT ![r] = @ \cup {l}]
            /\ seen' = [seen EXCEPT ![r][l] = Nothing]
       ELSE /\ absent' = absent
            /\ seen' = [seen EXCEPT ![r][l] = ReadForwards(file[l])]
    /\ UNCHANGED <<files, ruleset, pc, list, ask, syncVars, pastVars>>

\* A request that has not found a file writes an empty one, over whatever
\* another request may have written there in the meantime.
Create(r, l) ==
    /\ pc[r] = "read"
    /\ l \in absent[r]
    /\ absent' = [absent EXCEPT ![r] = @ \ {l}]
    /\ file' = [file EXCEPT ![l] = Nothing]
    /\ missing' = missing \ {l}
    /\ good' = [good EXCEPT ![l] = FALSE]
    /\ UNCHANGED <<ruleset, pc, list, ask, unread, seen, syncVars, lone, apart,
                   checked, torn>>

\* The edit of a request is over, one way or another.
Forget(r) ==
    /\ ask' = [ask EXCEPT ![r] = NoAsk]
    /\ unread' = [unread EXCEPT ![r] = {}]
    /\ absent' = [absent EXCEPT ![r] = {}]
    /\ seen' = [seen EXCEPT ![r] = NothingRead]

AllRead(r) == pc[r] = "read" /\ unread[r] = {} /\ absent[r] = {}

Refuse(r) ==
    /\ AllRead(r)
    /\ Refused(r)
    /\ pc' = [pc EXCEPT ![r] = "idle"]
    /\ Forget(r)
    /\ UNCHANGED <<files, ruleset, list, syncVars, pastVars>>

\* fs.writeFile opens the file, which empties it, before it writes.
Truncate(r) ==
    /\ AllRead(r)
    /\ ~Refused(r)
    /\ pc' = [pc EXCEPT ![r] = "write"]
    /\ file' = [file EXCEPT ![list[r]] = Nothing]
    /\ missing' = missing \ {list[r]}
    /\ good' = [good EXCEPT ![list[r]] = FALSE]
    /\ UNCHANGED <<ruleset, list, editVars, syncVars, lone, apart, checked, torn>>

Write(r) ==
    /\ pc[r] = "write"
    /\ pc' = [pc EXCEPT ![r] = "compare"]
    /\ \E c \in Overwritten(Edited(r), file[list[r]]) :
           file' = [file EXCEPT ![list[r]] = c]
    /\ Forget(r)
    /\ UNCHANGED <<missing, ruleset, list, syncVars, pastVars>>

-----------------------------------------------------------------------------
(* The scripts update_external_forwards.sh and update_local_forwards.sh.   *)

\* The rules a script takes into account: update_external_forwards.sh ignores
\* those to targets that are in no subnet of the router's interfaces.
Active(l, within) == IF l = "local" THEN opened ELSE {e \in dnat : e[2] \in within}
Twice(l) == IF l = "local" THEN doubled ELSE {}

\* Mutant: the rules of the external forwards are listed for both scripts.
CompareMutant(p, within) ==
    /\ pc[p] = "compare"
    /\ list[p] \notin missing
    /\ pc' = [pc EXCEPT ![p] = "sync"]
    /\ adds' = [adds EXCEPT ![p] = Desired(file[list[p]]) \ dnat]
    /\ drops' = [drops EXCEPT ![p] = dnat \ Desired(file[list[p]])]
    /\ checked' = IF list[p] = "external" THEN within ELSE checked
    /\ UNCHANGED <<files, ruleset, list, editVars, half, lone, good, apart, torn>>

\* The addresses of the interfaces change with the VLANs and the leases: any
\* targets may be within their subnets when a script looks.
Compare(p, within) ==
    LET desired == Desired(file[list[p]])
        active == Active(list[p], within)
    IN  /\ pc[p] = "compare"
        /\ list[p] \notin missing
        /\ pc' = [pc EXCEPT ![p] = "sync"]
        /\ adds' = [adds EXCEPT ![p] = desired \ active]
        /\ drops' = [drops EXCEPT ![p] = (active \ desired) \cup Twice(list[p])]
        /\ checked' = IF list[p] = "external" THEN within ELSE checked
        /\ UNCHANGED <<files, ruleset, list, editVars, half, lone, good, apart, torn>>

\* add_external_forward.sh.  Rules that go together (one per uplink, and the
\* hairpin ones) count as there from the first of them on.
AddForward(p, e) ==
    /\ pc[p] = "sync"
    /\ list[p] = "external"
    /\ e \in adds[p]
    /\ e[2] \in Routed
    /\ adds' = [adds EXCEPT ![p] = @ \ {e}]
    /\ half' = [half EXCEPT ![p] = e[2]]
    /\ pc' = [pc EXCEPT ![p] = "addSnat"]
    /\ dnat' = dnat \cup {e}
    /\ torn' = torn \ {e[2]}
    /\ UNCHANGED <<files, snat, accept, opened, doubled, list, editVars, drops,
                   lone, good, apart, checked>>

AddSnat(p) ==
    /\ pc[p] = "addSnat"
    /\ pc' = [pc EXCEPT ![p] = "addAccept"]
    /\ snat' = snat \cup {half[p]}
    /\ UNCHANGED <<files, dnat, accept, opened, doubled, list, editVars, syncVars, pastVars>>

AddAccept(p) ==
    /\ pc[p] = "addAccept"
    /\ pc' = [pc EXCEPT ![p] = "sync"]
    /\ half' = [half EXCEPT ![p] = NoForward]
    /\ accept' = accept \cup {half[p]}
    /\ UNCHANGED <<files, dnat, snat, opened, doubled, list, editVars, adds, drops, pastVars>>

\* The stale rules are removed once the missing ones are there.
\* remove_external_forward.sh finds the rules by their text, and deletes DNAT,
\* SNAT and accept rules in this order.  Rules that go together count as gone
\* with the last of them.
RemoveForward(p, e) ==
    /\ pc[p] = "sync"
    /\ list[p] = "external"
    /\ adds[p] = {}
    /\ e \in drops[p]
    /\ drops' = [drops EXCEPT ![p] = @ \ {e}]
    /\ half' = [half EXCEPT ![p] = e[2]]
    /\ pc' = [pc EXCEPT ![p] = "delSnat"]
    /\ dnat' = dnat \ ({e[1]} \X DnatTouches[e[2]])
    /\ torn' = torn \cup DnatTouches[e[2]]
    /\ UNCHANGED <<files, snat, accept, opened, doubled, list, editVars, adds,
                   lone, good, apart, checked>>

RemoveSnat(p) ==
    /\ pc[p] = "delSnat"
    /\ pc' = [pc EXCEPT ![p] = "delAccept"]
    /\ snat' = snat \ SnatTouches[half[p]]
    /\ UNCHANGED <<files, dnat, accept, opened, doubled, list, editVars, syncVars, pastVars>>

\* Mutant: the accept rules are left where they are.
RemoveAcceptMutant(p) ==
    /\ pc[p] = "delAccept"
    /\ pc' = [pc EXCEPT ![p] = "sync"]
    /\ half' = [half EXCEPT ![p] = NoForward]
    /\ torn' = torn \ AcceptTouches[half[p]]
    /\ UNCHANGED <<files, ruleset, list, editVars, adds, drops, lone, good, apart, checked>>

RemoveAccept(p) ==
    /\ pc[p] = "delAccept"
    /\ pc' = [pc EXCEPT ![p] = "sync"]
    /\ half' = [half EXCEPT ![p] = NoForward]
    /\ accept' = accept \ AcceptTouches[half[p]]
    /\ torn' = torn \ AcceptTouches[half[p]]
    /\ UNCHANGED <<files, dnat, snat, opened, doubled, list, editVars, adds, drops,
                   lone, good, apart, checked>>

\* The insertion of the rule of a local forward.
InsertLocal(p, e) ==
    /\ pc[p] = "sync"
    /\ list[p] = "local"
    /\ e \in adds[p]
    /\ adds' = [adds EXCEPT ![p] = @ \ {e}]
    /\ opened' = opened \cup {e}
    /\ doubled' = IF e \in opened THEN doubled \cup {e} ELSE doubled
    /\ UNCHANGED <<files, dnat, snat, accept, pc, list, editVars, drops, half, pastVars>>

\* What the deletions under way may have done when a script breaks off: every
\* rule is deleted by an nft command of its own.
Partly(p) ==
    \/ UNCHANGED <<ruleset, torn>>
    \/ /\ pc[p] = "sync" /\ list[p] = "external" /\ adds[p] = {}
       /\ \E e \in drops[p] : \E gone \in SUBSET DnatTouches[e[2]] :
              /\ dnat' = dnat \ ({e[1]} \X gone)
              /\ torn' = torn \cup DnatTouches[e[2]]
       /\ UNCHANGED <<snat, accept, opened, doubled>>
    \/ /\ pc[p] = "delSnat"
       /\ \E gone \in SUBSET SnatTouches[half[p]] : snat' = snat \ gone
       /\ UNCHANGED <<dnat, accept, opened, doubled, torn>>
    \/ /\ pc[p] = "delAccept"
       /\ \E gone \in SUBSET AcceptTouches[half[p]] : accept' = accept \ gone
       /\ UNCHANGED <<dnat, snat, opened, doubled, torn>>

\* The end of a script, and of the request; the boot sequence goes on with the
\* local forwards, whatever became of the external ones.
End(p, ok) ==
    /\ adds' = [adds EXCEPT ![p] = {}]
    /\ drops' = [drops EXCEPT ![p] = {}]
    /\ half' = [half EXCEPT ![p] = NoForward]
    /\ good' = [good EXCEPT ![list[p]] = ok /\ lone]
    /\ IF p = Boot /\ list[p] = "external"
       THEN list' = [list EXCEPT ![p] = "local"] /\ pc' = [pc EXCEPT ![p] = "compare"]
       ELSE list' = list /\ pc' = [pc EXCEPT ![p] = "idle"]
    /\ UNCHANGED <<files, editVars, lone, apart, checked>>

Finish(p) ==
    /\ pc[p] = "sync"
    /\ adds[p] = {}
    /\ drops[p] = {}
    /\ End(p, TRUE)
    /\ UNCHANGED <<ruleset, torn>>

\* A script ends at once without its configuration or its list, and the external
\* one if no interface has an address.
ScriptFails(p) ==
    /\ pc[p] = "compare"
    /\ End(p, FALSE)
    /\ UNCHANGED <<ruleset, torn>>

\* Mutant: without `set -e' the script goes on to its end and exits with 0.
AddFailsMutant(p) ==
    /\ list[p] = "external"
    /\ \/ pc[p] = "sync" /\ adds[p] # {}
       \/ pc[p] \in Adding
    /\ End(p, TRUE)
    /\ UNCHANGED <<ruleset, torn>>

\* With `set -e' a command that fails ends the script: the remaining rules are
\* neither added nor removed.  add_external_forward.sh fails if the target is
\* not routed via the LAN, if a lease has no gateway or the primary no address,
\* and if nft refuses a rule.
AddFails(p) ==
    /\ list[p] = "external"
    /\ \/ pc[p] = "sync" /\ adds[p] # {}
       \/ pc[p] \in Adding
    /\ End(p, FALSE)
    /\ UNCHANGED <<ruleset, torn>>

\* In the same way nft fails if a rule to delete has gone in the meantime.
RemoveFails(p) ==
    /\ list[p] = "external"
    /\ \/ pc[p] = "sync" /\ adds[p] = {} /\ drops[p] # {}
       \/ pc[p] \in Removing
    /\ End(p, FALSE)
    /\ Partly(p)

\* Mutant: without `set -e' the script goes on to its end and exits with 0.
RemoveLocalFailsMutant(p) ==
    /\ pc[p] = "sync"
    /\ list[p] = "local"
    /\ adds[p] = {}
    /\ drops[p] # {}
    /\ End(p, TRUE)
    /\ UNCHANGED <<ruleset, torn>>

\* nft deletes a rule only by its handle, and update_local_forwards.sh gives
\* none: it refuses every removal.
RemoveLocalFails(p) ==
    /\ pc[p] = "sync"
    /\ list[p] = "local"
    /\ adds[p] = {}
    /\ drops[p] # {}
    /\ End(p, FALSE)
    /\ UNCHANGED <<ruleset, torn>>

-----------------------------------------------------------------------------
(* Failures.                                                               *)

\* The web server dies (stop_nextjs.sh, a restart of nextjs-app, or a crash),
\* its requests with it, and the scripts they run: systemd kills all processes
\* of the service, wherever they are.
Stop(r) ==
    /\ pc[r] # "idle"
    /\ pc' = [pc EXCEPT ![r] = "idle"]
    /\ Forget(r)
    /\ adds' = [adds EXCEPT ![r] = {}]
    /\ drops' = [drops EXCEPT ![r] = {}]
    /\ half' = [half EXCEPT ![r] = NoForward]
    /\ Partly(r)
    /\ UNCHANGED <<files, list, lone, good, apart, checked>>

Booting == [p \in Processes |-> IF p = Boot THEN "compare" ELSE "idle"]

\* A power failure or reboot, up to the point where setup_default_routing.sh
\* synchronises the forwards.
Reboot ==
    /\ dnat' = {} /\ snat' = {} /\ accept' = {} /\ opened' = {} /\ doubled' = {}
    /\ pc' = Booting
    /\ list' = [p \in Processes |-> "external"]
    /\ ask' = [p \in Processes |-> NoAsk]
    /\ unread' = [p \in Processes |-> {}]
    /\ absent' = [p \in Processes |-> {}]
    /\ seen' = [p \in Processes |-> NothingRead]
    /\ adds' = [p \in Processes |-> {}]
    /\ drops' = [p \in Processes |-> {}]
    /\ half' = [p \in Processes |-> NoForward]
    /\ lone' = TRUE
    /\ good' = [l \in Lists |-> FALSE]
    /\ checked' = {}
    /\ torn' = {}
    /\ UNCHANGED <<files, apart>>

-----------------------------------------------------------------------------
\* Nothing in the installation creates the files.
Init ==
    /\ file = [l \in Lists |-> Nothing]
    /\ missing = Lists
    /\ dnat = {} /\ snat = {} /\ accept = {} /\ opened = {} /\ doubled = {}
    /\ pc = Booting
    /\ list = [p \in Processes |-> "external"]
    /\ ask = [p \in Processes |-> NoAsk]
    /\ unread = [p \in Processes |-> {}]
    /\ absent = [p \in Processes |-> {}]
    /\ seen = [p \in Processes |-> NothingRead]
    /\ adds = [p \in Processes |-> {}]
    /\ drops = [p \in Processes |-> {}]
    /\ half = [p \in Processes |-> NoForward]
    /\ good = [l \in Lists |-> FALSE]
    /\ lone = TRUE
    /\ apart = TRUE
    /\ checked = {}
    /\ torn = {}

Script(p) ==
    \/ \E within \in SUBSET Targets : Compare(p, within)
    \/ \E e \in adds[p] : AddForward(p, e) \/ InsertLocal(p, e)
    \/ AddSnat(p)
    \/ AddAccept(p)
    \/ \E e \in drops[p] : RemoveForward(p, e)
    \/ RemoveSnat(p)
    \/ RemoveAccept(p)
    \/ Finish(p)
    \/ ScriptFails(p)
    \/ AddFails(p)
    \/ RemoveFails(p)
    \/ RemoveLocalFails(p)

Request(r) ==
    \/ \E l \in Asked : \E a \in Asks(l) : Begin(r, l, a)
    \/ \E l \in Lists : Read(r, l) \/ Create(r, l)
    \/ BeginGet(r)
    \/ Refuse(r)
    \/ Truncate(r)
    \/ Write(r)
    \/ Stop(r)

Next ==
    \/ \E r \in Requests : Request(r)
    \/ \E p \in Processes : Script(p)
    \/ Reboot

Spec == Init /\ [][Next]_vars

\* One request at a time, as from a single page, which disables its buttons
\* while a request is under way.
SerialNext == Next /\ apart'

SerialSpec == Init /\ [][SerialNext]_vars

\* In addition, no script breaks off in the middle of a forward.
WholeNext ==
    SerialNext /\ \A p \in Processes : half[p] # NoForward => pc'[p] \in Syncing

WholeSpec == Init /\ [][WholeNext]_vars

-----------------------------------------------------------------------------
(* The table the lists stand for: a list that has been emptied to be       *)
(* written is already what it is going to be.                              *)

Writers(l) == {r \in Requests : pc[r] = "write" /\ list[r] = l}

Recorded(l) == ReadForwards(IF Writers(l) = {} THEN file[l]
                            ELSE Edited(CHOOSE r \in Writers(l) : TRUE))

Table == INSTANCE ForwardTable WITH table <- [l \in Lists |-> Recorded(l)],
                                    Allowed <- [l \in Lists |-> Kinds(l) \ {Unspecified}]

\* As long as requests do not overlap the two files behave as one table of
\* forwards: a POST adds a forward whose port is free in both, a DELETE takes
\* one away, and a list is lost only by a crash in the middle of its writing.
BehavesAsTable == Table!Spec

\* Requests that do not overlap never bring a port onto both lists.
PortsUnique ==
    apart => \A p \in ExtPorts :
                 Recorded("local")[p] = NoForward \/ Recorded("external")[p] = NoForward

\* The targets that no removal of another target mistakes for its own.
Distinct == {t \in Targets : \A u \in Targets : t \in DnatTouches[u] => u = t}

\* After a synchronisation of its own that reported no error, no DNAT rule to a
\* target that was then in a subnet of the router's interfaces is left that is
\* not on the list, and each forward on the list has one, unless its text begins
\* with that of another target.  This holds whatever requests that overlapped,
\* failed or were cut short have done to the rules before.  (Of a target outside
\* those subnets a rule once there is never removed.)
ExternalInForce ==
    good["external"] =>
        /\ \A e \in dnat : e[2] \in checked => e \in Desired(file["external"])
        /\ \A e \in Desired(file["external"]) : e[2] \in Distinct => e \in dnat

\* In the same way, there is then exactly one rule for each local forward on
\* the list that has a local port, and no other.
LocalInForce ==
    good["local"] => opened = Desired(file["local"]) /\ doubled = {}

\* As long as processes do not overlap, the firewall lets nobody through to a
\* target that has no forward, unless a removal broke off between its deletions:
\* of all the places where a script may be killed or fail, only those leave the
\* accept or SNAT rules of a target behind its last DNAT rule, and only until a
\* removal that touches the target is completed or a forward to it is added.
NoHoleLeft ==
    apart => \A t \in accept \cup snat :
                 t \in torn \/ \E p \in ExtPorts : <<p, t>> \in dnat

-----------------------------------------------------------------------------
(* What the comments say.                                                  *)

\* add_external_forward.sh: "Filter FORWARD rules: allow traffic".  A forward
\* in force has the accept rules without which the forward chain drops it.
ForwardsAreAllowed ==
    good["external"] => \A e \in dnat : e[2] \in accept
=============================================================================
