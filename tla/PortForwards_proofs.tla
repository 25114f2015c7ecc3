------------------------- MODULE PortForwards_proofs -------------------------
(***************************************************************************)
(* Proofs about PortForwards, for any number of requests, ports and        *)
(* targets and any texts of the rules.                                     *)
(***************************************************************************)
EXTENDS PortForwards, TLAPS

Places == {"idle", "read", "write", "compare"} \cup Syncing

LEMMA NothingTyped ==
    /\ Nothing \in AnyContents
    /\ \A l \in Lists : Nothing \in Contents(l)
    /\ NothingRead \in [Lists -> AnyContents]
    /\ \A l \in Lists : NothingRead[l] = Nothing
  <1>1. Nothing \in AnyContents /\ \A l \in Lists : Nothing \in Contents(l)
    BY DEF Nothing, AnyContents, Contents
  <1> QED
    BY <1>1 DEF NothingRead

\* What a process that has just been started, or stopped, looks like.
LEMMA FreshProcess ==
    ASSUME NEW q \in Processes, pc'[q] \in {"idle", "compare"}, seen'[q] = NothingRead,
           adds'[q] = {}, drops'[q] = {}
    PROVE  ProcessOK(q)'
  BY NothingTyped DEF ProcessOK, Syncing, Adding, Removing, Contents

\* A process that a step leaves alone stays well typed.
LEMMA SameProcess ==
    ASSUME NEW q \in Processes, ProcessOK(q),
           pc'[q] = pc[q], list'[q] = list[q], ask'[q] = ask[q], seen'[q] = seen[q],
           adds'[q] = adds[q], drops'[q] = drops[q], half'[q] = half[q]
    PROVE  ProcessOK(q)'
  BY DEF ProcessOK, Contents, Asks, Get, Rules

LEMMA InitTyped == Init => TypeOK
  <1> SUFFICES ASSUME Init PROVE TypeOK
    OBVIOUS
  <1> USE PortForwardsAssumption
  <1>1. /\ pc \in [Processes -> Places]
        /\ \A p \in Processes : pc[p] \in {"idle", "compare"}
    BY DEF Init, Booting, Processes, Places
  <1>2. ASSUME NEW p \in Processes PROVE ProcessOK(p)
    BY <1>1, NothingTyped DEF Init, ProcessOK, Syncing, Adding, Removing
  <1> QED
    BY <1>1, <1>2, NothingTyped DEF Init, TypeOK, Processes, Lists, Places

\* What is read from a well typed file is well typed, as is its edit.
LEMMA ReadTyped ==
    ASSUME NEW l \in Lists, NEW c \in Contents(l)
    PROVE  /\ ReadForwards(c) \in Contents(l)
           /\ ReadForwards(c) \in AnyContents
           /\ c \in AnyContents
  BY PortForwardsAssumption
     DEF Lists, Contents, ReadForwards, Kinds, AnyContents, Values, LocalPorts

LEMMA EditTyped ==
    ASSUME TypeOK, NEW r \in Requests, pc[r] = "write"
    PROVE  Edited(r) \in Contents(list[r])
  <1> r \in Processes
    BY DEF Processes
  <1> DEFINE l == list[r]
  <1>1. l \in Lists /\ seen[r][l] \in Contents(l)
    BY DEF TypeOK, ProcessOK
  <1>2. ask[r] \in Asks(l) /\ ask[r].value # Invalid
    BY DEF TypeOK, ProcessOK
  <1>3. ask[r].value \in Kinds(l) \cup {NoForward}
    BY <1>2 DEF Asks
  <1> QED
    BY <1>1, <1>3 DEF Edited, Contents

LEMMA OverwrittenTyped ==
    ASSUME NEW l \in Lists, NEW new \in Contents(l), NEW old \in Contents(l),
           NEW c \in Overwritten(new, old)
    PROVE  c \in Contents(l) /\ c \in AnyContents
  <1>1. c \in Contents(l)
    BY DEF Overwritten, Contents
  <1> QED
    BY <1>1, ReadTyped

LEMMA DesiredTyped ==
    ASSUME NEW l \in Lists, NEW c \in Contents(l)
    PROVE  Desired(c) \subseteq Rules(l)
  BY PortForwardsAssumption
     DEF Lists, Contents, Desired, Kinds, Rules, LocalRules, DnatRules, LocalPorts

-----------------------------------------------------------------------------
(* Every step keeps the types.                                             *)

LEMMA OverlapTyped ==
    ASSUME TypeOK, Overlap
    PROVE  lone' \in BOOLEAN /\ apart' \in BOOLEAN /\ good' \in [Lists -> BOOLEAN]
  <1>1. lone' \in BOOLEAN /\ apart' \in BOOLEAN
    BY Zenon DEF TypeOK, Overlap, Quiet
  <1>2. good' \in [Lists -> BOOLEAN]
    BY DEF TypeOK, Overlap
  <1> QED
    BY <1>1, <1>2

LEMMA BeginTyped ==
    ASSUME TypeOK, NEW r \in Requests,
           BeginGet(r) \/ \E l \in Asked : \E a \in Asks(l) : Begin(r, l, a)
    PROVE  TypeOK'
  <1> USE PortForwardsAssumption
  <1>1. r \in Processes /\ r # Boot /\ Overlap /\ list[r] \in Lists
    BY DEF Processes, Begin, BeginGet, TypeOK
  <1>2. /\ pc' = [pc EXCEPT ![r] = "read"]
        /\ DOMAIN ask' = Processes
        /\ \A q \in Processes : q # r => ask'[q] = ask[q]
        /\ unread' \in [Processes -> SUBSET Lists]
        /\ list' \in [Processes -> Lists]
        /\ \A q \in Processes : q # r => list'[q] = list[q]
        /\ ask'[r] \in Asks(list'[r]) \cup {Get}
    <2>1. CASE BeginGet(r)
      BY <1>1, <2>1 DEF TypeOK, BeginGet
    <2>2. ASSUME NEW l \in Asked, NEW a \in Asks(l), Begin(r, l, a)
          PROVE  /\ pc' = [pc EXCEPT ![r] = "read"]
                 /\ list' = [list EXCEPT ![r] = l] /\ l \in Lists
                 /\ ask' = [ask EXCEPT ![r] = a]
                 /\ unread' \in [Processes -> SUBSET Lists]
      BY <1>1, <2>2 DEF TypeOK, Begin
    <2>3. CASE \E l \in Asked : \E a \in Asks(l) : Begin(r, l, a)
      <3>0. PICK l \in Asked : \E a \in Asks(l) : Begin(r, l, a)
        BY <2>3
      <3>1. PICK a \in Asks(l) : Begin(r, l, a)
        BY <3>0
      <3>2. list'[r] = l /\ ask'[r] = a
        BY <1>1, <2>2, <3>1 DEF TypeOK
      <3>3. a \in Asks(list'[r])
        BY <3>1, <3>2
      <3> QED
        BY <1>1, <2>2, <3>1, <3>2, <3>3 DEF TypeOK
    <2> QED
      BY <2>1, <2>3
  <1>3. UNCHANGED <<files, ruleset, absent, seen, syncVars, checked, torn>>
    BY <1>1 DEF Begin, BeginGet, Overlap
  <1>4. /\ pc' \in [Processes -> Places]
        /\ pc'[Boot] \notin {"read", "write"}
        /\ pc'[r] = "read" /\ pc[r] = "idle"
    BY <1>1, <1>2 DEF TypeOK, Places, Begin, BeginGet
  <1>5. ASSUME NEW q \in Processes PROVE ProcessOK(q)'
    <2>1. CASE q = r
      <3>1. adds[r] = {} /\ drops[r] = {} /\ \A l \in Lists : seen[r][l] \in Contents(l)
        BY <1>1, <1>4 DEF TypeOK, ProcessOK, Syncing, Adding, Removing
      <3> QED
        BY <1>2, <1>3, <1>4, <2>1, <3>1
           DEF ProcessOK, Syncing, Adding, Removing, syncVars, Contents, Asks, Get, Rules
    <2>2. CASE q # r
      <3>1. pc'[q] = pc[q]
        BY <1>2, <2>2 DEF TypeOK
      <3> QED
        BY <1>2, <1>3, <2>2, <3>1, SameProcess DEF TypeOK, syncVars
    <2> QED
      BY <2>1, <2>2
  <1> QED
    BY <1>1, <1>2, <1>3, <1>4, <1>5, OverlapTyped
       DEF TypeOK, files, ruleset, syncVars, Places, Contents

LEMMA ReadStepTyped ==
    ASSUME TypeOK, NEW r \in Requests, NEW l \in Lists, Read(r, l)
    PROVE  TypeOK'
  <1> USE PortForwardsAssumption
  <1>1. r \in Processes
    BY DEF Processes
  <1> DEFINE c == IF l \in missing THEN Nothing ELSE ReadForwards(file[l])
  <1>2. c \in Contents(l) /\ c \in AnyContents
    BY ReadTyped, NothingTyped DEF TypeOK
  <1> HIDE DEF c
  <1>3. /\ unread' \in [Processes -> SUBSET Lists]
        /\ absent' \in [Processes -> SUBSET Lists]
        /\ seen' = [seen EXCEPT ![r][l] = c]
    <2>1. seen' = [seen EXCEPT ![r][l] = c]
      BY DEF Read, c
    <2>2. absent' \in [Processes -> SUBSET Lists]
      <3>1. \/ absent' = [absent EXCEPT ![r] = absent[r] \cup {l}]
            \/ absent' = absent
        BY DEF Read
      <3>2. absent \in [Processes -> SUBSET Lists]
        BY DEF TypeOK
      <3> QED
        BY <1>1, <3>1, <3>2
    <2>3. unread' \in [Processes -> SUBSET Lists]
      BY <1>1 DEF TypeOK, Read
    <2> QED
      BY <2>1, <2>2, <2>3
  <1>4. seen' \in [Processes -> [Lists -> AnyContents]]
    BY <1>1, <1>2, <1>3 DEF TypeOK, c
  <1>5. ASSUME NEW p \in Processes, NEW k \in Lists
        PROVE  seen'[p][k] \in Contents(k)
    BY <1>1, <1>2, <1>3 DEF TypeOK, ProcessOK, c
  <1>6. ASSUME NEW q \in Processes PROVE ProcessOK(q)'
    <2>1. ProcessOK(q)
      BY DEF TypeOK
    <2> QED
      BY <1>5, <2>1 DEF ProcessOK, Read, syncVars, Contents, Asks, Get, Rules
  <1> QED
    BY <1>3, <1>4, <1>6 DEF TypeOK, Read, files, ruleset, pastVars, syncVars, Contents

LEMMA CreateTyped ==
    ASSUME TypeOK, NEW r \in Requests, NEW l \in Lists, Create(r, l)
    PROVE  TypeOK'
  <1>1. r \in Processes
    BY DEF Processes
  <1>2. /\ absent' \in [Processes -> SUBSET Lists]
        /\ good' \in [Lists -> BOOLEAN]
        /\ missing' \subseteq Lists
    BY <1>1 DEF TypeOK, Create
  <1>3. /\ file' \in [Lists -> AnyContents]
        /\ \A k \in Lists : file'[k] \in Contents(k)
    BY NothingTyped DEF TypeOK, Create
  <1>4. ASSUME NEW q \in Processes PROVE ProcessOK(q)'
    BY SameProcess DEF TypeOK, Create, syncVars
  <1> QED
    BY <1>2, <1>3, <1>4 DEF TypeOK, Create, ruleset, syncVars, Contents

\* What Forget leaves behind is well typed.
LEMMA ForgetTyped ==
    ASSUME TypeOK, NEW r \in Processes, Forget(r)
    PROVE  /\ DOMAIN ask' = Processes
           /\ unread' \in [Processes -> SUBSET Lists]
           /\ absent' \in [Processes -> SUBSET Lists]
           /\ seen' \in [Processes -> [Lists -> AnyContents]]
           /\ seen'[r] = NothingRead
           /\ \A p \in Processes : p # r => ask'[p] = ask[p] /\ seen'[p] = seen[p]
  <1> HIDE DEF NothingRead
  <1> QED
    BY NothingTyped DEF TypeOK, Forget

LEMMA RefuseTyped ==
    ASSUME TypeOK, NEW r \in Requests, Refuse(r)
    PROVE  TypeOK'
  <1> USE PortForwardsAssumption
  <1>1. r \in Processes /\ r # Boot
    BY DEF Processes
  <1>2. Forget(r)
    BY DEF Refuse
  <1>3. /\ pc' \in [Processes -> Places]
        /\ pc'[Boot] \notin {"read", "write"}
        /\ \A p \in Processes : p # r => pc'[p] = pc[p]
        /\ pc'[r] = "idle" /\ pc[r] = "read"
    BY <1>1 DEF TypeOK, Refuse, AllRead, Places
  <1>4. adds[r] = {} /\ drops[r] = {} /\ UNCHANGED <<adds, drops, half, list>>
    BY <1>1, <1>3 DEF TypeOK, ProcessOK, Refuse, Syncing, Adding, Removing, syncVars
  <1>5. ASSUME NEW q \in Processes PROVE ProcessOK(q)'
    <2>1. CASE q = r
      BY <1>1, <1>2, <1>3, <1>4, <2>1, ForgetTyped, FreshProcess
    <2>2. CASE q # r
      BY <1>1, <1>2, <1>3, <1>4, <2>2, ForgetTyped, SameProcess DEF TypeOK
    <2> QED
      BY <2>1, <2>2
  <1> QED
    BY <1>1, <1>2, <1>3, <1>4, <1>5, ForgetTyped
       DEF TypeOK, Refuse, files, ruleset, pastVars, Places, Contents

LEMMA TruncateTyped ==
    ASSUME TypeOK, NEW r \in Requests, Truncate(r)
    PROVE  TypeOK'
  <1> USE PortForwardsAssumption
  <1>1. r \in Processes /\ r # Boot /\ list[r] \in Lists
    BY DEF Processes, TypeOK
  <1>2. /\ pc' \in [Processes -> Places]
        /\ pc'[Boot] \notin {"read", "write"}
        /\ \A p \in Processes : p # r => pc'[p] = pc[p]
        /\ pc'[r] = "write" /\ pc[r] = "read"
    BY <1>1 DEF TypeOK, Truncate, AllRead, Places
  <1>3. /\ file' \in [Lists -> AnyContents]
        /\ \A l \in Lists : file'[l] \in Contents(l)
        /\ missing' \subseteq Lists
    BY <1>1, NothingTyped DEF TypeOK, Truncate
  <1>4. good' \in [Lists -> BOOLEAN]
    BY <1>1 DEF TypeOK, Truncate
  <1>5. ask[r] \in Asks(list[r]) /\ ask[r].value # Invalid
    <2>1. ask[r] \in Asks(list[r]) \cup {Get}
      BY <1>1, <1>2 DEF TypeOK, ProcessOK
    <2>2. ask[r].op # "GET"
      BY DEF Truncate, Refused
    <2>3. ask[r] \in Asks(list[r])
      BY <2>1, <2>2 DEF Get
    <2> QED
      BY <2>3 DEF Truncate, Refused, Asks
  <1>6. ASSUME NEW q \in Processes PROVE ProcessOK(q)'
    <2>1. ProcessOK(q)
      BY DEF TypeOK
    <2>2. CASE q = r
      BY <1>2, <1>5, <2>1, <2>2
         DEF ProcessOK, Truncate, editVars, syncVars, Syncing, Adding, Removing,
             Contents, Asks, Get, Rules
    <2>3. CASE q # r
      BY <1>2, <2>1, <2>3, SameProcess DEF Truncate, editVars, syncVars
    <2> QED
      BY <2>2, <2>3
  <1> QED
    BY <1>2, <1>3, <1>4, <1>6 DEF TypeOK, Truncate, ruleset, editVars, syncVars, Places, Contents

LEMMA WriteTyped ==
    ASSUME TypeOK, NEW r \in Requests, Write(r)
    PROVE  TypeOK'
  <1> USE PortForwardsAssumption
  <1>1. r \in Processes /\ r # Boot /\ list[r] \in Lists
    BY DEF Processes, TypeOK
  <1>2. Forget(r)
    BY DEF Write
  <1>3. /\ pc' \in [Processes -> Places]
        /\ pc'[Boot] \notin {"read", "write"}
        /\ \A p \in Processes : p # r => pc'[p] = pc[p]
        /\ pc'[r] = "compare" /\ pc[r] = "write"
    BY <1>1 DEF TypeOK, Write, Places
  <1>4. PICK c \in Overwritten(Edited(r), file[list[r]]) :
            file' = [file EXCEPT ![list[r]] = c]
    BY DEF Write
  <1>5. Edited(r) \in Contents(list[r]) /\ file[list[r]] \in Contents(list[r])
    BY <1>1, <1>3, EditTyped DEF TypeOK
  <1>6. c \in Contents(list[r]) /\ c \in AnyContents
    BY <1>1, <1>5, OverwrittenTyped
  <1>7. /\ file' \in [Lists -> AnyContents]
        /\ \A l \in Lists : file'[l] \in Contents(l)
    BY <1>1, <1>4, <1>6 DEF TypeOK
  <1>8. adds[r] = {} /\ drops[r] = {} /\ UNCHANGED <<adds, drops, half, list>>
    BY <1>1, <1>3 DEF TypeOK, ProcessOK, Write, Syncing, Adding, Removing, syncVars
  <1>9. ASSUME NEW q \in Processes PROVE ProcessOK(q)'
    <2>1. CASE q = r
      BY <1>1, <1>2, <1>3, <1>8, <2>1, ForgetTyped, FreshProcess
    <2>2. CASE q # r
      BY <1>1, <1>2, <1>3, <1>8, <2>2, ForgetTyped, SameProcess DEF TypeOK
    <2> QED
      BY <2>1, <2>2
  <1> QED
    BY <1>1, <1>2, <1>3, <1>7, <1>8, <1>9, ForgetTyped
       DEF TypeOK, Write, ruleset, pastVars, Places, Contents

LEMMA CompareTyped ==
    ASSUME TypeOK, NEW p \in Processes, NEW within \in SUBSET Targets, Compare(p, within)
    PROVE  TypeOK'
  <1> USE PortForwardsAssumption
  <1>1. list[p] \in Lists
    BY DEF TypeOK
  <1> DEFINE active == Active(list[p], within)
             new == Desired(file[list[p]]) \ active
             stale == (active \ Desired(file[list[p]])) \cup Twice(list[p])
  <1>2. active \subseteq Rules(list[p]) /\ Twice(list[p]) \subseteq Rules(list[p])
    BY <1>1 DEF TypeOK, Active, Twice, Rules, DnatRules
  <1>3. new \subseteq Rules(list[p]) /\ stale \subseteq Rules(list[p])
    BY <1>1, <1>2, DesiredTyped DEF TypeOK
  <1>4. /\ adds' = [adds EXCEPT ![p] = new]
        /\ drops' = [drops EXCEPT ![p] = stale]
    BY DEF Compare
  <1> HIDE DEF new, stale
  <1>5. Rules(list[p]) \subseteq DnatRules \cup LocalRules
    BY DEF Rules
  <1>6. /\ pc' \in [Processes -> Places]
        /\ pc'[Boot] \notin {"read", "write"}
        /\ \A q \in Processes : q # p => pc'[q] = pc[q]
        /\ pc'[p] = "sync" /\ pc[p] = "compare"
    BY DEF TypeOK, Compare, Processes, Places, Syncing
  <1>7. /\ adds' \in [Processes -> SUBSET (DnatRules \cup LocalRules)]
        /\ drops' \in [Processes -> SUBSET (DnatRules \cup LocalRules)]
    BY <1>3, <1>4, <1>5 DEF TypeOK
  <1>8. /\ \A q \in Processes : q # p => adds'[q] = adds[q] /\ drops'[q] = drops[q]
        /\ adds'[p] = new /\ drops'[p] = stale
        /\ UNCHANGED <<list, ask, seen, half>>
    BY <1>4 DEF TypeOK, Compare, editVars
  <1>9. ASSUME NEW q \in Processes PROVE ProcessOK(q)'
    <2>1. CASE q = p
      <3>1. \A l \in Lists : seen[p][l] \in Contents(l)
        BY DEF TypeOK, ProcessOK
      <3> QED
        BY <1>3, <1>6, <1>8, <2>1, <3>1
           DEF ProcessOK, Syncing, Adding, Removing, Contents, Asks, Get, Rules
    <2>2. CASE q # p
      BY <1>6, <1>8, <2>2, SameProcess DEF TypeOK
    <2> QED
      BY <2>1, <2>2
  <1>10. checked' \subseteq Targets
    BY DEF Compare, TypeOK
  <1> QED
    BY <1>6, <1>7, <1>9, <1>10 DEF TypeOK, Compare, files, ruleset, editVars, Places, Contents

\* A script takes up a rule to add or to remove, and the forward it is part of.
LEMMA TakeTyped ==
    ASSUME TypeOK, NEW p \in Processes, pc[p] = "sync", NEW e, NEW place,
           pc' = [pc EXCEPT ![p] = place],
           UNCHANGED <<list, ask, seen>>,
           \/ adds' = [adds EXCEPT ![p] = @ \ {e}] /\ drops' = drops
           \/ drops' = [drops EXCEPT ![p] = @ \ {e}] /\ adds' = adds,
           \/ place = "sync" /\ half' = half
           \/ /\ place \in {"addSnat", "delSnat"} /\ list[p] = "external"
              /\ half' = [half EXCEPT ![p] = e[2]]
              /\ e[2] \in Targets
              /\ place = "addSnat" => e[2] \in Routed
    PROVE  /\ pc' \in [Processes -> Places]
           /\ pc'[Boot] \notin {"read", "write"}
           /\ adds' \in [Processes -> SUBSET (DnatRules \cup LocalRules)]
           /\ drops' \in [Processes -> SUBSET (DnatRules \cup LocalRules)]
           /\ half' \in [Processes -> Targets \cup {NoForward}]
           /\ \A q \in Processes : ProcessOK(q)'
  <1>1. /\ pc' \in [Processes -> Places]
        /\ pc'[Boot] \notin {"read", "write"}
        /\ pc'[p] = place /\ \A q \in Processes : q # p => pc'[q] = pc[q]
    BY DEF TypeOK, Places, Syncing, Adding, Removing, Processes
  <1>2. /\ adds' \in [Processes -> SUBSET (DnatRules \cup LocalRules)]
        /\ drops' \in [Processes -> SUBSET (DnatRules \cup LocalRules)]
        /\ adds'[p] \subseteq adds[p] /\ drops'[p] \subseteq drops[p]
        /\ \A q \in Processes : q # p => adds'[q] = adds[q] /\ drops'[q] = drops[q]
    <2>1. CASE adds' = [adds EXCEPT ![p] = @ \ {e}] /\ drops' = drops
      BY <2>1 DEF TypeOK
    <2>2. CASE drops' = [drops EXCEPT ![p] = @ \ {e}] /\ adds' = adds
      BY <2>2 DEF TypeOK
    <2> QED
      BY <2>1, <2>2
  <1>3. /\ half' \in [Processes -> Targets \cup {NoForward}]
        /\ \A q \in Processes : q # p => half'[q] = half[q]
        /\ place \in Adding => half'[p] \in Routed /\ list[p] = "external"
        /\ place \in Removing => half'[p] \in Targets /\ list[p] = "external"
        /\ place \in Syncing
    BY DEF TypeOK, Adding, Removing, Syncing
  <1>4. ASSUME NEW q \in Processes PROVE ProcessOK(q)'
    <2>1. CASE q = p
      <3>1. /\ \A l \in Lists : seen[p][l] \in Contents(l)
            /\ adds[p] \cup drops[p] \subseteq Rules(list[p])
        BY DEF TypeOK, ProcessOK
      <3> QED
        BY <1>1, <1>2, <1>3, <2>1, <3>1
           DEF ProcessOK, Syncing, Adding, Removing, Contents, Asks, Get, Rules
    <2>2. CASE q # p
      BY <1>1, <1>2, <1>3, <2>2, SameProcess DEF TypeOK
    <2> QED
      BY <2>1, <2>2
  <1> QED
    BY <1>1, <1>2, <1>3, <1>4

LEMMA SyncTyped ==
    ASSUME TypeOK, NEW p \in Processes, NEW e,
           \/ e \in adds[p] /\ (AddForward(p, e) \/ InsertLocal(p, e))
           \/ e \in drops[p] /\ RemoveForward(p, e)
    PROVE  TypeOK'
  <1> USE PortForwardsAssumption
  <1>1. pc[p] = "sync" /\ list[p] \in Lists
    BY DEF AddForward, InsertLocal, RemoveForward, TypeOK
  <1>2. e \in Rules(list[p])
    BY DEF TypeOK, ProcessOK
  <1>3. list[p] = "external" => e[1] \in ExtPorts /\ e[2] \in Targets /\ e = <<e[1], e[2]>>
    BY <1>2 DEF Rules, DnatRules
  <1>4. /\ dnat' \subseteq ExtPorts \X Routed
        /\ snat' \subseteq Routed /\ accept' \subseteq Routed
        /\ opened' \subseteq LocalRules /\ doubled' \subseteq opened'
        /\ torn' \subseteq Targets
    <2>1. CASE AddForward(p, e)
      <3>1. e \in ExtPorts \X Routed
        BY <1>3, <2>1 DEF AddForward
      <3> QED
        BY <2>1, <3>1 DEF AddForward, TypeOK
    <2>2. CASE InsertLocal(p, e)
      BY <1>2, <2>2 DEF InsertLocal, TypeOK, Rules, pastVars
    <2>3. CASE RemoveForward(p, e)
      BY <1>3, <2>3 DEF RemoveForward, TypeOK
    <2> QED
      BY <2>1, <2>2, <2>3
  <1>5. UNCHANGED <<file, missing, list, ask, unread, absent, seen, lone, good, apart, checked>>
    BY DEF AddForward, InsertLocal, RemoveForward, files, editVars, pastVars
  <1>6. /\ pc' \in [Processes -> Places]
        /\ pc'[Boot] \notin {"read", "write"}
        /\ adds' \in [Processes -> SUBSET (DnatRules \cup LocalRules)]
        /\ drops' \in [Processes -> SUBSET (DnatRules \cup LocalRules)]
        /\ half' \in [Processes -> Targets \cup {NoForward}]
        /\ \A q \in Processes : ProcessOK(q)'
    <2>1. CASE AddForward(p, e)
      BY <1>1, <1>3, <1>5, <2>1, TakeTyped DEF AddForward
    <2>2. CASE InsertLocal(p, e)
      <3>1. pc' = [pc EXCEPT ![p] = "sync"]
        BY <1>1, <2>2 DEF InsertLocal, TypeOK
      <3> QED
        BY <1>1, <1>5, <2>2, <3>1, TakeTyped DEF InsertLocal
    <2>3. CASE RemoveForward(p, e)
      BY <1>1, <1>3, <1>5, <2>3, TakeTyped DEF RemoveForward
    <2> QED
      BY <2>1, <2>2, <2>3
  <1> QED
    BY <1>4, <1>5, <1>6 DEF TypeOK, Places, Contents

HalfStep(p) == AddSnat(p) \/ AddAccept(p) \/ RemoveSnat(p) \/ RemoveAccept(p)

LEMMA HalfTyped ==
    ASSUME TypeOK, NEW p \in Processes, HalfStep(p)
    PROVE  TypeOK'
  <1> USE PortForwardsAssumption
  <1>1. /\ pc[p] \in Adding \cup Removing
        /\ \A q \in Processes : q # p => pc'[q] = pc[q] /\ half'[q] = half[q]
        /\ \/ pc'[p] = "sync"
           \/ pc[p] = "addSnat" /\ pc'[p] = "addAccept" /\ half' = half
           \/ pc[p] = "delSnat" /\ pc'[p] = "delAccept" /\ half' = half
    BY DEF HalfStep, AddSnat, AddAccept, RemoveSnat, RemoveAccept, TypeOK, syncVars,
           Adding, Removing
  <1>2. /\ pc' \in [Processes -> Places]
        /\ half' \in [Processes -> Targets \cup {NoForward}]
    BY DEF HalfStep, AddSnat, AddAccept, RemoveSnat, RemoveAccept, TypeOK, syncVars,
           Places, Syncing, Adding, Removing
  <1>3. pc'[Boot] \notin {"read", "write"}
    BY <1>1 DEF TypeOK, Processes
  <1>4. UNCHANGED <<file, missing, dnat, opened, doubled, list, ask, unread, absent, seen,
                    adds, drops, lone, good, apart, checked>>
    BY DEF HalfStep, AddSnat, AddAccept, RemoveSnat, RemoveAccept, files, syncVars, editVars,
           pastVars
  <1>5. /\ pc[p] \in Adding => half[p] \in Routed
        /\ pc[p] \in Removing => half[p] \in Targets
        /\ list[p] = "external"
        /\ adds[p] \cup drops[p] \subseteq Rules(list[p])
        /\ \A l \in Lists : seen[p][l] \in Contents(l)
    BY <1>1 DEF TypeOK, ProcessOK
  <1>6. snat' \subseteq Routed /\ accept' \subseteq Routed /\ torn' \subseteq Targets
    BY <1>1, <1>5
       DEF HalfStep, AddSnat, AddAccept, RemoveSnat, RemoveAccept, TypeOK, pastVars, Adding, Removing
  <1>7. ASSUME NEW q \in Processes PROVE ProcessOK(q)'
    <2>1. CASE q = p
      BY <1>1, <1>4, <1>5, <2>1
         DEF ProcessOK, Syncing, Adding, Removing, Contents, Asks, Get, Rules
    <2>2. CASE q # p
      BY <1>1, <1>4, <2>2, SameProcess DEF TypeOK
    <2> QED
      BY <2>1, <2>2
  <1> QED
    BY <1>2, <1>3, <1>4, <1>6, <1>7 DEF TypeOK, Places, Contents

\* A script that breaks off deletes rules, and adds none.
LEMMA PartlyDeletes ==
    ASSUME TypeOK, NEW p \in Processes, Partly(p)
    PROVE  /\ dnat' \subseteq dnat /\ snat' \subseteq snat /\ accept' \subseteq accept
           /\ torn \subseteq torn' /\ torn' \subseteq Targets
           /\ UNCHANGED <<opened, doubled>>
  <1> USE PortForwardsAssumption
  <1>1. CASE UNCHANGED <<ruleset, torn>>
    BY <1>1 DEF ruleset, TypeOK
  <1>2. ASSUME NEW e \in drops[p], NEW gone \in SUBSET DnatTouches[e[2]], list[p] = "external",
               dnat' = dnat \ ({e[1]} \X gone), torn' = torn \cup DnatTouches[e[2]],
               UNCHANGED <<snat, accept, opened, doubled>>
        PROVE  torn' \subseteq Targets
    <2>1. e \in DnatRules
      BY <1>2 DEF TypeOK, ProcessOK, Rules
    <2> QED
      BY <1>2, <2>1 DEF TypeOK, DnatRules
  <1>3. torn' \subseteq Targets
    BY <1>1, <1>2 DEF Partly, TypeOK
  <1> QED
    BY <1>3 DEF Partly, ruleset

Ending(p) ==
    Finish(p) \/ ScriptFails(p) \/ AddFails(p) \/ RemoveFails(p) \/ RemoveLocalFails(p)

\* The ends of a script: it has done what it had to do, or breaks off.
LEMMA EndingIsEnd ==
    ASSUME TypeOK, NEW p \in Processes, Ending(p)
    PROVE  /\ pc[p] \in {"compare"} \cup Syncing
           /\ Partly(p)
           /\ \E ok \in BOOLEAN : End(p, ok) /\ (ok => Finish(p))
  BY DEF Ending, Finish, ScriptFails, AddFails, RemoveFails, RemoveLocalFails, Partly,
         Syncing, Adding, Removing

LEMMA EndTyped ==
    ASSUME TypeOK, NEW p \in Processes, pc[p] \in {"compare"} \cup Syncing,
           NEW ok \in BOOLEAN, End(p, ok), Partly(p)
    PROVE  TypeOK'
  <1> USE PortForwardsAssumption
  <1>1. list[p] \in Lists /\ Boot \in Processes
    BY DEF TypeOK, Processes
  <1>2. good' \in [Lists -> BOOLEAN]
    <2>1. (ok /\ lone) \in BOOLEAN
      OBVIOUS
    <2> QED
      BY <1>1, <2>1 DEF TypeOK, End
  <1>3. /\ list' \in [Processes -> Lists]
        /\ \A q \in Processes : q # p => list'[q] = list[q]
        /\ pc' \in [Processes -> Places]
        /\ \A q \in Processes : q # p => pc'[q] = pc[q]
        /\ pc'[p] \in {"idle", "compare"}
    <2>1. CASE p = Boot /\ list[p] = "external"
      <3>1. list' = [list EXCEPT ![p] = "local"] /\ pc' = [pc EXCEPT ![p] = "compare"]
        BY <2>1 DEF End
      <3> QED
        BY <3>1 DEF TypeOK, Lists, Places
    <2>2. CASE ~(p = Boot /\ list[p] = "external")
      <3>1. list' = list /\ pc' = [pc EXCEPT ![p] = "idle"]
        BY <2>2 DEF End
      <3> QED
        BY <3>1 DEF TypeOK, Places
    <2> QED
      BY <2>1, <2>2
  <1>4. pc'[Boot] \notin {"read", "write"}
    BY <1>1, <1>3 DEF TypeOK
  <1>5. /\ adds' \in [Processes -> SUBSET (DnatRules \cup LocalRules)]
        /\ drops' \in [Processes -> SUBSET (DnatRules \cup LocalRules)]
        /\ half' \in [Processes -> Targets \cup {NoForward}]
        /\ adds'[p] = {} /\ drops'[p] = {}
        /\ \A q \in Processes : q # p => adds'[q] = adds[q] /\ drops'[q] = drops[q]
                                         /\ half'[q] = half[q]
    BY DEF TypeOK, End
  <1>6. ASSUME NEW q \in Processes PROVE ProcessOK(q)'
    <2>1. CASE q = p
      <3>1. \A l \in Lists : seen[p][l] \in Contents(l)
        BY DEF TypeOK, ProcessOK
      <3> QED
        BY <1>3, <1>5, <2>1, <3>1
           DEF End, editVars, ProcessOK, Syncing, Adding, Removing, Contents, Asks, Get, Rules
    <2>2. CASE q # p
      BY <1>3, <1>5, <2>2, SameProcess DEF TypeOK, End, editVars
    <2> QED
      BY <2>1, <2>2
  <1>7. /\ dnat' \subseteq dnat /\ snat' \subseteq snat /\ accept' \subseteq accept
        /\ torn' \subseteq Targets /\ UNCHANGED <<opened, doubled>>
    BY PartlyDeletes
  <1> QED
    BY <1>2, <1>3, <1>4, <1>5, <1>6, <1>7 DEF TypeOK, End, files, editVars, Places, Contents

LEMMA StopTyped ==
    ASSUME TypeOK, NEW r \in Requests, Stop(r)
    PROVE  TypeOK'
  <1> USE PortForwardsAssumption
  <1>1. r \in Processes /\ r # Boot
    BY DEF Processes
  <1>2. Forget(r) /\ Partly(r)
    BY DEF Stop
  <1>3. /\ pc' \in [Processes -> Places]
        /\ pc'[Boot] \notin {"read", "write"}
        /\ \A p \in Processes : p # r => pc'[p] = pc[p]
        /\ pc'[r] = "idle"
    BY <1>1 DEF TypeOK, Stop, Places
  <1>4. /\ adds' \in [Processes -> SUBSET (DnatRules \cup LocalRules)]
        /\ drops' \in [Processes -> SUBSET (DnatRules \cup LocalRules)]
        /\ half' \in [Processes -> Targets \cup {NoForward}]
        /\ adds'[r] = {} /\ drops'[r] = {}
        /\ \A q \in Processes : q # r => adds'[q] = adds[q] /\ drops'[q] = drops[q]
                                         /\ half'[q] = half[q]
    BY <1>1 DEF TypeOK, Stop
  <1>5. ASSUME NEW q \in Processes PROVE ProcessOK(q)'
    <2>1. CASE q = r
      BY <1>1, <1>2, <1>3, <1>4, <2>1, ForgetTyped, FreshProcess
    <2>2. CASE q # r
      BY <1>1, <1>2, <1>3, <1>4, <2>2, ForgetTyped, SameProcess DEF TypeOK, Stop
    <2> QED
      BY <2>1, <2>2
  <1>6. /\ dnat' \subseteq dnat /\ snat' \subseteq snat /\ accept' \subseteq accept
        /\ torn' \subseteq Targets /\ UNCHANGED <<opened, doubled>>
    BY <1>1, <1>2, PartlyDeletes
  <1> QED
    BY <1>1, <1>2, <1>3, <1>4, <1>5, <1>6, ForgetTyped DEF TypeOK, Stop, files, Places, Contents

LEMMA RebootTyped ==
    ASSUME TypeOK, Reboot
    PROVE  TypeOK'
  <1> USE PortForwardsAssumption
  <1>1. /\ pc' \in [Processes -> Places]
        /\ \A p \in Processes : pc'[p] \in {"idle", "compare"}
    BY DEF Reboot, Booting, Processes, Places
  <1>2. /\ list' \in [Processes -> Lists]
        /\ DOMAIN ask' = Processes
        /\ unread' \in [Processes -> SUBSET Lists]
        /\ absent' \in [Processes -> SUBSET Lists]
        /\ seen' \in [Processes -> [Lists -> AnyContents]]
        /\ good' \in [Lists -> BOOLEAN]
        /\ adds' \in [Processes -> SUBSET (DnatRules \cup LocalRules)]
        /\ drops' \in [Processes -> SUBSET (DnatRules \cup LocalRules)]
        /\ half' \in [Processes -> Targets \cup {NoForward}]
        /\ pc'[Boot] \notin {"read", "write"}
    BY <1>1, NothingTyped DEF Reboot, Lists, Processes
  <1>3. ASSUME NEW p \in Processes PROVE ProcessOK(p)'
    BY <1>1, FreshProcess DEF Reboot
  <1> QED
    BY <1>1, <1>2, <1>3 DEF Reboot, TypeOK, files, Places, Contents

LEMMA NextTyped == TypeOK /\ [Next]_vars => TypeOK'
  <1> SUFFICES ASSUME TypeOK, [Next]_vars PROVE TypeOK'
    OBVIOUS
  <1>1. ASSUME NEW r \in Requests, Request(r) PROVE TypeOK'
    BY <1>1, BeginTyped, ReadStepTyped, CreateTyped, RefuseTyped, TruncateTyped, WriteTyped,
       StopTyped DEF Request
  <1>2. ASSUME NEW p \in Processes, Script(p) PROVE TypeOK'
    <2>1. CASE Ending(p)
      BY <2>1, EndingIsEnd, EndTyped
    <2>2. CASE HalfStep(p)
      BY <2>2, HalfTyped
    <2> QED
      BY <1>2, <2>1, <2>2, CompareTyped, SyncTyped DEF Script, Ending, HalfStep
  <1>3. CASE UNCHANGED vars
    <2>1. \A p \in Processes : ProcessOK(p)'
      BY <1>3, SameProcess DEF TypeOK, vars
    <2> QED
      BY <1>3, <2>1 DEF TypeOK, vars, Contents
  <1> QED
    BY <1>1, <1>2, <1>3, RebootTyped DEF Next

\* Whatever requests overlap, fail or are cut short, the two files hold
\* forwards of their own kind, a script works only on rules of its own list,
\* and the DNAT, SNAT and accept rules are of routed targets.
THEOREM TypeCorrect == Spec => []TypeOK
  <1>1. Init => TypeOK
    BY InitTyped
  <1>2. TypeOK /\ [Next]_vars => TypeOK'
    BY NextTyped
  <1> QED
    BY <1>1, <1>2, PTL DEF Spec
-----------------------------------------------------------------------------
(* What the past says about the processes under way.                       *)

AtMostOne == \A p, q \in Processes : pc[p] # "idle" /\ pc[q] # "idle" => p = q

Working(p) == pc[p] \in {"write", "compare"} \cup Syncing

\* A list whose synchronisation counts as good is nobody's work, and the boot
\* sequence is not on its way to it.
PastInv ==
    /\ lone => AtMostOne
    /\ apart => lone
    /\ \A l \in Lists :
           good[l] => /\ AtMostOne
                      /\ \A p \in Processes : Working(p) => list[p] # l
    /\ pc[Boot] # "idle" /\ list[Boot] = "external" => ~good["local"]

LEMMA InitPast == Init => PastInv
  BY PortForwardsAssumption DEF Init, PastInv, AtMostOne, Booting, Processes, Lists

\* A process that is under way stays what it is, or ends: nothing new begins.
LEMMA KeepsPast ==
    ASSUME TypeOK, PastInv, NEW p \in Processes, pc[p] # "idle",
           \A q \in Processes : q # p => pc'[q] = pc[q],
           lone' = lone, apart' = apart
    PROVE  /\ lone' => AtMostOne'
           /\ apart' => lone'
           /\ AtMostOne => AtMostOne'
  BY DEF PastInv, AtMostOne

LEMMA BeginPast ==
    ASSUME TypeOK, PastInv, NEW r \in Requests,
           BeginGet(r) \/ \E l \in Asked : \E a \in Asks(l) : Begin(r, l, a)
    PROVE  PastInv'
  <1> USE PortForwardsAssumption
  <1>1. r \in Processes /\ r # Boot /\ Overlap
    BY DEF Processes, Begin, BeginGet
  <1>2. /\ pc'[r] = "read"
        /\ \A q \in Processes : q # r => pc'[q] = pc[q]
    BY <1>1 DEF TypeOK, Begin, BeginGet
  <1>3. \A k \in Lists : good'[k] => good[k] /\ Quiet
    BY <1>1 DEF Overlap
  <1>4. CASE Quiet
    <2>1. \A q \in Processes : q # r => pc'[q] = "idle"
      BY <1>2, <1>4 DEF Quiet
    <2>2. AtMostOne'
      BY <2>1 DEF AtMostOne
    <2>3. apart' => lone'
      BY <1>1 DEF Overlap
    <2>4. \A q \in Processes : ~Working(q)'
      BY <1>2, <2>1 DEF Working, Syncing, Adding, Removing
    <2>5. pc'[Boot] = "idle"
      BY <1>1, <2>1 DEF Processes
    <2> QED
      BY <2>2, <2>3, <2>4, <2>5 DEF PastInv
  <1>5. CASE ~Quiet
    <2>1. ~lone' /\ ~apart'
      BY <1>1, <1>5 DEF Overlap
    <2>2. \A k \in Lists : ~good'[k]
      BY <1>3, <1>5
    <2> QED
      BY <2>1, <2>2 DEF PastInv, Lists
  <1> QED
    BY <1>4, <1>5

LEMMA RequestPast ==
    ASSUME TypeOK, PastInv, NEW r \in Requests,
           \/ \E l \in Lists : Read(r, l) \/ Create(r, l)
           \/ Refuse(r) \/ Truncate(r) \/ Write(r) \/ Stop(r)
    PROVE  PastInv'
  <1> USE PortForwardsAssumption
  <1>1. r \in Processes /\ r # Boot /\ Boot \in Processes /\ list[r] \in Lists
    BY DEF Processes, TypeOK
  <1>2. /\ pc[r] # "idle"
        /\ \A q \in Processes : q # r => pc'[q] = pc[q]
        /\ list' = list /\ lone' = lone /\ apart' = apart
    BY <1>1 DEF TypeOK, Read, Create, Refuse, Truncate, AllRead, Write, Stop, pastVars
  <1>3. \A l \in Lists : good'[l] => good[l]
    <2>1. CASE Truncate(r)
      BY <1>1, <2>1 DEF TypeOK, Truncate
    <2>2. CASE \E l \in Lists : Create(r, l)
      BY <2>2 DEF TypeOK, Create
    <2>3. CASE (\E l \in Lists : Read(r, l)) \/ Refuse(r) \/ Write(r) \/ Stop(r)
      <3>1. good' = good
        BY <2>3 DEF Read, Refuse, Write, Stop, pastVars
      <3> QED
        BY <3>1
    <2> QED
      BY <2>1, <2>2, <2>3
  <1>4. ASSUME NEW l \in Lists, good'[l], Working(r)'
        PROVE  list[r] # l
    <2>1. CASE Truncate(r)
      BY <1>1, <1>4, <2>1 DEF TypeOK, Truncate
    <2>2. CASE Write(r)
      BY <1>1, <1>3, <1>4, <2>2 DEF PastInv, Write, Working
    <2>3. CASE (\E k \in Lists : Read(r, k) \/ Create(r, k)) \/ Refuse(r) \/ Stop(r)
      <3>1. pc'[r] \in {"idle", "read"}
        BY <1>1, <2>3 DEF TypeOK, Read, Create, Refuse, Stop
      <3> QED
        BY <1>4, <3>1 DEF Working, Syncing, Adding, Removing
    <2> QED
      BY <2>1, <2>2, <2>3
  <1>5. ASSUME NEW l \in Lists, good'[l]
        PROVE  AtMostOne' /\ \A p \in Processes : Working(p)' => list'[p] # l
    BY <1>1, <1>2, <1>3, <1>4, <1>5, KeepsPast DEF PastInv, Working
  <1> QED
    BY <1>1, <1>2, <1>3, <1>5, KeepsPast DEF PastInv, Lists

\* What the steps of a script before its end have in common.
Middle(p) ==
    \/ \E within \in SUBSET Targets : Compare(p, within)
    \/ \E e \in adds[p] : AddForward(p, e) \/ InsertLocal(p, e)
    \/ \E e \in drops[p] : RemoveForward(p, e)
    \/ HalfStep(p)

LEMMA MiddleKeeps ==
    ASSUME TypeOK, NEW p \in Processes, Middle(p)
    PROVE  /\ pc[p] \in {"compare"} \cup Syncing
           /\ pc'[p] \in Syncing
           /\ \A q \in Processes : q # p => pc'[q] = pc[q]
           /\ UNCHANGED <<files, list, editVars, lone, good, apart>>
  <1>1. UNCHANGED <<files, list, editVars, lone, good, apart>>
    BY DEF Middle, Compare, AddForward, InsertLocal, RemoveForward, HalfStep, AddSnat, AddAccept,
           RemoveSnat, RemoveAccept, pastVars
  <1>2. /\ pc[p] \in {"compare"} \cup Syncing
        /\ \/ pc' = pc /\ pc[p] = "sync"
           \/ \E place \in Syncing : pc' = [pc EXCEPT ![p] = place]
    BY DEF Middle, Compare, AddForward, InsertLocal, RemoveForward, HalfStep, AddSnat, AddAccept,
           RemoveSnat, RemoveAccept, Syncing, Adding, Removing
  <1> QED
    BY <1>1, <1>2 DEF TypeOK, Syncing

LEMMA ScriptPast ==
    ASSUME TypeOK, PastInv, NEW p \in Processes, Middle(p)
    PROVE  PastInv'
  <1> USE PortForwardsAssumption
  <1>1. /\ Working(p) /\ Working(p)'
        /\ \A q \in Processes : q # p => pc'[q] = pc[q]
        /\ list' = list /\ lone' = lone /\ apart' = apart /\ good' = good
    BY MiddleKeeps DEF Working
  <1>2. \A q \in Processes : Working(q)' => Working(q)
    BY <1>1 DEF Working
  <1>3. pc[p] # "idle"
    BY <1>1 DEF Working, Syncing, Adding, Removing
  <1>4. Boot \in Processes /\ (pc'[Boot] # "idle" => pc[Boot] # "idle")
    BY <1>1, <1>3 DEF Processes
  <1> QED
    BY <1>1, <1>2, <1>3, <1>4, KeepsPast DEF PastInv

LEMMA EndPast ==
    ASSUME TypeOK, PastInv, NEW p \in Processes, pc[p] \in {"compare"} \cup Syncing,
           NEW ok \in BOOLEAN, End(p, ok)
    PROVE  PastInv'
  <1> USE PortForwardsAssumption
  <1>0. pc[p] # "idle"
    BY DEF Syncing, Adding, Removing
  <1>1. /\ list[p] \in Lists /\ Boot \in Processes
        /\ good' = [good EXCEPT ![list[p]] = ok /\ lone]
        /\ lone' = lone /\ apart' = apart
    BY DEF TypeOK, Processes, End
  <1>2. /\ \A q \in Processes : q # p => pc'[q] = pc[q] /\ list'[q] = list[q]
        /\ ~(p = Boot /\ list[p] = "external") => pc'[p] = "idle" /\ list'[p] = list[p]
        /\ (p = Boot /\ list[p] = "external") => pc'[p] = "compare" /\ list'[p] = "local"
    <2>1. CASE p = Boot /\ list[p] = "external"
      <3>1. list' = [list EXCEPT ![p] = "local"] /\ pc' = [pc EXCEPT ![p] = "compare"]
        BY <2>1 DEF End
      <3> QED
        BY <2>1, <3>1 DEF TypeOK
    <2>2. CASE ~(p = Boot /\ list[p] = "external")
      <3>1. list' = list /\ pc' = [pc EXCEPT ![p] = "idle"]
        BY <2>2 DEF End
      <3> QED
        BY <2>2, <3>1 DEF TypeOK
    <2> QED
      BY <2>1, <2>2
  <1>3. \A l \in Lists : IF l = list[p] THEN good'[l] => lone ELSE good'[l] = good[l]
    BY <1>1 DEF TypeOK
  <1>4. ASSUME NEW l \in Lists, good'[l]
        PROVE  AtMostOne
    BY <1>3, <1>4 DEF PastInv
  <1>5. /\ lone' => AtMostOne'
        /\ apart' => lone'
        /\ AtMostOne => AtMostOne'
    BY <1>0, <1>1, <1>2, KeepsPast
  <1>6. ASSUME NEW l \in Lists, good'[l], NEW q \in Processes, Working(q)'
        PROVE  list'[q] # l
    <2>1. CASE q # p
      <3>1. pc[q] # "idle"
        BY <1>2, <1>6, <2>1 DEF Working, Syncing, Adding, Removing
      <3> QED
        BY <1>0, <1>4, <1>6, <2>1, <3>1 DEF AtMostOne
    <2>2. CASE q = p
      <3>1. p = Boot /\ list[p] = "external"
        BY <1>2, <1>6, <2>2 DEF Working, Syncing, Adding, Removing
      <3>2. ~good["local"]
        BY <1>0, <3>1 DEF PastInv
      <3>3. l # "local"
        BY <1>3, <1>6, <3>1, <3>2
      <3> QED
        BY <1>2, <2>2, <3>1, <3>3
    <2> QED
      BY <2>1, <2>2
  <1>7. ASSUME pc'[Boot] # "idle", list'[Boot] = "external"
        PROVE  ~good'["local"]
    <2>1. Boot # p
      BY <1>2, <1>7
    <2>2. pc[Boot] # "idle" /\ list[Boot] = "external"
      BY <1>1, <1>2, <1>7, <2>1
    <2>3. ~AtMostOne
      BY <1>0, <1>1, <2>1, <2>2 DEF AtMostOne
    <2> QED
      BY <1>4, <2>3 DEF Lists
  <1> QED
    BY <1>4, <1>5, <1>6, <1>7 DEF PastInv

LEMMA NextPast == TypeOK /\ PastInv /\ [Next]_vars => PastInv'
  <1> SUFFICES ASSUME TypeOK, PastInv, [Next]_vars PROVE PastInv'
    OBVIOUS
  <1>1. ASSUME NEW r \in Requests, Request(r) PROVE PastInv'
    BY <1>1, BeginPast, RequestPast DEF Request
  <1>2. ASSUME NEW p \in Processes, Script(p) PROVE PastInv'
    <2>1. CASE Ending(p)
      BY <2>1, EndingIsEnd, EndPast
    <2>2. CASE Middle(p)
      BY <2>2, ScriptPast
    <2> QED
      BY <1>2, <2>1, <2>2 DEF Script, Ending, Middle, HalfStep
  <1>3. CASE Reboot
    <2>1. \A p \in Processes : p # Boot => pc'[p] = "idle"
      BY <1>3 DEF Reboot, Booting
    <2>2. AtMostOne'
      BY <2>1 DEF AtMostOne
    <2>3. lone' /\ \A l \in Lists : ~good'[l]
      BY <1>3 DEF Reboot
    <2> QED
      BY <2>2, <2>3 DEF PastInv, Lists
  <1>4. CASE UNCHANGED vars
    BY <1>4 DEF vars, PastInv, AtMostOne, Working
  <1> QED
    BY <1>1, <1>2, <1>3, <1>4 DEF Next
-----------------------------------------------------------------------------
(* What a script that is on its own has still to do.                       *)

ExternalSync(p) ==
    LET desired == Desired(file["external"])
    IN  /\ adds[p] \subseteq desired
        /\ drops[p] \cap desired = {}
        /\ \A e \in dnat : e[2] \in checked => e \in desired \cup drops[p]
        /\ \A e \in desired : e[2] \in Distinct => e \in dnat \cup adds[p]

LocalSync(p) ==
    LET desired == Desired(file["local"])
    IN  /\ adds[p] \subseteq desired
        /\ adds[p] \cap opened = {}
        /\ desired \subseteq opened \cup adds[p]
        /\ opened \subseteq desired \cup drops[p]
        /\ doubled \subseteq drops[p]

SyncInv ==
    lone => \A p \in Processes :
                pc[p] \in Syncing =>
                    IF list[p] = "local" THEN LocalSync(p) ELSE ExternalSync(p)

InForceInv == TypeOK /\ PastInv /\ SyncInv /\ ExternalInForce /\ LocalInForce

LEMMA InitInForce == Init => SyncInv /\ ExternalInForce /\ LocalInForce
  BY PortForwardsAssumption
     DEF Init, SyncInv, Booting, Syncing, Adding, Removing, ExternalInForce, LocalInForce, Lists

\* A script that breaks off is at a list that is not good, and only at that of
\* the external forwards does it delete rules.
LEMMA PartlyInForce ==
    ASSUME InForceInv, NEW p \in Processes, Partly(p)
    PROVE  /\ UNCHANGED <<opened, doubled>>
           /\ dnat' # dnat => ~good["external"] /\ list[p] = "external"
  <1>1. TypeOK /\ PastInv
    BY DEF InForceInv
  <1>2. UNCHANGED <<opened, doubled>>
    BY <1>1, PartlyDeletes
  <1>3. ASSUME dnat' # dnat PROVE pc[p] = "sync" /\ list[p] = "external"
    BY <1>3 DEF Partly, ruleset
  <1> QED
    BY <1>1, <1>2, <1>3 DEF PastInv, Working, Syncing, Lists

\* The steps of a request touch no list that is good, nor one that a script on
\* its own is at.
LEMMA BeginInForce ==
    ASSUME InForceInv, NEW r \in Requests,
           BeginGet(r) \/ \E l \in Asked : \E a \in Asks(l) : Begin(r, l, a)
    PROVE  SyncInv' /\ ExternalInForce' /\ LocalInForce'
  <1> USE PortForwardsAssumption
  <1>1. r \in Processes /\ TypeOK /\ Overlap
    BY DEF Processes, InForceInv, Begin, BeginGet
  <1>2. /\ UNCHANGED <<file, dnat, opened, doubled>>
        /\ \A q \in Processes : pc'[q] = IF q = r THEN "read" ELSE pc[q]
    BY <1>1 DEF TypeOK, Begin, BeginGet, files, ruleset
  <1>3. lone' => \A q \in Processes : pc'[q] \notin Syncing
    BY <1>1, <1>2 DEF Overlap, Quiet, Syncing, Adding, Removing
  <1>4. checked' = checked /\ \A k \in Lists : good'[k] => good[k]
    BY <1>1 DEF Overlap
  <1> QED
    BY <1>2, <1>3, <1>4 DEF SyncInv, InForceInv, ExternalInForce, LocalInForce, Lists

LEMMA RequestInForce ==
    ASSUME InForceInv, NEW r \in Requests,
           \/ \E l \in Lists : Read(r, l) \/ Create(r, l)
           \/ Refuse(r) \/ Truncate(r) \/ Write(r) \/ Stop(r)
    PROVE  SyncInv' /\ ExternalInForce' /\ LocalInForce'
  <1> USE PortForwardsAssumption
  <1>1. r \in Processes /\ TypeOK /\ PastInv /\ list[r] \in Lists
    BY DEF Processes, InForceInv, TypeOK
  <1>2. /\ pc[r] # "idle" /\ lone' = lone /\ checked' = checked
        /\ \A q \in Processes : pc'[q] = pc[q] \/ q = r
        /\ pc'[r] \notin Syncing
    BY <1>1 DEF TypeOK, Read, Create, Refuse, Truncate, AllRead, Write, Stop, pastVars, Syncing,
                Adding, Removing
  <1>3. lone => \A q \in Processes : pc'[q] \notin Syncing
    BY <1>1, <1>2 DEF PastInv, AtMostOne, Syncing, Adding, Removing
  <1>4. \A k \in Lists : good'[k] => good[k] /\ file'[k] = file[k]
    <2>1. CASE Truncate(r)
      BY <1>1, <2>1 DEF TypeOK, Truncate
    <2>2. CASE Write(r)
      <3>1. \A k \in Lists : good[k] => list[r] # k
        BY <1>1, <2>2 DEF PastInv, Write, Working
      <3>2. good' = good
        BY <2>2 DEF Write, pastVars
      <3>3. \A k \in Lists : k # list[r] => file'[k] = file[k]
        BY <1>1, <2>2 DEF TypeOK, Write
      <3> QED
        BY <3>1, <3>2, <3>3
    <2>3. CASE \E k \in Lists : Create(r, k)
      BY <1>1, <2>3 DEF TypeOK, Create
    <2>4. CASE Refuse(r) \/ Stop(r) \/ \E k \in Lists : Read(r, k)
      BY <2>4 DEF Read, Refuse, Stop, files, pastVars
    <2> QED
      BY <2>1, <2>2, <2>3, <2>4
  <1>5. /\ UNCHANGED <<opened, doubled>>
        /\ good["external"] => dnat' = dnat
    <2>1. CASE Stop(r)
      BY <1>1, <2>1, PartlyInForce DEF Stop
    <2>2. CASE ~Stop(r)
      BY <2>2 DEF Read, Create, Refuse, Truncate, Write, ruleset
    <2> QED
      BY <2>1, <2>2
  <1> QED
    BY <1>2, <1>3, <1>4, <1>5
       DEF SyncInv, InForceInv, ExternalInForce, LocalInForce, Lists

LEMMA CompareInForce ==
    ASSUME InForceInv, NEW p \in Processes, NEW within \in SUBSET Targets, Compare(p, within)
    PROVE  SyncInv' /\ ExternalInForce' /\ LocalInForce'
  <1>1. TypeOK /\ PastInv /\ list[p] \in Lists /\ pc[p] = "compare"
    BY DEF InForceInv, TypeOK, Compare
  <1>2. /\ UNCHANGED <<file, dnat, opened, doubled, list, lone, good>>
        /\ checked' = IF list[p] = "external" THEN within ELSE checked
    BY DEF Compare, files, ruleset
  <1>3. ~good[list[p]]
    BY <1>1 DEF PastInv, Working
  <1>4. ExternalInForce' /\ LocalInForce'
    BY <1>1, <1>2, <1>3 DEF InForceInv, ExternalInForce, LocalInForce, Lists
  <1>5. lone => \A q \in Processes : pc'[q] \in Syncing => q = p
    <2>1. \A q \in Processes : q # p => pc'[q] = pc[q]
      BY <1>1 DEF TypeOK, Compare
    <2> QED
      BY <1>1, <2>1 DEF PastInv, AtMostOne, Syncing, Adding, Removing
  <1>6. /\ adds'[p] = Desired(file[list[p]]) \ Active(list[p], within)
        /\ drops'[p] = (Active(list[p], within) \ Desired(file[list[p]])) \cup Twice(list[p])
    BY <1>1 DEF TypeOK, Compare
  <1>7. IF list[p] = "local" THEN LocalSync(p)' ELSE ExternalSync(p)'
    <2>1. CASE list[p] = "local"
      <3>1. doubled \subseteq opened
        BY <1>1 DEF TypeOK
      <3>2. /\ adds'[p] = Desired(file["local"]) \ opened
            /\ drops'[p] = (opened \ Desired(file["local"])) \cup doubled
        BY <1>6, <2>1 DEF Active, Twice
      <3>3. LocalSync(p)'
        BY <1>2, <3>1, <3>2 DEF LocalSync
      <3> QED
        BY <2>1, <3>3
    <2>2. CASE list[p] = "external"
      <3>1. /\ adds'[p] = Desired(file["external"]) \ {e \in dnat : e[2] \in within}
            /\ drops'[p] = {e \in dnat : e[2] \in within} \ Desired(file["external"])
        BY <1>6, <2>2 DEF Active, Twice
      <3>2. checked' = within
        BY <1>2, <2>2
      <3>3. ExternalSync(p)'
        BY <1>2, <3>1, <3>2 DEF ExternalSync
      <3> QED
        BY <2>2, <3>3
    <2> QED
      BY <1>1, <2>1, <2>2 DEF Lists
  <1>8. SyncInv'
    BY <1>2, <1>5, <1>7 DEF SyncInv
  <1> QED
    BY <1>4, <1>8

\* What a script adds or removes, it has found missing or stale.
LEMMA SyncInForce ==
    ASSUME InForceInv, NEW p \in Processes, NEW e,
           \/ e \in adds[p] /\ (AddForward(p, e) \/ InsertLocal(p, e))
           \/ e \in drops[p] /\ RemoveForward(p, e)
    PROVE  SyncInv' /\ ExternalInForce' /\ LocalInForce'
  <1> USE PortForwardsAssumption
  <1>1. TypeOK /\ PastInv /\ pc[p] = "sync" /\ list[p] \in Lists
    BY DEF InForceInv, TypeOK, AddForward, InsertLocal, RemoveForward
  <1>2. UNCHANGED <<file, list, lone, good, checked>>
    BY DEF AddForward, InsertLocal, RemoveForward, files, pastVars
  <1>3. ~good[list[p]]
    BY <1>1 DEF PastInv, Working, Syncing
  <1>4. /\ list[p] = "external" => opened' = opened /\ doubled' = doubled
        /\ list[p] = "local" => dnat' = dnat
    BY DEF AddForward, InsertLocal, RemoveForward
  <1>5. ExternalInForce' /\ LocalInForce'
    BY <1>1, <1>2, <1>3, <1>4 DEF InForceInv, ExternalInForce, LocalInForce, Lists
  <1>6. ASSUME lone
        PROVE  IF list[p] = "local" THEN LocalSync(p)' ELSE ExternalSync(p)'
    <2>1. IF list[p] = "local" THEN LocalSync(p) ELSE ExternalSync(p)
      BY <1>1, <1>6 DEF InForceInv, SyncInv, Syncing
    <2>2. CASE AddForward(p, e)
      <3>1. /\ adds'[p] = adds[p] \ {e} /\ drops'[p] = drops[p] /\ dnat' = dnat \cup {e}
            /\ e \in adds[p] /\ list[p] = "external"
        BY <1>1, <2>2 DEF TypeOK, AddForward
      <3>2. ExternalSync(p)
        BY <2>1, <3>1
      <3>3. ExternalSync(p)'
        BY <1>2, <3>1, <3>2 DEF ExternalSync
      <3> QED
        BY <3>1, <3>3
    <2>3. CASE InsertLocal(p, e)
      <3>1. adds'[p] = adds[p] \ {e} /\ drops'[p] = drops[p] /\ opened' = opened \cup {e} /\ e \in adds[p]
        BY <1>1, <2>3 DEF TypeOK, InsertLocal
      <3>2. list[p] = "local" /\ doubled' = doubled
        BY <2>1, <2>3, <3>1 DEF InsertLocal, LocalSync
      <3> QED
        BY <1>2, <2>1, <3>1, <3>2 DEF LocalSync
    <2>4. CASE RemoveForward(p, e)
      <3>1. /\ adds' = adds /\ adds[p] = {} /\ e \in drops[p]
            /\ drops'[p] = drops[p] \ {e}
            /\ dnat' = dnat \ ({e[1]} \X DnatTouches[e[2]])
            /\ list[p] = "external"
        BY <1>1, <2>4 DEF TypeOK, RemoveForward
      <3>2. e \in DnatRules
        BY <1>1, <3>1 DEF TypeOK, ProcessOK, Rules
      <3>3. /\ e = <<e[1], e[2]>>
            /\ e[2] \in Targets /\ e[2] \in DnatTouches[e[2]]
        BY <3>2 DEF DnatRules
      <3>4. e \notin dnat'
        BY <3>1, <3>3
      <3>5. ExternalSync(p)
        BY <2>1, <3>1
      <3>6. ASSUME NEW d \in Desired(file["external"]), d[2] \in Distinct
            PROVE  d \in dnat'
        <4>1. d \in dnat /\ d \in DnatRules
          BY <1>1, <3>1, <3>5, <3>6 DEF ExternalSync, TypeOK, DnatRules
        <4>2. d = <<d[1], d[2]>>
          BY <4>1 DEF DnatRules
        <4>3. d # e
          BY <3>1, <3>5, <3>6 DEF ExternalSync
        <4>4. d[2] \in DnatTouches[e[2]] => d[2] = e[2]
          BY <3>3, <3>6 DEF Distinct
        <4> QED
          BY <3>1, <3>3, <4>1, <4>2, <4>3, <4>4
      <3>7. ExternalSync(p)'
        BY <1>2, <3>1, <3>4, <3>5, <3>6 DEF ExternalSync
      <3> QED
        BY <3>1, <3>7
    <2> QED
      BY <2>2, <2>3, <2>4
  <1>7. lone => \A q \in Processes : pc'[q] \in Syncing => q = p
    <2>1. \A q \in Processes : q # p => pc'[q] = pc[q]
      BY <1>1 DEF TypeOK, AddForward, InsertLocal, RemoveForward
    <2> QED
      BY <1>1, <2>1 DEF PastInv, AtMostOne, Syncing, Adding, Removing
  <1>8. SyncInv'
    BY <1>2, <1>6, <1>7 DEF SyncInv
  <1> QED
    BY <1>5, <1>8

\* The other rules of a forward are no matter of these properties.
LEMMA HalfInForce ==
    ASSUME InForceInv, NEW p \in Processes, HalfStep(p)
    PROVE  SyncInv' /\ ExternalInForce' /\ LocalInForce'
  <1>1. UNCHANGED <<file, dnat, opened, doubled, list, adds, drops, lone, good, checked>>
    BY DEF HalfStep, AddSnat, AddAccept, RemoveSnat, RemoveAccept, files, syncVars, pastVars
  <1>2. \A q \in Processes : pc'[q] \in Syncing => pc[q] \in Syncing
    BY DEF InForceInv, TypeOK, HalfStep, AddSnat, AddAccept, RemoveSnat, RemoveAccept, Syncing,
           Adding, Removing
  <1>3. \A q \in Processes : (LocalSync(q) => LocalSync(q)') /\ (ExternalSync(q) => ExternalSync(q)')
    BY <1>1 DEF LocalSync, ExternalSync
  <1>4. SyncInv'
    BY <1>1, <1>2, <1>3 DEF InForceInv, SyncInv
  <1> QED
    BY <1>1, <1>4 DEF InForceInv, ExternalInForce, LocalInForce

LEMMA EndInForce ==
    ASSUME InForceInv, NEW p \in Processes, Ending(p)
    PROVE  SyncInv' /\ ExternalInForce' /\ LocalInForce'
  <1> USE PortForwardsAssumption
  <1>1. TypeOK /\ PastInv /\ list[p] \in Lists
    BY DEF InForceInv, TypeOK
  <1>2. /\ pc[p] \in {"compare"} \cup Syncing
        /\ Partly(p)
        /\ \E ok \in BOOLEAN : End(p, ok) /\ (ok => Finish(p))
    BY <1>1, EndingIsEnd
  <1>3. PICK ok \in BOOLEAN : End(p, ok) /\ (ok => Finish(p))
    BY <1>2
  <1>4. /\ UNCHANGED <<file, opened, doubled, lone, checked>>
        /\ dnat' # dnat => ~good["external"] /\ list[p] = "external"
        /\ ok => dnat' = dnat /\ adds[p] = {} /\ drops[p] = {} /\ pc[p] = "sync"
    BY <1>2, <1>3, PartlyInForce DEF End, Finish, files, ruleset
  <1>5. /\ good' = [good EXCEPT ![list[p]] = ok /\ lone]
        /\ \A q \in Processes : q # p => pc'[q] = pc[q]
        /\ pc'[p] \notin Syncing
    BY <1>1, <1>3 DEF TypeOK, End, Syncing, Adding, Removing
  <1>6. lone => \A q \in Processes : pc'[q] \notin Syncing
    BY <1>1, <1>2, <1>5 DEF PastInv, AtMostOne, Syncing, Adding, Removing
  <1>7. SyncInv'
    BY <1>4, <1>6 DEF SyncInv
  <1>8. good'[list[p]] => ok /\ lone
    BY <1>1, <1>5 DEF TypeOK
  <1>9. \A k \in Lists : k # list[p] => good'[k] = good[k]
    BY <1>1, <1>5 DEF TypeOK
  <1>10. CASE list[p] = "external"
    <2>1. good'["external"] => ExternalSync(p) /\ adds[p] = {} /\ drops[p] = {} /\ dnat' = dnat
      BY <1>1, <1>4, <1>8, <1>10 DEF InForceInv, SyncInv, Syncing
    <2>2. ExternalInForce'
      BY <1>4, <2>1 DEF ExternalSync, ExternalInForce
    <2>3. good'["local"] = good["local"]
      BY <1>9, <1>10 DEF Lists
    <2> QED
      BY <1>4, <1>7, <2>2, <2>3 DEF InForceInv, LocalInForce
  <1>11. CASE list[p] = "local"
    <2>1. good'["local"] => LocalSync(p) /\ adds[p] = {} /\ drops[p] = {}
      BY <1>1, <1>4, <1>8, <1>11 DEF InForceInv, SyncInv, Syncing
    <2>2. LocalInForce'
      BY <1>4, <2>1 DEF LocalSync, LocalInForce
    <2>3. good'["external"] = good["external"] /\ dnat' = dnat
      BY <1>4, <1>9, <1>11 DEF Lists
    <2> QED
      BY <1>4, <1>7, <2>2, <2>3 DEF InForceInv, ExternalInForce
  <1> QED
    BY <1>1, <1>10, <1>11 DEF Lists

LEMMA NextInForce == InForceInv /\ [Next]_vars => InForceInv'
  <1> SUFFICES ASSUME InForceInv, [Next]_vars PROVE InForceInv'
    OBVIOUS
  <1>1. TypeOK' /\ PastInv'
    BY NextTyped, NextPast DEF InForceInv
  <1>2. ASSUME NEW p \in Processes, Script(p)
        PROVE  SyncInv' /\ ExternalInForce' /\ LocalInForce'
    <2>1. CASE HalfStep(p)
      BY <2>1, HalfInForce
    <2>2. CASE Ending(p)
      BY <2>2, EndInForce
    <2> QED
      BY <1>2, <2>1, <2>2, CompareInForce, SyncInForce DEF Script, HalfStep, Ending
  <1>3. CASE Reboot
    <2>1. \A p \in Processes : pc'[p] \notin Syncing
      BY <1>3 DEF Reboot, Booting, Syncing, Adding, Removing
    <2>2. ~good'["external"] /\ ~good'["local"]
      BY <1>3 DEF Reboot, Lists
    <2> QED
      BY <1>1, <2>1, <2>2 DEF InForceInv, SyncInv, ExternalInForce, LocalInForce
  <1>4. CASE UNCHANGED vars
    <2>1. SyncInv'
      BY <1>4 DEF vars, InForceInv, SyncInv, LocalSync, ExternalSync
    <2>2. ExternalInForce' /\ LocalInForce'
      BY <1>4 DEF vars, InForceInv, ExternalInForce, LocalInForce
    <2> QED
      BY <1>1, <2>1, <2>2 DEF InForceInv
  <1>5. ASSUME NEW r \in Requests, Request(r)
        PROVE  SyncInv' /\ ExternalInForce' /\ LocalInForce'
    BY <1>5, BeginInForce, RequestInForce DEF Request
  <1> QED
    BY <1>1, <1>2, <1>3, <1>4, <1>5 DEF Next, InForceInv

LEMMA InForceInvariant == Spec => []InForceInv
  <1>1. Init => InForceInv
    BY InitTyped, InitPast, InitInForce DEF InForceInv
  <1>2. InForceInv /\ [Next]_vars => InForceInv'
    BY NextInForce
  <1> QED
    BY <1>1, <1>2, PTL DEF Spec

\* Whatever has happened before, a synchronisation of the external forwards
\* that is on its own and ends without error leaves a DNAT rule for each
\* forward on the list whose target no removal of another mistakes for its own,
\* and none that is not on the list to a target that is, when the script looks,
\* in a subnet of the router's interfaces (update_external_forwards.sh ignores
\* all others).
THEOREM ExternalForwards == Spec => []ExternalInForce
  <1>1. InForceInv => ExternalInForce
    BY DEF InForceInv
  <1> QED
    BY <1>1, InForceInvariant, PTL

\* In the same way it leaves exactly one rule for each local forward.
THEOREM LocalForwards == Spec => []LocalInForce
  <1>1. InForceInv => LocalInForce
    BY DEF InForceInv
  <1> QED
    BY <1>1, InForceInvariant, PTL
-----------------------------------------------------------------------------
(* Only a removal that breaks off leaves a hole in the firewall.           *)

LEMMA ApartBackwards == TypeOK /\ [Next]_vars /\ apart' => apart
  <1> SUFFICES ASSUME TypeOK, [Next]_vars, apart' PROVE apart
    OBVIOUS
  <1>1. ASSUME NEW r \in Requests, Request(r) PROVE apart
    BY <1>1 DEF Request, Begin, BeginGet, Overlap, Read, Create, Refuse, Truncate, Write, Stop,
                pastVars
  <1>2. ASSUME NEW p \in Processes, Script(p) PROVE apart
    <2>1. CASE Ending(p)
      BY <2>1, EndingIsEnd DEF End
    <2>2. CASE Middle(p)
      BY <2>2, MiddleKeeps
    <2> QED
      BY <1>2, <2>1, <2>2 DEF Script, Ending, Middle, HalfStep
  <1>3. CASE Reboot
    BY <1>3 DEF Reboot
  <1> QED
    BY <1>1, <1>2, <1>3 DEF Next, vars

Forwarded(t) == \E q \in ExtPorts : <<q, t>> \in dnat

Covered == \A t \in accept \cup snat : t \in torn \/ Forwarded(t)

\* What a script in the middle of a forward has already done for it: the DNAT
\* rule is there before the other rules are added, and the SNAT rules are gone
\* before the accept rules go.
HalfDone(p) ==
    /\ pc[p] \in Adding => Forwarded(half[p])
    /\ pc[p] = "delAccept" => snat \cap SnatTouches[half[p]] = {}

HoleInv == apart => Covered /\ \A p \in Processes : HalfDone(p)

LEMMA InitHole == Init => HoleInv
  BY DEF Init, HoleInv, Covered, HalfDone, Booting, Adding

\* Where the rules stay as they are and no script comes to the middle of a
\* forward, nothing changes.
LEMMA SameHole ==
    ASSUME HoleInv, apart' => apart, UNCHANGED <<accept, snat, dnat, torn, half>>,
           \A p \in Processes : pc'[p] \in Adding \cup Removing => pc'[p] = pc[p]
    PROVE  HoleInv'
  BY DEF HoleInv, Covered, HalfDone, Forwarded, Adding, Removing

\* A script that breaks off leaves the rules behind only of targets that are
\* then torn, and nobody else is in the middle of a forward.
LEMMA PartlyHole ==
    ASSUME TypeOK, Covered, NEW p \in Processes, Partly(p),
           \A q \in Processes : pc'[q] \notin Adding \cup Removing
    PROVE  HoleInv'
  <1> USE PortForwardsAssumption
  <1>1. snat' \subseteq snat /\ accept' \subseteq accept /\ torn \subseteq torn'
    BY PartlyDeletes
  <1>2. ASSUME NEW t, t \notin torn', Forwarded(t) PROVE Forwarded(t)'
    <2>1. CASE dnat' = dnat
      BY <1>2, <2>1 DEF Forwarded
    <2>2. CASE dnat' # dnat
      <3>1. PICK e \in drops[p] : \E gone \in SUBSET DnatTouches[e[2]] :
                /\ dnat' = dnat \ ({e[1]} \X gone)
                /\ torn' = torn \cup DnatTouches[e[2]]
        BY <2>2 DEF Partly, ruleset
      <3>2. PICK q \in ExtPorts : <<q, t>> \in dnat
        BY <1>2 DEF Forwarded
      <3>3. t \notin DnatTouches[e[2]]
        BY <1>2, <3>1
      <3>4. <<q, t>> \in dnat'
        BY <3>1, <3>2, <3>3
      <3> QED
        BY <3>4 DEF Forwarded
    <2> QED
      BY <2>1, <2>2
  <1>3. Covered'
    BY <1>1, <1>2 DEF Covered
  <1> QED
    BY <1>3 DEF HoleInv, HalfDone, Removing

LEMMA AddHole ==
    ASSUME TypeOK, Covered, NEW p \in Processes, NEW e \in adds[p], AddForward(p, e),
           \A q \in Processes : q # p => pc'[q] = "idle"
    PROVE  HoleInv'
  <1>1. e \in DnatRules
    BY DEF TypeOK, ProcessOK, AddForward, Rules
  <1>2. e[1] \in ExtPorts /\ <<e[1], e[2]>> = e
    BY <1>1 DEF DnatRules
  <1>3. UNCHANGED <<accept, snat>> /\ dnat' = dnat \cup {e} /\ torn' = torn \ {e[2]}
    BY DEF AddForward
  <1>4. Forwarded(e[2])' /\ \A t : Forwarded(t) => Forwarded(t)'
    BY <1>2, <1>3 DEF Forwarded
  <1>5. Covered'
    BY <1>3, <1>4 DEF Covered
  <1>6. pc'[p] = "addSnat" /\ half'[p] = e[2]
    BY DEF TypeOK, AddForward
  <1>7. \A q \in Processes : HalfDone(q)'
    BY <1>4, <1>6 DEF HalfDone, Adding
  <1> QED
    BY <1>5, <1>7 DEF HoleInv

LEMMA RemoveHole ==
    ASSUME TypeOK, Covered, NEW p \in Processes, NEW e \in drops[p], RemoveForward(p, e),
           \A q \in Processes : q # p => pc'[q] = "idle"
    PROVE  HoleInv'
  <1>1. /\ UNCHANGED <<accept, snat>>
        /\ dnat' = dnat \ ({e[1]} \X DnatTouches[e[2]])
        /\ torn' = torn \cup DnatTouches[e[2]]
    BY DEF RemoveForward
  <1>2. ASSUME NEW t, t \notin torn', Forwarded(t) PROVE Forwarded(t)'
    <2>1. PICK q \in ExtPorts : <<q, t>> \in dnat
      BY <1>2 DEF Forwarded
    <2>2. t \notin DnatTouches[e[2]]
      BY <1>1, <1>2
    <2>3. <<q, t>> \in dnat'
      BY <1>1, <2>1, <2>2
    <2> QED
      BY <2>3 DEF Forwarded
  <1>3. Covered'
    BY <1>1, <1>2 DEF Covered
  <1>4. pc'[p] = "delSnat"
    BY DEF TypeOK, RemoveForward
  <1> QED
    BY <1>3, <1>4 DEF HoleInv, HalfDone, Adding

\* The completion of a removal leaves neither accept nor SNAT rules of the
\* targets that cease to be torn.
LEMMA HalfHole ==
    ASSUME TypeOK, Covered, NEW p \in Processes, HalfDone(p), HalfStep(p),
           \A q \in Processes : q # p => pc'[q] = "idle"
    PROVE  HoleInv'
  <1> USE PortForwardsAssumption
  <1>1. dnat' = dnat
    BY DEF HalfStep, AddSnat, AddAccept, RemoveSnat, RemoveAccept
  <1>2. \A t : Forwarded(t)' <=> Forwarded(t)
    BY <1>1 DEF Forwarded
  <1>3. CASE AddSnat(p)
    <2>1. /\ accept' = accept /\ torn' = torn /\ half' = half
          /\ snat' = snat \cup {half[p]} /\ Forwarded(half[p]) /\ pc'[p] = "addAccept"
      BY <1>3 DEF TypeOK, AddSnat, HalfDone, Adding, pastVars, syncVars
    <2> QED
      BY <1>2, <2>1 DEF HoleInv, Covered, HalfDone, Adding
  <1>4. CASE AddAccept(p)
    <2>1. /\ snat' = snat /\ torn' = torn
          /\ accept' = accept \cup {half[p]} /\ Forwarded(half[p]) /\ pc'[p] = "sync"
      BY <1>4 DEF TypeOK, AddAccept, HalfDone, Adding, pastVars
    <2> QED
      BY <1>2, <2>1 DEF HoleInv, Covered, HalfDone, Adding
  <1>5. CASE RemoveSnat(p)
    <2>1. /\ accept' = accept /\ torn' = torn /\ half' = half
          /\ snat' = snat \ SnatTouches[half[p]] /\ pc'[p] = "delAccept"
      BY <1>5 DEF TypeOK, RemoveSnat, pastVars, syncVars
    <2> QED
      BY <1>2, <2>1 DEF HoleInv, Covered, HalfDone, Adding
  <1>6. CASE RemoveAccept(p)
    <2>1. /\ snat' = snat /\ torn' = torn \ AcceptTouches[half[p]]
          /\ accept' = accept \ AcceptTouches[half[p]] /\ pc'[p] = "sync"
          /\ snat \cap SnatTouches[half[p]] = {}
      BY <1>6 DEF TypeOK, RemoveAccept, HalfDone
    <2>2. half[p] \in Targets
      BY <1>6 DEF TypeOK, ProcessOK, RemoveAccept, Removing
    <2>3. AcceptTouches[half[p]] \subseteq SnatTouches[half[p]]
      BY <2>2
    <2>4. Covered'
      BY <1>2, <2>1, <2>3 DEF Covered
    <2> QED
      BY <2>1, <2>4 DEF HoleInv, HalfDone, Adding
  <1> QED
    BY <1>3, <1>4, <1>5, <1>6 DEF HalfStep

LEMMA NextHole == TypeOK /\ PastInv /\ HoleInv /\ [Next]_vars => HoleInv'
  <1> USE PortForwardsAssumption
  <1> SUFFICES ASSUME TypeOK, PastInv, HoleInv, [Next]_vars, apart' PROVE HoleInv'
    BY DEF HoleInv
  <1>1. apart /\ Covered /\ (\A p \in Processes : HalfDone(p)) /\ AtMostOne
    BY ApartBackwards DEF HoleInv, PastInv
  <1>2. ASSUME NEW p \in Processes, Ending(p) PROVE HoleInv'
    <2>1. /\ pc[p] \in {"compare"} \cup Syncing
          /\ Partly(p)
          /\ \E ok \in BOOLEAN : End(p, ok)
      BY <1>2, EndingIsEnd
    <2>2. /\ pc'[p] \in {"idle", "compare"}
          /\ \A q \in Processes : q # p => pc'[q] = pc[q]
      BY <2>1 DEF TypeOK, End
    <2>3. \A q \in Processes : q # p => pc[q] = "idle"
      BY <1>1, <2>1 DEF AtMostOne, Syncing, Adding, Removing
    <2>4. \A q \in Processes : pc'[q] \notin Adding \cup Removing
      BY <2>2, <2>3 DEF Adding, Removing
    <2> QED
      BY <1>1, <2>1, <2>4, PartlyHole
  <1>3. ASSUME NEW p \in Processes, Middle(p) PROVE HoleInv'
    <2>1. \A q \in Processes : q # p => pc'[q] = "idle"
      <3>1. /\ pc[p] \in {"compare"} \cup Syncing
            /\ \A q \in Processes : q # p => pc'[q] = pc[q]
        BY <1>3, MiddleKeeps
      <3> QED
        BY <1>1, <3>1 DEF AtMostOne, Syncing, Adding, Removing
    <2>2. ASSUME NEW within \in SUBSET Targets, Compare(p, within) PROVE HoleInv'
      <3>1. UNCHANGED <<accept, snat, dnat, torn, half>> /\ pc'[p] = "sync"
        BY <2>2 DEF TypeOK, Compare, ruleset
      <3> QED
        BY <1>1, <2>1, <3>1, SameHole DEF Adding, Removing
    <2>3. ASSUME NEW e \in adds[p], InsertLocal(p, e) PROVE HoleInv'
      <3>1. UNCHANGED <<accept, snat, dnat, torn, half, pc>>
        BY <2>3 DEF InsertLocal, pastVars
      <3> QED
        BY <1>1, <3>1, SameHole
    <2> QED
      BY <1>1, <1>3, <2>1, <2>2, <2>3, AddHole, RemoveHole, HalfHole DEF Middle
  <1>4. ASSUME NEW p \in Processes, Script(p) PROVE HoleInv'
    BY <1>2, <1>3, <1>4 DEF Script, Ending, Middle, HalfStep
  <1>5. ASSUME NEW r \in Requests, Request(r) PROVE HoleInv'
    <2>1. r \in Processes
      BY DEF Processes
    <2>2. CASE Stop(r)
      <3>1. Partly(r) /\ pc[r] # "idle" /\ \A q \in Processes : pc'[q] = IF q = r THEN "idle" ELSE pc[q]
        BY <2>1, <2>2 DEF TypeOK, Stop
      <3>2. \A q \in Processes : pc'[q] \notin Adding \cup Removing
        BY <1>1, <2>1, <3>1 DEF AtMostOne, Adding, Removing
      <3> QED
        BY <1>1, <2>1, <3>1, <3>2, PartlyHole
    <2>3. CASE ~Stop(r)
      <3>1. UNCHANGED <<accept, snat, dnat, torn, half>>
        BY <1>5, <2>3 DEF Request, Begin, BeginGet, Overlap, Read, Create, Refuse, Truncate,
                          Write, ruleset, pastVars, syncVars
      <3>2. \A q \in Processes : pc'[q] \in Adding \cup Removing => pc'[q] = pc[q]
        BY <1>5, <2>1, <2>3
           DEF TypeOK, Request, Begin, BeginGet, Read, Create, Refuse, Truncate, Write, Adding,
               Removing
      <3> QED
        BY <1>1, <3>1, <3>2, SameHole
    <2> QED
      BY <2>2, <2>3
  <1>6. CASE Reboot
    BY <1>6 DEF Reboot, HoleInv, Covered, HalfDone, Booting, Adding
  <1>7. CASE UNCHANGED vars
    BY <1>1, <1>7, SameHole DEF vars
  <1> QED
    BY <1>4, <1>5, <1>6, <1>7 DEF Next

\* As long as processes do not overlap, and wherever their scripts fail or are
\* killed, the accept and SNAT rules of a target outlive its last DNAT rule only
\* if a removal touching it broke off before its end: a removal that is completed
\* takes with a DNAT rule, its own or a mistaken one, the others along, and an
\* addition has the DNAT rule in place before them.
THEOREM NoHole == Spec => []NoHoleLeft
  <1>1. Init => TypeOK /\ PastInv /\ HoleInv
    BY InitTyped, InitPast, InitHole
  <1>2. TypeOK /\ PastInv /\ HoleInv /\ [Next]_vars => (TypeOK /\ PastInv /\ HoleInv)'
    BY NextTyped, NextPast, NextHole
  <1>3. HoleInv => NoHoleLeft
    BY DEF HoleInv, Covered, Forwarded, NoHoleLeft
  <1> QED
    BY <1>1, <1>2, <1>3, PTL DEF Spec
-----------------------------------------------------------------------------
(* As long as processes do not overlap the files are a table.              *)

\* A file that is missing is nobody's, and only a request that is still reading
\* is going to create one.
MissingInv ==
    /\ \A l \in missing : file[l] = Nothing
    /\ \A r \in Requests : /\ pc[r] = "write" => list[r] \notin missing
                           /\ pc[r] # "read" => absent[r] = {}

LEMMA InitMissing == Init => MissingInv
  BY PortForwardsAssumption DEF Init, MissingInv, Booting, Processes

LEMMA RequestMissing ==
    ASSUME TypeOK, MissingInv, NEW r \in Requests, Request(r)
    PROVE  MissingInv'
  <1> USE PortForwardsAssumption
  <1>1. r \in Processes /\ list[r] \in Lists /\ Requests \subseteq Processes
    BY DEF Processes, TypeOK
  <1>2. \A q \in Requests : q # r => pc'[q] = pc[q] /\ list'[q] = list[q] /\ absent'[q] = absent[q]
    BY <1>1 DEF TypeOK, Request, Begin, BeginGet, Read, Create, Refuse, Truncate, Write, Stop,
                Forget, editVars
  <1>3. missing' \subseteq missing /\ \A k \in missing' : file'[k] = file[k]
    <2>1. CASE Write(r)
      BY <1>1, <2>1 DEF TypeOK, Write, MissingInv
    <2>2. CASE Truncate(r)
      BY <1>1, <2>2 DEF TypeOK, Truncate
    <2>3. CASE \E l \in Lists : Create(r, l)
      BY <2>3 DEF TypeOK, Create
    <2>4. CASE ~Write(r) /\ ~Truncate(r) /\ ~\E l \in Lists : Create(r, l)
      BY <2>4 DEF Request, Begin, BeginGet, Read, Refuse, Stop, files
    <2> QED
      BY <2>1, <2>2, <2>3, <2>4
  <1>4. /\ pc'[r] = "write" => list'[r] \notin missing'
        /\ pc'[r] # "read" => absent'[r] = {}
    <2>1. CASE Truncate(r)
      BY <1>1, <2>1 DEF TypeOK, Truncate, AllRead, editVars
    <2>2. CASE ~Truncate(r)
      <3>1. pc'[r] # "write" /\ (pc'[r] # "read" => absent'[r] = {})
        BY <1>1, <2>2 DEF TypeOK, Request, Begin, BeginGet, Read, Create, Refuse, Write, Stop, Forget
      <3> QED
        BY <3>1
    <2> QED
      BY <2>1, <2>2
  <1> QED
    BY <1>2, <1>3, <1>4 DEF MissingInv, Nothing

LEMMA NextMissing == TypeOK /\ MissingInv /\ [Next]_vars => MissingInv'
  <1> USE PortForwardsAssumption
  <1> SUFFICES ASSUME TypeOK, MissingInv, [Next]_vars PROVE MissingInv'
    OBVIOUS
  <1>1. ASSUME NEW p \in Processes, Script(p) PROVE MissingInv'
    <2>1. /\ UNCHANGED <<files, editVars>>
          /\ pc[p] \in {"compare"} \cup Syncing
          /\ pc'[p] \notin {"read", "write"}
          /\ \A q \in Processes : q # p => pc'[q] = pc[q] /\ list'[q] = list[q]
      <3>1. CASE Ending(p)
        <4>1. PICK ok \in BOOLEAN : End(p, ok)
          BY <3>1, EndingIsEnd
        <4>2. pc[p] \in {"compare"} \cup Syncing
          BY <3>1, EndingIsEnd
        <4> QED
          BY <4>1, <4>2 DEF TypeOK, End
      <3>2. CASE Middle(p)
        BY <3>2, MiddleKeeps DEF Syncing, Adding, Removing
      <3> QED
        BY <1>1, <3>1, <3>2 DEF Script, Ending, Middle, HalfStep
    <2>2. pc[p] # "read"
      BY <2>1 DEF Syncing, Adding, Removing
    <2> QED
      BY <2>1, <2>2 DEF MissingInv, Processes, files, editVars, Nothing
  <1>2. CASE Reboot
    <2>1. \A r \in Requests : pc'[r] = "idle" /\ absent'[r] = {}
      BY <1>2 DEF Reboot, Booting, Processes
    <2> QED
      BY <1>2, <2>1 DEF Reboot, MissingInv, files, Nothing
  <1>3. CASE UNCHANGED vars
    BY <1>3 DEF MissingInv, vars, Nothing
  <1> QED
    BY <1>1, <1>2, <1>3, RequestMissing DEF Next

Scope(r) == IF ask[r].op = "POST" THEN Lists ELSE {list[r]}

\* What a request has read is still so, and what it is about to write or to
\* create is empty.
SerialInv ==
    apart => \A r \in Requests :
                 /\ pc[r] = "read" =>
                        /\ \A l \in Scope(r) \ unread[r] : seen[r][l] = ReadForwards(file[l])
                        /\ \A l \in absent[r] : file[l] = Nothing
                 /\ pc[r] = "write" => file[list[r]] = Nothing

T == [l \in Lists |-> Recorded(l)]

NoWriter == \A r \in Requests : pc[r] # "write"

LEMMA RecordedAtRest ==
    ASSUME NoWriter
    PROVE  T = [l \in Lists |-> ReadForwards(file[l])]
  <1>1. \A l \in Lists : Writers(l) = {}
    BY DEF NoWriter, Writers
  <1> QED
    BY <1>1 DEF T, Recorded

LEMMA RecordedAtWrite ==
    ASSUME AtMostOne, NEW r \in Requests, pc[r] = "write"
    PROVE  T = [l \in Lists |-> ReadForwards(IF l = list[r] THEN Edited(r) ELSE file[l])]
  <1>1. \A q \in Requests : pc[q] = "write" => q = r
    BY DEF AtMostOne, Processes
  <1>2. \A l \in Lists : Writers(l) = IF l = list[r] THEN {r} ELSE {}
    BY <1>1 DEF Writers
  <1>3. (CHOOSE q \in {r} : TRUE) = r
    OBVIOUS
  <1>4. ASSUME NEW l \in Lists
        PROVE  Recorded(l) = ReadForwards(IF l = list[r] THEN Edited(r) ELSE file[l])
    BY <1>2, <1>3 DEF Recorded
  <1> QED
    BY <1>4 DEF T

LEMMA ReadNothing == ReadForwards(Nothing) = Nothing
  BY PortForwardsAssumption DEF ReadForwards, Nothing, Values

LEMMA InitSerial == Init => SerialInv
  BY PortForwardsAssumption DEF Init, SerialInv, Booting, Processes

\* The steps at which no list is being written, neither before nor after.
LEMMA RestingStep ==
    ASSUME NoWriter, NoWriter', file' = file
    PROVE  T' = T
  <1>1. T = [l \in Lists |-> ReadForwards(file[l])]
    BY RecordedAtRest
  <1>2. T' = [l \in Lists |-> ReadForwards(file'[l])]
    <2>1. \A l \in Lists : Writers(l)' = {}
      BY DEF NoWriter, Writers
    <2> QED
      BY <2>1 DEF T, Recorded, ReadForwards
  <1> QED
    BY <1>1, <1>2
\* A POST adds its forward, a DELETE takes one away, and both do so at once,
\* when the file is emptied to be written.
LEMMA TruncateTable ==
    ASSUME TypeOK, AtMostOne, AtMostOne', NEW r \in Requests, Truncate(r),
           \A l \in Scope(r) \ unread[r] : seen[r][l] = ReadForwards(file[l])
    PROVE  Table!Next \/ T' = T
  <1> USE PortForwardsAssumption
  <1> DEFINE l == list[r]
             q == ask[r].port
             v == ask[r].value
             w == IF v = Unspecified THEN Same ELSE v
  <1>1. r \in Processes /\ l \in Lists /\ pc[r] = "read" /\ pc'[r] = "write"
    BY DEF Processes, TypeOK, Truncate, AllRead
  <1>2. ask[r] \in Asks(l)
    BY <1>1 DEF TypeOK, ProcessOK, Truncate, Refused, Get
  <1>3. q \in ExtPorts
    BY <1>2 DEF Asks
  <1>4. NoWriter
    BY <1>1 DEF NoWriter, AtMostOne, Processes
  <1>5. T = [k \in Lists |-> ReadForwards(file[k])]
    BY <1>4, RecordedAtRest
  <1>6. \A k \in Scope(r) : seen[r][k] = ReadForwards(file[k])
    BY DEF Truncate, AllRead
  <1>7. seen[r][l] = ReadForwards(file[l])
    BY <1>1, <1>6 DEF Scope
  <1>8. Edited(r)' = [ReadForwards(file[l]) EXCEPT ![q] = v]
    BY <1>7 DEF Truncate, editVars, Edited
  <1>9. /\ file'[l] = Nothing
        /\ \A k \in Lists : k # l => file'[k] = file[k]
    BY <1>1 DEF TypeOK, Truncate
  <1>10. \A k \in Lists :
             T'[k] = IF k = l THEN ReadForwards(Edited(r)') ELSE ReadForwards(file[k])
    <2>1. \A s \in Requests : pc'[s] = "write" => s = r
      BY <1>1 DEF AtMostOne, Processes
    <2>2. \A k \in Lists : Writers(k)' = IF k = l THEN {r} ELSE {}
      BY <1>1, <2>1 DEF Writers, Truncate
    <2>3. (CHOOSE s \in {r} : TRUE) = r
      OBVIOUS
    <2> HIDE DEF l
    <2> QED
      BY <1>9, <2>2, <2>3 DEF T, Recorded, ReadForwards, Edited
  <1>11. ReadForwards(Edited(r)') = [ReadForwards(file[l]) EXCEPT ![q] = w]
    <2>1. Same # Unspecified
      BY DEF LocalPorts
    <2> QED
      BY <1>3, <1>8, <2>1 DEF ReadForwards
  <1>12. T' = [k \in Lists |-> T'[k]]
    BY DEF T
  <1>13. T' = [T EXCEPT ![l][q] = w]
    <2> HIDE DEF l, q, v, w
    <2> QED
      BY <1>1, <1>5, <1>10, <1>11, <1>12
  <1>14. CASE ask[r].op = "POST"
    <2>1. \A k \in Lists : T[k][q] = NoForward
      BY <1>5, <1>6, <1>14 DEF Scope, Truncate, Refused, InUse
    <2>2. w \in Kinds(l) \ {Unspecified}
      BY <1>1, <1>2, <1>14 DEF Asks, Truncate, Refused, Kinds, Values, LocalPorts, Lists
    <2>3. Table!Free(q) /\ l \in Lists
      BY <1>1, <2>1 DEF Table!Free, Table!Lists, Lists, T
    <2> HIDE DEF l, q, v, w
    <2>4. Table!Add(l, q)
      BY <1>13, <2>2, <2>3 DEF Table!Add, T
    <2> QED
      BY <1>1, <1>3, <2>4 DEF Table!Next, Table!Lists, Lists, T
  <1>15. CASE ask[r].op # "POST"
    <2>1. v = NoForward /\ w = NoForward /\ ask[r].op = "DELETE"
      BY <1>2, <1>15 DEF Asks, Values
    <2>2. T[l][q] # NoForward
      BY <1>1, <1>5, <1>7, <2>1 DEF Truncate, Refused
    <2>3. Table!Remove(l, q)
      BY <1>13, <2>1, <2>2 DEF Table!Remove, T
    <2> HIDE DEF l, q, v, w
    <2> QED
      BY <1>1, <1>3, <2>3 DEF Table!Next, Table!Lists, Lists, T
  <1> QED
    BY <1>14, <1>15

\* The file that is then written is what the table already holds.
LEMMA WriteTable ==
    ASSUME TypeOK, AtMostOne, AtMostOne', NEW r \in Requests, Write(r), file[list[r]] = Nothing
    PROVE  T' = T
  <1> USE PortForwardsAssumption
  <1>1. r \in Processes /\ list[r] \in Lists /\ pc[r] = "write" /\ pc'[r] = "compare"
    BY DEF Processes, TypeOK, Write
  <1>2. NoWriter'
    BY <1>1 DEF NoWriter, AtMostOne, Processes
  <1>3. T = [l \in Lists |-> ReadForwards(IF l = list[r] THEN Edited(r) ELSE file[l])]
    BY <1>1, RecordedAtWrite
  <1>4. T' = [l \in Lists |-> ReadForwards(file'[l])]
    <2>1. \A l \in Lists : Writers(l)' = {}
      BY <1>2 DEF NoWriter, Writers
    <2> QED
      BY <2>1 DEF T, Recorded, ReadForwards
  <1>5. PICK c \in Overwritten(Edited(r), Nothing) : file' = [file EXCEPT ![list[r]] = c]
    BY DEF Write
  <1>6. c = Edited(r)
    <2>1. PICK tail \in SUBSET ExtPorts :
              c = [p \in ExtPorts |-> IF Edited(r)[p] = NoForward /\ p \in tail
                                      THEN Nothing[p] ELSE Edited(r)[p]]
      BY <1>5 DEF Overwritten
    <2>2. \A p \in ExtPorts : c[p] = Edited(r)[p]
      BY <2>1 DEF Nothing
    <2>3. Edited(r) = [p \in ExtPorts |-> Edited(r)[p]]
      BY <1>1, EditTyped DEF Contents
    <2> QED
      BY <2>1, <2>2, <2>3
  <1>7. \A l \in Lists : file'[l] = IF l = list[r] THEN Edited(r) ELSE file[l]
    BY <1>1, <1>5, <1>6 DEF TypeOK
  <1> QED
    BY <1>3, <1>4, <1>7

\* A crash before that loses the list.
LEMMA LoseTable ==
    ASSUME TypeOK, AtMostOne, NEW r \in Requests, pc[r] = "write", file[list[r]] = Nothing,
           NoWriter', file' = file
    PROVE  Table!Next \/ T' = T
  <1>1. list[r] \in Lists
    BY DEF TypeOK, Processes
  <1>2. T = [l \in Lists |-> ReadForwards(IF l = list[r] THEN Edited(r) ELSE file[l])]
    BY RecordedAtWrite
  <1>3. T' = [l \in Lists |-> ReadForwards(file[l])]
    <2>1. \A l \in Lists : Writers(l)' = {}
      BY DEF NoWriter, Writers
    <2> QED
      BY <2>1 DEF T, Recorded, ReadForwards
  <1>4. T' = [T EXCEPT ![list[r]] = Nothing]
    BY <1>1, <1>2, <1>3, ReadNothing
  <1>5. Table!Lose(list[r])
    BY <1>4 DEF Table!Lose, T, Table!Nothing, Nothing
  <1> QED
    BY <1>1, <1>5 DEF Table!Next, Table!Lists, Lists, T
\* After a step of one process that is then neither reading nor writing, nobody
\* is, if it is on its own.
LEMMA RestSerial ==
    ASSUME AtMostOne', NEW p \in Processes, pc'[p] # "idle", pc'[p] \notin {"read", "write"}
    PROVE  SerialInv' /\ NoWriter'
  BY DEF AtMostOne, SerialInv, NoWriter, Processes

LEMMA QuietSerial ==
    ASSUME \A p \in Requests : pc'[p] \notin {"read", "write"}
    PROVE  SerialInv' /\ NoWriter'
  BY DEF SerialInv, NoWriter

LEMMA RequestTable ==
    ASSUME TypeOK, AtMostOne, AtMostOne', SerialInv, MissingInv, apart, apart',
           NEW r \in Requests, Request(r)
    PROVE  SerialInv' /\ (Table!Next \/ T' = T)
  <1> USE PortForwardsAssumption
  <1>1. r \in Processes /\ list[r] \in Lists /\ Asked \subseteq Lists
    BY DEF Processes, TypeOK
  <1>2. ASSUME BeginGet(r) \/ \E l \in Asked : \E a \in Asks(l) : Begin(r, l, a)
        PROVE  SerialInv' /\ T' = T
    <2>1. /\ pc'[r] = "read" /\ pc[r] = "idle" /\ file' = file /\ absent' = absent
          /\ \A q \in Processes : q # r => pc'[q] = pc[q]
      BY <1>1, <1>2 DEF TypeOK, Begin, BeginGet, files
    <2>2. \A q \in Processes : q # r => pc'[q] = "idle"
      BY <1>1, <2>1 DEF AtMostOne
    <2>3. NoWriter /\ NoWriter'
      BY <2>1, <2>2 DEF NoWriter, Processes
    <2>4. Scope(r)' \ unread'[r] = {}
      <3>1. CASE BeginGet(r)
        BY <1>1, <3>1 DEF TypeOK, BeginGet, Scope, Get
      <3>2. CASE \E l \in Asked : \E a \in Asks(l) : Begin(r, l, a)
        <4>1. PICK l \in Asked : \E a \in Asks(l) : Begin(r, l, a)
          BY <3>2
        <4>2. PICK a \in Asks(l) : Begin(r, l, a)
          BY <4>1
        <4>3. /\ list'[r] = l /\ ask'[r] = a
              /\ unread'[r] = IF a.op = "POST" THEN Lists ELSE {l}
          BY <1>1, <4>2 DEF TypeOK, Begin
        <4> QED
          BY <4>3 DEF Scope
      <3> QED
        BY <1>2, <3>1, <3>2
    <2>5. absent'[r] = {}
      BY <2>1 DEF MissingInv
    <2>6. SerialInv'
      BY <2>1, <2>2, <2>4, <2>5 DEF SerialInv, Processes
    <2> QED
      BY <2>1, <2>3, <2>6, RestingStep
  <1>3. ASSUME NEW l \in Lists, Read(r, l)
        PROVE  SerialInv' /\ T' = T
    <2>1. pc' = pc /\ pc[r] = "read" /\ file' = file /\ list' = list /\ ask' = ask
      BY <1>3 DEF Read, files
    <2>2. \A q \in Processes : q # r => pc[q] = "idle"
      BY <1>1, <2>1 DEF AtMostOne
    <2>3. NoWriter /\ NoWriter'
      BY <2>1, <2>2 DEF NoWriter, Processes
    <2>4. /\ unread'[r] = unread[r] \ {l}
          /\ \A k \in Lists : seen'[r][k] = IF k = l THEN ReadForwards(file[l]) ELSE seen[r][k]
          /\ \A k \in absent'[r] : file[k] = Nothing
      <3>1. \A k \in absent[r] : file[k] = Nothing
        BY <2>1 DEF SerialInv
      <3>2. CASE l \in missing
        <4>1. file[l] = Nothing
          BY <3>2 DEF MissingInv
        <4> QED
          BY <1>1, <1>3, <3>1, <3>2, <4>1, ReadNothing DEF TypeOK, Read
      <3>3. CASE l \notin missing
        BY <1>1, <1>3, <3>1, <3>3 DEF TypeOK, Read
      <3> QED
        BY <3>2, <3>3
    <2>5. Scope(r)' = Scope(r) /\ Scope(r) \subseteq Lists
      BY <1>1, <2>1 DEF Scope
    <2>6. \A k \in Scope(r)' \ unread'[r] : seen'[r][k] = ReadForwards(file'[k])
      <3>1. \A k \in Scope(r) \ unread[r] : seen[r][k] = ReadForwards(file[k])
        BY <2>1 DEF SerialInv
      <3> QED
        BY <2>1, <2>4, <2>5, <3>1
    <2>7. SerialInv'
      BY <2>1, <2>2, <2>4, <2>6 DEF SerialInv, Processes, ReadForwards, Nothing
    <2> QED
      BY <2>1, <2>3, <2>7, RestingStep
  <1>4. ASSUME NEW l \in Lists, Create(r, l)
        PROVE  SerialInv' /\ T' = T
    <2>1. /\ pc' = pc /\ pc[r] = "read" /\ l \in absent[r]
          /\ UNCHANGED <<list, ask, unread, seen>>
          /\ absent'[r] = absent[r] \ {l}
      BY <1>1, <1>4 DEF TypeOK, Create
    <2>2. file' = file
      <3>1. file[l] = Nothing
        BY <2>1 DEF SerialInv
      <3> QED
        BY <1>4, <3>1 DEF TypeOK, Create
    <2>3. \A q \in Processes : q # r => pc[q] = "idle"
      BY <1>1, <2>1 DEF AtMostOne
    <2>4. NoWriter /\ NoWriter'
      BY <2>1, <2>3 DEF NoWriter, Processes
    <2>5. /\ \A k \in Scope(r)' \ unread'[r] : seen'[r][k] = ReadForwards(file'[k])
          /\ \A k \in absent'[r] : file'[k] = Nothing
      BY <2>1, <2>2 DEF SerialInv, Scope
    <2>6. SerialInv'
      BY <2>1, <2>3, <2>5 DEF SerialInv, Processes, ReadForwards, Nothing
    <2> QED
      BY <2>2, <2>4, <2>6, RestingStep
  <1>5. CASE Refuse(r)
    <2>1. /\ pc'[r] = "idle" /\ pc[r] = "read" /\ file' = file
          /\ \A q \in Processes : q # r => pc'[q] = pc[q] /\ pc[q] = "idle"
      BY <1>1, <1>5 DEF TypeOK, Refuse, AllRead, files, AtMostOne
    <2>2. NoWriter /\ NoWriter' /\ SerialInv'
      BY <2>1, QuietSerial DEF NoWriter, Processes
    <2> QED
      BY <2>1, <2>2, RestingStep
  <1>6. CASE Truncate(r)
    <2>1. \A l \in Scope(r) \ unread[r] : seen[r][l] = ReadForwards(file[l])
      BY <1>6 DEF SerialInv, Truncate, AllRead
    <2>2. /\ pc'[r] = "write" /\ list' = list /\ file'[list[r]] = Nothing
          /\ \A q \in Processes : q # r => pc'[q] = pc[q] /\ pc[q] = "idle"
      BY <1>1, <1>6 DEF TypeOK, Truncate, AtMostOne
    <2>3. SerialInv'
      BY <2>2 DEF SerialInv, Processes, Nothing
    <2> QED
      BY <1>6, <2>1, <2>3, TruncateTable
  <1>7. CASE Write(r)
    <2>1. file[list[r]] = Nothing
      BY <1>7 DEF SerialInv, Write
    <2>2. pc'[r] = "compare"
      BY <1>1, <1>7 DEF TypeOK, Write
    <2> QED
      BY <1>1, <1>7, <2>1, <2>2, WriteTable, RestSerial
  <1>8. CASE Stop(r)
    <2>1. /\ pc'[r] = "idle" /\ pc[r] # "idle" /\ file' = file
          /\ \A q \in Processes : q # r => pc'[q] = pc[q] /\ pc[q] = "idle"
      BY <1>1, <1>8 DEF TypeOK, Stop, files, AtMostOne
    <2>2. NoWriter' /\ SerialInv'
      BY <2>1, QuietSerial DEF Processes
    <2>3. CASE pc[r] = "write"
      BY <2>1, <2>2, <2>3, LoseTable DEF SerialInv
    <2>4. CASE pc[r] # "write"
      <3>1. NoWriter
        BY <2>1, <2>4 DEF NoWriter, Processes
      <3> QED
        BY <2>1, <2>2, <3>1, RestingStep
    <2> QED
      BY <2>2, <2>3, <2>4
  <1> QED
    BY <1>2, <1>3, <1>4, <1>5, <1>6, <1>7, <1>8 DEF Request

LEMMA ScriptTable ==
    ASSUME TypeOK, AtMostOne, AtMostOne', NEW p \in Processes, Script(p)
    PROVE  SerialInv' /\ T' = T
  <1>1. /\ file' = file
        /\ pc[p] \in {"compare"} \cup Syncing
        /\ pc'[p] \notin {"read", "write"}
        /\ \A q \in Processes : q # p => pc'[q] = pc[q]
    <2>1. CASE Ending(p)
      <3>1. pc[p] \in {"compare"} \cup Syncing /\ \E ok \in BOOLEAN : End(p, ok)
        BY <2>1, EndingIsEnd
      <3> QED
        BY <3>1 DEF TypeOK, End, files
    <2>2. CASE Middle(p)
      BY <2>2, MiddleKeeps DEF Syncing, Adding, Removing, files
    <2> QED
      BY <2>1, <2>2 DEF Script, Ending, Middle, HalfStep
  <1>2. pc[p] \notin {"idle", "write"}
    BY <1>1 DEF Syncing, Adding, Removing
  <1>3. \A q \in Processes : q # p => pc[q] = "idle"
    BY <1>2 DEF AtMostOne
  <1>4. NoWriter /\ NoWriter' /\ SerialInv'
    BY <1>1, <1>2, <1>3, QuietSerial DEF NoWriter, Processes
  <1> QED
    BY <1>1, <1>4, RestingStep

LEMMA RebootTable ==
    ASSUME TypeOK, AtMostOne, SerialInv, apart, Reboot
    PROVE  SerialInv' /\ (Table!Next \/ T' = T)
  <1>1. \A r \in Requests : pc'[r] \notin {"read", "write"}
    BY PortForwardsAssumption DEF Reboot, Booting, Processes
  <1>2. SerialInv' /\ NoWriter' /\ file' = file
    BY <1>1, QuietSerial DEF Reboot, files
  <1>3. CASE NoWriter
    BY <1>2, <1>3, RestingStep
  <1>4. CASE ~NoWriter
    <2>1. PICK r \in Requests : pc[r] = "write"
      BY <1>4 DEF NoWriter
    <2> QED
      BY <1>2, <2>1, LoseTable DEF SerialInv
  <1> QED
    BY <1>3, <1>4

LEMMA NextTable ==
    ASSUME TypeOK, PastInv, MissingInv, SerialInv, PastInv', [Next]_vars
    PROVE  SerialInv' /\ (apart' => Table!Next \/ T' = T)
  <1>1. CASE ~apart'
    BY <1>1 DEF SerialInv
  <1>2. CASE apart'
    <2>1. apart /\ AtMostOne /\ AtMostOne'
      BY <1>2, ApartBackwards DEF PastInv
    <2>2. ASSUME NEW r \in Requests, Request(r)
          PROVE  SerialInv' /\ (Table!Next \/ T' = T)
      BY <1>2, <2>1, <2>2, RequestTable
    <2>3. ASSUME NEW p \in Processes, Script(p)
          PROVE  SerialInv' /\ T' = T
      BY <2>1, <2>3, ScriptTable
    <2>4. CASE Reboot
      BY <2>1, <2>4, RebootTable
    <2>5. CASE UNCHANGED vars
      <3>1. T' = T
        BY <2>5 DEF vars, T, Recorded, Writers, Edited, ReadForwards
      <3>2. SerialInv'
        BY <2>5 DEF vars, SerialInv, Scope, ReadForwards, Nothing
      <3> QED
        BY <3>1, <3>2
    <2> QED
      BY <2>2, <2>3, <2>4, <2>5 DEF Next
  <1> QED
    BY <1>1, <1>2
-----------------------------------------------------------------------------

LEMMA TableKeepsPorts == Table!OneForwardPerPort /\ Table!Next => Table!OneForwardPerPort'
  <1> SUFFICES ASSUME Table!OneForwardPerPort, Table!Next
               PROVE  Table!OneForwardPerPort'
    OBVIOUS
  <1>1. T = [l \in Lists |-> T[l]]
    BY DEF T
  <1>2. ASSUME NEW l \in Lists, NEW q \in ExtPorts, Table!Add(l, q)
        PROVE  Table!OneForwardPerPort'
    <2>1. /\ \E v : T' = [T EXCEPT ![l][q] = v]
          /\ \A k \in Lists : T[k][q] = NoForward
      BY <1>2 DEF Table!Add, Table!Free, Table!Lists, Lists, T
    <2>2. \A k \in Lists, p \in ExtPorts : k # l \/ p # q => T'[k][p] = T[k][p]
      BY <1>1, <2>1
    <2>3. \A p \in ExtPorts : T["local"][p] = NoForward \/ T["external"][p] = NoForward
      BY DEF Table!OneForwardPerPort, T
    <2>4. \A p \in ExtPorts : T'["local"][p] = NoForward \/ T'["external"][p] = NoForward
      BY <2>1, <2>2, <2>3 DEF Lists
    <2> QED
      BY <2>4 DEF Table!OneForwardPerPort, T
  <1>3. ASSUME NEW l \in Lists, NEW q \in ExtPorts, Table!Remove(l, q)
        PROVE  Table!OneForwardPerPort'
    <2>1. T' = [T EXCEPT ![l][q] = NoForward]
      BY <1>3 DEF Table!Remove, T
    <2>2. \A k \in Lists, p \in ExtPorts : T[k][p] = NoForward => T'[k][p] = NoForward
      <3>1. \A k \in Lists : DOMAIN T[k] = ExtPorts
        BY DEF T, Recorded, ReadForwards
      <3> QED
        BY <1>1, <2>1, <3>1
    <2>3. \A p \in ExtPorts : T["local"][p] = NoForward \/ T["external"][p] = NoForward
      BY DEF Table!OneForwardPerPort, T
    <2>4. \A p \in ExtPorts : T'["local"][p] = NoForward \/ T'["external"][p] = NoForward
      BY <2>2, <2>3 DEF Lists
    <2> QED
      BY <2>4 DEF Table!OneForwardPerPort, T
  <1>4. ASSUME NEW l \in Lists, Table!Lose(l)
        PROVE  Table!OneForwardPerPort'
    <2>1. T' = [T EXCEPT ![l] = Nothing]
      BY <1>4 DEF Table!Lose, T, Table!Nothing, Nothing
    <2>2. \A k \in Lists, p \in ExtPorts : T[k][p] = NoForward => T'[k][p] = NoForward
      BY <1>1, <2>1 DEF Nothing
    <2>3. \A p \in ExtPorts : T["local"][p] = NoForward \/ T["external"][p] = NoForward
      BY DEF Table!OneForwardPerPort, T
    <2>4. \A p \in ExtPorts : T'["local"][p] = NoForward \/ T'["external"][p] = NoForward
      BY <2>2, <2>3 DEF Lists
    <2> QED
      BY <2>4 DEF Table!OneForwardPerPort, T
  <1>5. Table!Lists = Lists
    BY DEF Table!Lists, Lists
  <1> QED
    BY <1>2, <1>3, <1>4, <1>5 DEF Table!Next

TableInv == TypeOK /\ PastInv /\ MissingInv /\ SerialInv /\ (apart => Table!OneForwardPerPort)

LEMMA InitTable == Init => TableInv /\ Table!Init
  <1> SUFFICES ASSUME Init PROVE TableInv /\ Table!Init
    OBVIOUS
  <1>1. TypeOK /\ PastInv /\ MissingInv /\ SerialInv
    BY InitTyped, InitPast, InitMissing, InitSerial
  <1>2. NoWriter
    BY PortForwardsAssumption DEF Init, NoWriter, Booting, Processes
  <1>3. \A l \in Lists : Recorded(l) = ReadForwards(file[l])
    <2>1. \A l \in Lists : Writers(l) = {}
      BY <1>2 DEF NoWriter, Writers
    <2> QED
      BY <2>1 DEF Recorded
  <1>4. \A l \in Lists : Recorded(l) = Nothing
    BY <1>3, ReadNothing DEF Init
  <1>5. Table!Init
    BY <1>4 DEF Table!Init, Table!Lists, Lists, Table!Nothing, Nothing
  <1>6. Table!OneForwardPerPort
    BY <1>4 DEF Table!OneForwardPerPort, Lists, Nothing
  <1> QED
    BY <1>1, <1>5, <1>6 DEF TableInv

LEMMA NextTableInv == TableInv /\ [Next]_vars => TableInv' /\ (apart' => Table!Next \/ T' = T)
  <1> SUFFICES ASSUME TableInv, [Next]_vars
               PROVE  TableInv' /\ (apart' => Table!Next \/ T' = T)
    OBVIOUS
  <1>1. TypeOK' /\ PastInv' /\ MissingInv'
    BY NextTyped, NextPast, NextMissing DEF TableInv
  <1>2. SerialInv' /\ (apart' => Table!Next \/ T' = T)
    BY <1>1, NextTable DEF TableInv
  <1>3. ASSUME apart' PROVE Table!OneForwardPerPort'
    <2>1. Table!OneForwardPerPort
      BY <1>3, ApartBackwards DEF TableInv
    <2>2. CASE T' = T
      BY <2>1, <2>2 DEF Table!OneForwardPerPort, T
    <2> QED
      BY <1>2, <1>3, <2>1, <2>2, TableKeepsPorts
  <1> QED
    BY <1>1, <1>2, <1>3 DEF TableInv

\* As long as no two requests have overlapped, no port is ever on both lists,
\* crashes in the middle of a request included.
THEOREM UniquePorts == Spec => []PortsUnique
  <1>1. Init => TableInv
    BY InitTable
  <1>2. TableInv /\ [Next]_vars => TableInv'
    BY NextTableInv
  <1>3. TableInv => PortsUnique
    BY DEF TableInv, PortsUnique, Table!OneForwardPerPort, Lists
  <1> QED
    BY <1>1, <1>2, <1>3, PTL DEF Spec

\* Requests that do not overlap make the two files behave as the one table of
\* ForwardTable.
THEOREM Refinement == SerialSpec => BehavesAsTable
  <1>1. Init => TableInv /\ Table!Init
    BY InitTable
  <1>2. TableInv /\ [SerialNext]_vars => TableInv'
    BY NextTableInv DEF SerialNext
  <1>3. TableInv /\ [SerialNext]_vars => [Table!Next]_[l \in Lists |-> Recorded(l)]
    <2> SUFFICES ASSUME TableInv, [SerialNext]_vars
                 PROVE  Table!Next \/ T' = T
      BY DEF T
    <2>1. CASE SerialNext
      BY <2>1, NextTableInv DEF SerialNext
    <2>2. CASE UNCHANGED vars
      BY <2>2 DEF vars, T, Recorded, Writers, Edited, ReadForwards
    <2> QED
      BY <2>1, <2>2
  <1> QED
    BY <1>1, <1>2, <1>3, PTL DEF SerialSpec, BehavesAsTable, Table!Spec
=============================================================================
