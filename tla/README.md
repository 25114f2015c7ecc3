# A verification of DarkFlows

DarkFlows turns a Debian machine into a router. Shell and Python scripts under
`src/bin` set up routes, the firewall and the services; a Next.js application
under `src/src/live-ifstat` is its web interface, which edits files below
`/etc/darkflows` and starts the same scripts. What makes the system hard is that
all of these are separate processes, started by the boot sequence, by cron and by
HTTP requests, which share the kernel's tables and a few text files **without any
lock**, while links fail and come back under them.

This directory holds TLA+ models of the parts that carry that risk, TLC
configurations that check them on small instances, and TLAPS proofs for every
instance. All line numbers are those of the sources under `src/`.

## 1. Inventory

| Component | State | Operations | Talks to | What is hard | Correct when |
|---|---|---|---|---|---|
| **WAN monitor** `bin/check_conn.sh` | `current_interface`, the gateways, `primary_stability_counter`; the kernel's default and host routes | start, `initialize_routing`, `reset_default_route`, `switch_to_interface`, the loop (refresh, sync, clean, test, fail over, fail back) | kernel table, lease files, `ifb0` | reads the table, pings for seconds, then writes; the user and dhclient act in between | the default ends on the best working uplink; switches follow tests; the monitor knows which uplink is in use |
| **Gateway switch** `bin/switch_gateway.sh`, `api/switch-gateway` | none of its own | read lease, ping, reshape, replace the default | kernel table, `ifb0` | knows nothing of the monitor; its exit code is its only answer | the answer is true; the shaper follows the route |
| **Boot-time routes** `bin/setup_default_route.sh`, `bin/setup_default_routing.sh` | test results of each uplink | clean, test both uplinks, install default, fallback and monitor routes, start the monitor | kernel table, lease files | gives up as a whole if one lease is missing | a working uplink is found if there is one |
| **Firewall and shaper** `bin/nftables.sh`, `update_cake.sh`, `changebw.sh`, `cake_stats.sh` | nft tables, qdiscs | rebuild at boot, change rates | tables of all other scripts | rebuilds what others have added | rules and rates match the configuration |
| **Client blocking** `bin/block_clients.sh`, `clear_blocks.sh`, `list_blocks.sh`, `api/blocked-clients` | `blocked_clients.txt`, drop rules of the forward chain | GET, POST, DELETE; insert and delete rules | scheduler | read-modify-write over several awaits; truncated files | edits are not lost; rules follow the list |
| **Block scheduler** `bin/block_scheduler.py`, `api/block-schedule` | `block_schedule.json`, `block_state.json` | a run every five minutes; GET, PUT | blocking scripts | reads files others are writing; overnight windows; verification of a script's effect | rules exist exactly in the windows |
| **Port forwards** `api/port-forwards`, `bin/*_forward*.sh` | two list files, DNAT, SNAT and forward rules | GET, POST, DELETE; add, remove, synchronise | nft tables | several forwards share a rule; rules found by substring; check of free ports before an await | rules are those of the lists |
| **Second-WAN routing** `bin/setup_secondwan.sh`, `*_secondwan.sh`, `api/secondary-routes` | a list file, ip rules, table 200 | add, remove, synchronise | kernel table | the gateway of table 200 is read once | each listed client leaves by the secondary |
| **DHCP reservations and DNS** `api/reservations`, `lib/sync.ts`, `unbound-dns-manager.py` | hosts table, DNS entries | CRUD, synchronise | Kea database, Unbound | list, then remove and add one at a time; two sources of reservations | entries are those of the table |
| **Per-VLAN Unbound** `run_all_unbounds.py`, `run_unbound.py` | one process per VLAN | start, stop, reload | VLAN file | processes that die or linger | one resolver per VLAN |
| **VLANs** `api/vlans`, `update_vlans.py`, `setup_vlans.sh` | `vlans.json`, generated files | CRUD, generate | Kea, nft, Unbound | one step of several fails | generated files match |
| **DNS block lists**, **sessions**, **ping and bandwidth monitors**, **dynamic DNS**, **pages**, **installer** | small | - | - | little is shared | - |
| **hostapd** and other vendored code | - | - | - | - | left aside |

Modelled: the WAN monitor, the gateway switch, the boot-time routes, client
blocking, the block scheduler, port forwards, reservations and DNS, and of the
firewall the parts the others meet. `PROJECT.json` says for each component what is
covered, and lists the hazards line by line.

## 2. Plan

1. *Done.* Uplinks: `Routing`, `CheckConn`, `SwitchGateway`, `SetupDefaultRoute`,
   composed by `WanFailover`.
2. *Done.* Client blocking: `BlockSchedule`, `ClientBlocking`.
3. *Done.* Port forwards: `ForwardTable`, the abstract specification, and
   `PortForwards`, which implements it as long as requests do not overlap.
4. *Done.* Reservations and local DNS: `LocalDns`.
5. *Done*, as an action property of `WanFailover` (`MovesToBestUplink`): the failover
   policy, that is, to which uplink the monitor may move the default and when.
6. Second-WAN rules: a list synchronised in the way of the port forwards, and
   table 200 with the gateway of a lease that has been renewed since.
7. The bandwidth scripts on `redirect` and `ifb`; VLANs and resolvers.

For each of them the theorems are the type invariant, the inductive invariant of
the main safety property, and the refinement if there is one.

## 3. Modules

### 3.1 Uplinks

`WanFailover` EXTENDS `CheckConn`, `SwitchGateway` and `SetupDefaultRoute`, which
all EXTEND `Routing`.

* **Routing**: `link` and `lease` of each uplink, `defaults` (one route for each
  of the metrics 0 and 200), `hostRoute` (of the three monitor addresses),
  `redirect` and `ifb` (ingress shaping). `ip`, `ping`, `tc` and dhclient are
  external and modelled by what the scripts see of them:
  the kernel takes a route only while its device has an address and drops the
  routes of a device that loses it; `ip route get` prefers a host route;
  a router answers only under the address of the present lease; dhclient may or
  may not leave a default of metric 200 behind.
  `sort -k8,8n | head -1` over the default routes looks for a number in field 8,
  where a line such as `default via 10.0.0.1 dev eth0 metric 200` has none (it is
  in field 7), so the order is that of the text: the constant `RouteText`.
* **CheckConn**: `check_conn.sh`, one action for each stretch between two points
  at which it waits. `pc` is the stage, `target` the uplink being worked on, `ret`
  where a called stage returns to. The counter saturates at `CounterCap`, which
  the assumption keeps at or above the threshold: the code only compares it with
  the threshold.
* **SwitchGateway**: one request at a time, with its reply.
* **SetupDefaultRoute**: the boot script, then the shaper part of `nftables.sh`.
* **WanFailover**: `Next` interleaves all of them with the network. `events` and
  `switches` bound the network and the user. Three variables record the past for
  the properties: `okRun`, `usedPrimary` and `undisturbed`; no guard reads them.

Left out: log lines; the egress CAKE qdiscs (every call gives an uplink the rate
of the configuration file); a restart of the monitor (nothing restarts it).

### 3.2 Client blocking

* **BlockSchedule**: `IsActiveTime` and `ShouldBlock` as the scheduler computes
  them, and `InWindow`, the reference: an entry opens a window on its own day
  which may close on the next one. Time is counted in runs of cron.
* **ClientBlocking**: the two files, requests on the list with a step for each
  await (`Arrive`, `Read`, `Create`, `Truncate`, `Write`), saving of the schedule,
  a run of the scheduler with the script it starts (`Main`, `BlockClients`,
  `InsertRule`, `Blocked`, `ClearBlocks`), and `Reboot`.
  `fs.writeFile` is a truncation and then a write over the beginning of the file:
  when two requests overlap, the tail of a longer text may remain. The order of
  the lines is left out, so `Write` chooses which addresses the tail holds.
  `Valid` are the addresses that both the script's patterns and nft accept.
  The page sends one PUT of the schedule at a time; a GET that finds no schedule
  (`GetSchedule`) writes the default one later (`SaveDefault`), possibly over what a
  PUT has saved in between. The two writes themselves are taken one after the other:
  schedules of the page have the same length, so the last one is there as a whole.
  A run of the scheduler is over before the next. `clear_blocks.sh` is one step: nobody else looks at or
  changes the drop rules. `wanted`, `apart` and `calm` record the past; no guard
  reads them.

### 3.3 Port forwards

* **ForwardTable** is what the API promises: two lists that together use a port at
  most once; `Add`, `Remove`, and `Lose`, the loss of a list when the server dies
  while it is saved.
* **PortForwards**: `file` and `missing` (the two text files, which nothing in the
  installation creates), the ruleset (`dnat`, `snat`, `accept` for external forwards,
  `opened` and `doubled` for local ones), and for each process (a request, or the boot
  sequence) its stage and what it has read. A request reads the lists one by one
  (`Read`) and creates those it has not found (`Create`), as a GET does too; it
  refuses (`Refuse`) or empties the file and writes it (`Truncate`, `Write`), and runs
  the update script of its list: `Compare`, then for each difference `AddForward`,
  `AddSnat`, `AddAccept`, or `RemoveForward`, `RemoveSnat`, `RemoveAccept`, or
  `InsertLocal`, then `Finish`; or `ScriptFails`, `AddFails`, `RemoveFails` and
  `RemoveLocalFails` under `set -e`. `Boot` runs the external script and then the local
  one. `Stop` is the death of the web server, `Reboot` a power failure at any point.

What is abstracted, and what the code decides:

* a forward is a port with its target (an address and port, or a local port); the
  order of the lines is left out, and the scripts' order of work with it. Two lines
  for one port, which only an editor could make, are excluded. A GET that finds both
  files changes nothing and is left out.
* `fs.writeFile` truncates and then writes over the beginning of the file, so after
  an overlap the tail of a longer text may remain (`Overwritten`).
* a local forward posted without local port is written as `80:undefined`
  (`Unspecified`): the API reads it back as the external port, the script's pattern
  skips it. A local port of 0 reads as absent in the API and in the script.
* `update_external_forwards.sh:72-107` takes a DNAT rule for active only if its target
  is in a subnet of the configured interfaces or their VLANs. Subnets change with VLANs
  and leases, so `Compare` is given any set `within` of targets (`Active`), independent
  of `Routed`, the targets that `ip route get` may lead over the LAN, by a static
  route too. A rule outside those subnets is never removed, and if it is listed it is
  added again, while the script exits 0; `checked` remembers what the last comparison
  saw, and `ExternalInForce` claims the absence of stale rules for those targets only.
* `add_external_forward.sh` and `remove_external_forward.sh` have a step for each kind
  of rule: DNAT, SNAT, accept. Of the rules of one kind (one for each uplink, and those
  of hairpin NAT) a target counts as having some: added with the first of them, removed
  with the last. A removal that breaks off in the midst of a kind may have deleted those
  of some of the targets it touches (`Partly`). Listing the rules and reading the
  file is one step. The test for an existing rule in `add_external_forward.sh:73` asks
  for two blanks before `dnat` and never matches, so it is not in `AddForward`. Rules
  are added twice then, which no later step can tell, because the removal deletes every
  rule it finds.
* `remove_external_forward.sh` looks for text, so the removal of one target may
  match others: `DnatTouches`, `AcceptTouches` and `SnatTouches`, any relations
  that contain the target itself and grow from one to the next.
* `nft delete rule` needs a handle, and `update_local_forwards.sh` gives none, so
  `RemoveLocalFails` is the only outcome of a removal.
* the server is the service `nextjs-app` (`setup_services.sh:7`), and no unit in the
  repository sets `KillMode`, so a restart kills the scripts that its requests run as
  well: `Stop` ends them between any two nft commands, as a failing nft does
  (`RemoveFails`). `half` is the target whose rules a script is then working on. A
  removal cut short after its DNAT deletions leaves accept rules that no later
  synchronisation finds, since it lists DNAT rules only; `torn` remembers the targets of
  such removals. An addition cut short leaves a DNAT rule without accept rules, which
  counts as complete.
* `lone`, `good`, `apart`, `checked` and `torn` record the past; no guard reads them.
  `SerialSpec` is `Spec` for requests one at a time, as from one page, which disables
  its buttons while a request is under way; `WholeSpec` is `SerialSpec` without scripts
  that break off in the middle of a forward. `Asked` are the lists that requests of an
  instance are about (of `shared_target` only the external one).

### 3.4 Reservations and local DNS

* **LocalDns**: `hosts` (rows of Kea's table), `dns` (for each VLAN, the entries of
  `custom-records.conf`, in order), and for each request its stage, the manager
  commands it has still to run (`todo`) and what comes after them (`then`); for a
  synchronisation also the entries it has listed (`listing`), the reservations it
  compares them with (`rows`) and how many turns of its two loops it has taken
  (`at`). The stages of POST, DELETE and PUT of `/api/reservations` and `/api/dns-hosts` are the
  actions between two awaits; a command is `Load` and then `Save`, so two managers
  may overlap. `AddEntry` and `RemoveEntry` are the manager's functions on a file,
  `NextTurn` a turn of the loops of both synchronisations: it chooses the commands
  for the next entry, or the next reservation, from the listing made before the
  first command (`SyncCommands`).
* `open('w')` truncates the file before `Save` has written it, so a command or listing
  that runs at the same time may find it empty (`Writing`, `Readable`). A death of the
  web server, which takes its command with it, and a power failure may leave it empty
  (`Lose`, in `Stop` and `Reboot`).
* Names may differ in case only (`Lower`) and may be refused by the manager
  (`Refused`). `MacType` is the identifier type under which rows are stored: 0, which
  `kea2db.py:46` writes and which `reservations/route.ts:146` finds in Kea's table of
  types (the fallback of 1 is for a database without that table). `Update` asks for
  type 1 and for the address as a signed number, which one from 128.0.0.0 on
  (`HighIps`) never equals (`Found`): with `MacType` 0 it changes no row. `KeaReservations` is `subnet4[0].reservations` of `kea-dhcp4.conf`,
  which nobody writes. Kea's unique index over identifier and subnet is external.
* Left out: the SIGHUP to the resolvers, the removal of an address given as such
  (the API passes names only), and entries the list output cannot be parsed from
  (the manager writes none).

The `MC` modules hold the constants of the instances.

## 4. Runs

| Run | Checks | Bounds |
|---|---|---|
| `wan_safety` | types; the monitor's belief and the kernel agree in an undisturbed pass; the counter is earned; switches follow tests; monitor routes stay on their uplinks; boot finds a working uplink; an undisturbed pass moves the default only to the best uplink | two uplinks, all initial links and leases, 2 network changes, 1 switch |
| `wan_liveness` | failover and failback happen, and the default stays | 1 change, 1 switch |
| `wan_single` | the default comes back with one uplink | 3 changes |
| `block_safety` | types; an undisturbed run enforces the schedule; answers add up; the recorded state agrees with the rules; uniform schedules are decided exactly | two days of three slots, 2 requests at once, 4 edits, 1 reboot, 3 addresses of which one is invalid |
| `block_liveness` | in the end exactly the listed clients are blocked in the windows | 3 edits, 1 reboot |
| `forwards_sync` | types; a synchronisation that ran alone without error leaves exactly the listed rules, for external forwards in the subnets it saw, whatever overlaps, failures and cuts came before | 2 requests on either list and the boot sequence at once, any number of them, 1 port, 1 target, in the subnets or not at each run |
| `forwards_serial` | the files implement `ForwardTable`; no port on both lists; only a removal that broke off leaves accept or SNAT rules behind the last DNAT rule | requests one at a time, any number of them, 2 ports, 2 targets of which one's text begins the other's |
| `dns_sync` | types; a resync on its own makes the names those of the reservations; edits of a VLAN show | 2 VLANs, 2 machines, 4 names; 2 overlapping requests from an empty table, or 1 from every table and file of a VLAN |

The bounds let every hazard happen: two network changes are a failure and a
recovery, or a failure in the middle of the recovery of the other uplink; the
primary's provider has two routers, so leases change; `RouteText` puts the
secondary's route between them, so both text orders occur. Two requests are enough
to overlap, two days to tell today's entry from yesterday's. Two ports are needed to
share a target or to lose another forward of a list, one is enough to overlap on.
The initial states of `dns_sync` stand for any history: between requests the state
is a table and a file, and the run begins with all of those of two machines and two
names. Requests are interchangeable in `forwards_sync`, and ports in `forwards_serial`, which
use symmetry; the other runs look at the order of routes or check liveness. Both use a
view as well. That of `forwards_sync` leaves out `snat`, `accept`, `torn` and `apart`,
that of `forwards_serial` `good`, `lone` and `checked`: in either specification no guard,
no other variable and none of the properties about rules and files depends on them, so
every state of the other variables is visited. Only `TypeOK` speaks of all variables, and
of the four the run sees the types of one value in each state; `TypeCorrect` proves them.
The touching of texts (`Distinct`) in `ExternalInForce` is left to the proof. The largest
runs are `block_safety` (6.6 million states), `dns_sync` (3.9), `forwards_serial` (2.7)
and `forwards_sync` (2.5), each a few minutes. Deadlock is not checked in
`dns_sync`, because the number of requests is bounded by `left`.

Four more runs show disagreements between the code and what its comments, messages
or answers say; TLC finds a counterexample for each (`findings` in `PROJECT.json`
has the quotations):

| Run | Shows |
|---|---|
| `primary_test_route` | after a switch during a pass the primary is tested over the secondary |
| `blocks_in_place` | a client added to the list during a window is not blocked, though the run says that the blocks are in place |
| `shared_target` | removing one of two forwards to a target deletes the accept rules of both, and nothing repairs the other one; `WholeSpec`, so no script was interrupted |
| `dns_lost` | the name of a new reservation in the default VLAN is removed by the request that added it |

Disagreements that the models also show and no run is kept for:

* `check_conn.sh:17` calls the threshold the "Number of consecutive successful
  checks before switching back"; the counter stays at the threshold while the
  primary is in use, so after a user's switch the next check switches back.
* `check_conn.sh:202` logs "Using lowest metric route"; the sort looks at field 8,
  the number is in field 7, and the first route in text order is kept.
* `switch-gateway/route.ts:19` answers "Switched to ... gateway" although the script
  also exits with 0 after "Switch aborted" (`reply` and `switched`).
* `switch_gateway.sh:64` says "Clear existing ifb0 and ingress configurations"; the
  old interface is always taken to be the primary (line 146), so a switch back to
  the primary leaves the secondary redirected as well (`redirect`).
* `block_scheduler.py:89` says "Handle overnight ranges"; after midnight today's
  entry decides the rest of yesterday's window. With one entry for all days this is
  right (`UniformIsExact`), otherwise not.
* `update_local_forwards.sh:62` says "Remove stale forwards: those active but not in
  desired config"; nft refuses the removal, so a deleted local forward stays open
  until the next boot and every later request on local forwards answers with an
  error.
* `update_external_forwards.sh:139` says "Remove stale forwards"; those to targets outside
  the present subnets of the interfaces stay, and listed ones are added again at each run
  (`checked`).
* `dns-hosts/route.ts:164` says "If we have a MAC address, update the DHCP reservation in
  the database"; the statement asks for `dhcp_identifier_type = 1` (line 175), but MAC
  addresses are stored with type 0 (`kea2db.py:46`, "Using 0 as the dhcp_identifier_type
  for MAC addresses."), so it matches no row at all, for any address (`Found`); one from
  128.0.0.0 on is in addition made a negative number (line 169). The request answers
  success, and the next resync of the VLAN brings the old name back.

## 5. Fairness

`WanFailover`: weak fairness of the monitor, of the boot sequence and of a switch
under way. Each is a process with nothing to wait for but pings and sleeps that
end; `ping -W` and `sleep` have time-outs. The network and the user owe nothing,
so the liveness properties have the form `<>[]`: after the last change.

`ClientBlocking`: weak fairness of cron, of the scheduler's run, of the pending
writes of a schedule (`WriteSchedule`, and `SaveDefault` after a GET) and of each request
under way: the server goes on with what it has begun. Users owe nothing. With a
schedule that is block time throughout, as the default is, `ListTakesEffect` says
nothing: there the code never looks at the list again (`blocks_in_place`).

`PortForwards` and `LocalDns` state no fairness: their properties are safety
properties. A request owes its user an end, but what it ends with is said by
`good` and `result`.

## 6. Proofs

The proofs hold for every value of the constants that meets the named
assumptions: any addresses and gateways, any text order, any threshold, any number
of events and requests, any schedules, files and tables of any length. Bounds on events do not weaken them, as
`MaxEvents`, `MaxEdits` and the others are arbitrary naturals.

### `WanFailover_proofs`

| Theorem | Property | Inductive invariant |
|---|---|---|
| `TypeCorrect` | `TypeOK` | `TypedApart` |
| `RoutesApart` | `MonitorRoutesApart` | `TypedApart` |
| `StabilityIsEarned` | `EarnedStability` | `CounterInv` |
| `SwitchesFollowTests` | `SwitchFollowsTest` | `CounterInv` |
| `BeliefIsRight` | `BeliefMatchesKernel` | `BeliefInv` |
| `BootFindsTheInternet` | `BootFindsInternet` | `BootInv` |
| `MovesAreToTheBestUplink` | `MovesToBestUplink` | `MoveInv` with `BeliefInv` |

Types are not inductive alone: a route is well typed only if its gateway is known,
so `MonitorControl`, `BootControl` and `ScriptControl` say at which stages a
gateway has been read. `CounterInv` adds what a stage of failover or failback
knows of the test before it. `BeliefInv` says for each stage after the reading of
the table what is known of the defaults: before the cleanup either one default, or
two and a known uplink; after it, that the best one leads over
`current_interface`. `CleanResult` is the lemma about `clean_default_routes` this
rests on. `BootInv` carries the history of the boot script, as long as neither the
network nor the user has acted: no default is installed before the tests are over,
the gateways are those of the leases, the uplinks in `internetOk` are among the
tested ones exactly those with internet, and the test under way has its route for
itself. Without the last part a stale route of the other uplink could make a test
pass.

`MoveInv` follows an undisturbed pass from stage to stage: the gateways are those of
the leases (`Known`); a working primary is reached by its own route up to the test
(`PrimaryRouted`), except that the cleanup may remove the default which stood in for
that route, and then the secondary counts as the interface in use, so no failover
follows; `Searching` says which uplinks `initialize_routing` has found not to work;
and `Moving` that the target is the best uplink. `BeliefInv` is needed at the
cleanup, to tell which default it keeps. The property leaves out one way in which
an undisturbed pass can lose a working default: with two defaults
`get_current_default_details` takes the first in text order for the one in use, and
the reset and the cleanup that follow remove the other, though the kernel forwards
by it (`check_conn.sh:202`, see section 4). Each lemma about a step has a case for
every action.

### `ClientBlocking_proofs`

| Theorem | Property | Inductive invariant |
|---|---|---|
| `TypeCorrect` | `TypeOK` | itself |
| `RunsEnforceTheSchedule` | `RunEnforcesSchedule` | `RunInv`: what a run has established at each of its stages, if nobody disturbs it; while rules are inserted, each valid address has a rule or is still to be done |
| `StateAgreesWithRules` | `StateIsRecorded` | `StateInv`: while a script runs to block, the file does not say blocked |
| `AnswersAreKept` | `AnswersAddUp` | `ListInv`: one request at a time, carrying what the list must become once it has truncated it |
| `UniformIsDecidedExactly` | `UniformIsExact` | follows from the types and the lemma `UniformWindows` |

### `PortForwards_proofs`

| Theorem | Property | Inductive invariant |
|---|---|---|
| `TypeCorrect` | `TypeOK` | itself |
| `ExternalForwards` | `ExternalInForce` | `InForceInv` with `SyncInv` |
| `LocalForwards` | `LocalInForce` | the same |
| `NoHole` | `NoHoleLeft` | `HoleInv`: `Covered` and `HalfDone` |
| `UniquePorts` | `PortsUnique` | `TableInv`: `MissingInv`, `SerialInv` and one forward per port in the table |
| `Refinement` | `SerialSpec => BehavesAsTable` | `TableInv` |

`PastInv` gives the variables that record the past their meaning: while `lone` or
`apart` holds, at most one process is under way, and a list that is `good` is not
being worked on. `SyncInv` says what a script that is alone still has to do: the
rules of its list are those wanted, without `adds` and with `drops`, at every stage in
the middle of a forward too; for external forwards the rules are those to targets in
`checked`, and the exception for targets that others touch is in there, because a
removal may delete a rule that was added a moment ago. `Covered` says that each target
with accept or SNAT rules has a DNAT rule or is in `torn`, and `HalfDone` what holds in
the middle of a forward: a target whose rules are being added has its DNAT rule already,
and when accept rules are deleted the SNAT rules are gone, so that the targets the
removal touches can leave `torn` with them. This rests on the removal of DNAT rules matching no more targets than that of
SNAT and accept rules. It needs `apart`: of two overlapping scripts one may delete the
DNAT rule to which the other is adding the accept rules. `MissingInv` says that a missing
file has no contents.
`SerialInv` says that what a request has read is still
so, that lists it has found missing are empty, and that the list about to be written is
empty; so the creation of a file and the write map to stutters,
the truncation to `Add` or `Remove`, and a death in between to `Lose`.
`TableKeepsPorts` is the fact about `ForwardTable` that `UniquePorts` takes over.

### `LocalDns_proofs`

| Theorem | Property | Inductive invariant |
|---|---|---|
| `TypeCorrect` | `TypeOK` | `Typed` |
| `VlanEditsAreShown` | `VlanEditsShow` | `EditInv` with `Alone` |
| `ResyncRepairs` | `ResyncMatches` | `ResyncInv` with `Alone` |

`Typed` adds to the types which kind of request reaches which stage, and that what a
command has read is a well-formed file: a name is added or removed in a file that
may be older than the one it overwrites. `Alone` says that while `lone` holds one
request is under way, and what its command has read is what the file holds.
`EditInv` says what a request has still to do to the name it edits, and that the
synchronisation of the default VLAN which follows leaves the name alone.

`ResyncInv` is about the loops, and is the reason why `listing` and `at` are
variables: the commands of a resync need no induction over their sequence, because
each turn, and each command of a turn, is a step of the specification. `FirstLoop`
relates the file to the listing in the midst of the first loop. Every entry of the
file is a listed one that is kept or not reached yet, or a new one with the reserved
name; the listed ones come before the new ones (`OldFirst`), so that the removal of
a listed name, which takes it from the first address that has it, never meets a name
just added; and the entry whose turn it is has just the names that are still to
be removed (`CurrentEntry`). `SecondLoop` says that every entry has a reserved name
first, and that a reservation is in the file if its turn is over or if it was listed
under its name, though the listing is old by then. `LoopsMeet` is the step from one to
the other. `clean` is needed: with a name at two addresses the first loop may take it
from the wrong one, and with an address reserved twice it may remove what the second
loop takes for present. The lemmas say what `AddEntry` and `RemoveEntry` do to a file
of any length, and rest on the library's theorems about sequences.

### Only model-checked

The liveness properties `FailsBack`, `FailsOver` and `ListTakesEffect`, which need
fairness and ENABLED. Every invariant and action property of a passing run is proved,
and so is the refinement. The four runs that expect a violation show it on their
instances.

## 7. Not modelled

Components with status `not_modelled` in `PROJECT.json`, for the reasons given
there. Almost all C code of the repository is hostapd 2.11, a vendored copy without
changes of DarkFlows; it is third-party code, and DarkFlows only starts it.
`src/C/darkflows.c` is a prototype command line that shares no state with the
router. DarkFlows' own logic is shell, TypeScript and Python, and of this the
second-WAN rules, the bandwidth scripts, VLANs and the processes of the resolvers
are left for the plan. The page of the reservations also sends PUT requests with an
edited reservation; the handler ignores their body and resyncs, which is the action
of the model. Inside the modelled ones: wording of logs and answers, authentication of
requests, and failures of the file system other than a missing or half-written
file.

## 8. Running

    tlc -config WanSafety.cfg MCWanFailover
    tlc -config BlockSafety.cfg MCClientBlocking
    tlc -config ForwardsSync.cfg MCPortForwards
    tlc -config ForwardsSerial.cfg MCPortForwards
    tlc -config DnsSync.cfg MCLocalDns
    tlapm WanFailover_proofs.tla
    tlapm ClientBlocking_proofs.tla
    tlapm PortForwards_proofs.tla
    tlapm LocalDns_proofs.tla
