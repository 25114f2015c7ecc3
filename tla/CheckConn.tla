----------------------------- MODULE CheckConn -----------------------------
(***************************************************************************)
(* src/bin/check_conn.sh, the WAN monitor: a single process that tests the *)
(* uplinks every CHECK_INTERVAL seconds and moves the default route.  The  *)
(* script is cut into one action for each stretch between two points where *)
(* it waits (a ping) or starts a new stage: dhclient, the provider and     *)
(* switch_gateway.sh act in between.                                       *)
(***************************************************************************)
EXTENDS Routing

CONSTANTS
    PRIMARY_STABILITY_THRESHOLD,  \* good checks before the default goes back
    CounterCap                    \* the counter is only compared with the
                                  \* threshold: counting stops here

ASSUME CheckConnAssumption ==
    /\ PRIMARY_STABILITY_THRESHOLD \in Nat \ {0}
    /\ CounterCap \in Nat
    /\ CounterCap >= PRIMARY_STABILITY_THRESHOLD

VARIABLES
    pc,                        \* the next stretch of the script
    ret,                       \* where initialize_routing and
                               \* reset_default_route return to
    target,                    \* the interface they and switch_to_interface
                               \* are working on
    gateway,                   \* PRIMARY_GATEWAY and SECONDARY_GATEWAY
    current_interface,
    primaryOk,                 \* PRIMARY_TEST_RESULT -eq 0
    primary_stability_counter

monitorVars == <<pc, ret, target, gateway, current_interface, primaryOk,
                 primary_stability_counter>>

Pc == {"wait", "start", "initClean", "initGateway", "initInternet",
       "fallbackTest", "fallbackApply", "resetTest", "resetApply",
       "refresh", "monitorRoutes", "checkDefault", "recheck", "sync", "clean",
       "primaryPing", "failoverCheck", "secondaryCheck", "failbackGateway",
       "failbackInternet", "switchTest", "switchApply", "final"}

Ret == {"refresh", "recheck", "clean", "final"}

CheckConnTypeOK ==
    /\ pc \in Pc
    /\ ret \in Ret
    /\ target \in WAN
    /\ gateway \in [WAN -> Gateway \cup {NONE}]
    /\ current_interface \in WAN \cup {NONE}
    /\ primaryOk \in BOOLEAN
    /\ primary_stability_counter \in 0..CounterCap

CheckConnInit ==
    /\ pc = "wait"
    /\ ret = "refresh"
    /\ target = PRIMARY_INTERFACE
    /\ gateway = [w \in WAN |-> NONE]
    /\ current_interface = NONE
    /\ primaryOk = FALSE
    /\ primary_stability_counter = 0

Goto(l) == pc' = l

Count(n) == IF n < CounterCap THEN n + 1 ELSE CounterCap

(***************************************************************************)
(* The functions the stages share.                                         *)
(***************************************************************************)

NoGateways == [w \in WAN |-> NONE]

\* Mutant: `-le 2' for `-le 1', so two defaults pass for no duplicate.
CleanDefaultRoutesMutant(d, cur, gws) == d

\* clean_default_routes over the table d, with the gateways gws as arguments:
\* with two defaults, all but the one expected for interface cur go.
CleanDefaultRoutes(d, cur, gws) ==
    LET active == IF cur \in WAN THEN R(gws[cur], cur) ELSE FirstInText(d)
    IN  IF (\E m \in Metric : d[m] = NONE) \/ active.gw = NONE
        THEN d
        ELSE [m \in Metric |-> IF d[m] = active THEN active ELSE NONE]

\* The route of ADDITIONAL_MONITOR follows the interface in use.
EnsureAdditional(h, d, cur) ==
    IF cur \in WAN THEN EnsureMonitoringRoute(h, d, AM, gateway[cur], cur) ELSE h

\* update_ifb0
UpdateIfb0(old, new) ==
    /\ redirect' = (redirect \ {old}) \cup {new}
    /\ ifb' = new

\* What switch_to_interface and reset_default_route do once the gateway has
\* answered: install the default, follow it with the monitor route and the
\* shaper, and remove other defaults.
InstallDefault(w, reshape) ==
    LET d == ReplaceDefault(defaults, gateway[w], w)
    IN  IF Accepts(w)
        THEN /\ current_interface' = w
             /\ hostRoute' = EnsureAdditional(hostRoute, d, w)
             /\ IF reshape THEN UpdateIfb0(current_interface, w)
                           ELSE UNCHANGED shaperVars
             /\ defaults' = CleanDefaultRoutes(d, w, gateway)
        ELSE UNCHANGED <<current_interface, tableVars, shaperVars>>

\* The gateway of w is known, w has an address, and the gateway answers.
GatewayReady(w) == HasIp(w) /\ gateway[w] # NONE /\ GatewayAnswers(gateway[w], w)

(***************************************************************************)
(* switch_to_interface and reset_default_route, working on `target'.       *)
(***************************************************************************)

SwitchTest ==
    /\ pc = "switchTest"
    /\ Goto(IF GatewayReady(target) THEN "switchApply" ELSE "final")
    /\ UNCHANGED <<routingVars, ret, target, gateway, current_interface,
                   primaryOk, primary_stability_counter>>

SwitchApply ==
    /\ pc = "switchApply"
    /\ InstallDefault(target, TRUE)
    /\ Goto("final")
    /\ UNCHANGED <<netVars, ret, target, gateway, primaryOk,
                   primary_stability_counter>>

ResetTest ==
    /\ pc = "resetTest"
    /\ Goto(IF GatewayReady(target) THEN "resetApply" ELSE ret)
    /\ UNCHANGED <<routingVars, ret, target, gateway, current_interface,
                   primaryOk, primary_stability_counter>>

\* The shaper is left alone when the interface was already the current one.
ResetApply ==
    /\ pc = "resetApply"
    /\ InstallDefault(target, current_interface # target)
    /\ Goto(ret)
    /\ UNCHANGED <<netVars, ret, target, gateway, primaryOk,
                   primary_stability_counter>>

(***************************************************************************)
(* initialize_routing: the primary, then the secondary, the first one with *)
(* internet; failing that, the first one whose gateway answers.            *)
(***************************************************************************)

InitializeRouting(return) ==
    /\ Goto("initClean")
    /\ ret' = return

\* clean_default_routes is called without arguments.
InitClean ==
    /\ pc = "initClean"
    /\ defaults' = CleanDefaultRoutes(defaults, current_interface, NoGateways)
    /\ target' = PRIMARY_INTERFACE
    /\ Goto("initGateway")
    /\ UNCHANGED <<netVars, hostRoute, shaperVars, ret, gateway,
                   current_interface, primaryOk, primary_stability_counter>>

TryNextWan ==
    IF target = PRIMARY_INTERFACE /\ HasSecondary
    THEN Goto("initGateway") /\ target' = SECONDARY_INTERFACE
    ELSE Goto("fallbackTest") /\ UNCHANGED target

\* Mutant: the uplink is tested by whatever route its monitor has.
InitGatewayMutant ==
    /\ pc = "initGateway"
    /\ IF GatewayReady(target)
       THEN Goto("initInternet") /\ UNCHANGED target
       ELSE TryNextWan
    /\ UNCHANGED <<routingVars, ret, gateway, current_interface, primaryOk,
                   primary_stability_counter>>

InitGateway ==
    /\ pc = "initGateway"
    /\ IF GatewayReady(target)
       THEN /\ hostRoute' = EnsureMonitoringRoute(hostRoute, defaults,
                                MonitorOf(target), gateway[target], target)
            /\ Goto("initInternet")
            /\ UNCHANGED target
       ELSE TryNextWan /\ UNCHANGED hostRoute
    /\ UNCHANGED <<netVars, defaults, shaperVars, ret, gateway,
                   current_interface, primaryOk, primary_stability_counter>>

InitInternet ==
    /\ pc = "initInternet"
    /\ IF PingVia(MonitorOf(target), target)
       THEN Goto("resetTest") /\ UNCHANGED target
       ELSE TryNextWan
    /\ UNCHANGED <<routingVars, ret, gateway, current_interface, primaryOk,
                   primary_stability_counter>>

FallbackTest ==
    /\ pc = "fallbackTest"
    /\ \/ /\ GatewayReady(PRIMARY_INTERFACE)
          /\ target' = PRIMARY_INTERFACE
          /\ Goto("fallbackApply")
       \/ /\ ~GatewayReady(PRIMARY_INTERFACE)
          /\ HasSecondary /\ GatewayReady(SECONDARY_INTERFACE)
          /\ target' = SECONDARY_INTERFACE
          /\ Goto("fallbackApply")
       \/ /\ \A w \in WAN : ~GatewayReady(w)
          /\ UNCHANGED target
          /\ Goto(ret)
    /\ UNCHANGED <<routingVars, ret, gateway, current_interface, primaryOk,
                   primary_stability_counter>>

\* current_interface is set whether or not the kernel took the route; the
\* shaper and the monitor routes are not touched.
FallbackApply ==
    /\ pc = "fallbackApply"
    /\ defaults' = IF Accepts(target)
                   THEN ReplaceDefault(defaults, gateway[target], target)
                   ELSE defaults
    /\ current_interface' = target
    /\ Goto(ret)
    /\ UNCHANGED <<netVars, hostRoute, shaperVars, ret, target, gateway,
                   primaryOk, primary_stability_counter>>

(***************************************************************************)
(* The start of the script and the stages of the loop.                     *)
(***************************************************************************)

Start ==
    /\ pc = "start"
    /\ gateway' = [w \in WAN |-> GetGateway(w)]
    /\ InitializeRouting("refresh")
    /\ UNCHANGED <<routingVars, target, current_interface, primaryOk,
                   primary_stability_counter>>

\* Mutant: a gateway once known is never read again.
RefreshMutant ==
    /\ pc = "refresh"
    /\ gateway' = [w \in WAN |->
                     IF gateway[w] = NONE THEN GetGateway(w) ELSE gateway[w]]
    /\ primaryOk' = (HasIp(PRIMARY_INTERFACE) /\ gateway'[PRIMARY_INTERFACE] # NONE)
    /\ Goto("monitorRoutes")
    /\ UNCHANGED <<routingVars, ret, target, current_interface,
                   primary_stability_counter>>

\* A gateway missing from the lease file is kept while there is an address.
Refresh ==
    /\ pc = "refresh"
    /\ gateway' = [w \in WAN |->
                     IF GetGateway(w) # NONE \/ ~HasIp(w)
                     THEN GetGateway(w) ELSE gateway[w]]
    /\ primaryOk' = (HasIp(PRIMARY_INTERFACE) /\ gateway'[PRIMARY_INTERFACE] # NONE)
    /\ Goto("monitorRoutes")
    /\ UNCHANGED <<routingVars, ret, target, current_interface,
                   primary_stability_counter>>

\* Mutant: the second call is given the primary's gateway and interface.
EnsureCriticalWanMonitorRoutesMutant ==
    /\ pc = "monitorRoutes"
    /\ LET Ensure(h, m) == EnsureMonitoringRoute(h, defaults, m,
                               gateway[PRIMARY_INTERFACE], PRIMARY_INTERFACE)
       IN  hostRoute' = Ensure(Ensure(hostRoute, PM), SM)
    /\ Goto("checkDefault")
    /\ UNCHANGED <<netVars, defaults, shaperVars, ret, target, gateway,
                   current_interface, primaryOk, primary_stability_counter>>

\* ensure_critical_wan_monitor_routes
EnsureCriticalWanMonitorRoutes ==
    /\ pc = "monitorRoutes"
    /\ LET h == EnsureMonitoringRoute(hostRoute, defaults, PM,
                    gateway[PRIMARY_INTERFACE], PRIMARY_INTERFACE)
       IN  hostRoute' = IF HasSecondary
                        THEN EnsureMonitoringRoute(h, defaults, SM,
                                 gateway[SECONDARY_INTERFACE], SECONDARY_INTERFACE)
                        ELSE h
    /\ Goto("checkDefault")
    /\ UNCHANGED <<netVars, defaults, shaperVars, ret, target, gateway,
                   current_interface, primaryOk, primary_stability_counter>>

CheckDefault ==
    /\ pc = "checkDefault"
    /\ IF DefaultRouteExists
       THEN Goto("sync") /\ UNCHANGED ret
       ELSE InitializeRouting("recheck")
    /\ UNCHANGED <<routingVars, target, gateway, current_interface, primaryOk,
                   primary_stability_counter>>

\* Still no default: sleep, and begin the next pass.
Recheck ==
    /\ pc = "recheck"
    /\ Goto(IF DefaultRouteExists THEN "sync" ELSE "refresh")
    /\ UNCHANGED <<routingVars, ret, target, gateway, current_interface,
                   primaryOk, primary_stability_counter>>

\* get_current_default_details; current_interface follows what it prints, and a
\* default with an outdated gateway is reset.  With no default left, `read'
\* yields two empty strings.
Sync ==
    /\ pc = "sync"
    /\ LET r == FirstInText(defaults)
           w == IF r = NONE THEN NONE ELSE r.dev
       IN  /\ current_interface' = w
           /\ IF w \in WAN /\ gateway[w] # NONE /\ gateway[w] # r.gw
              THEN Goto("resetTest") /\ ret' = "clean" /\ target' = w
              ELSE Goto("clean") /\ UNCHANGED <<ret, target>>
    /\ UNCHANGED <<routingVars, gateway, primaryOk, primary_stability_counter>>

Clean ==
    /\ pc = "clean"
    /\ defaults' = CleanDefaultRoutes(defaults, current_interface, gateway)
    /\ hostRoute' = EnsureAdditional(hostRoute, defaults', current_interface)
    /\ Goto("primaryPing")
    /\ UNCHANGED <<netVars, shaperVars, ret, target, gateway,
                   current_interface, primaryOk, primary_stability_counter>>

(***************************************************************************)
(* The primary is tested by a plain ping of PRIMARY_MONITOR, and the       *)
(* result decides between failover and failback.                           *)
(***************************************************************************)

\* Mutant: the counter is not reset.
PrimaryDownMutant ==
    /\ UNCHANGED primary_stability_counter
    /\ Goto(IF current_interface = SECONDARY_INTERFACE THEN "secondaryCheck"
            ELSE IF HasSecondary THEN "failoverCheck" ELSE "final")

PrimaryDown ==
    /\ primary_stability_counter' = 0
    /\ Goto(IF current_interface = SECONDARY_INTERFACE THEN "secondaryCheck"
            ELSE IF HasSecondary THEN "failoverCheck" ELSE "final")

PrimaryHealthy ==
    IF current_interface = PRIMARY_INTERFACE
    THEN /\ primary_stability_counter' = PRIMARY_STABILITY_THRESHOLD
         /\ Goto("final")
    ELSE /\ primary_stability_counter' = Count(primary_stability_counter)
         /\ Goto(IF primary_stability_counter' >= PRIMARY_STABILITY_THRESHOLD
                 THEN "failbackGateway" ELSE "final")

PrimaryPing ==
    /\ pc = "primaryPing"
    /\ primaryOk' = (primaryOk /\ Ping(PM))
    /\ IF primaryOk' THEN PrimaryHealthy ELSE PrimaryDown
    /\ UNCHANGED <<routingVars, ret, target, gateway, current_interface>>

\* Mutant: ADDITIONAL_MONITOR, routed over the failed primary, must answer too.
FailoverCheckMutant ==
    /\ pc = "failoverCheck"
    /\ target' = SECONDARY_INTERFACE
    /\ Goto(IF /\ HasIp(SECONDARY_INTERFACE)
               /\ gateway[SECONDARY_INTERFACE] # NONE
               /\ Ping(SM) /\ Ping(AM)
            THEN "switchTest" ELSE "final")
    /\ UNCHANGED <<routingVars, ret, gateway, current_interface, primaryOk,
                   primary_stability_counter>>

\* The secondary must answer before the default moves to it.
FailoverCheck ==
    /\ pc = "failoverCheck"
    /\ target' = SECONDARY_INTERFACE
    /\ Goto(IF /\ HasIp(SECONDARY_INTERFACE)
               /\ gateway[SECONDARY_INTERFACE] # NONE
               /\ Ping(SM)
            THEN "switchTest" ELSE "final")
    /\ UNCHANGED <<routingVars, ret, gateway, current_interface, primaryOk,
                   primary_stability_counter>>

\* On the secondary with the primary down: if it fails too, start over.
SecondaryCheck ==
    /\ pc = "secondaryCheck"
    /\ IF /\ HasIp(SECONDARY_INTERFACE)
          /\ gateway[SECONDARY_INTERFACE] # NONE
          /\ Ping(SM) /\ Ping(AM)
       THEN Goto("final") /\ UNCHANGED ret
       ELSE InitializeRouting("final")
    /\ UNCHANGED <<routingVars, target, gateway, current_interface, primaryOk,
                   primary_stability_counter>>

FailbackGateway ==
    /\ pc = "failbackGateway"
    /\ IF GatewayReady(PRIMARY_INTERFACE)
       THEN Goto("failbackInternet") /\ UNCHANGED primary_stability_counter
       ELSE Goto("final") /\ primary_stability_counter' = 0
    /\ UNCHANGED <<routingVars, ret, target, gateway, current_interface, primaryOk>>

\* Mutant: switches to whatever interface was worked on last.
FailbackInternetMutant ==
    /\ pc = "failbackInternet"
    /\ IF PingVia(PM, PRIMARY_INTERFACE)
       THEN Goto("switchTest") /\ UNCHANGED primary_stability_counter
       ELSE Goto("final") /\ primary_stability_counter' = 0
    /\ UNCHANGED <<routingVars, ret, target, gateway, current_interface, primaryOk>>

\* comprehensive_connectivity_test
FailbackInternet ==
    /\ pc = "failbackInternet"
    /\ target' = PRIMARY_INTERFACE
    /\ IF PingVia(PM, PRIMARY_INTERFACE)
       THEN Goto("switchTest") /\ UNCHANGED primary_stability_counter
       ELSE Goto("final") /\ primary_stability_counter' = 0
    /\ UNCHANGED <<routingVars, ret, gateway, current_interface, primaryOk>>

\* The last ping only writes a warning; then the script sleeps.
Final ==
    /\ pc = "final"
    /\ Goto("refresh")
    /\ UNCHANGED <<routingVars, ret, target, gateway, current_interface,
                   primaryOk, primary_stability_counter>>

CheckConnStep ==
    \/ Start \/ InitClean \/ InitGateway \/ InitInternet
    \/ FallbackTest \/ FallbackApply \/ ResetTest \/ ResetApply
    \/ Refresh \/ EnsureCriticalWanMonitorRoutes \/ CheckDefault \/ Recheck
    \/ Sync \/ Clean \/ PrimaryPing \/ FailoverCheck \/ SecondaryCheck
    \/ FailbackGateway \/ FailbackInternet \/ SwitchTest \/ SwitchApply \/ Final
=============================================================================
