------------------------- MODULE SetupDefaultRoute -------------------------
(***************************************************************************)
(* The boot sequence of src/bin/setup_default_routing.sh as far as it      *)
(* touches the uplinks: setup_default_route.sh tests both and installs the *)
(* default routes, nftables.sh sets up the shaper for the primary; then    *)
(* the monitor is started, whatever became of the earlier steps.           *)
(***************************************************************************)
EXTENDS Routing

VARIABLES
    bootPc,       \* the next stretch of the boot sequence
    bootTarget,   \* the uplink being tested
    bootGateway,  \* GATEWAY_PRIMARY and GATEWAY_SECONDARY
    gatewayOk,    \* the uplinks with ..._GATEWAY_REACHABLE
    internetOk    \* the uplinks with ..._INTERNET_REACHABLE

bootVars == <<bootPc, bootTarget, bootGateway, gatewayOk, internetOk>>

SetupTypeOK ==
    /\ bootPc \in {"leases", "gateway", "internet", "install", "shaper", "done"}
    /\ bootTarget \in WAN
    /\ bootGateway \in [WAN -> Gateway \cup {NONE}]
    /\ gatewayOk \subseteq WAN
    /\ internetOk \subseteq gatewayOk

SetupInit ==
    /\ bootPc = "leases"
    /\ bootTarget = PRIMARY_INTERFACE
    /\ bootGateway = [w \in WAN |-> NONE]
    /\ gatewayOk = {}
    /\ internetOk = {}

\* setup_default_route.sh ends, and its variables with it.
ExitScript ==
    /\ bootPc' = "shaper"
    /\ bootTarget' = PRIMARY_INTERFACE
    /\ bootGateway' = [w \in WAN |-> NONE]
    /\ gatewayOk' = {}
    /\ internetOk' = {}

\* Reads the lease files and gives up if a gateway is missing; otherwise
\* clean_routes removes every default and monitor route.
ReadLeases ==
    /\ bootPc = "leases"
    /\ IF \E w \in WAN : lease[w] = NONE
       THEN ExitScript /\ UNCHANGED tableVars
       ELSE /\ bootPc' = "gateway"
            /\ bootGateway' = lease
            /\ defaults' = [m \in Metric |-> NONE]
            /\ hostRoute' = [m \in Monitor |-> NONE]
            /\ UNCHANGED <<bootTarget, gatewayOk, internetOk>>
    /\ UNCHANGED <<netVars, shaperVars>>

NextWan ==
    IF bootTarget = PRIMARY_INTERFACE /\ HasSecondary
    THEN bootPc' = "gateway" /\ bootTarget' = SECONDARY_INTERFACE
    ELSE bootPc' = "install" /\ UNCHANGED bootTarget

\* Mutant: ..._GATEWAY_REACHABLE is not set.
TestGatewayMutant ==
    /\ bootPc = "gateway"
    /\ LET g == bootGateway[bootTarget]
       IN  IF GatewayAnswers(g, bootTarget)
           THEN /\ hostRoute' = AddHost(hostRoute, MonitorOf(bootTarget), g, bootTarget)
                /\ bootPc' = "internet"
                /\ UNCHANGED bootTarget
           ELSE NextWan /\ UNCHANGED hostRoute
    /\ UNCHANGED <<netVars, defaults, shaperVars, bootGateway, gatewayOk, internetOk>>

TestGateway ==
    /\ bootPc = "gateway"
    /\ LET g == bootGateway[bootTarget]
       IN  IF GatewayAnswers(g, bootTarget)
           THEN /\ gatewayOk' = gatewayOk \cup {bootTarget}
                /\ hostRoute' = AddHost(hostRoute, MonitorOf(bootTarget), g, bootTarget)
                /\ bootPc' = "internet"
                /\ UNCHANGED bootTarget
           ELSE NextWan /\ UNCHANGED <<hostRoute, gatewayOk>>
    /\ UNCHANGED <<netVars, defaults, shaperVars, bootGateway, internetOk>>

\* A failed test takes the temporary route away again.
TestInternet ==
    /\ bootPc = "internet"
    /\ IF PingVia(MonitorOf(bootTarget), bootTarget)
       THEN internetOk' = internetOk \cup {bootTarget} /\ UNCHANGED hostRoute
       ELSE /\ hostRoute' = [hostRoute EXCEPT ![MonitorOf(bootTarget)] = NONE]
            /\ UNCHANGED internetOk
    /\ NextWan
    /\ UNCHANGED <<netVars, defaults, shaperVars, bootGateway, gatewayOk>>

P == PRIMARY_INTERFACE
S == SECONDARY_INTERFACE

\* Mutant: the primary is taken as soon as its gateway answers.
ChosenMutant ==
    IF P \in gatewayOk THEN P
    ELSE IF S \in gatewayOk THEN S
    ELSE NONE

\* The uplink that becomes the default: one with internet before one with
\* only a gateway, the primary before the secondary.
Chosen ==
    IF P \in internetOk THEN P
    ELSE IF S \in internetOk THEN S
    ELSE IF P \in gatewayOk THEN P
    ELSE IF S \in gatewayOk THEN S
    ELSE NONE

\* The monitor routes that go with the choice.
InstallMonitorRoutes(h) ==
    IF Chosen \notin internetOk THEN h
    ELSE LET own == AddHost(AddHost(h, MonitorOf(Chosen), bootGateway[Chosen], Chosen),
                            AM, bootGateway[Chosen], Chosen)
         IN  IF Chosen = P /\ S \in gatewayOk
             THEN AddHost(own, SM, bootGateway[S], S)
             ELSE own

\* The uplink of the fallback route of metric 200.
Fallback(d) ==
    IF \E m \in Metric : d[m] # NONE /\ d[m].gw = bootGateway[P] THEN S ELSE P

InstallRoutes ==
    /\ bootPc = "install"
    /\ ExitScript
    /\ IF Chosen = NONE THEN UNCHANGED tableVars
       ELSE LET d == AddDefault(defaults, bootGateway[Chosen], Chosen, 0)
                f == Fallback(d)
            IN  /\ hostRoute' = InstallMonitorRoutes(hostRoute)
                /\ defaults' = IF {P, S} \subseteq internetOk
                               THEN AddDefault(d, bootGateway[f], f, 200) ELSE d
    /\ UNCHANGED <<netVars, shaperVars>>

\* nftables.sh: ingress redirection and the rate of ifb0 are the primary's,
\* whichever uplink became the default.
SetupShaper ==
    /\ bootPc = "shaper"
    /\ bootPc' = "done"
    /\ redirect' = redirect \cup {P}
    /\ ifb' = P
    /\ UNCHANGED <<netVars, tableVars, bootTarget, bootGateway, gatewayOk, internetOk>>

BootStep == ReadLeases \/ TestGateway \/ TestInternet \/ InstallRoutes \/ SetupShaper
=============================================================================
