------------------------- MODULE WanFailover_proofs -------------------------
(***************************************************************************)
(* Proofs about WanFailover, for any two uplinks, any gateways, any order  *)
(* of the route lines, any threshold and any number of network changes and *)
(* user switches.                                                          *)
(***************************************************************************)
EXTENDS WanFailover, TLAPS

Table == [Metric -> Route \cup {NONE}]
HostTable == [Monitor -> Route \cup {NONE}]
GatewayMap == [WAN -> Gateway \cup {NONE}]

(***************************************************************************)
(* What the operators on the tables return.                                *)
(***************************************************************************)

\* R builds a route that differs from NONE.
LEMMA RouteType ==
    ASSUME NEW g \in Gateway, NEW w \in WAN
    PROVE  /\ R(g, w) \in Route /\ R(g, w) # NONE
           /\ R(g, w).gw = g /\ R(g, w).dev = w
BY RoutingAssumption DEF R, Route

\* The primary is an uplink, and so is the secondary when it is configured.
LEMMA WanFacts ==
    /\ PRIMARY_INTERFACE \in WAN
    /\ HasSecondary => SECONDARY_INTERFACE \in WAN
    /\ \A w \in WAN : w = PRIMARY_INTERFACE \/ (HasSecondary /\ w = SECONDARY_INTERFACE)
    /\ PRIMARY_INTERFACE # SECONDARY_INTERFACE
    /\ NONE \notin WAN
BY RoutingAssumption DEF WAN, HasSecondary

\* Replacing a default by a route is a table whose best default is that route.
LEMMA ReplaceType ==
    ASSUME NEW d \in Table, NEW g \in Gateway, NEW w \in WAN
    PROVE  /\ ReplaceDefault(d, g, w) \in Table
           /\ ReplaceDefault(d, g, w)[0] = R(g, w)
           /\ BestDefault(ReplaceDefault(d, g, w)) = R(g, w)
BY RouteType DEF ReplaceDefault, Table, Metric, BestDefault

\* A cleanup yields a table; it keeps the expected default where there was one.
LEMMA CleanType ==
    ASSUME NEW d \in Table, NEW cur \in WAN \cup {NONE}, NEW gws \in GatewayMap
    PROVE  CleanDefaultRoutes(d, cur, gws) \in Table
<1> DEFINE active == IF cur \in WAN THEN R(gws[cur], cur) ELSE FirstInText(d)
           both == ~((\E m \in Metric : d[m] = NONE) \/ active.gw = NONE)
<1>1. CASE ~both
  BY <1>1 DEF CleanDefaultRoutes
<1>2. CASE both
  <2>1. CleanDefaultRoutes(d, cur, gws)
          = [m \in Metric |-> IF d[m] = active THEN active ELSE NONE]
    BY <1>2 DEF CleanDefaultRoutes
  <2>2. ASSUME NEW m \in Metric
        PROVE  (IF d[m] = active THEN active ELSE NONE) \in Route \cup {NONE}
    BY DEF Table
  <2>3. QED  BY <2>1, <2>2 DEF Table
<1>3. QED  BY <1>1, <1>2

\* After a cleanup for the uplink w, whose gateway is known, every default left
\* of two leads over w; a single default is not touched.
LEMMA CleanResult ==
    ASSUME NEW d \in Table, NEW w \in WAN, NEW gws \in GatewayMap
    PROVE  /\ (\E m \in Metric : d[m] = NONE) => CleanDefaultRoutes(d, w, gws) = d
           /\ gws[w] = NONE => CleanDefaultRoutes(d, w, gws) = d
           /\ gws[w] # NONE /\ d[0] # NONE /\ d[200] # NONE =>
                 \/ BestDefault(CleanDefaultRoutes(d, w, gws)) = NONE
                 \/ BestDefault(CleanDefaultRoutes(d, w, gws)).dev = w
           /\ gws[w] # NONE /\ d[0] = R(gws[w], w) =>
                 CleanDefaultRoutes(d, w, gws)[0] = R(gws[w], w)
<1>1. R(gws[w], w).gw = gws[w] /\ R(gws[w], w).dev = w
  BY DEF R
<1>2. (\E m \in Metric : d[m] = NONE) => CleanDefaultRoutes(d, w, gws) = d
  BY DEF CleanDefaultRoutes
<1>3. gws[w] = NONE => CleanDefaultRoutes(d, w, gws) = d
  BY <1>1 DEF CleanDefaultRoutes
<1>4. ASSUME gws[w] # NONE, d[0] # NONE, d[200] # NONE
      PROVE  CleanDefaultRoutes(d, w, gws) =
                [m \in Metric |-> IF d[m] = R(gws[w], w) THEN R(gws[w], w) ELSE NONE]
  BY <1>1, <1>4 DEF CleanDefaultRoutes, Metric
<1>5. gws[w] # NONE /\ d[0] # NONE /\ d[200] # NONE =>
                 \/ BestDefault(CleanDefaultRoutes(d, w, gws)) = NONE
                 \/ BestDefault(CleanDefaultRoutes(d, w, gws)).dev = w
  BY <1>1, <1>4 DEF BestDefault, Metric
<1>6. gws[w] # NONE /\ d[0] = R(gws[w], w) =>
                 CleanDefaultRoutes(d, w, gws)[0] = R(gws[w], w)
  <2> SUFFICES ASSUME gws[w] # NONE, d[0] = R(gws[w], w)
               PROVE  CleanDefaultRoutes(d, w, gws)[0] = R(gws[w], w)
    OBVIOUS
  <2>1. gws[w] \in Gateway
    BY DEF GatewayMap
  <2>2. d[0] # NONE
    BY <2>1, RouteType
  <2>3. CASE d[200] = NONE
    BY <1>2, <2>3 DEF Metric
  <2>4. CASE d[200] # NONE
    BY <1>4, <2>2, <2>4 DEF Metric
  <2>5. QED  BY <2>3, <2>4
<1>7. QED  BY <1>2, <1>3, <1>5, <1>6

\* ensure_monitoring_route changes at most the route of m, and only to (g, w).
LEMMA EnsureType ==
    ASSUME NEW h \in HostTable, NEW d \in Table, NEW m \in Monitor,
           NEW g \in Gateway \cup {NONE}, NEW w \in WAN
    PROVE  /\ EnsureMonitoringRoute(h, d, m, g, w) \in HostTable
           /\ \A n \in Monitor : n # m =>
                 EnsureMonitoringRoute(h, d, m, g, w)[n] = h[n]
           /\ EnsureMonitoringRoute(h, d, m, g, w)[m] \in {h[m], R(g, w)}
BY RouteType DEF EnsureMonitoringRoute, HostTable

\* It leaves the route of every other monitor alone.
LEMMA EnsureFrame ==
    ASSUME NEW h \in HostTable, NEW d, NEW m \in Monitor, NEW n \in Monitor,
           NEW g, NEW w, n # m
    PROVE  EnsureMonitoringRoute(h, d, m, g, w)[n] = h[n]
BY DEF EnsureMonitoringRoute, HostTable

\* The same for the route of ADDITIONAL_MONITOR.
LEMMA AdditionalType ==
    ASSUME NEW h \in HostTable, NEW d \in Table, NEW cur \in WAN \cup {NONE},
           gateway \in GatewayMap
    PROVE  /\ EnsureAdditional(h, d, cur) \in HostTable
           /\ EnsureAdditional(h, d, cur)[PM] = h[PM]
           /\ EnsureAdditional(h, d, cur)[SM] = h[SM]
<1>1. CASE cur \in WAN
  <2>1. gateway[cur] \in Gateway \cup {NONE}
    BY <1>1 DEF GatewayMap
  <2>2. AM \in Monitor /\ PM \in Monitor /\ SM \in Monitor /\ PM # AM /\ SM # AM
    BY DEF AM, PM, SM, Monitor
  <2>3. QED  BY <1>1, <2>1, <2>2, EnsureType DEF EnsureAdditional
<1>2. CASE cur \notin WAN
  BY <1>2 DEF EnsureAdditional
<1>3. QED  BY <1>1, <1>2

\* Adding a default yields a table.
LEMMA AddDefaultType ==
    ASSUME NEW d \in Table, NEW m \in Metric, NEW g \in Gateway, NEW w \in WAN
    PROVE  AddDefault(d, g, w, m) \in Table
BY RouteType DEF AddDefault, Table

\* Adding a host route changes at most the route of m, and only to (g, w).
LEMMA AddHostType ==
    ASSUME NEW h \in HostTable, NEW m \in Monitor, NEW g \in Gateway, NEW w \in WAN
    PROVE  /\ AddHost(h, m, g, w) \in HostTable
           /\ \A n \in Monitor : n # m => AddHost(h, m, g, w)[n] = h[n]
           /\ AddHost(h, m, g, w)[m] \in {h[m], R(g, w)}
BY RouteType DEF AddHost, HostTable

(***************************************************************************)
(* Typing.  A route is only ever installed for a gateway that is known,    *)
(* which takes what the stages know of one another.                        *)
(***************************************************************************)

InitStages == {"initClean", "initGateway", "initInternet", "fallbackTest", "fallbackApply"}

\* What the monitor has established when it reaches a stage.
MonitorControl ==
    /\ pc = "failoverCheck" => HasSecondary
    /\ pc \in {"switchApply", "resetApply", "fallbackApply"} => gateway[target] # NONE
    /\ pc \in InitStages => ret # "clean"

\* What the boot sequence has established.
BootControl ==
    /\ bootPc \in {"gateway", "internet", "install"} =>
          \A w \in WAN : bootGateway[w] # NONE
    /\ bootPc = "internet" => bootTarget \in gatewayOk

\* The monitor starts after the boot; the scripts have read their gateways.
ScriptControl ==
    /\ pc = "wait" <=> bootPc # "done"
    /\ swPc # "idle" => swGateway # NONE
    /\ BootControl

Typed == TypeOK /\ MonitorControl /\ ScriptControl

\* A known gateway that has answered.
LEMMA ReadyFacts ==
    ASSUME NEW w \in WAN, gateway \in GatewayMap, GatewayReady(w)
    PROVE  gateway[w] \in Gateway /\ HasIp(w)
BY DEF GatewayReady, GatewayMap

\* Installing a default whose gateway is known keeps the types; where the kernel
\* takes it, the best default then leads over its uplink.
LEMMA InstallType ==
    ASSUME RoutingTypeOK, CheckConnTypeOK, NEW w \in WAN, gateway[w] # NONE,
           NEW b \in BOOLEAN, InstallDefault(w, b), UNCHANGED netVars
    PROVE  /\ RoutingTypeOK'
           /\ current_interface' \in WAN \cup {NONE}
           /\ hostRoute'[PM] = hostRoute[PM] /\ hostRoute'[SM] = hostRoute[SM]
           /\ \/ UNCHANGED <<current_interface, defaults>>
              \/ /\ current_interface' = w
                 /\ BestDefault(defaults') # NONE /\ BestDefault(defaults').dev = w
<1> DEFINE d == ReplaceDefault(defaults, gateway[w], w)
<1>1. /\ defaults \in Table /\ hostRoute \in HostTable /\ gateway \in GatewayMap
      /\ gateway[w] \in Gateway
  BY DEF RoutingTypeOK, CheckConnTypeOK, Table, HostTable, GatewayMap
<1>2. d \in Table /\ d[0] = R(gateway[w], w)
  BY <1>1, ReplaceType
<1>3. CASE Accepts(w)
  <2>1. /\ current_interface' = w
        /\ hostRoute' = EnsureAdditional(hostRoute, d, w)
        /\ defaults' = CleanDefaultRoutes(d, w, gateway)
        /\ IF b THEN UpdateIfb0(current_interface, w) ELSE UNCHANGED shaperVars
    BY <1>3 DEF InstallDefault
  <2>2. defaults' \in Table /\ defaults'[0] = R(gateway[w], w)
    BY <1>1, <1>2, <2>1, CleanType, CleanResult
  <2>3. BestDefault(defaults') # NONE /\ BestDefault(defaults').dev = w
    BY <1>1, <2>2, RouteType DEF BestDefault
  <2>4. /\ hostRoute' \in HostTable
        /\ hostRoute'[PM] = hostRoute[PM] /\ hostRoute'[SM] = hostRoute[SM]
    BY <1>1, <1>2, <2>1, AdditionalType
  <2>5. redirect' \subseteq WAN /\ ifb' \in WAN \cup {NONE}
    BY <2>1 DEF RoutingTypeOK, UpdateIfb0, shaperVars
  <2>6. QED
    BY <2>1, <2>2, <2>3, <2>4, <2>5 DEF RoutingTypeOK, netVars, Table, HostTable
<1>4. CASE ~Accepts(w)
  BY <1>4 DEF InstallDefault, RoutingTypeOK, CheckConnTypeOK, netVars, tableVars, shaperVars
<1>5. QED  BY <1>3, <1>4

\* Every step of the monitor keeps the types and what its stages know.
LEMMA MonitorTyping ==
    ASSUME RoutingTypeOK, CheckConnTypeOK, MonitorControl, CheckConnStep
    PROVE  RoutingTypeOK' /\ CheckConnTypeOK' /\ MonitorControl'
<1> USE DEF Goto, CheckConnTypeOK, MonitorControl, InitStages, Pc, Ret
<1>t. /\ defaults \in Table /\ hostRoute \in HostTable /\ gateway \in GatewayMap
      /\ target \in WAN
  BY DEF RoutingTypeOK, Table, HostTable, GatewayMap
<1>n. UNCHANGED routingVars => RoutingTypeOK'
  BY DEF RoutingTypeOK, routingVars
<1>1. CASE Start
  <2>1. gateway' \in [WAN -> Gateway \cup {NONE}]
    BY <1>1 DEF Start, GetGateway, RoutingTypeOK
  <2>2. QED  BY <1>1, <1>n, <2>1 DEF Start, InitializeRouting
<1>2. CASE InitClean
  <2>1. NoGateways \in GatewayMap
    BY DEF NoGateways, GatewayMap
  <2>2. defaults' \in Table
    BY <1>2, <1>t, <2>1, CleanType DEF InitClean
  <2>3. RoutingTypeOK'
    BY <1>2, <2>2 DEF InitClean, RoutingTypeOK, netVars, shaperVars, Table
  <2>4. QED  BY <1>2, <2>3, WanFacts DEF InitClean
<1>3. CASE InitGateway
  <2>1. CASE GatewayReady(target)
    <3>1. MonitorOf(target) \in Monitor
      BY DEF MonitorOf, Monitor
    <3>2. hostRoute' \in HostTable
      BY <1>3, <1>t, <2>1, <3>1, EnsureType, ReadyFacts DEF InitGateway
    <3>3. RoutingTypeOK'
      BY <1>3, <3>2 DEF InitGateway, RoutingTypeOK, netVars, shaperVars, HostTable
    <3>4. QED  BY <1>3, <2>1, <3>3 DEF InitGateway
  <2>2. CASE ~GatewayReady(target)
    <3>1. RoutingTypeOK'
      BY <1>3, <2>2 DEF InitGateway, RoutingTypeOK, netVars, shaperVars
    <3>2. QED  BY <1>3, <2>2, <3>1, WanFacts DEF InitGateway, TryNextWan
  <2>3. QED  BY <2>1, <2>2
<1>4. CASE InitInternet
  BY <1>4, <1>n, WanFacts DEF InitInternet, TryNextWan
<1>5. CASE FallbackTest
  <2>1. \A w \in WAN : GatewayReady(w) => gateway[w] # NONE
    BY DEF GatewayReady
  <2>2. QED  BY <1>5, <1>n, <2>1, WanFacts DEF FallbackTest
<1>6. CASE FallbackApply
  <2>1. gateway[target] \in Gateway
    BY <1>6, <1>t DEF FallbackApply, GatewayMap
  <2>2. defaults' \in Table
    BY <1>6, <1>t, <2>1, ReplaceType DEF FallbackApply
  <2>3. RoutingTypeOK'
    BY <1>6, <2>2 DEF FallbackApply, RoutingTypeOK, netVars, shaperVars, Table
  <2>4. QED  BY <1>6, <2>3 DEF FallbackApply
<1>7. CASE ResetTest
  <2>1. GatewayReady(target) => gateway[target] # NONE
    BY DEF GatewayReady
  <2>2. QED  BY <1>7, <1>n, <2>1 DEF ResetTest
<1>8. CASE ResetApply
  <2>1. gateway[target] # NONE
    BY <1>8 DEF ResetApply
  <2>2. RoutingTypeOK' /\ current_interface' \in WAN \cup {NONE}
    BY <1>8, <1>t, <2>1, InstallType DEF ResetApply, netVars
  <2>3. QED  BY <1>8, <2>2 DEF ResetApply
<1>9. CASE Refresh
  <2>1. gateway' \in [WAN -> Gateway \cup {NONE}]
    BY <1>9 DEF Refresh, GetGateway, RoutingTypeOK
  <2>2. primaryOk' \in BOOLEAN
    BY <1>9 DEF Refresh
  <2>3. QED  BY <1>9, <1>n, <2>1, <2>2 DEF Refresh
<1>10. CASE EnsureCriticalWanMonitorRoutes
  <2>1. hostRoute' \in HostTable
    <3> DEFINE h == EnsureMonitoringRoute(hostRoute, defaults, PM,
                        gateway[PRIMARY_INTERFACE], PRIMARY_INTERFACE)
    <3>1. \A w \in WAN : gateway[w] \in Gateway \cup {NONE}
      OBVIOUS
    <3>2. PM \in Monitor /\ SM \in Monitor
      BY DEF Monitor
    <3>3. h \in HostTable
      BY <1>t, <3>1, <3>2, EnsureType, WanFacts
    <3>4. CASE HasSecondary
      BY <1>10, <1>t, <3>1, <3>2, <3>3, <3>4, EnsureType, WanFacts
         DEF EnsureCriticalWanMonitorRoutes
    <3>5. CASE ~HasSecondary
      BY <1>10, <3>3, <3>5 DEF EnsureCriticalWanMonitorRoutes
    <3>6. QED  BY <3>4, <3>5
  <2>2. RoutingTypeOK'
    BY <1>10, <2>1 DEF EnsureCriticalWanMonitorRoutes, RoutingTypeOK, netVars,
       shaperVars, HostTable
  <2>3. QED  BY <1>10, <2>2 DEF EnsureCriticalWanMonitorRoutes
<1>11. CASE CheckDefault
  BY <1>11, <1>n DEF CheckDefault, InitializeRouting
<1>12. CASE Recheck
  BY <1>12, <1>n DEF Recheck
<1>13. CASE Sync
  <2> DEFINE r == FirstInText(defaults)
             w == IF r = NONE THEN NONE ELSE r.dev
  <2>1. r \in Route \cup {NONE}
    BY <1>t DEF FirstInText, Table, Metric
  <2>2. w \in WAN \cup {NONE}
    BY <2>1 DEF Route
  <2>3. /\ current_interface' = w
        /\ \/ pc' = "resetTest" /\ ret' = "clean" /\ target' = w /\ w \in WAN
           \/ pc' = "clean" /\ UNCHANGED <<ret, target>>
    BY <1>13 DEF Sync
  <2>4. UNCHANGED <<routingVars, gateway, primaryOk, primary_stability_counter>>
    BY <1>13 DEF Sync
  <2> HIDE DEF w
  <2>5. QED  BY <1>n, <2>2, <2>3, <2>4
<1>14. CASE Clean
  <2>1. defaults' \in Table
    BY <1>14, <1>t, CleanType DEF Clean
  <2>2. hostRoute' \in HostTable
    BY <1>14, <1>t, <2>1, AdditionalType DEF Clean
  <2>3. RoutingTypeOK'
    BY <1>14, <2>1, <2>2 DEF Clean, RoutingTypeOK, netVars, shaperVars, Table, HostTable
  <2>4. QED  BY <1>14, <2>3 DEF Clean
<1>15. CASE PrimaryPing
  <2>1. primaryOk' \in BOOLEAN
    BY <1>15 DEF PrimaryPing
  <2>2. primary_stability_counter' \in 0..CounterCap
    BY <1>15, CheckConnAssumption DEF PrimaryPing, PrimaryHealthy, PrimaryDown, Count
  <2>3. pc' \in {"secondaryCheck", "failoverCheck", "final", "failbackGateway"}
    BY <1>15 DEF PrimaryPing, PrimaryHealthy, PrimaryDown
  <2>4. pc' = "failoverCheck" => HasSecondary
    BY <1>15 DEF PrimaryPing, PrimaryHealthy, PrimaryDown
  <2>5. UNCHANGED <<routingVars, ret, target, gateway, current_interface>>
    BY <1>15 DEF PrimaryPing
  <2>6. QED  BY <1>n, <2>1, <2>2, <2>3, <2>4, <2>5
<1>16. CASE FailoverCheck
  BY <1>16, <1>n, WanFacts DEF FailoverCheck
<1>17. CASE SecondaryCheck
  BY <1>17, <1>n DEF SecondaryCheck, InitializeRouting
<1>18. CASE FailbackGateway
  BY <1>18, <1>n, CheckConnAssumption DEF FailbackGateway
<1>19. CASE FailbackInternet
  BY <1>19, <1>n, WanFacts, CheckConnAssumption DEF FailbackInternet
<1>20. CASE SwitchTest
  <2>1. GatewayReady(target) => gateway[target] # NONE
    BY DEF GatewayReady
  <2>2. QED  BY <1>20, <1>n, <2>1 DEF SwitchTest
<1>21. CASE SwitchApply
  <2>1. gateway[target] # NONE
    BY <1>21 DEF SwitchApply
  <2>2. RoutingTypeOK' /\ current_interface' \in WAN \cup {NONE}
    BY <1>21, <1>t, <2>1, InstallType DEF SwitchApply, netVars
  <2>3. QED  BY <1>21, <2>2 DEF SwitchApply
<1>22. CASE Final
  BY <1>22, <1>n DEF Final
<1>23. QED
  BY <1>1, <1>2, <1>3, <1>4, <1>5, <1>6, <1>7, <1>8, <1>9, <1>10, <1>11, <1>12,
     <1>13, <1>14, <1>15, <1>16, <1>17, <1>18, <1>19, <1>20, <1>21, <1>22
     DEF CheckConnStep

\* The boot sequence keeps the types; it only puts the monitor of an uplink on
\* that uplink.
LEMMA BootTyping ==
    ASSUME RoutingTypeOK, SetupTypeOK, BootControl, MonitorRoutesApart, BootStep
    PROVE  /\ RoutingTypeOK' /\ SetupTypeOK' /\ BootControl' /\ MonitorRoutesApart'
           /\ bootPc # "done"
<1> USE DEF SetupTypeOK, BootControl
<1>t. defaults \in Table /\ hostRoute \in HostTable
  BY DEF RoutingTypeOK, Table, HostTable
<1>g. bootPc \in {"gateway", "internet", "install"} => \A w \in WAN : bootGateway[w] \in Gateway
  OBVIOUS
<1>m. PM \in Monitor /\ SM \in Monitor /\ AM \in Monitor /\ PM # SM /\ PM # AM /\ SM # AM
  BY DEF PM, SM, AM, Monitor
<1>w. P \in WAN /\ P # S /\ (HasSecondary => S \in WAN) /\ NONE \notin WAN
  BY WanFacts DEF P, S
<1>x. ASSUME ExitScript
      PROVE  SetupTypeOK' /\ bootPc' = "shaper"
  BY <1>x, WanFacts DEF ExitScript
<1>1. CASE ReadLeases
  <2>1. CASE \E w \in WAN : lease[w] = NONE
    <3>1. ExitScript /\ UNCHANGED <<netVars, tableVars, shaperVars>> /\ bootPc = "leases"
      BY <1>1, <2>1 DEF ReadLeases
    <3>2. QED  BY <1>x, <3>1 DEF RoutingTypeOK, MonitorRoutesApart, netVars, tableVars, shaperVars
  <2>2. CASE ~ \E w \in WAN : lease[w] = NONE
    <3>1. /\ bootPc = "leases" /\ bootPc' = "gateway" /\ bootGateway' = lease
          /\ UNCHANGED <<netVars, shaperVars, bootTarget, gatewayOk, internetOk>>
      BY <1>1, <2>2 DEF ReadLeases
    <3>2. /\ defaults' \in Table /\ hostRoute' \in HostTable
          /\ \A m \in Monitor : hostRoute'[m] = NONE
      BY <1>1, <2>2 DEF ReadLeases, Table, HostTable
    <3>3. RoutingTypeOK' /\ SetupTypeOK'
      BY <3>1, <3>2 DEF RoutingTypeOK, netVars, shaperVars, Table, HostTable
    <3>4. MonitorRoutesApart'
      BY <1>m, <3>2 DEF MonitorRoutesApart
    <3>5. QED  BY <2>2, <3>1, <3>3, <3>4
  <2>3. QED  BY <2>1, <2>2
<1>n. ASSUME NextWan
      PROVE  /\ bootPc' \in {"gateway", "install"} /\ bootTarget' \in WAN
  BY <1>n, WanFacts DEF NextWan
<1>2. CASE TestGateway
  <2> DEFINE g == bootGateway[bootTarget]
             n == MonitorOf(bootTarget)
  <2>1. bootPc = "gateway" /\ g \in Gateway
    BY <1>2, <1>g DEF TestGateway
  <2>2. /\ n \in Monitor
        /\ n = PM => bootTarget = P
        /\ n = SM => bootTarget = S
        /\ n # AM
    BY <1>m, WanFacts DEF MonitorOf, P, S
  <2>3. UNCHANGED <<netVars, defaults, shaperVars, bootGateway, internetOk>>
    BY <1>2 DEF TestGateway
  <2>4. CASE GatewayAnswers(g, bootTarget)
    <3>1. /\ gatewayOk' = gatewayOk \cup {bootTarget}
          /\ hostRoute' = AddHost(hostRoute, n, g, bootTarget)
          /\ bootPc' = "internet" /\ UNCHANGED bootTarget
      BY <1>2, <2>4 DEF TestGateway
    <3>2. /\ hostRoute' \in HostTable
          /\ \A k \in Monitor : k # n => hostRoute'[k] = hostRoute[k]
          /\ hostRoute'[n] \in {hostRoute[n], R(g, bootTarget)}
      BY <1>t, <2>1, <2>2, <3>1, AddHostType
    <3>3. RoutingTypeOK' /\ SetupTypeOK'
      BY <2>3, <3>1, <3>2 DEF RoutingTypeOK, netVars, shaperVars, HostTable
    <3>4. MonitorRoutesApart'
      BY <1>m, <2>1, <2>2, <3>2, RouteType DEF MonitorRoutesApart
    <3>5. BootControl'
      BY <2>1, <2>3, <3>1
    <3>6. QED  BY <2>1, <3>3, <3>4, <3>5
  <2>5. CASE ~GatewayAnswers(g, bootTarget)
    <3>1. NextWan /\ UNCHANGED <<hostRoute, gatewayOk>>
      BY <1>2, <2>5 DEF TestGateway
    <3>2. RoutingTypeOK' /\ MonitorRoutesApart'
      BY <2>3, <3>1 DEF RoutingTypeOK, MonitorRoutesApart, netVars, shaperVars
    <3>3. SetupTypeOK'
      BY <1>n, <2>3, <3>1
    <3>4. BootControl'
      BY <1>n, <2>1, <2>3, <3>1
    <3>5. QED  BY <2>1, <3>2, <3>3, <3>4
  <2>6. QED  BY <2>4, <2>5
<1>3. CASE TestInternet
  <2> DEFINE n == MonitorOf(bootTarget)
  <2>1. /\ bootPc = "internet" /\ NextWan
        /\ UNCHANGED <<netVars, defaults, shaperVars, bootGateway, gatewayOk>>
    BY <1>3 DEF TestInternet
  <2>2. /\ internetOk' \subseteq internetOk \cup {bootTarget}
        /\ hostRoute' = hostRoute \/ hostRoute' = [hostRoute EXCEPT ![n] = NONE]
    BY <1>3 DEF TestInternet
  <2>3. hostRoute' \in HostTable /\ \A k \in Monitor : hostRoute'[k] \in {hostRoute[k], NONE}
    BY <1>t, <2>2 DEF HostTable
  <2>4. RoutingTypeOK'
    BY <2>1, <2>3 DEF RoutingTypeOK, netVars, shaperVars, HostTable
  <2>5. MonitorRoutesApart'
    BY <1>m, <2>3 DEF MonitorRoutesApart
  <2>6. QED  BY <1>n, <2>1, <2>2, <2>4, <2>5
<1>4. CASE InstallRoutes
  <2>1. /\ bootPc = "install" /\ ExitScript /\ UNCHANGED <<netVars, shaperVars>>
        /\ \A w \in WAN : bootGateway[w] \in Gateway
    BY <1>4, <1>g DEF InstallRoutes
  <2>2. /\ Chosen \in gatewayOk \cup {NONE}
        /\ Chosen \in internetOk => Chosen \in WAN
        /\ Chosen \in {P, S, NONE}
    BY <1>w DEF Chosen
  <2>3. CASE Chosen = NONE
    <3>1. UNCHANGED tableVars
      BY <1>4, <2>3 DEF InstallRoutes
    <3>2. QED  BY <1>x, <2>1, <3>1 DEF RoutingTypeOK, MonitorRoutesApart, netVars, tableVars, shaperVars
  <2>4. CASE Chosen # NONE
    <3> DEFINE d == AddDefault(defaults, bootGateway[Chosen], Chosen, 0)
               f == Fallback(d)
    <3>1. /\ hostRoute' = InstallMonitorRoutes(hostRoute)
          /\ defaults' = IF {P, S} \subseteq internetOk
                         THEN AddDefault(d, bootGateway[f], f, 200) ELSE d
      BY <1>4, <2>4 DEF InstallRoutes
    <3>2. Chosen \in WAN /\ bootGateway[Chosen] \in Gateway
      BY <2>1, <2>2, <2>4
    <3>3. d \in Table
      BY <1>t, <3>2, AddDefaultType DEF Metric
    <3>4. f \in {P, S}
      BY DEF Fallback
    <3>5. defaults' \in Table
      <4>1. CASE {P, S} \subseteq internetOk
        <5>1. f \in WAN /\ bootGateway[f] \in Gateway
          BY <2>1, <3>4, <4>1
        <5> HIDE DEF d, f
        <5>2. QED  BY <3>1, <3>3, <4>1, <5>1, AddDefaultType DEF Metric
      <4>2. QED  BY <3>1, <3>3, <4>1
    <3>6. hostRoute' \in HostTable /\ MonitorRoutesApart'
      <4> DEFINE g == bootGateway[Chosen]
                 n == MonitorOf(Chosen)
                 h1 == AddHost(hostRoute, n, g, Chosen)
                 h2 == AddHost(h1, AM, g, Chosen)
      <4>1. /\ n \in Monitor /\ n # AM
            /\ n = PM => Chosen = P
            /\ n = SM => Chosen = S
        BY <1>m, <2>2, <2>4, WanFacts DEF MonitorOf, P, S
      <4>2. /\ h1 \in HostTable
            /\ \A k \in Monitor : k # n => h1[k] = hostRoute[k]
            /\ h1[n] \in {hostRoute[n], R(g, Chosen)}
        BY <1>t, <3>2, <4>1, AddHostType
      <4>3. /\ h2 \in HostTable
            /\ h2[PM] = h1[PM] /\ h2[SM] = h1[SM]
        <5> HIDE DEF h1, n, g
        <5>1. QED  BY <1>m, <3>2, <4>2, AddHostType DEF g
      <4>4. /\ h2[PM] # NONE => h2[PM].dev = P
            /\ h2[SM] # NONE => h2[SM].dev = S
        <5> HIDE DEF h1, h2
        <5>1. QED  BY <1>m, <3>2, <4>1, <4>2, <4>3, RouteType DEF MonitorRoutesApart
      <4>5. CASE Chosen \notin internetOk
        BY <1>t, <3>1, <4>5 DEF InstallMonitorRoutes, MonitorRoutesApart
      <4>6. CASE Chosen \in internetOk /\ Chosen = P /\ S \in gatewayOk
        <5> HIDE DEF h2
        <5>1. S \in WAN /\ bootGateway[S] \in Gateway
          BY <2>1, <4>6
        <5>2. hostRoute' = AddHost(h2, SM, bootGateway[S], S)
          BY <3>1, <4>6 DEF InstallMonitorRoutes, h2
        <5>3. /\ hostRoute' \in HostTable /\ hostRoute'[PM] = h2[PM]
              /\ hostRoute'[SM] \in {h2[SM], R(bootGateway[S], S)}
          BY <1>m, <4>3, <5>1, <5>2, AddHostType
        <5>4. QED  BY <4>4, <5>1, <5>3, RouteType DEF MonitorRoutesApart
      <4>7. CASE Chosen \in internetOk /\ ~(Chosen = P /\ S \in gatewayOk)
        <5>1. hostRoute' = h2
          BY <3>1, <4>7 DEF InstallMonitorRoutes
        <5>2. QED  BY <4>3, <4>4, <5>1 DEF MonitorRoutesApart
      <4>8. QED  BY <4>5, <4>6, <4>7
    <3>7. RoutingTypeOK'
      BY <2>1, <3>5, <3>6 DEF RoutingTypeOK, netVars, shaperVars, Table, HostTable
    <3>8. QED  BY <1>x, <2>1, <3>6, <3>7
  <2>5. QED  BY <2>3, <2>4
<1>5. CASE SetupShaper
  <2>1. RoutingTypeOK' /\ MonitorRoutesApart'
    BY <1>5, <1>w DEF SetupShaper, RoutingTypeOK, MonitorRoutesApart, netVars, tableVars
  <2>2. QED  BY <1>5, <2>1 DEF SetupShaper
<1>6. QED  BY <1>1, <1>2, <1>3, <1>4, <1>5 DEF BootStep

\* A user's switch keeps the types and never touches a monitor route.
LEMMA SwitchTyping ==
    ASSUME RoutingTypeOK, SwitchTypeOK, swPc # "idle" => swGateway # NONE,
           SwitchScript \/ \E w \in WAN : SwitchRequest(w)
    PROVE  /\ RoutingTypeOK' /\ SwitchTypeOK'
           /\ (swPc # "idle" => swGateway # NONE)'
           /\ UNCHANGED hostRoute
<1> USE DEF SwitchTypeOK
<1>1. CASE \E w \in WAN : SwitchRequest(w)
  <2>1. PICK w \in WAN : SwitchRequest(w)
    BY <1>1
  <2>2. lease[w] \in Gateway \cup {NONE}
    BY DEF RoutingTypeOK
  <2>3. QED  BY <2>1, <2>2 DEF SwitchRequest, RoutingTypeOK, routingVars
<1>2. CASE SwitchPing
  BY <1>2 DEF SwitchPing, RoutingTypeOK, routingVars
<1>3. CASE SwitchReplace
  <2>1. defaults \in Table /\ swGateway \in Gateway
    BY <1>3 DEF SwitchReplace, RoutingTypeOK, Table
  <2>2. /\ swPc' = "idle" /\ reply' = "switched" /\ switched' \in BOOLEAN
        /\ UNCHANGED <<netVars, hostRoute, swTarget, swGateway>>
    BY <1>3 DEF SwitchReplace
  <2>3. /\ defaults' \in {defaults, ReplaceDefault(defaults, swGateway, swTarget)}
        /\ redirect' \subseteq WAN /\ ifb' \in WAN \cup {NONE}
    BY <1>3 DEF SwitchReplace, SwitchReshape, RoutingTypeOK, shaperVars
  <2>4. defaults' \in Table
    BY <2>1, <2>3, ReplaceType
  <2>5. QED  BY <2>2, <2>3, <2>4 DEF RoutingTypeOK, netVars, Table
<1>4. QED  BY <1>1, <1>2, <1>3 DEF SwitchScript

\* A change in the network keeps the types; it can only take routes of the
\* monitors away.
LEMMA NetworkTyping ==
    ASSUME RoutingTypeOK, Network
    PROVE  /\ RoutingTypeOK'
           /\ \A m \in Monitor : hostRoute'[m] \in {hostRoute[m], NONE}
<1>1. PICK w \in WAN :
        \/ LinkDown(w)
        \/ \E l \in Link : LinkChange(w, l)
        \/ \E g \in Offered[w] \cup {NONE}, l \in Link, b \in BOOLEAN :
              DhcpBind(w, g, l, b)
  BY DEF Network
<1>2. CASE LinkDown(w)
  BY <1>2 DEF LinkDown, RoutingTypeOK, NoRoute, Link, shaperVars
<1>3. CASE \E l \in Link : LinkChange(w, l)
  BY <1>3 DEF LinkChange, RoutingTypeOK, tableVars, shaperVars
<1>4. CASE \E g \in Offered[w] \cup {NONE}, l \in Link, b \in BOOLEAN : DhcpBind(w, g, l, b)
  <2>1. PICK g \in Offered[w] \cup {NONE}, l \in Link, b \in BOOLEAN : DhcpBind(w, g, l, b)
    BY <1>4
  <2>2. g \in Gateway \cup {NONE} /\ (b => g \in Gateway)
    BY <2>1, RoutingAssumption DEF DhcpBind
  <2>3. defaults' \in [Metric -> Route \cup {NONE}]
    BY <2>1, <2>2, RouteType DEF DhcpBind, RoutingTypeOK, Metric
  <2>4. link' \in [WAN -> Link] /\ lease' \in [WAN -> Gateway \cup {NONE}]
    BY <2>1, <2>2 DEF DhcpBind, RoutingTypeOK
  <2>5. UNCHANGED <<hostRoute, redirect, ifb>>
    BY <2>1 DEF DhcpBind, shaperVars
  <2>6. QED  BY <2>3, <2>4, <2>5 DEF RoutingTypeOK
<1>5. QED  BY <1>1, <1>2, <1>3, <1>4

\* The monitor puts each monitor route on its own uplink.
LEMMA MonitorApart ==
    ASSUME RoutingTypeOK, CheckConnTypeOK, MonitorControl, MonitorRoutesApart,
           CheckConnStep
    PROVE  MonitorRoutesApart'
<1>t. /\ defaults \in Table /\ hostRoute \in HostTable /\ gateway \in GatewayMap
      /\ target \in WAN /\ current_interface \in WAN \cup {NONE}
      /\ \A w \in WAN : gateway[w] \in Gateway \cup {NONE}
  BY DEF RoutingTypeOK, CheckConnTypeOK, Table, HostTable, GatewayMap
<1>m. PM \in Monitor /\ SM \in Monitor /\ PM # SM /\ P # S /\ P \in WAN
  BY WanFacts DEF PM, SM, Monitor, P, S
<1>f. ASSUME hostRoute'[PM] = hostRoute[PM], hostRoute'[SM] = hostRoute[SM]
      PROVE  MonitorRoutesApart'
  BY <1>f DEF MonitorRoutesApart
<1>d. \A g \in Gateway \cup {NONE}, w \in WAN : R(g, w).dev = w
  BY DEF R
<1>1. CASE InitGateway /\ GatewayReady(target)
  <2> DEFINE n == MonitorOf(target)
  <2>1. n \in {PM, SM} /\ (n = PM => target = P) /\ (n = SM => target = S)
    BY <1>t, <1>m, WanFacts DEF MonitorOf, P, S
  <2>2. /\ \A k \in Monitor : k # n => hostRoute'[k] = hostRoute[k]
        /\ hostRoute'[n] \in {hostRoute[n], R(gateway[target], target)}
    BY <1>1, <1>t, <1>m, <2>1, EnsureType DEF InitGateway
  <2> HIDE DEF n
  <2>3. QED  BY <1>t, <1>m, <1>d, <2>1, <2>2 DEF MonitorRoutesApart
<1>2. CASE EnsureCriticalWanMonitorRoutes
  <2> DEFINE h == EnsureMonitoringRoute(hostRoute, defaults, PM, gateway[P], P)
  <2>1. /\ h \in HostTable /\ h[SM] = hostRoute[SM]
        /\ h[PM] \in {hostRoute[PM], R(gateway[P], P)}
    <3>1. gateway[P] \in Gateway \cup {NONE}
      BY <1>t, <1>m
    <3>2. h \in HostTable
      BY <1>t, <1>m, <3>1, EnsureType
    <3>3. h[SM] = hostRoute[SM]
      BY <1>t, <1>m, EnsureFrame
    <3>4. h[PM] \in {hostRoute[PM], R(gateway[P], P)}
      BY <1>t, <1>m, <3>1, EnsureType
    <3>5. QED  BY <3>2, <3>3, <3>4
  <2>2. CASE HasSecondary
    <3>1. S \in WAN
      BY <2>2, WanFacts DEF S
    <3>2. hostRoute' = EnsureMonitoringRoute(h, defaults, SM, gateway[S], S)
      BY <1>2, <2>2 DEF EnsureCriticalWanMonitorRoutes, P, S
    <3> HIDE DEF h
    <3>3. gateway[S] \in Gateway \cup {NONE}
      BY <1>t, <3>1
    <3>4. hostRoute'[SM] \in {h[SM], R(gateway[S], S)}
      BY <1>t, <1>m, <2>1, <3>1, <3>2, <3>3, EnsureType
    <3>5. hostRoute'[PM] = h[PM]
      BY <1>m, <2>1, <3>2, EnsureFrame
    <3>6. \A w \in {P, S} : R(gateway[w], w).dev = w
      BY DEF R
    <3>7. QED  BY <2>1, <3>4, <3>5, <3>6 DEF MonitorRoutesApart
  <2>3. CASE ~HasSecondary
    <3>1. hostRoute' = h
      BY <1>2, <2>3 DEF EnsureCriticalWanMonitorRoutes, P
    <3> HIDE DEF h
    <3>2. QED  BY <1>t, <1>m, <1>d, <2>1, <3>1 DEF MonitorRoutesApart
  <2>4. QED  BY <2>2, <2>3
<1>3. CASE Clean
  <2>1. defaults' \in Table
    BY <1>3, <1>t, CleanType DEF Clean
  <2>2. QED  BY <1>3, <1>t, <1>f, <2>1, AdditionalType DEF Clean
<1>4. CASE ResetApply
  <2>1. gateway[target] # NONE
    BY <1>4 DEF ResetApply, MonitorControl
  <2>2. QED  BY <1>4, <1>t, <1>f, <2>1, InstallType DEF ResetApply, netVars
<1>5. CASE SwitchApply
  <2>1. gateway[target] # NONE
    BY <1>5 DEF SwitchApply, MonitorControl
  <2>2. QED  BY <1>5, <1>t, <1>f, <2>1, InstallType DEF SwitchApply, netVars
<1>6. CASE UNCHANGED hostRoute
  BY <1>6, <1>f
<1>7. QED
  BY <1>1, <1>2, <1>3, <1>4, <1>5, <1>6 DEF CheckConnStep, Start, InitClean,
     InitGateway, InitInternet, FallbackTest, FallbackApply, ResetTest, Refresh,
     CheckDefault, Recheck, Sync, PrimaryPing, FailoverCheck, SecondaryCheck,
     FailbackGateway, FailbackInternet, SwitchTest, Final, routingVars

\* The invariant behind the first two theorems: the types need to know what
\* each stage has established, and the boot adds routes by the uplink it tests.
TypedApart == Typed /\ MonitorRoutesApart

\* It holds initially.
LEMMA TypedInit == Init => TypedApart
<1> SUFFICES ASSUME Init PROVE TypedApart
  OBVIOUS
<1> USE DEF Init
<1>1. RoutingTypeOK
  BY DEF RoutingInit, RoutingTypeOK
<1>2. CheckConnTypeOK
  <2>1. primary_stability_counter \in 0..CounterCap
    BY CheckConnAssumption DEF CheckConnInit
  <2>2. primaryOk \in BOOLEAN
    BY DEF CheckConnInit
  <2>3. QED  BY <2>1, <2>2, WanFacts DEF CheckConnInit, CheckConnTypeOK, Pc, Ret
<1>3. SwitchTypeOK /\ SetupTypeOK
  BY WanFacts DEF SwitchInit, SwitchTypeOK, SetupInit, SetupTypeOK
<1>4. MonitorControl /\ ScriptControl
  BY DEF CheckConnInit, SwitchInit, SetupInit, MonitorControl, ScriptControl,
     BootControl, InitStages
<1>5. MonitorRoutesApart
  BY DEF RoutingInit, MonitorRoutesApart, Monitor
<1>6. okRun \in 0..CounterCap /\ events \in 0..MaxEvents /\ switches \in 0..MaxSwitches
  BY CheckConnAssumption, WanFailoverAssumption
<1>7. usedPrimary \in BOOLEAN /\ undisturbed \in BOOLEAN
  OBVIOUS
<1>8. QED
  BY <1>1, <1>2, <1>3, <1>4, <1>5, <1>6, <1>7 DEF TypedApart, Typed, TypeOK

\* Every step of the system keeps it.
LEMMA TypedStep == TypedApart /\ [Next]_vars => TypedApart'
<1> SUFFICES ASSUME TypedApart, [Next]_vars PROVE TypedApart'
  OBVIOUS
<1> USE DEF TypedApart, Typed, TypeOK
<1>1. CASE MonitorStep
  <2>1. RoutingTypeOK' /\ CheckConnTypeOK' /\ MonitorControl'
    BY <1>1, MonitorTyping DEF MonitorStep
  <2>2. MonitorRoutesApart'
    BY <1>1, MonitorApart DEF MonitorStep
  <2>3. UNCHANGED <<swVars, bootVars, events, switches>>
    BY <1>1 DEF MonitorStep, budgetVars
  <2>4. SwitchTypeOK' /\ SetupTypeOK' /\ BootControl'
    <3>1. SwitchTypeOK'
      BY <2>3 DEF SwitchTypeOK, swVars
    <3>2. SetupTypeOK' /\ BootControl'
      BY <2>3 DEF SetupTypeOK, BootControl, ScriptControl, bootVars
    <3>3. QED  BY <3>1, <3>2
  <2>5. (pc = "wait" <=> bootPc # "done")' /\ (swPc # "idle" => swGateway # NONE)'
    <3>1. pc # "wait" /\ pc' # "wait"
      BY <1>1, <2>1 DEF MonitorStep, CheckConnStep, Start, InitClean, InitGateway,
         InitInternet, FallbackTest, FallbackApply, ResetTest, ResetApply, Refresh,
         EnsureCriticalWanMonitorRoutes, CheckDefault, Recheck, Sync, Clean,
         PrimaryPing, FailoverCheck, SecondaryCheck, FailbackGateway,
         FailbackInternet, SwitchTest, SwitchApply, Final, InitializeRouting,
         TryNextWan, PrimaryDown, PrimaryHealthy, Goto, CheckConnTypeOK, Ret
    <3>2. QED  BY <2>3, <3>1 DEF ScriptControl, swVars, bootVars
  <2>6. okRun' \in 0..CounterCap
    BY <1>1, CheckConnAssumption DEF MonitorStep, RememberTest, Count
  <2>7. usedPrimary' \in BOOLEAN
    <3>1. primaryOk' \in BOOLEAN
      BY <2>1 DEF CheckConnTypeOK
    <3>2. usedPrimary' = usedPrimary \/
          usedPrimary' = (primaryOk' /\ (usedPrimary \/ current_interface = P))
      BY <1>1 DEF MonitorStep, RememberTest
    <3>3. QED  BY <3>1, <3>2
  <2>8. undisturbed' \in BOOLEAN
    BY <1>1 DEF MonitorStep
  <2>9. QED  BY <2>1, <2>2, <2>3, <2>4, <2>5, <2>6, <2>7, <2>8 DEF ScriptControl
<1>2. CASE Boot
  <2>1. /\ RoutingTypeOK' /\ SetupTypeOK' /\ BootControl' /\ MonitorRoutesApart'
        /\ bootPc # "done"
    BY <1>2, BootTyping DEF Boot, ScriptControl
  <2>2. pc = "wait" /\ pc' = IF bootPc' = "done" THEN "start" ELSE "wait"
    BY <1>2, <2>1 DEF Boot, ScriptControl
  <2>3. UNCHANGED <<ret, target, gateway, current_interface, primaryOk,
                    primary_stability_counter, swVars, budgetVars, historyVars>>
    BY <1>2 DEF Boot
  <2>4. CheckConnTypeOK' /\ MonitorControl'
    BY <2>2, <2>3 DEF CheckConnTypeOK, MonitorControl, InitStages, Pc
  <2>5. SwitchTypeOK' /\ ScriptControl'
    BY <2>1, <2>2, <2>3 DEF SwitchTypeOK, ScriptControl, swVars
  <2>6. QED  BY <2>1, <2>3, <2>4, <2>5 DEF budgetVars, historyVars
<1>3. CASE SwitchScriptStep \/ UserSwitch
  <2>1. /\ RoutingTypeOK' /\ SwitchTypeOK'
        /\ (swPc # "idle" => swGateway # NONE)'
        /\ UNCHANGED hostRoute
    BY <1>3, SwitchTyping DEF SwitchScriptStep, UserSwitch, ScriptControl
  <2>2. UNCHANGED <<monitorVars, bootVars, okRun, usedPrimary>>
    BY <1>3 DEF SwitchScriptStep, UserSwitch, historyVars
  <2>3. CheckConnTypeOK' /\ MonitorControl' /\ SetupTypeOK' /\ MonitorRoutesApart'
    BY <2>1, <2>2 DEF CheckConnTypeOK, MonitorControl, SetupTypeOK,
       MonitorRoutesApart, monitorVars, bootVars
  <2>4. ScriptControl'
    BY <2>1, <2>2 DEF ScriptControl, BootControl, monitorVars, bootVars
  <2>5. events' \in 0..MaxEvents /\ switches' \in 0..MaxSwitches
    BY <1>3, WanFailoverAssumption DEF SwitchScriptStep, UserSwitch, budgetVars
  <2>6. undisturbed' \in BOOLEAN
    BY <1>3 DEF SwitchScriptStep, UserSwitch, historyVars
  <2>7. QED  BY <2>1, <2>2, <2>3, <2>4, <2>5, <2>6
<1>4. CASE NetworkStep
  <2>1. /\ RoutingTypeOK'
        /\ \A m \in Monitor : hostRoute'[m] \in {hostRoute[m], NONE}
    BY <1>4, NetworkTyping DEF NetworkStep
  <2>2. UNCHANGED <<monitorVars, swVars, bootVars, switches, okRun, usedPrimary>>
    BY <1>4 DEF NetworkStep
  <2>3. CheckConnTypeOK' /\ MonitorControl' /\ SetupTypeOK' /\ SwitchTypeOK'
    BY <2>2 DEF CheckConnTypeOK, MonitorControl, SetupTypeOK, SwitchTypeOK,
       monitorVars, bootVars, swVars
  <2>4. ScriptControl'
    BY <2>2 DEF ScriptControl, BootControl, monitorVars, bootVars, swVars
  <2>5. MonitorRoutesApart'
    BY <2>1 DEF MonitorRoutesApart, Monitor
  <2>6. events' \in 0..MaxEvents
    BY <1>4, WanFailoverAssumption DEF NetworkStep
  <2>7. undisturbed' \in BOOLEAN
    BY <1>4 DEF NetworkStep
  <2>8. QED  BY <2>1, <2>2, <2>3, <2>4, <2>5, <2>6, <2>7
<1>5. CASE UNCHANGED vars
  BY <1>5 DEF vars, routingVars, monitorVars, swVars, bootVars, budgetVars,
     historyVars, RoutingTypeOK, CheckConnTypeOK, SwitchTypeOK, SetupTypeOK,
     MonitorControl, ScriptControl, BootControl, MonitorRoutesApart
<1>6. QED  BY <1>1, <1>2, <1>3, <1>4, <1>5 DEF Next

\* The routing table, the monitor and the scripts keep their types: in
\* particular no route with an empty gateway is ever installed.
THEOREM TypeCorrect == Spec => []TypeOK
<1>1. TypedApart => TypeOK
  BY DEF TypedApart, Typed
<1>2. QED  BY <1>1, TypedInit, TypedStep, PTL DEF Spec

\* The host routes of the two uplink monitors stay on their own uplinks,
\* whatever the network and the user do.
THEOREM RoutesApart == Spec => []MonitorRoutesApart
<1>1. TypedApart => MonitorRoutesApart
  BY DEF TypedApart
<1>2. QED  BY <1>1, TypedInit, TypedStep, PTL DEF Spec

(***************************************************************************)
(* The counter and the test that sends the monitor to another uplink.      *)
(***************************************************************************)

\* What a stage of failover or failback knows of the test that led to it.
TestDecides ==
    /\ pc = "failoverCheck" => okRun = 0 /\ primary_stability_counter = 0
    /\ pc \in {"failbackGateway", "failbackInternet"} => okRun > 0
    /\ SwitchFollowsTest

CounterInv == EarnedStability /\ TestDecides

\* The counter stays behind the tests, and each switch behind its test.
LEMMA CounterStep == TypedApart /\ TypedApart' /\ CounterInv /\ [Next]_vars => CounterInv'
<1> SUFFICES ASSUME TypedApart, TypedApart', CounterInv, [Next]_vars PROVE CounterInv'
  OBVIOUS
<1> USE DEF CounterInv, EarnedStability, TestDecides, SwitchFollowsTest, P
<1>t. /\ primary_stability_counter \in Nat /\ okRun \in Nat /\ CounterCap \in Nat
      /\ PRIMARY_STABILITY_THRESHOLD \in Nat \ {0} /\ CounterCap > 0
      /\ okRun <= CounterCap /\ primary_stability_counter <= CounterCap
      /\ ret \in Ret /\ primaryOk' \in BOOLEAN
  BY CheckConnAssumption DEF TypedApart, Typed, TypeOK, CheckConnTypeOK
<1>1. CASE MonitorStep
  <2>1. CASE PrimaryPing
    <3>1. /\ pc = "primaryPing"
          /\ okRun' = IF primaryOk' THEN Count(okRun) ELSE 0
          /\ usedPrimary' = (primaryOk' /\ (usedPrimary \/ current_interface = P))
      BY <1>1, <2>1 DEF MonitorStep, RememberTest, PrimaryPing
    <3>2. CASE primaryOk'
      <4>1. PrimaryHealthy
        BY <2>1, <3>2 DEF PrimaryPing
      <4>2. okRun' = Count(okRun) /\ okRun' > 0
        BY <1>t, <3>1, <3>2 DEF Count
      <4>3. CASE current_interface = P
        <5>1. usedPrimary' /\ pc' = "final"
          BY <3>1, <3>2, <4>1, <4>3 DEF PrimaryHealthy, Goto
        <5>2. QED  BY <5>1
      <4>4. CASE current_interface # P
        <5>1. /\ primary_stability_counter' = Count(primary_stability_counter)
              /\ pc' \in {"failbackGateway", "final"}
          BY <4>1, <4>4 DEF PrimaryHealthy, Goto
        <5>2. usedPrimary' \/ ~usedPrimary
          BY <3>1, <3>2
        <5>3. ~usedPrimary => primary_stability_counter' <= okRun'
          BY <1>t, <4>2, <5>1 DEF Count
        <5>4. QED  BY <4>2, <5>1, <5>2, <5>3
      <4>5. QED  BY <4>3, <4>4
    <3>3. CASE ~primaryOk'
      <4>1. PrimaryDown
        BY <2>1, <3>3 DEF PrimaryPing
      <4>2. okRun' = 0 /\ primary_stability_counter' = 0
        BY <3>1, <3>3, <4>1 DEF PrimaryDown
      <4>3. pc' \in {"secondaryCheck", "failoverCheck", "final"}
        BY <4>1 DEF PrimaryDown, Goto
      <4>4. QED  BY <4>2, <4>3
    <3>4. QED  BY <3>2, <3>3
  <2>2. CASE pc # "primaryPing"
    <3>1. UNCHANGED <<okRun, usedPrimary>>
      BY <1>1, <2>2 DEF MonitorStep, RememberTest
    <3>2. CASE FailoverCheck
      BY <3>1, <3>2, WanFacts DEF FailoverCheck, Goto
    <3>3. CASE FailbackGateway
      BY <1>t, <3>1, <3>3 DEF FailbackGateway, Goto
    <3>4. CASE FailbackInternet
      BY <1>t, <3>1, <3>4 DEF FailbackInternet, Goto
    <3>5. CASE SwitchTest
      BY <3>1, <3>5 DEF SwitchTest, Goto
    <3>6. CASE ~(FailoverCheck \/ FailbackGateway \/ FailbackInternet \/ SwitchTest)
      <4>1. /\ UNCHANGED primary_stability_counter
            /\ pc' \notin {"failoverCheck", "failbackGateway", "failbackInternet",
                           "switchTest", "switchApply"}
        BY <1>1, <1>t, <2>2, <3>6 DEF MonitorStep, CheckConnStep, Start, InitClean,
           InitGateway, InitInternet, FallbackTest, FallbackApply, ResetTest,
           ResetApply, Refresh, EnsureCriticalWanMonitorRoutes, CheckDefault,
           Recheck, Sync, Clean, PrimaryPing, SecondaryCheck, SwitchApply, Final,
           InitializeRouting, TryNextWan, Goto, Ret
      <4>2. QED  BY <3>1, <4>1
    <3>7. QED  BY <3>2, <3>3, <3>4, <3>5, <3>6
  <2>3. QED  BY <1>1, <2>1, <2>2 DEF MonitorStep, CheckConnStep, Start, InitClean,
       InitGateway, InitInternet, FallbackTest, FallbackApply, ResetTest, ResetApply,
       Refresh, EnsureCriticalWanMonitorRoutes, CheckDefault, Recheck, Sync, Clean,
       FailoverCheck, SecondaryCheck, FailbackGateway, FailbackInternet, SwitchTest,
       SwitchApply, Final
<1>2. CASE Boot
  <2>1. UNCHANGED <<target, primary_stability_counter, okRun, usedPrimary>>
    BY <1>2 DEF Boot, historyVars
  <2>2. bootPc # "done"
    BY <1>2 DEF Boot, BootStep, ReadLeases, TestGateway, TestInternet, InstallRoutes, SetupShaper
  <2>3. pc' \in {"wait", "start"}
    BY <1>2, <2>2 DEF Boot, TypedApart, Typed, ScriptControl
  <2>4. QED  BY <2>1, <2>3
<1>3. CASE SwitchScriptStep \/ UserSwitch \/ NetworkStep \/ UNCHANGED vars
  BY <1>3 DEF SwitchScriptStep, UserSwitch, NetworkStep, vars, monitorVars, historyVars
<1>4. QED  BY <1>1, <1>2, <1>3 DEF Next

\* The counter starts at nothing.
LEMMA CounterInit == Init => CounterInv
BY DEF Init, CheckConnInit, CounterInv, EarnedStability, TestDecides, SwitchFollowsTest

\* The stability counter never exceeds the run of successful tests of the
\* primary unless one of them found the primary in use.
THEOREM StabilityIsEarned == Spec => []EarnedStability
<1>1. CounterInv => EarnedStability
  BY DEF CounterInv
<1>2. QED  BY <1>1, TypedInit, TypedStep, CounterInit, CounterStep, PTL DEF Spec

\* The monitor is only ever about to switch to the secondary after a failed
\* test of the primary in the same pass, and to the primary after a good one.
THEOREM SwitchesFollowTests == Spec => []SwitchFollowsTest
<1>1. CounterInv => SwitchFollowsTest
  BY DEF CounterInv, TestDecides
<1>2. QED  BY <1>1, TypedInit, TypedStep, CounterInit, CounterStep, PTL DEF Spec

(***************************************************************************)
(* What the monitor believes of the default route.                         *)
(***************************************************************************)

\* The conclusion of BeliefMatchesKernel.
Believes ==
    \/ Active = NONE
    \/ Active.dev = current_interface
    \/ current_interface \in WAN /\ gateway[current_interface] = NONE

\* What the cleanup needs: one default, or two and a known uplink.
Cleanable ==
    \/ Active = NONE
    \/ Active.dev = current_interface
    \/ defaults[0] # NONE /\ defaults[200] # NONE /\ current_interface \in WAN

ResetStages == {"resetTest", "resetApply"}

\* The stages at which a pass that nobody disturbed has its belief right,
\* those at which the cleanup is still to come, and the fallback, whose
\* assignment of current_interface does not depend on the kernel.
BeliefInv == undisturbed =>
    /\ pc \in AfterClean => Believes
    /\ pc \in InitStages \cup ResetStages /\ ret = "final" => Believes
    /\ pc = "clean" => Cleanable
    /\ pc \in ResetStages /\ ret = "clean" => Cleanable
    /\ pc = "fallbackApply" => HasIp(target)

\* A reset or a switch leaves either everything as it was or a default over
\* the uplink it sets.
LEMMA InstallBelief ==
    ASSUME TypedApart, MonitorStep, ResetApply \/ SwitchApply
    PROVE  /\ \/ UNCHANGED <<current_interface, defaults>>
              \/ Active'.dev = current_interface'
           /\ UNCHANGED <<gateway, undisturbed, ret>>
           /\ pc' = IF pc = "resetApply" THEN ret ELSE "final"
<1>1. /\ RoutingTypeOK /\ CheckConnTypeOK /\ MonitorControl /\ target \in WAN
  BY DEF TypedApart, Typed, TypeOK, CheckConnTypeOK
<1>2. gateway[target] # NONE
  BY <1>1 DEF MonitorControl, ResetApply, SwitchApply
<1>3. \E b \in BOOLEAN : InstallDefault(target, b) /\ UNCHANGED netVars
  BY DEF ResetApply, SwitchApply
<1>4. \/ UNCHANGED <<current_interface, defaults>>
      \/ Active'.dev = current_interface'
  BY <1>1, <1>2, <1>3, InstallType DEF Active
<1>5. QED
  BY <1>4 DEF ResetApply, SwitchApply, MonitorStep, Goto

\* The belief of an undisturbed pass survives every step.
LEMMA BeliefStep == TypedApart /\ BeliefInv /\ [Next]_vars => BeliefInv'
<1> SUFFICES ASSUME TypedApart, BeliefInv, [Next]_vars PROVE BeliefInv'
  OBVIOUS
<1>t. /\ defaults \in Table /\ gateway \in GatewayMap /\ target \in WAN
      /\ current_interface \in WAN \cup {NONE} /\ ret \in Ret /\ MonitorControl
      /\ undisturbed \in BOOLEAN
  BY DEF TypedApart, Typed, TypeOK, RoutingTypeOK, CheckConnTypeOK, Table, GatewayMap
<1>s. ASSUME UNCHANGED <<defaults, current_interface, gateway>>
      PROVE  (Believes' <=> Believes) /\ (Cleanable' <=> Cleanable)
  BY <1>s DEF Believes, Cleanable, Active
<1>1. CASE MonitorStep
  <2> SUFFICES ASSUME undisturbed' PROVE BeliefInv'
    BY DEF BeliefInv
  <2>u. pc # "refresh" => undisturbed
    BY <1>1 DEF MonitorStep
  <2> USE DEF Goto, InitStages, ResetStages, AfterClean, Ret
  <2>1. CASE Start \/ Refresh
    BY <2>1 DEF Start, Refresh, InitializeRouting, BeliefInv
  <2>2. CASE InitClean
    <3>1. /\ pc = "initClean" /\ pc' = "initGateway"
          /\ UNCHANGED <<ret, gateway, current_interface>>
          /\ defaults' = CleanDefaultRoutes(defaults, current_interface, NoGateways)
      BY <2>2 DEF InitClean
    <3>2. SUFFICES ASSUME ret = "final" PROVE Believes'
      BY <3>1 DEF BeliefInv
    <3>3. Believes
      BY <2>u, <3>1, <3>2 DEF BeliefInv
    <3>4. NoGateways \in GatewayMap /\ \A w \in WAN : NoGateways[w] = NONE
      BY DEF NoGateways, GatewayMap
    <3>5. CASE current_interface \in WAN
      <4>1. defaults' = defaults
        BY <1>t, <3>1, <3>4, <3>5, CleanResult
      <4>2. QED  BY <1>s, <3>1, <3>3, <4>1
    <3>6. CASE current_interface \notin WAN
      <4>1. Active = NONE
        <5>1. Active \in Route \cup {NONE}
          BY <1>t DEF Active, BestDefault, Table, Metric
        <5>2. QED  BY <1>t, <3>3, <3>6, <5>1, WanFacts DEF Believes, Route
      <4>2. \E m \in Metric : defaults[m] = NONE
        BY <4>1 DEF Active, BestDefault, Metric
      <4>3. defaults' = defaults
        BY <3>1, <4>2 DEF CleanDefaultRoutes
      <4>4. QED  BY <1>s, <3>1, <3>3, <4>3
    <3>7. QED  BY <3>5, <3>6
  <2>3. CASE InitGateway \/ InitInternet
    <3>1. /\ pc \in {"initGateway", "initInternet"}
          /\ pc' \in {"initGateway", "initInternet", "fallbackTest", "resetTest"}
          /\ UNCHANGED <<ret, gateway, current_interface, defaults>>
      BY <2>3 DEF InitGateway, InitInternet, TryNextWan, routingVars
    <3>2. ret # "clean"
      BY <1>t, <3>1 DEF MonitorControl
    <3>3. QED  BY <1>s, <2>u, <3>1, <3>2 DEF BeliefInv
  <2>4. CASE FallbackTest
    <3>1. /\ pc = "fallbackTest" /\ pc' \in {"fallbackApply", ret}
          /\ UNCHANGED <<link, ret, gateway, current_interface, defaults>>
      BY <2>4 DEF FallbackTest, routingVars
    <3>2. ret # "clean"
      BY <1>t, <3>1 DEF MonitorControl
    <3>3. pc' = "fallbackApply" => HasIp(target')
      BY <1>t, <2>4 DEF FallbackTest, GatewayReady
    <3>4. pc' = "fallbackApply" => HasIp(target)'
      BY <3>1, <3>3 DEF HasIp
    <3>5. ret = "final" => Believes
      BY <2>u, <3>1 DEF BeliefInv
    <3>6. QED  BY <1>s, <1>t, <3>1, <3>2, <3>4, <3>5 DEF BeliefInv
  <2>5. CASE FallbackApply
    <3>1. /\ pc = "fallbackApply" /\ pc' = ret /\ UNCHANGED ret
          /\ current_interface' = target
          /\ Accepts(target) => defaults' = ReplaceDefault(defaults, gateway[target], target)
      BY <2>5 DEF FallbackApply
    <3>2. ret # "clean" /\ gateway[target] # NONE
      BY <1>t, <3>1 DEF MonitorControl
    <3>3. Accepts(target)
      BY <2>u, <3>1 DEF BeliefInv, Accepts
    <3>4. gateway[target] \in Gateway
      BY <1>t, <3>2 DEF GatewayMap
    <3>5. Active'.dev = current_interface'
      BY <1>t, <3>1, <3>3, <3>4, ReplaceType, RouteType DEF Active
    <3>6. QED  BY <1>t, <3>1, <3>2, <3>5 DEF BeliefInv, Believes
  <2>6. CASE ResetTest \/ SwitchTest
    <3>1. /\ pc = "resetTest" => pc' \in {"resetApply", ret}
          /\ pc # "resetTest" => pc = "switchTest" /\ pc' \in {"switchApply", "final"}
          /\ UNCHANGED <<ret, gateway, current_interface, defaults>>
      BY <2>6 DEF ResetTest, SwitchTest, routingVars
    <3>2. QED  BY <1>s, <1>t, <2>u, <3>1 DEF BeliefInv
  <2>7. CASE ResetApply \/ SwitchApply
    <3>1. /\ \/ UNCHANGED <<current_interface, defaults>>
             \/ Active'.dev = current_interface'
          /\ UNCHANGED <<gateway, undisturbed, ret>>
          /\ pc' = IF pc = "resetApply" THEN ret ELSE "final"
      BY <1>1, <2>7, InstallBelief
    <3>2. pc \in {"resetApply", "switchApply"} /\ (pc # "resetApply" => pc = "switchApply")
      BY <2>7 DEF ResetApply, SwitchApply
    <3>3. CASE Active'.dev = current_interface'
      BY <1>t, <3>1, <3>2, <3>3 DEF BeliefInv, Believes, Cleanable
    <3>4. CASE UNCHANGED <<current_interface, defaults>>
      BY <1>s, <1>t, <2>u, <3>1, <3>2, <3>4 DEF BeliefInv
    <3>5. QED  BY <3>1, <3>3, <3>4
  <2>8. CASE EnsureCriticalWanMonitorRoutes \/ CheckDefault \/ Recheck
    <3>1. pc' \in {"checkDefault", "sync", "initClean", "refresh"}
          /\ (pc' = "initClean" => ret' = "recheck")
      BY <2>8 DEF EnsureCriticalWanMonitorRoutes, CheckDefault, Recheck, InitializeRouting
    <3>2. QED  BY <3>1 DEF BeliefInv
  <2>9. CASE Sync
    <3> DEFINE r == FirstInText(defaults)
               w == IF r = NONE THEN NONE ELSE r.dev
    <3>1. /\ current_interface' = w
          /\ \/ pc' = "resetTest" /\ ret' = "clean"
             \/ pc' = "clean"
          /\ UNCHANGED <<defaults, gateway>>
      BY <2>9 DEF Sync, routingVars
    <3>2. CASE defaults[0] # NONE /\ defaults[200] # NONE
      <4>1. r \in Route
        BY <1>t, <3>2 DEF FirstInText, Table, Metric
      <4>2. current_interface' \in WAN
        BY <3>1, <4>1, RoutingAssumption DEF Route
      <4>3. Cleanable'
        BY <3>1, <3>2, <4>2 DEF Cleanable
      <4>4. QED  BY <3>1, <4>3 DEF BeliefInv
    <3>3. CASE ~(defaults[0] # NONE /\ defaults[200] # NONE)
      <4>1. r = Active
        BY <1>t, <3>3 DEF FirstInText, Active, BestDefault
      <4>2. Active' = Active
        BY <3>1 DEF Active
      <4>3. Cleanable'
        BY <3>1, <4>1, <4>2 DEF Cleanable
      <4>4. QED  BY <3>1, <4>3 DEF BeliefInv
    <3>4. QED  BY <3>2, <3>3
  <2>10. CASE Clean
    <3>1. /\ pc = "clean" /\ pc' = "primaryPing"
          /\ defaults' = CleanDefaultRoutes(defaults, current_interface, gateway)
          /\ UNCHANGED <<gateway, current_interface>>
      BY <2>10 DEF Clean
    <3>2. Cleanable
      BY <2>u, <3>1 DEF BeliefInv
    <3>3. Believes'
      <4>1. CASE current_interface \in WAN /\ gateway[current_interface] = NONE
        BY <3>1, <4>1 DEF Believes
      <4>2. CASE /\ current_interface \in WAN /\ gateway[current_interface] # NONE
                 /\ defaults[0] # NONE /\ defaults[200] # NONE
        BY <1>t, <3>1, <4>2, CleanResult DEF Believes, Active
      <4>3. CASE \E m \in Metric : defaults[m] = NONE
        <5>1. defaults' = defaults
          BY <3>1, <4>3 DEF CleanDefaultRoutes
        <5>2. QED  BY <3>1, <3>2, <4>3, <5>1 DEF Believes, Cleanable, Active, Metric
      <4>4. CASE current_interface \notin WAN /\ defaults[0] # NONE /\ defaults[200] # NONE
        <5>1. Active \in Route
          BY <1>t, <4>4 DEF Active, BestDefault, Table, Metric
        <5>2. FALSE
          BY <3>2, <4>4, <5>1, RoutingAssumption DEF Cleanable, Route
        <5>3. QED  BY <5>2
      <4>5. QED  BY <4>1, <4>2, <4>3, <4>4 DEF Metric
    <3>4. QED  BY <3>1, <3>3 DEF BeliefInv
  <2>11. CASE PrimaryPing \/ FailoverCheck \/ FailbackGateway \/ FailbackInternet
    <3>1. /\ pc \in AfterClean /\ pc' \in AfterClean
          /\ UNCHANGED <<gateway, current_interface, defaults>>
      BY <2>11 DEF PrimaryPing, FailoverCheck, FailbackGateway, FailbackInternet,
         PrimaryDown, PrimaryHealthy, routingVars
    <3>2. QED  BY <1>s, <2>u, <3>1 DEF BeliefInv
  <2>12. CASE SecondaryCheck
    <3>1. /\ pc = "secondaryCheck" /\ pc' \in {"final", "initClean"}
          /\ UNCHANGED <<gateway, current_interface, defaults>>
      BY <2>12 DEF SecondaryCheck, InitializeRouting, routingVars
    <3>2. QED  BY <1>s, <2>u, <3>1 DEF BeliefInv
  <2>13. CASE Final
    BY <2>13 DEF Final, BeliefInv
  <2>14. QED
    BY <1>1, <2>1, <2>2, <2>3, <2>4, <2>5, <2>6, <2>7, <2>8, <2>9, <2>10, <2>11,
       <2>12, <2>13 DEF MonitorStep, CheckConnStep
<1>2. CASE Boot
  <2>1. bootPc # "done"
    BY <1>2 DEF Boot, BootStep, ReadLeases, TestGateway, TestInternet, InstallRoutes, SetupShaper
  <2>2. pc' \in {"wait", "start"}
    BY <1>2, <2>1 DEF Boot, TypedApart, Typed, ScriptControl
  <2>3. QED  BY <2>2 DEF BeliefInv, AfterClean, InitStages, ResetStages
<1>3. CASE SwitchScriptStep \/ NetworkStep
  BY <1>3 DEF SwitchScriptStep, NetworkStep, BeliefInv
<1>4. CASE UserSwitch \/ UNCHANGED vars
  <2>1. UNCHANGED <<link, defaults, pc, ret, target, gateway, current_interface, undisturbed>>
    BY <1>4 DEF UserSwitch, SwitchRequest, vars, routingVars, monitorVars, historyVars
  <2>2. HasIp(target)' <=> HasIp(target)
    BY <2>1 DEF HasIp
  <2>3. QED  BY <1>s, <2>1, <2>2 DEF BeliefInv
<1>5. QED  BY <1>1, <1>2, <1>3, <1>4 DEF Next

\* In a pass that nobody disturbs, the monitor acts on the interface that the
\* kernel forwards by, unless it does not know that interface's gateway.
THEOREM BeliefIsRight == Spec => []BeliefMatchesKernel
<1>1. Init => BeliefInv
  BY DEF Init, BeliefInv
<1>2. BeliefInv => BeliefMatchesKernel
  BY DEF BeliefInv, BeliefMatchesKernel, Believes
<1>3. QED  BY <1>1, <1>2, TypedInit, TypedStep, BeliefStep, PTL DEF Spec

(***************************************************************************)
(* The boot script, when nothing changes while it runs.                    *)
(***************************************************************************)

\* The uplinks whose tests are over.
Tested(w) == bootPc = "install" \/ (w = P /\ bootTarget # P)

\* What the tests have found so far: the table is still empty but for the route
\* of the test under way, and the uplinks with internet are exactly those that
\* passed.
BootTests ==
    /\ bootPc \in {"leases", "gateway", "internet", "install"} =>
          \A m \in Metric : defaults[m] = NONE
    /\ bootPc = "leases" => bootTarget = P /\ internetOk = {}
    /\ bootPc \in {"gateway", "internet", "install"} =>
          /\ bootGateway = lease
          /\ \A w \in WAN : Tested(w) => (w \in internetOk <=> link[w] = "up")
          /\ \A w \in WAN : ~Tested(w) => w \notin internetOk
    /\ bootPc = "gateway" => ~Tested(bootTarget) /\ hostRoute[MonitorOf(bootTarget)] = NONE
    /\ bootPc = "internet" =>
          /\ ~Tested(bootTarget)
          /\ hostRoute[MonitorOf(bootTarget)] = R(lease[bootTarget], bootTarget)
          /\ link[bootTarget] \in {"noinet", "up"}
    /\ bootPc \in {"gateway", "internet"} /\ bootTarget = P => hostRoute[SM] = NONE

BootInv ==
    events = 0 /\ switches = 0 => swPc = "idle" /\ BootTests /\ BootFindsInternet

\* A test that goes on to the next uplink, or to the installation.
LEMMA BootNextWan ==
    ASSUME TypedApart, BootTests, NextWan, bootPc \in {"gateway", "internet"},
           UNCHANGED <<link, lease, defaults, bootGateway>>,
           hostRoute'[SM] \in {hostRoute[SM], NONE},
           \A w \in WAN : w # bootTarget => (w \in internetOk' <=> w \in internetOk),
           bootTarget \in internetOk' <=> link[bootTarget] = "up"
    PROVE  BootTests'
<1>1. P \in WAN /\ P # S /\ (HasSecondary => S \in WAN) /\ bootTarget \in WAN
      /\ \A w \in WAN : w = P \/ (HasSecondary /\ w = S)
  BY WanFacts DEF P, S, TypedApart, Typed, TypeOK, SetupTypeOK
<1>2. MonitorOf(P) = PM /\ MonitorOf(S) = SM
  BY <1>1 DEF MonitorOf, P, S
<1>3. CASE bootTarget = P /\ HasSecondary
  <2>1. bootPc' = "gateway" /\ bootTarget' = S
    BY <1>3 DEF NextWan, P, S
  <2>2. hostRoute[SM] = NONE
    BY <1>3 DEF BootTests
  <2>3. ~Tested(S) /\ ~Tested(P) /\ Tested(P)' /\ ~Tested(S)'
    BY <1>1, <1>3, <2>1 DEF Tested, BootTests
  <2>4. QED  BY <1>1, <1>2, <1>3, <2>1, <2>2, <2>3 DEF BootTests
<1>4. CASE ~(bootTarget = P /\ HasSecondary)
  <2>1. bootPc' = "install"
    BY <1>4 DEF NextWan, P, S
  <2>2. \A w \in WAN : w # bootTarget => Tested(w)
    BY <1>1, <1>4 DEF Tested
  <2>3. \A w \in WAN : Tested(w)'
    BY <2>1 DEF Tested
  <2>4. QED  BY <1>1, <2>1, <2>2, <2>3 DEF BootTests
<1>5. QED  BY <1>3, <1>4

\* The routes that the tests lead to: over a working uplink if there is one.
LEMMA BootInstall ==
    ASSUME TypedApart, BootTests, InstallRoutes, \E v \in WAN : Usable(v)
    PROVE  /\ Works(Active)'
           /\ Usable(P) => Active'.dev = P
<1> USE DEF TypedApart, Typed, TypeOK, SetupTypeOK, RoutingTypeOK
<1>1. P \in WAN /\ P # S /\ NONE \notin WAN /\ \A w \in WAN : w = P \/ w = S
  BY WanFacts DEF P, S
<1>2. /\ bootPc = "install" /\ bootGateway = lease
      /\ \A w \in WAN : bootGateway[w] \in Gateway
      /\ \A w \in WAN : w \in internetOk <=> link[w] = "up"
      /\ defaults[0] = NONE /\ defaults \in Table
  BY DEF InstallRoutes, BootTests, Tested, ScriptControl, BootControl, Metric, Table
<1>3. /\ Chosen \in internetOk /\ Chosen \in WAN
      /\ Usable(P) => Chosen = P
  BY <1>1, <1>2 DEF Usable, Chosen
<1> DEFINE d == AddDefault(defaults, bootGateway[Chosen], Chosen, 0)
           r == R(bootGateway[Chosen], Chosen)
<1>4. r # NONE /\ r.gw = lease[Chosen] /\ r.dev = Chosen /\ lease[Chosen] # NONE
  BY <1>2, <1>3, RouteType, RoutingAssumption
<1>5. link[Chosen] = "up" /\ HasIp(Chosen)
  BY <1>2, <1>3 DEF HasIp
<1>6. d \in Table /\ d[0] = r
  <2>1. 0 \in Metric
    BY DEF Metric
  <2>2. QED  BY <1>2, <1>3, <1>5, <2>1, AddDefaultType DEF AddDefault, Accepts, Table
<1>7. defaults'[0] = r
  <2>1. defaults' = d \/ defaults' = AddDefault(d, bootGateway[Fallback(d)], Fallback(d), 200)
    BY <1>1, <1>3 DEF InstallRoutes
  <2>2. AddDefault(d, bootGateway[Fallback(d)], Fallback(d), 200)[0] = d[0]
    BY <1>6 DEF AddDefault, Table, Metric
  <2>3. QED  BY <1>6, <2>1, <2>2
<1>8. UNCHANGED <<link, lease>>
  BY DEF InstallRoutes, netVars
<1>9. Active' = r
  BY <1>4, <1>7 DEF Active, BestDefault
<1>10. PICK c \in WAN, g \in Gateway :
         /\ Chosen = c /\ bootGateway[Chosen] = g /\ Active' = R(g, c)
         /\ lease[c] = g /\ link[c] = "up"
  BY <1>2, <1>3, <1>5, <1>9
<1>11. R(g, c) # NONE /\ R(g, c).gw = g /\ R(g, c).dev = c /\ g # NONE
  BY RouteType, RoutingAssumption
<1>12. GatewayAnswers(g, c)'
  BY <1>8, <1>10, <1>11 DEF GatewayAnswers, HasIp
<1>13. Works(Active)'
  BY <1>8, <1>10, <1>11, <1>12 DEF Works
<1>14. QED  BY <1>3, <1>10, <1>11, <1>13

\* The monitor is past its start once it has made a step.
LEMMA MonitorLeavesStart ==
    ASSUME CheckConnTypeOK, CheckConnStep
    PROVE  pc # "wait" /\ pc' \notin {"wait", "start"}
BY DEF CheckConnStep, Start, InitClean, InitGateway,
   InitInternet, FallbackTest, FallbackApply, ResetTest, ResetApply, Refresh,
   EnsureCriticalWanMonitorRoutes, CheckDefault, Recheck, Sync, Clean,
   PrimaryPing, FailoverCheck, SecondaryCheck, FailbackGateway,
   FailbackInternet, SwitchTest, SwitchApply, Final, InitializeRouting,
   TryNextWan, PrimaryDown, PrimaryHealthy, Goto, CheckConnTypeOK, Ret

\* The table is empty when the boot begins.
LEMMA BootInit == Init => BootInv
BY DEF Init, RoutingInit, SwitchInit, SetupInit, BootInv, BootTests, BootFindsInternet, P

\* A test of a gateway keeps what is known of the uplinks.
LEMMA BootTestsGateway ==
    ASSUME TypedApart, BootTests, TestGateway
    PROVE  BootTests'
<1> USE DEF TypedApart, Typed, TypeOK, SetupTypeOK, RoutingTypeOK
<1> DEFINE w == bootTarget
           g == bootGateway[w]
           m == MonitorOf(w)
<1>1. bootPc = "gateway" /\ w \in WAN /\ bootGateway = lease /\ ~Tested(w)
  BY DEF TestGateway, BootTests
<1>2. g \in Gateway /\ w \notin internetOk /\ hostRoute[m] = NONE
  BY <1>1 DEF BootTests, ScriptControl, BootControl
<1>3. CASE GatewayAnswers(g, w)
  <2>1. /\ hostRoute' = AddHost(hostRoute, m, g, w)
        /\ bootPc' = "internet" /\ bootTarget' = w
        /\ UNCHANGED <<link, lease, defaults, bootGateway, internetOk>>
    BY <1>3 DEF TestGateway, netVars
  <2>2. m \in Monitor /\ (w = P => m # SM) /\ SM \in Monitor
    BY DEF MonitorOf, Monitor, P, PM, SM
  <2>3. hostRoute' = [hostRoute EXCEPT ![m] = R(g, w)]
    BY <1>2, <1>3, <2>1 DEF AddHost, Accepts, GatewayAnswers
  <2>4. hostRoute'[m] = R(lease[w], w) /\ (w = P => hostRoute'[SM] = hostRoute[SM])
    BY <1>1, <2>2, <2>3
  <2>5. link[w] \in {"noinet", "up"}
    BY <1>3 DEF GatewayAnswers
  <2>6. \A v \in WAN : Tested(v)' <=> Tested(v)
    BY <1>1, <2>1 DEF Tested
  <2>7. MonitorOf(bootTarget)' = m
    BY <2>1 DEF MonitorOf
  <2> HIDE DEF m
  <2>8. QED  BY <1>1, <2>1, <2>4, <2>5, <2>6, <2>7 DEF BootTests
<1>4. CASE ~GatewayAnswers(g, w)
  <2>1. NextWan /\ UNCHANGED <<link, lease, defaults, bootGateway, internetOk, hostRoute>>
    BY <1>4 DEF TestGateway, netVars
  <2>2. link[w] # "up"
    BY <1>1, <1>2, <1>4, RoutingAssumption DEF GatewayAnswers, HasIp
  <2>3. QED  BY <1>1, <1>2, <2>1, <2>2, BootNextWan
<1>5. QED  BY <1>3, <1>4

\* A test of the internet settles whether the uplink works.
LEMMA BootTestsInternet ==
    ASSUME TypedApart, BootTests, TestInternet
    PROVE  BootTests'
<1> USE DEF TypedApart, Typed, TypeOK, SetupTypeOK, RoutingTypeOK
<1> DEFINE w == bootTarget
           g == lease[w]
           m == MonitorOf(w)
<1>1. bootPc = "internet" /\ w \in WAN /\ bootGateway = lease /\ ~Tested(w)
  BY DEF TestInternet, BootTests
<1>2. /\ g \in Gateway /\ w \notin internetOk /\ hostRoute[m] = R(g, w)
      /\ link[w] \in {"noinet", "up"}
  BY <1>1 DEF BootTests, ScriptControl, BootControl
<1>3. R(g, w) # NONE /\ R(g, w).gw = g /\ R(g, w).dev = w /\ g # NONE
  BY <1>1, <1>2, RouteType, RoutingAssumption
<1>4. PingVia(m, w) <=> link[w] = "up"
  <2>1. LookupVia(hostRoute, defaults, m, w) = R(g, w)
    BY <1>2, <1>3 DEF LookupVia
  <2>2. Works(R(g, w)) <=> link[w] = "up"
    BY <1>1, <1>2, <1>3 DEF Works, GatewayAnswers, HasIp
  <2>3. HasIp(w)
    BY <1>1, <1>2 DEF HasIp
  <2>4. QED  BY <2>1, <2>2, <2>3 DEF PingVia
<1>5. NextWan /\ UNCHANGED <<link, lease, defaults, bootGateway>>
  BY DEF TestInternet, netVars
<1>6. SM \in Monitor /\ m \in Monitor
  BY DEF Monitor, MonitorOf
<1>7. hostRoute'[SM] \in {hostRoute[SM], NONE}
  BY <1>6 DEF TestInternet
<1>8. /\ \A v \in WAN : v # w => (v \in internetOk' <=> v \in internetOk)
      /\ w \in internetOk' <=> link[w] = "up"
  BY <1>2, <1>4 DEF TestInternet
<1>9. QED  BY <1>1, <1>5, <1>7, <1>8, BootNextWan

\* Every step keeps what the boot has found, until the network or the user acts.
LEMMA BootInvStep == TypedApart /\ BootInv /\ [Next]_vars => BootInv'
<1> SUFFICES ASSUME TypedApart, BootInv, [Next]_vars, (events = 0 /\ switches = 0)'
             PROVE  (swPc = "idle" /\ BootTests /\ BootFindsInternet)'
  BY DEF BootInv
<1> USE DEF TypedApart, Typed, TypeOK
<1>1. CASE MonitorStep
  <2>1. UNCHANGED <<swVars, bootVars, budgetVars>> /\ CheckConnStep
    BY <1>1 DEF MonitorStep
  <2>2. bootPc = "done" /\ pc' \notin {"wait", "start"}
    BY <2>1, MonitorLeavesStart DEF ScriptControl, SetupTypeOK
  <2>3. swPc = "idle"
    BY <2>1 DEF budgetVars, BootInv
  <2>4. QED  BY <2>1, <2>2, <2>3 DEF swVars, bootVars, BootTests, BootFindsInternet
<1>2. CASE Boot
  <2>1. UNCHANGED <<events, switches, swPc>> /\ BootStep
    BY <1>2 DEF Boot, budgetVars, swVars
  <2>2. swPc' = "idle" /\ BootTests /\ BootFindsInternet
    BY <2>1 DEF BootInv
  <2>3. UNCHANGED <<link, lease>>
    BY <2>1 DEF BootStep, ReadLeases, TestGateway, TestInternet, InstallRoutes,
       SetupShaper, netVars
  <2>4. pc = "wait"
    BY <2>1 DEF ScriptControl, BootStep, ReadLeases, TestGateway, TestInternet,
       InstallRoutes, SetupShaper
  <2>5. CASE ReadLeases
    <3>1. CASE \E v \in WAN : lease[v] = NONE
      BY <2>2, <2>3, <2>5, <3>1 DEF ReadLeases, ExitScript, BootTests, BootFindsInternet
    <3>2. CASE ~(\E v \in WAN : lease[v] = NONE)
      <4>1. /\ bootPc' = "gateway" /\ bootTarget' = P /\ internetOk' = {}
            /\ bootGateway' = lease /\ bootTarget = P
            /\ defaults' = [m \in Metric |-> NONE]
            /\ hostRoute' = [m \in Monitor |-> NONE]
        BY <2>2, <2>5, <3>2 DEF ReadLeases, BootTests
      <4>2. \A v \in WAN : ~Tested(v)'
        BY <4>1 DEF Tested
      <4>3. hostRoute'[SM] = NONE /\ hostRoute'[MonitorOf(bootTarget)'] = NONE
        BY <4>1 DEF MonitorOf, Monitor
      <4>4. P \in WAN
        BY WanFacts DEF P
      <4>5. BootTests'
        BY <2>3, <4>1, <4>2, <4>3, <4>4 DEF BootTests
      <4>6. QED  BY <2>2, <4>1, <4>5 DEF BootFindsInternet
    <3>3. QED  BY <3>1, <3>2
  <2>6. CASE TestGateway \/ TestInternet
    <3>1. BootTests'
      BY <2>2, <2>6, BootTestsGateway, BootTestsInternet
    <3>2. bootPc' \in {"gateway", "internet", "install"}
      BY <2>6 DEF TestGateway, TestInternet, NextWan
    <3>3. QED  BY <2>2, <3>1, <3>2 DEF BootFindsInternet
  <2>7. CASE InstallRoutes
    <3>1. bootPc' = "shaper"
      BY <2>7 DEF InstallRoutes, ExitScript
    <3>2. \A v \in WAN : Usable(v)' <=> Usable(v)
      BY <2>3 DEF Usable
    <3>3. P \in WAN
      BY WanFacts DEF P
    <3>4. Usable(P)' <=> Usable(P)
      BY <2>3 DEF Usable, P
    <3>5. QED  BY <2>2, <2>7, <3>1, <3>2, <3>3, <3>4, BootInstall
               DEF BootTests, BootFindsInternet
  <2>8. CASE SetupShaper
    <3>1. bootPc = "shaper" /\ bootPc' = "done" /\ UNCHANGED <<link, lease, defaults>>
      BY <2>8 DEF SetupShaper, netVars, tableVars
    <3>2. Works(Active)' <=> Works(Active)
      BY <3>1 DEF Works, Active, BestDefault, GatewayAnswers, HasIp
    <3>3. Active' = Active /\ (Usable(P)' <=> Usable(P)) /\ \A v \in WAN : Usable(v)' <=> Usable(v)
      BY <3>1 DEF Active, BestDefault, Usable, P
    <3>4. QED
      BY <2>1, <2>2, <2>4, <3>1, <3>2, <3>3 DEF BootTests, BootFindsInternet
  <2>9. QED  BY <2>1, <2>5, <2>6, <2>7, <2>8 DEF BootStep
<1>3. CASE SwitchScriptStep
  BY <1>3 DEF SwitchScriptStep, SwitchScript, SwitchPing, SwitchReplace, BootInv, budgetVars
<1>4. CASE UserSwitch \/ NetworkStep
  <2>1. events \in Nat /\ switches \in Nat
    BY WanFailoverAssumption
  <2>2. QED  BY <1>4, <2>1 DEF UserSwitch, NetworkStep
<1>5. CASE UNCHANGED vars
  <2>1. UNCHANGED <<events, switches, swPc, pc, link, lease, defaults, hostRoute, bootPc, bootTarget, bootGateway,
                    internetOk>>
    BY <1>5 DEF vars, routingVars, monitorVars, swVars, bootVars, budgetVars
  <2>2. swPc = "idle" /\ BootTests /\ BootFindsInternet
    BY <2>1 DEF BootInv
  <2>3. BootTests'
    BY <2>1, <2>2 DEF BootTests, Tested, MonitorOf
  <2>4. BootFindsInternet'
    BY <2>1, <2>2 DEF BootFindsInternet, Usable, Works, Active, BestDefault,
       GatewayAnswers, HasIp
  <2>5. QED  BY <2>1, <2>2, <2>3, <2>4
<1>6. QED  BY <1>1, <1>2, <1>3, <1>4, <1>5 DEF Next

\* With both leases and nothing changing while it runs, setup_default_route.sh
\* leaves a default that works if any uplink does, over the primary if that one
\* works.
THEOREM BootFindsTheInternet == Spec => []BootFindsInternet
<1>1. TypedApart /\ BootInv => BootFindsInternet
  BY DEF BootInv, BootFindsInternet
<1>2. QED  BY <1>1, TypedInit, TypedStep, BootInit, BootInvStep, PTL DEF Spec

(***************************************************************************)
(* Where the monitor moves the default in a pass that nobody disturbs.     *)
(***************************************************************************)

\* The gateways are those of the leases, as far as these are known.
Known == \A w \in WAN : HasIp(w) /\ lease[w] # NONE => gateway[w] = lease[w]

\* A working primary is tested by its own route.
PrimaryRouted == Usable(P) => Lookup(hostRoute, defaults, PM) = R(lease[P], P)

\* The stages from the refresh to the test of the primary.
BeforeTest ==
    \/ pc \in {"monitorRoutes", "checkDefault", "recheck", "sync", "clean", "primaryPing"}
    \/ pc \in InitStages \cup ResetStages /\ ret \in {"recheck", "clean"}

\* The default is missing, so the host route is there.
Restoring == pc = "recheck" \/ (pc \in InitStages \cup ResetStages /\ ret = "recheck")

\* The default is being cleaned: the route of the primary may have been removed
\* for that of the secondary, which is then taken for the one in use.
Cleaning == pc \in {"clean", "primaryPing"} \/ (pc \in ResetStages /\ ret = "clean")

\* The default is about to be moved to target.
Moving == pc \in {"switchTest", "switchApply"} \/ (pc \in ResetStages /\ ret # "clean")

\* What initialize_routing has found out.
Searching ==
    /\ pc \in {"initGateway", "initInternet"} /\ target # P => ~Usable(P)
    /\ pc = "initInternet" /\ Usable(target) => PingVia(MonitorOf(target), target)
    /\ pc \in {"fallbackTest", "fallbackApply"} => \A w \in WAN : ~Usable(w)

MoveInv == undisturbed =>
    /\ Known
    /\ BeforeTest => (Usable(P) => primaryOk)
    /\ pc \in {"checkDefault", "sync"} => PrimaryRouted
    /\ Restoring => (Usable(P) => hostRoute[PM] = R(lease[P], P))
    /\ Cleaning /\ current_interface # S => PrimaryRouted
    /\ pc \in ResetStages /\ ret = "clean" => target = current_interface
    /\ pc = "failoverCheck" => ~Usable(P)
    /\ Searching
    /\ Moving => Best(target)

\* A route that works leads over an uplink that works, by its present gateway.
LEMMA WorksMeansUsable ==
    ASSUME NEW r \in Route, Works(r)
    PROVE  Usable(r.dev) /\ r = R(lease[r.dev], r.dev)
BY DEF Works, GatewayAnswers, HasIp, Usable, Route, R

\* The route over an uplink that works, by its present gateway, works.
LEMMA UsableRouteWorks ==
    ASSUME NEW w, Usable(w), lease \in GatewayMap
    PROVE  /\ Works(R(lease[w], w)) /\ R(lease[w], w) \in Route /\ R(lease[w], w) # NONE
           /\ HasIp(w) /\ lease[w] \in Gateway
           /\ GatewayAnswers(lease[w], w)
<1>1. w \in WAN /\ lease[w] \in Gateway /\ link[w] = "up"
  BY DEF Usable, GatewayMap
<1>2. HasIp(w) /\ GatewayAnswers(lease[w], w)
  BY <1>1, RoutingAssumption DEF HasIp, GatewayAnswers
<1>3. QED  BY <1>1, <1>2, RouteType DEF Works

\* Once a gateway is known an uplink that works is ready.
LEMMA UsableIsReady ==
    ASSUME Known, lease \in GatewayMap, NEW w, Usable(w)
    PROVE  GatewayReady(w) /\ gateway[w] = lease[w] /\ lease[w] \in Gateway
<1>1. w \in WAN /\ HasIp(w) /\ GatewayAnswers(lease[w], w) /\ lease[w] \in Gateway
  BY UsableRouteWorks DEF Usable
<1>2. gateway[w] = lease[w]
  BY <1>1, RoutingAssumption DEF Known
<1>3. QED  BY <1>1, <1>2, RoutingAssumption DEF GatewayReady

\* ensure_monitoring_route leaves the monitor with the route asked for.
LEMMA EnsureLookup ==
    ASSUME NEW h \in HostTable, NEW d \in Table, NEW m \in Monitor,
           NEW g \in Gateway, NEW w \in WAN, HasIp(w)
    PROVE  /\ Lookup(EnsureMonitoringRoute(h, d, m, g, w), d, m) = R(g, w)
           /\ LookupVia(EnsureMonitoringRoute(h, d, m, g, w), d, m, w) = R(g, w)
           /\ h[m] = R(g, w) => EnsureMonitoringRoute(h, d, m, g, w)[m] = R(g, w)
<1> DEFINE e == EnsureMonitoringRoute(h, d, m, g, w)
<1>1. R(g, w) # NONE /\ R(g, w).dev = w /\ g # NONE
  BY RouteType, RoutingAssumption
<1>2. CASE Lookup(h, d, m) = R(g, w)
  <2>1. e = h
    BY <1>2 DEF EnsureMonitoringRoute
  <2>2. h[m] = R(g, w) \/ (h[m] = NONE /\ BestDefault(d) = R(g, w))
    BY <1>2 DEF Lookup
  <2>3. LookupVia(h, d, m, w) = R(g, w)
    BY <1>1, <2>2 DEF LookupVia, BestDefault
  <2>4. QED  BY <1>2, <2>1, <2>3
<1>3. CASE Lookup(h, d, m) # R(g, w)
  <2>1. e = [h EXCEPT ![m] = R(g, w)]
    BY <1>1, <1>3 DEF EnsureMonitoringRoute
  <2>2. e[m] = R(g, w)
    BY <2>1 DEF HostTable
  <2>3. QED  BY <1>1, <2>2 DEF Lookup, LookupVia
<1>4. QED  BY <1>2, <1>3

\* Where the kernel takes it, a switch or a reset leaves just the default asked for.
LEMMA InstallExact ==
    ASSUME RoutingTypeOK, CheckConnTypeOK, NEW w \in WAN, gateway[w] # NONE,
           NEW b \in BOOLEAN, InstallDefault(w, b), Accepts(w)
    PROVE  /\ current_interface' = w
           /\ BestDefault(defaults') = R(gateway[w], w)
<1> DEFINE d == ReplaceDefault(defaults, gateway[w], w)
<1>1. /\ defaults \in Table /\ gateway \in GatewayMap /\ gateway[w] \in Gateway
  BY DEF RoutingTypeOK, CheckConnTypeOK, Table, GatewayMap
<1>2. d \in Table /\ d[0] = R(gateway[w], w)
  BY <1>1, ReplaceType
<1>3. current_interface' = w /\ defaults' = CleanDefaultRoutes(d, w, gateway)
  BY DEF InstallDefault
<1>4. defaults'[0] = R(gateway[w], w)
  BY <1>1, <1>2, <1>3, CleanResult
<1>5. QED  BY <1>1, <1>3, <1>4, RouteType DEF BestDefault

\* A monitor that answers over an uplink shows that the uplink works.
LEMMA PingViaUsable ==
    ASSUME NEW m \in Monitor, NEW w \in WAN, PingVia(m, w),
           defaults \in Table, hostRoute \in HostTable
    PROVE  Usable(w)
<1> DEFINE r == LookupVia(hostRoute, defaults, m, w)
<1>1. Works(r) /\ r # NONE
  BY DEF PingVia, Works
<1>2. r \in Route /\ r.dev = w
  BY <1>1 DEF LookupVia, Table, HostTable, Metric
<1>3. QED  BY <1>1, <1>2, WorksMeansUsable

\* initialize_routing goes on when an uplink does not work.
LEMMA NextWanSearch ==
    ASSUME TryNextWan, UNCHANGED <<link, lease>>, target \in WAN, ~Usable(target),
           target # P => ~Usable(P)
    PROVE  Searching'
<1>1. \A w \in WAN : w = P \/ (HasSecondary /\ w = S)
  BY WanFacts DEF P, S
<1>2. \A w : Usable(w)' <=> Usable(w)
  BY DEF Usable
<1>3. CASE target = P /\ HasSecondary
  <2>1. pc' = "initGateway"
    BY <1>3 DEF TryNextWan, Goto, P
  <2>2. QED  BY <1>2, <1>3, <2>1 DEF Searching
<1>4. CASE ~(target = P /\ HasSecondary)
  <2>1. pc' = "fallbackTest"
    BY <1>4 DEF TryNextWan, Goto, P
  <2>2. \A w \in WAN : ~Usable(w)
    BY <1>1, <1>4
  <2>3. QED  BY <1>2, <2>1, <2>2 DEF Searching
<1>5. QED  BY <1>3, <1>4

\* What an undisturbed pass knows survives every step of the monitor.
LEMMA MoveMonitorStep ==
    ASSUME TypedApart, BeliefInv, MoveInv, MonitorStep
    PROVE  MoveInv'
<1> SUFFICES ASSUME undisturbed' PROVE MoveInv'
  BY DEF MoveInv
<1> USE DEF Goto, InitStages, ResetStages
<1>t. /\ RoutingTypeOK /\ CheckConnTypeOK /\ MonitorControl /\ MonitorRoutesApart
      /\ defaults \in Table /\ hostRoute \in HostTable /\ gateway \in GatewayMap
      /\ lease \in GatewayMap /\ target \in WAN /\ ret \in Ret
      /\ current_interface \in WAN \cup {NONE}
  BY DEF TypedApart, Typed, TypeOK, RoutingTypeOK, CheckConnTypeOK, Table, HostTable,
     GatewayMap
<1>w. /\ P \in WAN /\ \A w \in WAN : w = P \/ (HasSecondary /\ w = S)
      /\ P # S /\ P # NONE
  BY WanFacts DEF P, S
<1>m. PM \in Monitor /\ SM \in Monitor /\ PM # SM
  BY DEF PM, SM, Monitor
<1>u. pc # "refresh" => undisturbed
  BY DEF MonitorStep
<1>i. pc # "refresh" => /\ Known
                        /\ BeforeTest => (Usable(P) => primaryOk)
                        /\ pc \in {"checkDefault", "sync"} => PrimaryRouted
                        /\ Restoring => (Usable(P) => hostRoute[PM] = R(lease[P], P))
                        /\ Cleaning /\ current_interface # S => PrimaryRouted
                        /\ pc \in ResetStages /\ ret = "clean" => target = current_interface
                        /\ pc = "failoverCheck" => ~Usable(P)
                        /\ Searching
                        /\ Moving => Best(target)
  BY <1>u DEF MoveInv
<1>n. UNCHANGED <<link, lease>>
  BY DEF MonitorStep, CheckConnStep, Start, InitClean, InitGateway, InitInternet,
     FallbackTest, FallbackApply, ResetTest, ResetApply, Refresh,
     EnsureCriticalWanMonitorRoutes, CheckDefault, Recheck, Sync, Clean, PrimaryPing,
     FailoverCheck, SecondaryCheck, FailbackGateway, FailbackInternet, SwitchTest,
     SwitchApply, Final, netVars, routingVars
<1>a. /\ Usable(P)' <=> Usable(P)
      /\ \A w \in WAN : Usable(w)' <=> Usable(w)
      /\ ~Usable(P)' <=> ~Usable(P)
      /\ (\A w \in WAN : ~Usable(w))' <=> \A w \in WAN : ~Usable(w)
  BY <1>n DEF Usable
<1>b. UNCHANGED target => (Best(target)' <=> Best(target))
  BY <1>n DEF Best, Usable
<1>r. UNCHANGED <<hostRoute, defaults>> => (PrimaryRouted' <=> PrimaryRouted)
  BY <1>n DEF PrimaryRouted, Usable, Lookup, BestDefault, R
<1>k. pc # "refresh" /\ UNCHANGED gateway => Known'
  BY <1>i, <1>n DEF Known, HasIp
<1>1. CASE Start
  <2>1. pc' = "initClean" /\ ret' = "refresh" /\ gateway' = [w \in WAN |-> GetGateway(w)]
    BY <1>1 DEF Start, InitializeRouting
  <2>2. Known'
    BY <1>n, <2>1 DEF Known, GetGateway, HasIp
  <2>3. QED
    BY <2>1, <2>2 DEF MoveInv, BeforeTest, Restoring, Cleaning, Searching, Moving
<1>2. CASE Refresh
  <2>1. /\ pc' = "monitorRoutes"
        /\ gateway' = [w \in WAN |-> IF GetGateway(w) # NONE \/ ~HasIp(w)
                                    THEN GetGateway(w) ELSE gateway[w]]
        /\ primaryOk' = (HasIp(P) /\ gateway'[P] # NONE)
    BY <1>2 DEF Refresh, P
  <2>2. \A w \in WAN : HasIp(w) /\ lease[w] # NONE => gateway'[w] = lease[w]
    BY <2>1 DEF GetGateway
  <2>3. Known'
    BY <1>n, <2>2 DEF Known, HasIp
  <2>4. Usable(P) => HasIp(P) /\ lease[P] # NONE
    BY <1>t, UsableRouteWorks DEF Usable
  <2>5. Usable(P) => primaryOk'
    BY <1>w, <2>1, <2>2, <2>4
  <2>6. QED
    BY <1>a, <2>1, <2>3, <2>5 DEF MoveInv, BeforeTest, Restoring, Cleaning, Searching, Moving
<1>3. CASE EnsureCriticalWanMonitorRoutes
  <2> DEFINE h == EnsureMonitoringRoute(hostRoute, defaults, PM, gateway[P], P)
  <2>1. /\ pc = "monitorRoutes" /\ pc' = "checkDefault"
        /\ UNCHANGED <<defaults, gateway, primaryOk>>
        /\ hostRoute' = IF HasSecondary
                         THEN EnsureMonitoringRoute(h, defaults, SM, gateway[S], S) ELSE h
    BY <1>3 DEF EnsureCriticalWanMonitorRoutes, P, S
  <2>2. gateway[P] \in Gateway \cup {NONE} /\ h \in HostTable
    BY <1>t, <1>w, <1>m, EnsureType DEF GatewayMap
  <2>3. hostRoute'[PM] = h[PM]
    BY <1>m, <2>1, <2>2, EnsureFrame
  <2>4. ASSUME Usable(P) PROVE Lookup(hostRoute', defaults', PM) = R(lease[P], P)
    <3>1. gateway[P] = lease[P] /\ lease[P] \in Gateway /\ HasIp(P)
      BY <1>i, <1>t, <2>1, <2>4, UsableIsReady DEF GatewayReady
    <3>2. Lookup(h, defaults, PM) = R(lease[P], P)
      BY <1>t, <1>w, <1>m, <3>1, EnsureLookup
    <3>3. QED  BY <2>1, <2>3, <3>2 DEF Lookup
  <2>5. PrimaryRouted'
    BY <1>a, <1>n, <2>4 DEF PrimaryRouted
  <2>6. Usable(P) => primaryOk'
    BY <1>i, <2>1 DEF BeforeTest
  <2>7. QED
    BY <1>a, <1>k, <2>1, <2>5, <2>6 DEF MoveInv, BeforeTest, Restoring, Cleaning,
       Searching, Moving
<1>4. CASE CheckDefault
  <2>1. /\ pc = "checkDefault" /\ UNCHANGED <<defaults, hostRoute, gateway, primaryOk>>
        /\ IF DefaultRouteExists THEN pc' = "sync"
           ELSE pc' = "initClean" /\ ret' = "recheck"
    BY <1>4 DEF CheckDefault, InitializeRouting, routingVars
  <2>2. PrimaryRouted /\ (Usable(P) => primaryOk)
    BY <1>i, <2>1 DEF BeforeTest
  <2>3. CASE DefaultRouteExists
    BY <1>a, <1>k, <1>r, <2>1, <2>2, <2>3 DEF MoveInv, BeforeTest, Restoring, Cleaning,
       Searching, Moving
  <2>4. CASE ~DefaultRouteExists
    <3>1. BestDefault(defaults) = NONE
      BY <2>4 DEF DefaultRouteExists, BestDefault, Metric
    <3>2. Usable(P) => hostRoute[PM] = R(lease[P], P)
      BY <1>t, <2>2, <3>1, UsableRouteWorks DEF PrimaryRouted, Lookup
    <3>3. QED
      BY <1>a, <1>k, <1>n, <2>1, <2>2, <2>4, <3>2 DEF MoveInv, BeforeTest, Restoring,
         Cleaning, Searching, Moving
  <2>5. QED  BY <2>3, <2>4
<1>5. CASE Recheck
  <2>1. /\ pc = "recheck" /\ pc' \in {"sync", "refresh"}
        /\ UNCHANGED <<defaults, hostRoute, gateway, primaryOk>>
    BY <1>5 DEF Recheck, routingVars
  <2>2. /\ Usable(P) => primaryOk
        /\ Usable(P) => hostRoute[PM] = R(lease[P], P)
    BY <1>i, <2>1 DEF BeforeTest, Restoring
  <2>3. PrimaryRouted
    BY <1>t, <2>2, UsableRouteWorks DEF PrimaryRouted, Lookup
  <2>4. QED
    BY <1>a, <1>k, <1>r, <2>1, <2>2, <2>3 DEF MoveInv, BeforeTest, Restoring, Cleaning,
       Searching, Moving
<1>6. CASE Sync
  <2>1. /\ pc = "sync" /\ UNCHANGED <<defaults, hostRoute, gateway, primaryOk>>
        /\ pc' = "clean" \/ (pc' = "resetTest" /\ ret' = "clean" /\ target' = current_interface')
    BY <1>6 DEF Sync, routingVars
  <2>2. PrimaryRouted /\ (Usable(P) => primaryOk)
    BY <1>i, <2>1 DEF BeforeTest
  <2>3. QED
    BY <1>a, <1>k, <1>r, <2>1, <2>2 DEF MoveInv, BeforeTest, Restoring, Cleaning,
       Searching, Moving
<1>7. CASE Clean
  <2>1. /\ pc = "clean" /\ pc' = "primaryPing"
        /\ UNCHANGED <<gateway, primaryOk, current_interface>>
        /\ defaults' = CleanDefaultRoutes(defaults, current_interface, gateway)
        /\ hostRoute' = EnsureAdditional(hostRoute, defaults', current_interface)
    BY <1>7 DEF Clean
  <2>2. defaults' \in Table
    BY <1>t, <2>1, CleanType
  <2>3. hostRoute'[PM] = hostRoute[PM]
    BY <1>t, <2>1, <2>2, AdditionalType
  <2>4. Usable(P) => primaryOk
    BY <1>i, <2>1 DEF BeforeTest
  <2>5. ASSUME Usable(P), current_interface # S
        PROVE  Lookup(hostRoute', defaults', PM) = R(lease[P], P)
    <3>1. Lookup(hostRoute, defaults, PM) = R(lease[P], P)
      BY <1>i, <2>1, <2>5 DEF Cleaning, PrimaryRouted
    <3>2. R(lease[P], P) # NONE /\ R(lease[P], P).dev = P /\ lease[P] # NONE
      BY <1>t, <2>5, UsableRouteWorks DEF R, Usable
    <3>3. CASE hostRoute[PM] # NONE
      BY <2>3, <3>1, <3>3 DEF Lookup
    <3>4. CASE hostRoute[PM] = NONE
      <4>1. Active = R(lease[P], P)
        BY <3>1, <3>4 DEF Lookup, Active
      <4>2. Cleanable
        BY <1>u, <2>1 DEF BeliefInv
      <4>3. current_interface = P
        BY <1>t, <1>w, <2>5, <3>2, <4>1, <4>2 DEF Cleanable
      <4>4. gateway[P] = lease[P]
        BY <1>i, <1>t, <2>1, <2>5, UsableIsReady
      <4>5. BestDefault(defaults') = R(lease[P], P)
        <5>1. CASE defaults[0] = NONE
          <6>1. defaults' = defaults
            BY <2>1, <5>1 DEF CleanDefaultRoutes, Metric
          <6>2. QED  BY <4>1, <6>1 DEF Active
        <5>2. CASE defaults[0] # NONE
          <6>1. defaults[0] = R(gateway[P], P)
            BY <4>1, <4>4, <5>2 DEF Active, BestDefault
          <6>2. defaults'[0] = R(gateway[P], P)
            BY <1>t, <1>w, <2>1, <3>2, <4>3, <4>4, <6>1, CleanResult
          <6>3. QED  BY <3>2, <4>4, <6>2 DEF BestDefault
        <5>3. QED  BY <5>1, <5>2
      <4>6. QED  BY <2>3, <3>4, <4>5 DEF Lookup
    <3>5. QED  BY <3>3, <3>4
  <2>6. current_interface' # S => PrimaryRouted'
    BY <1>a, <1>n, <2>1, <2>5 DEF PrimaryRouted
  <2>7. QED
    BY <1>a, <1>k, <2>1, <2>4, <2>6 DEF MoveInv, BeforeTest, Restoring, Cleaning,
       Searching, Moving
<1>8. CASE PrimaryPing
  <2>1. /\ pc = "primaryPing" /\ UNCHANGED <<gateway, current_interface>>
        /\ primaryOk' = (primaryOk /\ Ping(PM))
        /\ IF primaryOk' THEN PrimaryHealthy ELSE PrimaryDown
    BY <1>8 DEF PrimaryPing
  <2>2. pc' \in {"secondaryCheck", "failoverCheck", "final", "failbackGateway"}
    BY <2>1 DEF PrimaryHealthy, PrimaryDown
  <2>3. pc' = "failoverCheck" => ~primaryOk' /\ current_interface # S
    BY <2>1 DEF PrimaryHealthy, PrimaryDown, S
  <2>4. ASSUME Usable(P), current_interface # S PROVE primaryOk'
    <3>1. Lookup(hostRoute, defaults, PM) = R(lease[P], P) /\ primaryOk
      BY <1>i, <2>1, <2>4 DEF Cleaning, PrimaryRouted, BeforeTest
    <3>2. Ping(PM)
      BY <1>t, <2>4, <3>1, UsableRouteWorks DEF Ping
    <3>3. QED  BY <2>1, <3>1, <3>2
  <2>5. pc' = "failoverCheck" => ~Usable(P)
    BY <2>3, <2>4
  <2>6. QED
    BY <1>a, <1>k, <2>1, <2>2, <2>5 DEF MoveInv, BeforeTest, Restoring, Cleaning,
       Searching, Moving
<1>9. CASE FailoverCheck
  <2>1. /\ pc = "failoverCheck" /\ target' = S /\ UNCHANGED gateway
        /\ pc' \in {"switchTest", "final"}
        /\ pc' = "switchTest" => HasIp(S) /\ Ping(SM)
    BY <1>9 DEF FailoverCheck, S
  <2>2. ~Usable(P)
    BY <1>i, <2>1
  <2>3. ASSUME Ping(SM) PROVE Usable(S)
    <3> DEFINE r == Lookup(hostRoute, defaults, SM)
    <3>1. Works(r) /\ r \in Route
      BY <1>t, <1>m, <2>3 DEF Ping, Works, Lookup, BestDefault, Table, HostTable, Metric
    <3>2. Usable(r.dev)
      BY <3>1, WorksMeansUsable
    <3>3. r.dev \in WAN
      BY <3>1 DEF Route
    <3>4. QED  BY <1>w, <2>2, <3>2, <3>3
  <2>4. pc' = "switchTest" => Best(target)'
    BY <1>a, <1>n, <2>1, <2>2, <2>3 DEF Best, Usable
  <2>5. QED
    BY <1>a, <1>k, <2>1, <2>4 DEF MoveInv, BeforeTest, Restoring, Cleaning,
       Searching, Moving
<1>10. CASE SecondaryCheck
  <2>1. /\ pc = "secondaryCheck" /\ UNCHANGED gateway
        /\ pc' = "final" \/ (pc' = "initClean" /\ ret' = "final")
    BY <1>10 DEF SecondaryCheck, InitializeRouting
  <2>2. QED
    BY <1>k, <2>1 DEF MoveInv, BeforeTest, Restoring, Cleaning,
       Searching, Moving
<1>11. CASE FailbackGateway
  <2>1. pc = "failbackGateway" /\ UNCHANGED gateway /\ pc' \in {"failbackInternet", "final"}
    BY <1>11 DEF FailbackGateway
  <2>2. QED
    BY <1>k, <2>1 DEF MoveInv, BeforeTest, Restoring, Cleaning,
       Searching, Moving
<1>12. CASE FailbackInternet
  <2>1. /\ pc = "failbackInternet" /\ target' = P /\ UNCHANGED gateway
        /\ pc' \in {"switchTest", "final"}
        /\ pc' = "switchTest" => PingVia(PM, P)
    BY <1>12 DEF FailbackInternet, P
  <2>2. PingVia(PM, P) => Usable(P)
    BY <1>t, <1>m, <1>w, PingViaUsable
  <2>3. pc' = "switchTest" => Best(target)'
    BY <1>a, <1>n, <2>1, <2>2 DEF Best, Usable
  <2>4. QED
    BY <1>a, <1>k, <2>1, <2>3 DEF MoveInv, BeforeTest, Restoring, Cleaning,
       Searching, Moving
<1>13. CASE SwitchTest \/ SwitchApply
  <2>1. /\ pc \in {"switchTest", "switchApply"} /\ pc' \in {"switchApply", "final"}
        /\ UNCHANGED <<gateway, target>>
    BY <1>13 DEF SwitchTest, SwitchApply
  <2>2. Best(target)
    BY <1>i, <2>1 DEF Moving
  <2>3. QED
    BY <1>a, <1>b, <1>k, <2>1, <2>2 DEF MoveInv, BeforeTest, Restoring, Cleaning,
       Searching, Moving
<1>14. CASE ResetTest
  <2>1. /\ pc = "resetTest" /\ pc' \in {"resetApply", ret}
        /\ UNCHANGED <<gateway, target, ret, defaults, hostRoute, current_interface, primaryOk>>
        /\ hostRoute'[PM] = hostRoute[PM]
    BY <1>14 DEF ResetTest, routingVars
  <2>2. QED
    BY <1>a, <1>b, <1>i, <1>k, <1>n, <1>r, <1>t, <2>1 DEF MoveInv, BeforeTest, Restoring,
       Cleaning, Searching, Moving, Ret
<1>15. CASE ResetApply
  <2>1. /\ pc = "resetApply" /\ pc' = ret /\ UNCHANGED <<gateway, target, ret, primaryOk>>
        /\ \E b \in BOOLEAN : InstallDefault(target, b)
        /\ UNCHANGED netVars
    BY <1>15 DEF ResetApply
  <2>2. gateway[target] # NONE
    BY <1>t, <2>1 DEF MonitorControl
  <2>3. hostRoute'[PM] = hostRoute[PM]
    BY <1>t, <2>1, <2>2, InstallType
  <2>4. BeforeTest' => (Usable(P)' => primaryOk')
    BY <1>a, <1>i, <1>t, <2>1 DEF BeforeTest, Ret
  <2>5. Restoring' => (Usable(P)' => hostRoute'[PM] = R(lease'[P], P))
    BY <1>a, <1>i, <1>n, <1>t, <2>1, <2>3 DEF Restoring, Ret
  <2>6. ASSUME ret = "clean", Usable(P), current_interface' # S
        PROVE  Lookup(hostRoute', defaults', PM) = R(lease[P], P)
    <3>1. CASE Accepts(target)
      <4>1. current_interface' = target /\ BestDefault(defaults') = R(gateway[target], target)
        BY <1>t, <2>1, <2>2, <3>1, InstallExact
      <4>2. target = P
        BY <1>t, <1>w, <2>6, <4>1
      <4>3. gateway[P] = lease[P]
        BY <1>i, <1>t, <2>1, <2>6, UsableIsReady
      <4>4. hostRoute[PM] # NONE => hostRoute[PM] = R(lease[P], P)
        BY <1>i, <1>w, <2>1, <2>6, <4>2 DEF Cleaning, PrimaryRouted, Lookup
      <4>5. QED  BY <2>3, <4>1, <4>2, <4>3, <4>4 DEF Lookup
    <3>2. CASE ~Accepts(target)
      <4>1. UNCHANGED <<current_interface, defaults>>
        BY <2>1, <3>2 DEF InstallDefault, tableVars
      <4>2. PrimaryRouted
        BY <1>i, <2>1, <2>6, <4>1 DEF Cleaning
      <4>3. QED  BY <2>3, <2>6, <4>1, <4>2 DEF PrimaryRouted, Lookup
    <3>3. QED  BY <3>1, <3>2
  <2>7. Cleaning' /\ current_interface' # S => PrimaryRouted'
    <3>1. Cleaning' => ret = "clean"
      BY <1>t, <2>1 DEF Cleaning, Ret
    <3>2. QED  BY <1>a, <1>n, <2>6, <3>1 DEF PrimaryRouted
  <2>8. QED
    BY <1>a, <1>k, <1>t, <2>1, <2>4, <2>5, <2>7 DEF MoveInv, Searching, Moving, Ret
<1>16. CASE InitClean
  <2>1. /\ pc = "initClean" /\ pc' = "initGateway" /\ target' = P
        /\ UNCHANGED <<gateway, ret, hostRoute, primaryOk>>
    BY <1>16 DEF InitClean, P
  <2>2. ret # "clean"
    BY <1>t, <2>1 DEF MonitorControl
  <2>3. QED
    BY <1>a, <1>i, <1>k, <1>n, <2>1, <2>2 DEF MoveInv, BeforeTest, Restoring, Cleaning,
       Searching, Moving
<1>17. CASE InitGateway
  <2>1. /\ pc = "initGateway" /\ UNCHANGED <<gateway, ret, defaults, primaryOk>>
        /\ pc' \in {"initInternet", "initGateway", "fallbackTest"}
    BY <1>17 DEF InitGateway, TryNextWan
  <2>2. ret # "clean" /\ (target # P => ~Usable(P))
    BY <1>i, <1>t, <2>1 DEF MonitorControl, Searching
  <2>3. BeforeTest' => (Usable(P)' => primaryOk')
    BY <1>a, <1>i, <2>1, <2>2 DEF BeforeTest
  <2>4. CASE GatewayReady(target)
    <3>1. /\ pc' = "initInternet" /\ UNCHANGED target
          /\ hostRoute' = EnsureMonitoringRoute(hostRoute, defaults, MonitorOf(target),
                                                gateway[target], target)
      BY <1>17, <2>4 DEF InitGateway
    <3>2. gateway[target] \in Gateway /\ HasIp(target)
      BY <1>t, <2>4, ReadyFacts
    <3>3. MonitorOf(target) \in Monitor /\ (target # P => MonitorOf(target) = SM)
          /\ MonitorOf(P) = PM
      BY <1>m DEF MonitorOf, P
    <3>4. LookupVia(hostRoute', defaults, MonitorOf(target), target) = R(gateway[target], target)
      BY <1>t, <3>1, <3>2, <3>3, EnsureLookup
    <3>5. ASSUME Usable(target) PROVE PingVia(MonitorOf(target), target)'
      <4>1. gateway[target] = lease[target] /\ Works(R(lease[target], target))
        BY <1>i, <1>t, <2>1, <3>5, UsableIsReady, UsableRouteWorks
      <4>2. Works(R(lease[target], target))'
        BY <1>n, <3>1, <4>1 DEF Works, GatewayAnswers, HasIp, R
      <4>3. LookupVia(hostRoute, defaults, MonitorOf(target), target)' = R(lease[target], target)'
        BY <1>n, <2>1, <3>1, <3>4, <4>1
      <4>4. HasIp(target)'
        BY <1>n, <3>1, <3>2 DEF HasIp
      <4>5. QED  BY <4>2, <4>3, <4>4 DEF PingVia
    <3>6. Usable(target)' => PingVia(MonitorOf(target), target)'
      BY <1>n, <3>1, <3>5 DEF Usable
    <3>7. ASSUME Restoring', Usable(P) PROVE hostRoute'[PM] = R(lease[P], P)
      <4>1. hostRoute[PM] = R(lease[P], P)
        BY <1>i, <2>1, <3>1, <3>7 DEF Restoring
      <4>2. CASE target = P
        <5>1. gateway[P] = lease[P]
          BY <1>i, <1>t, <2>1, <3>7, UsableIsReady
        <5>2. QED  BY <1>t, <1>m, <3>1, <3>2, <3>3, <4>1, <4>2, <5>1, EnsureLookup
      <4>3. CASE target # P
        BY <1>t, <1>m, <3>1, <3>3, <4>1, <4>3, EnsureFrame
      <4>4. QED  BY <4>2, <4>3
    <3>8. Searching'
      BY <1>a, <2>2, <3>1, <3>6 DEF Searching
    <3>9. QED
      BY <1>a, <1>k, <1>n, <2>1, <2>2, <2>3, <3>1, <3>7, <3>8 DEF MoveInv, Cleaning, Moving
  <2>5. CASE ~GatewayReady(target)
    <3>1. TryNextWan /\ UNCHANGED hostRoute
      BY <1>17, <2>5 DEF InitGateway
    <3>2. ~Usable(target)
      BY <1>i, <1>t, <2>1, <2>5, UsableIsReady
    <3>3. Searching'
      BY <1>n, <1>t, <2>2, <3>1, <3>2, NextWanSearch
    <3>4. Restoring' => Restoring
      BY <2>1 DEF Restoring
    <3>5. QED
      BY <1>a, <1>i, <1>k, <1>n, <2>1, <2>2, <2>3, <3>1, <3>3, <3>4
         DEF MoveInv, Cleaning, Moving
  <2>6. QED  BY <2>4, <2>5
<1>18. CASE InitInternet
  <2>1. /\ pc = "initInternet" /\ UNCHANGED <<gateway, ret, defaults, hostRoute, primaryOk>>
        /\ pc' \in {"resetTest", "initGateway", "fallbackTest"}
    BY <1>18 DEF InitInternet, TryNextWan, routingVars
  <2>2. ret # "clean" /\ (target # P => ~Usable(P))
    BY <1>i, <1>t, <2>1 DEF MonitorControl, Searching
  <2>3. BeforeTest' => (Usable(P)' => primaryOk')
    BY <1>a, <1>i, <2>1, <2>2 DEF BeforeTest
  <2>4. Restoring' => (Usable(P)' => hostRoute'[PM] = R(lease'[P], P))
    BY <1>a, <1>i, <1>n, <2>1 DEF Restoring
  <2>5. CASE PingVia(MonitorOf(target), target)
    <3>1. pc' = "resetTest" /\ UNCHANGED target
      BY <1>18, <2>5 DEF InitInternet
    <3>2. MonitorOf(target) \in Monitor
      BY <1>m DEF MonitorOf
    <3>3. Best(target)
      BY <1>t, <2>2, <2>5, <3>2, PingViaUsable DEF Best
    <3>4. QED
      BY <1>b, <1>k, <2>1, <2>2, <2>3, <2>4, <3>1, <3>3 DEF MoveInv, Cleaning, Searching, Moving
  <2>6. CASE ~PingVia(MonitorOf(target), target)
    <3>1. TryNextWan /\ pc' # "resetTest"
      BY <1>18, <2>6 DEF InitInternet, TryNextWan
    <3>2. ~Usable(target)
      BY <1>i, <2>1, <2>6 DEF Searching
    <3>3. Searching'
      BY <1>n, <1>t, <2>2, <3>1, <3>2, NextWanSearch
    <3>4. QED
      BY <1>k, <2>1, <2>2, <2>3, <2>4, <3>1, <3>3 DEF MoveInv, Cleaning, Moving
  <2>7. QED  BY <2>5, <2>6
<1>19. CASE FallbackTest \/ FallbackApply
  <2>1. /\ pc \in {"fallbackTest", "fallbackApply"} /\ pc' \in {"fallbackApply", ret}
        /\ UNCHANGED <<gateway, ret, hostRoute, primaryOk>>
    BY <1>19 DEF FallbackTest, FallbackApply, routingVars
  <2>2. ret # "clean" /\ \A w \in WAN : ~Usable(w)
    BY <1>i, <1>t, <2>1 DEF MonitorControl, Searching
  <2>3. BeforeTest' => (Usable(P)' => primaryOk')
    BY <1>a, <1>w, <2>2
  <2>4. Searching'
    BY <1>a, <1>t, <2>1, <2>2 DEF Searching, Ret
  <2>5. QED
    BY <1>a, <1>k, <1>t, <1>w, <2>1, <2>2, <2>3, <2>4 DEF MoveInv, Restoring, Cleaning,
       Moving, Ret
<1>20. CASE Final
  <2>1. pc = "final" /\ pc' = "refresh" /\ UNCHANGED gateway
    BY <1>20 DEF Final
  <2>2. QED
    BY <1>k, <2>1 DEF MoveInv, BeforeTest, Restoring, Cleaning, Searching, Moving
<1>21. QED
  BY <1>1, <1>2, <1>3, <1>4, <1>5, <1>6, <1>7, <1>8, <1>9, <1>10, <1>11, <1>12, <1>13,
     <1>14, <1>15, <1>16, <1>17, <1>18, <1>19, <1>20 DEF MonitorStep, CheckConnStep

\* And every other step.
LEMMA MoveStep == TypedApart /\ BeliefInv /\ MoveInv /\ [Next]_vars => MoveInv'
<1> SUFFICES ASSUME TypedApart, BeliefInv, MoveInv, [Next]_vars PROVE MoveInv'
  OBVIOUS
<1>1. CASE MonitorStep
  BY <1>1, MoveMonitorStep
<1>2. CASE Boot
  <2>1. bootPc # "done" /\ UNCHANGED <<link, lease>>
    BY <1>2 DEF Boot, BootStep, ReadLeases, TestGateway, TestInternet, InstallRoutes,
       SetupShaper, netVars, routingVars
  <2>2. pc' \in {"wait", "start"} /\ UNCHANGED <<gateway, undisturbed>>
    BY <1>2, <2>1 DEF Boot, TypedApart, Typed, ScriptControl, historyVars
  <2>3. Known' <=> Known
    BY <2>1, <2>2 DEF Known, HasIp
  <2>4. QED
    BY <2>2, <2>3 DEF MoveInv, BeforeTest, Restoring, Cleaning, Searching, Moving,
       InitStages, ResetStages
<1>3. CASE SwitchScriptStep \/ NetworkStep
  BY <1>3 DEF SwitchScriptStep, NetworkStep, MoveInv
<1>4. CASE UserSwitch \/ UNCHANGED vars
  <2>1. UNCHANGED <<routingVars, monitorVars, undisturbed>>
    BY <1>4 DEF UserSwitch, SwitchRequest, vars, historyVars
  <2>2. QED
    BY <2>1 DEF MoveInv, Known, BeforeTest, PrimaryRouted, Restoring, Cleaning, Searching,
       Moving, Best, Usable, Lookup, LookupVia, BestDefault, PingVia, Works,
       GatewayAnswers, HasIp, MonitorOf, R, routingVars, monitorVars
<1>5. QED  BY <1>1, <1>2, <1>3, <1>4 DEF Next

\* The moves of an undisturbed pass go to the best uplink, by its present gateway.
LEMMA MoveIsRight ==
    ASSUME TypedApart, MoveInv, MonitorStep, undisturbed
    PROVE  /\ pc = "switchApply" \/ (pc = "resetApply" /\ ret # "clean") =>
                 Best(target) /\ Active' = R(lease[target], target)
           /\ pc = "fallbackApply" => \A w \in WAN : ~Usable(w)
<1>1. pc = "fallbackApply" => \A w \in WAN : ~Usable(w)
  BY DEF MoveInv, Searching
<1>2. ASSUME pc = "switchApply" \/ (pc = "resetApply" /\ ret # "clean")
      PROVE  Best(target) /\ Active' = R(lease[target], target)
  <2>1. Best(target) /\ Usable(target)
    BY <1>2 DEF MoveInv, Moving, ResetStages, Best
  <2>2. /\ RoutingTypeOK /\ CheckConnTypeOK /\ target \in WAN /\ lease \in GatewayMap
        /\ gateway[target] # NONE
    BY <1>2 DEF TypedApart, Typed, TypeOK, RoutingTypeOK, CheckConnTypeOK, GatewayMap,
       MonitorControl
  <2>3. gateway[target] = lease[target] /\ HasIp(target)
    BY <2>1, <2>2, UsableIsReady DEF MoveInv, GatewayReady
  <2>4. SwitchApply \/ ResetApply
    BY <1>2 DEF MonitorStep, CheckConnStep, Start, InitClean, InitGateway, InitInternet,
       FallbackTest, FallbackApply, ResetTest, Refresh, EnsureCriticalWanMonitorRoutes,
       CheckDefault, Recheck, Sync, Clean, PrimaryPing, FailoverCheck, SecondaryCheck,
       FailbackGateway, FailbackInternet, SwitchTest, Final
  <2>5. \E b \in BOOLEAN : InstallDefault(target, b)
    BY <2>4 DEF SwitchApply, ResetApply
  <2>6. BestDefault(defaults') = R(gateway[target], target)
    BY <2>2, <2>3, <2>5, InstallExact DEF Accepts
  <2>7. QED  BY <2>1, <2>3, <2>6 DEF Active
<1>3. QED  BY <1>1, <1>2

\* In a pass that nobody disturbs, the monitor moves the default only to the best
\* uplink, by its present gateway, and falls back on an uplink without internet
\* only when none has it.
THEOREM MovesAreToTheBestUplink == Spec => MovesToBestUplink
<1>1. Init => BeliefInv /\ MoveInv
  BY DEF Init, BeliefInv, MoveInv
<1>2. TypedApart /\ MoveInv /\ [Next]_vars =>
        [MonitorStep /\ undisturbed =>
          /\ pc = "switchApply" \/ (pc = "resetApply" /\ ret # "clean") =>
                Best(target) /\ Active' = R(lease[target], target)
          /\ pc = "fallbackApply" => \A w \in WAN : ~Usable(w)]_vars
  BY MoveIsRight
<1>3. QED
  BY <1>1, <1>2, TypedInit, TypedStep, BeliefStep, MoveStep, PTL DEF Spec, MovesToBestUplink
=============================================================================
