------------------------------ MODULE Routing ------------------------------
(***************************************************************************)
(* The state that every WAN script of DarkFlows reads and writes: the link *)
(* and the DHCP lease of each uplink, the main table of the kernel, and    *)
(* the ingress shaper.  The scripts reach all of it through `ip', `ping',  *)
(* `tc' and the lease files of dhclient; those tools are external, and are *)
(* modelled by what the scripts under src/bin see of them.                 *)
(***************************************************************************)
EXTENDS Naturals

CONSTANTS
    PRIMARY_INTERFACE,    \* the device name of the primary uplink
    SECONDARY_INTERFACE,  \* that of the secondary uplink, NONE if not configured
    NONE,                 \* the empty string of the scripts
    Gateway,              \* the router addresses
    Offered,              \* those the DHCP server of each uplink may hand out
    RouteText             \* the order in which `sort' puts lines of `ip route'

WAN == {PRIMARY_INTERFACE, SECONDARY_INTERFACE} \ {NONE}

R(g, w) == [gw |-> g, dev |-> w]

Route == [gw : Gateway, dev : WAN]

ASSUME RoutingAssumption ==
    /\ PRIMARY_INTERFACE # SECONDARY_INTERFACE
    /\ PRIMARY_INTERFACE # NONE
    /\ NONE \notin Gateway
    /\ NONE \notin Route
    /\ Offered \in [WAN -> SUBSET Gateway]
    /\ RouteText \in [Route -> Nat]

HasSecondary == SECONDARY_INTERFACE # NONE

\* PRIMARY_MONITOR, SECONDARY_MONITOR and ADDITIONAL_MONITOR of d_network.cfg:
\* three hosts on the internet, one to test each uplink, one to test the default.
PM == "PRIMARY_MONITOR"
SM == "SECONDARY_MONITOR"
AM == "ADDITIONAL_MONITOR"
Monitor == {PM, SM, AM}
MonitorOf(w) == IF w = PRIMARY_INTERFACE THEN PM ELSE SM

\* 0 is the metric of a route added without one.
Metric == {0, 200}

\* What an uplink can do: nothing at all, hold an address, reach its router,
\* reach the internet.
Link == {"noip", "nogw", "noinet", "up"}

VARIABLES
    link,       \* what each uplink can do
    lease,      \* the last `option routers' of each uplink's lease file
    defaults,   \* the default route of each metric
    hostRoute,  \* the host route of each monitor
    redirect,   \* the uplinks whose ingress is redirected to ifb0
    ifb         \* the uplink whose ingress rate the CAKE qdisc of ifb0 has

netVars == <<link, lease>>
tableVars == <<defaults, hostRoute>>
shaperVars == <<redirect, ifb>>
routingVars == <<link, lease, defaults, hostRoute, redirect, ifb>>

RoutingTypeOK ==
    /\ link \in [WAN -> Link]
    /\ lease \in [WAN -> Gateway \cup {NONE}]
    /\ defaults \in [Metric -> Route \cup {NONE}]
    /\ hostRoute \in [Monitor -> Route \cup {NONE}]
    /\ redirect \subseteq WAN
    /\ ifb \in WAN \cup {NONE}

(***************************************************************************)
(* Reading the state.                                                      *)
(***************************************************************************)

\* interface_has_ip
HasIp(w) == w \in WAN /\ link[w] # "noip"

\* get_gateway of check_conn.sh: nothing while the interface has no address.
GetGateway(w) == IF HasIp(w) THEN lease[w] ELSE NONE

DefaultRouteExists == \E m \in Metric : defaults[m] # NONE

\* The default the kernel forwards by: the lowest metric wins.
BestDefault(d) == IF d[0] # NONE THEN d[0] ELSE d[200]

\* `ip route get': the host route of the monitor if there is one.
Lookup(h, d, m) == IF h[m] # NONE THEN h[m] ELSE BestDefault(d)

\* The same lookup with the output device fixed, as `ping -I' makes it.
LookupVia(h, d, m, w) ==
    IF h[m] # NONE /\ h[m].dev = w THEN h[m]
    ELSE IF d[0] # NONE /\ d[0].dev = w THEN d[0]
    ELSE IF d[200] # NONE /\ d[200].dev = w THEN d[200]
    ELSE NONE

\* Does the router g answer a ping sent out of w?
GatewayAnswers(g, w) ==
    /\ HasIp(w)
    /\ g # NONE
    /\ lease[w] = g
    /\ link[w] \in {"noinet", "up"}

\* Does a packet that leaves by route r reach the internet and come back?
Works(r) == r # NONE /\ GatewayAnswers(r.gw, r.dev) /\ link[r.dev] = "up"

Ping(m) == Works(Lookup(hostRoute, defaults, m))

PingVia(m, w) == HasIp(w) /\ Works(LookupVia(hostRoute, defaults, m, w))

\* `sort -k8,8n | head -1' over the default routes.  The lines have no number
\* in field 8, so every key is 0 and sort falls back to the text of the line.
FirstInText(d) ==
    CASE d[0] = NONE   -> d[200]
      [] d[200] = NONE -> d[0]
      [] OTHER -> IF RouteText[d[0]] <= RouteText[d[200]] THEN d[0] ELSE d[200]

(***************************************************************************)
(* Writing it.                                                             *)
(***************************************************************************)

\* The kernel takes a route out of a device only while the device has an address.
Accepts(w) == HasIp(w)

\* ip route replace default via g dev w
ReplaceDefault(d, g, w) == [d EXCEPT ![0] = R(g, w)]

\* ip route add default via g dev w metric m: an existing route of the same
\* metric makes it fail.
AddDefault(d, g, w, m) ==
    IF Accepts(w) /\ d[m] = NONE THEN [d EXCEPT ![m] = R(g, w)] ELSE d

\* ip route add <monitor> via g dev w
AddHost(h, m, g, w) ==
    IF Accepts(w) /\ h[m] = NONE THEN [h EXCEPT ![m] = R(g, w)] ELSE h

\* ensure_monitoring_route: the test is on the lookup, so a default that
\* already leads the right way stands in for the host route.
EnsureMonitoringRoute(h, d, m, g, w) ==
    IF ~HasIp(w) \/ g = NONE \/ Lookup(h, d, m) = R(g, w)
    THEN h
    ELSE [h EXCEPT ![m] = R(g, w)]

(***************************************************************************)
(* The network: dhclient, the cable and the provider.                      *)
(***************************************************************************)

NoRoute(r, w) == IF r # NONE /\ r.dev = w THEN NONE ELSE r

\* The uplink loses its address: the kernel drops every route through it.
\* The lease file keeps its last entry.
LinkDown(w) ==
    /\ link[w] # "noip"
    /\ link' = [link EXCEPT ![w] = "noip"]
    /\ defaults' = [m \in Metric |-> NoRoute(defaults[m], w)]
    /\ hostRoute' = [m \in Monitor |-> NoRoute(hostRoute[m], w)]
    /\ UNCHANGED <<lease, shaperVars>>

\* The router or the provider behind an uplink with an address fails or recovers.
LinkChange(w, l) ==
    /\ link[w] # "noip"
    /\ l \notin {"noip", link[w]}
    /\ link' = [link EXCEPT ![w] = l]
    /\ UNCHANGED <<lease, tableVars, shaperVars>>

\* dhclient binds or renews a lease whose router is g; withDefault is whether
\* dhclient-script leaves the default route it adds with the metric of the
\* interface (ifupdown may remove it again).
DhcpBind(w, g, l, withDefault) ==
    /\ link[w] = "noip" \/ lease[w] # g
    /\ l # "noip"
    /\ g = NONE => l = "nogw" /\ ~withDefault
    /\ link' = [link EXCEPT ![w] = l]
    /\ lease' = [lease EXCEPT ![w] = g]
    /\ defaults' = IF withDefault /\ defaults[200] = NONE
                   THEN [defaults EXCEPT ![200] = R(g, w)]
                   ELSE defaults
    /\ UNCHANGED <<hostRoute, shaperVars>>

Network ==
    \E w \in WAN :
        \/ LinkDown(w)
        \/ \E l \in Link : LinkChange(w, l)
        \/ \E g \in Offered[w] \cup {NONE}, l \in Link, b \in BOOLEAN :
              DhcpBind(w, g, l, b)

RoutingInit ==
    /\ link \in [WAN -> Link]
    /\ lease \in [WAN -> Gateway \cup {NONE}]
    /\ \A w \in WAN : lease[w] \in Offered[w] \cup {NONE}
    /\ \A w \in WAN : lease[w] = NONE => link[w] \in {"noip", "nogw"}
    /\ defaults = [m \in Metric |-> NONE]
    /\ hostRoute = [m \in Monitor |-> NONE]
    /\ redirect = {}
    /\ ifb = NONE
=============================================================================
