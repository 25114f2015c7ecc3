--------------------------- MODULE SwitchGateway ---------------------------
(***************************************************************************)
(* src/bin/switch_gateway.sh, run by POST /api/switch-gateway when the     *)
(* user picks an uplink in the web interface.  The script knows nothing of *)
(* the monitor, and takes the primary for the interface in use.            *)
(***************************************************************************)
EXTENDS Routing

VARIABLES
    swPc,       \* the next stretch of the script, "idle" when it is not running
    swTarget,   \* the interface the user asked for
    swGateway,  \* the gateway read from its lease file
    reply,      \* the answer of the API to the last request
    switched    \* whether that request replaced the default route

swVars == <<swPc, swTarget, swGateway, reply, switched>>

SwitchTypeOK ==
    /\ swPc \in {"idle", "ping", "apply"}
    /\ swTarget \in WAN
    /\ swGateway \in Gateway \cup {NONE}
    /\ reply \in {"none", "switched", "failed"}
    /\ switched \in BOOLEAN

SwitchInit ==
    /\ swPc = "idle"
    /\ swTarget = PRIMARY_INTERFACE
    /\ swGateway = NONE
    /\ reply = "none"
    /\ switched = FALSE

\* validate_config wants both uplinks configured; get_gateway reads the lease
\* file of the target whether or not it has an address.  Either may exit 1.
SwitchRequest(w) ==
    /\ swPc = "idle"
    /\ swTarget' = w
    /\ swGateway' = lease[w]
    /\ switched' = FALSE
    /\ IF HasSecondary /\ lease[w] # NONE
       THEN swPc' = "ping" /\ reply' = "none"
       ELSE swPc' = "idle" /\ reply' = "failed"
    /\ UNCHANGED routingVars

\* The ping is not bound to the target: any uplink whose router has the
\* address will do.  When nobody answers the script still exits 0.
SwitchPing ==
    /\ swPc = "ping"
    /\ IF \E w \in WAN : GatewayAnswers(swGateway, w)
       THEN swPc' = "apply" /\ UNCHANGED reply
       ELSE swPc' = "idle" /\ reply' = "switched"
    /\ UNCHANGED <<routingVars, swTarget, swGateway, switched>>

\* update_ifb0, whose old interface is always the primary.
SwitchReshape ==
    /\ redirect' = (redirect \ {PRIMARY_INTERFACE}) \cup {swTarget}
    /\ ifb' = swTarget

SwitchReplace ==
    /\ swPc = "apply"
    /\ IF Accepts(swTarget)
       THEN /\ defaults' = ReplaceDefault(defaults, swGateway, swTarget)
            /\ SwitchReshape
            /\ switched' = TRUE
       ELSE UNCHANGED <<defaults, shaperVars, switched>>
    /\ swPc' = "idle"
    /\ reply' = "switched"
    /\ UNCHANGED <<netVars, hostRoute, swTarget, swGateway>>

SwitchScript == SwitchPing \/ SwitchReplace
=============================================================================
