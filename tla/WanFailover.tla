---------------------------- MODULE WanFailover ----------------------------
(***************************************************************************)
(* The uplinks of a DarkFlows router as a whole: the boot sequence, then   *)
(* the monitor, beside the user's gateway switches and the network, all on *)
(* one routing table without any lock between them.                        *)
(***************************************************************************)
EXTENDS CheckConn, SwitchGateway, SetupDefaultRoute

CONSTANTS
    MaxEvents,   \* bound: how often the network changes
    MaxSwitches  \* bound: how often the user switches the gateway

ASSUME WanFailoverAssumption == MaxEvents \in Nat /\ MaxSwitches \in Nat

VARIABLES
    events,       \* network changes so far
    switches,     \* user switches so far
    \* What the properties remember of the past.
    okRun,        \* consecutive successful tests of the primary, up to CounterCap
    usedPrimary,  \* one of them found the primary in use
    undisturbed   \* nobody but the monitor has acted since its pass began

budgetVars == <<events, switches>>
historyVars == <<okRun, usedPrimary, undisturbed>>
vars == <<routingVars, monitorVars, swVars, bootVars, budgetVars, historyVars>>

TypeOK ==
    /\ RoutingTypeOK
    /\ CheckConnTypeOK
    /\ SwitchTypeOK
    /\ SetupTypeOK
    /\ events \in 0..MaxEvents
    /\ switches \in 0..MaxSwitches
    /\ okRun \in 0..CounterCap
    /\ usedPrimary \in BOOLEAN
    /\ undisturbed \in BOOLEAN

Init ==
    /\ RoutingInit
    /\ CheckConnInit
    /\ SwitchInit
    /\ SetupInit
    /\ events = 0
    /\ switches = 0
    /\ okRun = 0
    /\ usedPrimary = FALSE
    /\ undisturbed = FALSE

\* The test of the primary is the only step the first two remember.
RememberTest ==
    /\ okRun' = IF pc # "primaryPing" THEN okRun
                ELSE IF primaryOk' THEN Count(okRun) ELSE 0
    /\ usedPrimary' = IF pc # "primaryPing" THEN usedPrimary
                      ELSE primaryOk' /\ (usedPrimary \/ current_interface = P)

MonitorStep ==
    /\ CheckConnStep
    /\ RememberTest
    /\ undisturbed' = IF pc = "refresh" THEN TRUE ELSE undisturbed
    /\ UNCHANGED <<swVars, bootVars, budgetVars>>

\* setup_default_routing.sh; its last step starts the monitor.
Boot ==
    /\ BootStep
    /\ pc' = IF bootPc' = "done" THEN "start" ELSE pc
    /\ UNCHANGED <<ret, target, gateway, current_interface, primaryOk,
                   primary_stability_counter, swVars, budgetVars, historyVars>>

SwitchScriptStep ==
    /\ SwitchScript
    /\ undisturbed' = FALSE
    /\ UNCHANGED <<monitorVars, bootVars, budgetVars, okRun, usedPrimary>>

UserSwitch ==
    /\ switches < MaxSwitches
    /\ \E w \in WAN : SwitchRequest(w)
    /\ switches' = switches + 1
    /\ UNCHANGED <<monitorVars, bootVars, events, historyVars>>

NetworkStep ==
    /\ events < MaxEvents
    /\ Network
    /\ events' = events + 1
    /\ undisturbed' = FALSE
    /\ UNCHANGED <<monitorVars, swVars, bootVars, switches, okRun, usedPrimary>>

Next == MonitorStep \/ Boot \/ SwitchScriptStep \/ UserSwitch \/ NetworkStep

\* The scripts run until they end (the monitor never does); nothing makes the
\* user or the network act.
Fairness == WF_vars(MonitorStep) /\ WF_vars(Boot) /\ WF_vars(SwitchScriptStep)

Spec == Init /\ [][Next]_vars

FairSpec == Spec /\ Fairness

Active == BestDefault(defaults)

(***************************************************************************)
(* Properties.                                                             *)
(***************************************************************************)

\* The stages of a pass after clean_default_routes has had its say.
AfterClean == {"primaryPing", "failoverCheck", "secondaryCheck",
               "failbackGateway", "failbackInternet", "switchTest",
               "switchApply", "final"}

\* When nobody interferes with a pass, the interface the monitor believes in
\* use is the one the kernel forwards by, although get_current_default_details
\* orders the routes by their text and not by their metric: the cleanup that
\* follows removes the routes that would contradict it.  The exception is an
\* interface whose gateway is unknown, for which the cleanup gives up.
BeliefMatchesKernel ==
    undisturbed /\ pc \in AfterClean =>
        \/ Active = NONE
        \/ Active.dev = current_interface
        \/ current_interface \in WAN /\ gateway[current_interface] = NONE

\* primary_stability_counter never runs ahead of the tests the primary passed
\* in a row, unless one of these tests found the primary in use.
EarnedStability ==
    primary_stability_counter <= okRun \/ usedPrimary

\* switch_to_interface moves the default to the secondary only in a pass whose
\* test of the primary failed, and to the primary only in one it passed.
SwitchFollowsTest ==
    pc \in {"switchTest", "switchApply"} =>
        /\ target = P <=> okRun > 0
        /\ target # P => primary_stability_counter = 0

\* The host routes of the two uplink monitors never lead over the other
\* uplink, so neither test can be answered through them by the wrong provider.
MonitorRoutesApart ==
    /\ hostRoute[PM] # NONE => hostRoute[PM].dev = P
    /\ hostRoute[SM] # NONE => hostRoute[SM].dev = S

\* The uplink works from end to end.
Usable(w) == w \in WAN /\ lease[w] # NONE /\ link[w] = "up"

\* Boot: when nothing changes while setup_default_route.sh runs and both leases
\* are there, it leaves a default that works if any uplink does, on the primary
\* if that one works.
BootFindsInternet ==
    (/\ bootPc \in {"shaper", "done"} /\ pc \in {"wait", "start"}
     /\ events = 0 /\ switches = 0
     /\ \A w \in WAN : lease[w] # NONE /\ \E v \in WAN : Usable(v))
        => /\ Works(Active)
           /\ Usable(P) => Active.dev = P

\* The uplink that should carry the default: the primary if it works.
Best(w) == Usable(w) /\ (w # P => ~Usable(P))

\* In a pass that nobody disturbs, the monitor moves the default only to the best
\* uplink, by its present gateway, and falls back on an uplink without internet
\* only when none has it: the routes, gateways and test results it acts on are
\* several stages old by then, and its own cleanup has changed routes since.
\* The reset of an outdated gateway (ret = "clean") is no such move.
MovesToBestUplink ==
    [][MonitorStep /\ undisturbed =>
          /\ pc = "switchApply" \/ (pc = "resetApply" /\ ret # "clean") =>
                Best(target) /\ Active' = R(lease[target], target)
          /\ pc = "fallbackApply" => \A w \in WAN : ~Usable(w)]_vars

\* Failback: once the network and the user are quiet and the primary works,
\* the default ends up on it, by its present gateway, and stays.
FailsBack == <>[](Usable(P) => Active = R(lease[P], P))

\* Failover: if only the secondary works, the default ends up there and stays.
FailsOver == <>[](Usable(S) /\ ~Usable(P) => Active = R(lease[S], S))

(***************************************************************************)
(* What comments and messages of the scripts say, and the code does not    *)
(* keep.                                                                   *)
(***************************************************************************)

\* check_conn.sh:531 announces that the primary is tested by its own route.
PrimaryTestedOverPrimary ==
    pc = "primaryPing" /\ primaryOk =>
        LET r == Lookup(hostRoute, defaults, PM) IN r # NONE => r.dev = P
=============================================================================
