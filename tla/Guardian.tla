------------------------------ MODULE Guardian ------------------------------
(***************************************************************************)
(* fth-guardian: one process with its daemons.  The sentinel and the       *)
(* healer work together over the event bus; the audit log, the upgrader,   *)
(* the treasurer, the enforcer, the reaper, the anchor daemon and the      *)
(* alert manager share no state the properties are about.                  *)
(* Each group has scenes of its own, chosen at the beginning: a behaviour  *)
(* of the process, seen from one group, is a behaviour of its scene.       *)
(***************************************************************************)
EXTENDS Sentinel, Healer, AuditLog, Upgrader, Treasurer, Enforcer, Reaper, AnchorDaemon,
        Alerts

CONSTANTS
    Scenes,        \* the scenes of a run
    OneProbe,      \* bound: the probe of the scenes of sentinel and healer together
    OneTick,       \* bound: the tick of scene "chain"
    OneRepair      \* bound: the entry of the queue in scene "ticks"

\* "nodes", "services", "endpoints": what they name is probed, by overlapping probes;
\* "ticks": sentinel and healer, with overlapping ticks; "chain": the same with one
\* tick at a time, and stalls of the chain, which the same queue repairs.
Probing == {"nodes", "services", "endpoints"}
Monitoring == Probing \cup {"ticks", "chain"}
ASSUME GuardianConstants ==
    /\ Scenes \subseteq Monitoring \cup {"audit", "upgrade", "treasury", "enforcer", "revenue", "anchors",
                                 "alerts"}
    /\ OneProbe \in Probes /\ OneTick \in Ticks /\ OneRepair \in Repairs

VARIABLE scene

monitorVars == <<sentinelVars, healerVars>>
guardianVars == <<scene, monitorVars, auditVars, upgraderVars, treasurerVars, enforcerVars,
                  reaperVars, anchorVars, alertVars>>
minor == <<auditVars, upgraderVars, treasurerVars, enforcerVars, reaperVars, anchorVars, alertVars>>

Init ==
    /\ scene \in Scenes
    /\ SentinelInit /\ HealerInit /\ AuditInit
    /\ UpgraderInit /\ TreasurerInit /\ EnforcerInit
    /\ ReaperInit /\ AnchorInit /\ AlertsInit

-----------------------------------------------------------------------------
(* Sentinel and healer *)

Healing == scene \in {"ticks", "chain"}
Probed ==
    CASE scene = "services" -> Targets \ (Nodes \cup Endpoints)
      [] scene = "endpoints" -> Endpoints
      [] OTHER -> Nodes
StartsProbe(p, t) ==
    /\ scene \in Probing \/ (Healing /\ p = OneProbe)
    /\ t \in Probed
    /\ StartProbe(p, t) /\ UNCHANGED healerVars

EndsProbe(p) == scene \in Monitoring /\ ProbeStep(p) /\ UNCHANGED healerVars

\* The event bus runs the handler of the healer within the emit.
ReportDown(p) ==
    /\ scene \in Monitoring
    /\ Report(p)
    /\ IF Healing THEN EnqueueRepair(probe[p].target) ELSE UNCHANGED healerVars
    /\ scene = "ticks" => \A r \in Repairs \ {OneRepair} : repair'[r] = Free

\* checkBlockConsensus: chain.stalled, while the nodes answer and do not grow.
ChainStalls ==
    /\ scene = "chain"
    /\ \A t \in Nodes : up[t]
    /\ EnqueueRepair("chain")
    /\ UNCHANGED sentinelVars

StartsTick(k) ==
    /\ scene = "ticks" \/ (scene = "chain" /\ k = OneTick)
    /\ StartTick(k) /\ UNCHANGED sentinelVars
RunsTick(k) == Healing /\ TickStep(k) /\ UNCHANGED sentinelVars

\* A failed query of the watcher's last statements, outside its try block, is a
\* rejection that nothing handles: the process ends.
WatcherThrows == ~db /\ SentinelRestart /\ HealerRestart

Monitor ==
    /\ scene \in Monitoring
    /\ \/ \E p \in Probes : EndsProbe(p) \/ ReportDown(p) \/ \E t \in Targets : StartsProbe(p, t)
       \/ (\E t \in Probed : TargetFlips(t)) /\ UNCHANGED healerVars
       \/ DatabaseFlips /\ UNCHANGED healerVars
       \/ ChainStalls
       \/ \E k \in Ticks : StartsTick(k) \/ RunsTick(k)
       \/ HealerClock /\ UNCHANGED sentinelVars
       \/ WatcherThrows
    /\ UNCHANGED <<scene, minor>>

-----------------------------------------------------------------------------
(* The other scenes *)

Audit ==
    /\ scene = "audit" /\ AuditNext
    /\ UNCHANGED <<scene, monitorVars, upgraderVars, treasurerVars, enforcerVars,
                   reaperVars, anchorVars, alertVars>>
Upgrade ==
    /\ scene = "upgrade" /\ UpgraderNext
    /\ UNCHANGED <<scene, monitorVars, auditVars, treasurerVars, enforcerVars,
                   reaperVars, anchorVars, alertVars>>
Treasury ==
    /\ scene = "treasury" /\ TreasurerNext
    /\ UNCHANGED <<scene, monitorVars, auditVars, upgraderVars, enforcerVars,
                   reaperVars, anchorVars, alertVars>>
Enforce ==
    /\ scene = "enforcer" /\ EnforcerNext
    /\ UNCHANGED <<scene, monitorVars, auditVars, upgraderVars, treasurerVars,
                   reaperVars, anchorVars, alertVars>>
Reap ==
    /\ scene = "revenue" /\ ReaperNext
    /\ UNCHANGED <<scene, monitorVars, auditVars, upgraderVars, treasurerVars,
                   enforcerVars, anchorVars, alertVars>>
Anchor ==
    /\ scene = "anchors" /\ AnchorNext
    /\ UNCHANGED <<scene, monitorVars, auditVars, upgraderVars, treasurerVars,
                   enforcerVars, reaperVars, alertVars>>
Alert ==
    /\ scene = "alerts" /\ AlertsNext
    /\ UNCHANGED <<scene, monitorVars, auditVars, upgraderVars, treasurerVars,
                   enforcerVars, reaperVars, anchorVars>>

Next == Monitor \/ Audit \/ Upgrade \/ Treasury \/ Enforce \/ Reap \/ Anchor \/ Alert

\* Timers fire, and every await ends: requests have timeouts, and so have the
\* connections of the pool.  (In other scenes nothing of this is enabled.)
Fairness ==
    /\ \A t \in Targets : WF_monitorVars(\E p \in Probes : StartsProbe(p, t))
    /\ \A p \in Probes : WF_monitorVars(EndsProbe(p) \/ ReportDown(p))
    /\ \A k \in Ticks : /\ WF_monitorVars(StartsTick(k))
                        /\ WF_monitorVars(RunsTick(k))
    /\ \A r \in Repairs : WF_monitorVars(Healing /\ BackoffElapses(r) /\ UNCHANGED sentinelVars)
    /\ WF_monitorVars(Healing /\ BreakerLapses /\ UNCHANGED sentinelVars)
    /\ AuditFairness
    /\ \A c \in Callers : WF_upgraderVars(scene = "upgrade" /\ UpgradeStep(c))
    /\ \A b \in Blocks : WF_enforcerVars(scene = "enforcer" /\ BlockStep(b))

Spec == Init /\ [][Next]_guardianVars /\ Fairness

-----------------------------------------------------------------------------
(* Properties *)

Attended(t) == \E k \in Ticks :
    tick[k].at = "execute" /\ repair[tick[k].subject].target = t

\* What the guardian tells is true and is told: AlarmsAreEarned for the reports of the
\* sentinel and the watcher, AlertsAreTold for the throttle of the alert manager
\* (sentinel.ts:113-240, watcher.ts:98-155, alert-manager.ts:71-126).
AlarmsAreHonest == AlarmsAreEarned /\ AlertsAreTold

\* What the guardian counts is backed by what was done: SpendBounded for the funding of
\* wallets, RevenueIsBacked for what it collects, FinalityIsReal for what it anchors
\* (treasurer.ts:86-226, reaper.ts:117-327, anchor.ts:76-240).
CountsAreBacked == SpendBounded /\ RevenueIsBacked /\ FinalityIsReal

\* A node that stays down is repaired again and again, as long as the database
\* answers: no overlap of probes keeps the count from its limit, no duplicate or
\* forgotten entry of the queue keeps a new repair out, and the breaker does not
\* stop the repairs for good (sentinel.ts:113-240, healer.ts:91-185).
EveryOutageAttended == \A t \in Nodes : Healing => []<>(up[t] \/ ~db \/ Attended(t))
=============================================================================
