------------------------------ MODULE Upgrader ------------------------------
(***************************************************************************)
(* fth-guardian, daemons/upgrader.ts: upgrades are triggered by a timer,   *)
(* by an event of the bus and by a route; currentUpgrade lets one run at a *)
(* time.  An L1 upgrade goes through the nodes one after the other.        *)
(***************************************************************************)
EXTENDS Naturals, FiniteSets

CONSTANTS
    Components,    \* what can be upgraded; an unknown name is one of them
    Known,         \* the components executeUpgrade knows
    AutoUpgrade,   \* targets with auto_upgrade that may have a new version
    Rolling,       \* the component that is upgraded node by node
    RollingNodes,  \* how many nodes it has
    Callers        \* bound: checks, routes and events at one time

ASSUME UpgraderConstants ==
    /\ Known \subseteq Components /\ AutoUpgrade \subseteq Components
    /\ RollingNodes \in Nat

VARIABLES
    current,   \* currentUpgrade
    caller     \* slot -> a call of checkForUpgrades or triggerUpgrade
upgraderVars == <<current, caller>>

NoUpgrade == "no upgrade"
NoCaller == [at |-> "idle", component |-> NoUpgrade, todo |-> {}, nodes |-> 0, status |-> "pending"]

UpgraderInit == current = NoUpgrade /\ caller = [c \in Callers |-> NoCaller]

-----------------------------------------------------------------------------
\* checkForUpgrades: the targets are looked up; those with a new version wait.
CheckForUpgrades(c) ==
    /\ caller[c].at = "idle"
    /\ \E new \in SUBSET AutoUpgrade :
          caller' = [caller EXCEPT ![c] = [NoCaller EXCEPT !.at = "loop", !.todo = new]]
    /\ UNCHANGED current

\* triggerUpgrade up to its first await: guard and lock in one step.
Lock(c, x, rest) ==
    /\ current = NoUpgrade
    /\ current' = x
    /\ caller' = [caller EXCEPT ![c] =
          [at |-> "starting", component |-> x, todo |-> rest, nodes |-> 0, status |-> "pending"]]

NextTarget(c) ==
    /\ caller[c].at = "loop"
    /\ \E x \in caller[c].todo : Lock(c, x, caller[c].todo \ {x})
\* The loop is over, or triggerUpgrade throws into its catch block.
EndCheck(c) ==
    /\ caller[c].at = "loop"
    /\ caller[c].todo = {} \/ current # NoUpgrade
    /\ caller' = [caller EXCEPT ![c] = NoCaller]
    /\ UNCHANGED current

\* POST /api/commands/upgrade and the event upgrade.trigger.
Trigger(c, x) == caller[c].at = "idle" /\ Lock(c, x, {})

\* The promise of triggerUpgrade that the event handler drops is rejected while
\* an upgrade is under way: nothing handles it, and the process ends.
TriggerRejected == current # NoUpgrade

\* The first alert is out: the upgrade is executed.
Started(c) ==
    /\ caller[c].at = "starting"
    /\ caller' = [caller EXCEPT ![c].at = "deploying", ![c].status = "deploying"]
    /\ UNCHANGED current

NodesLeft(c) == caller[c].component = Rolling /\ caller[c].nodes < RollingNodes
UpgradeNode(c) ==
    /\ caller[c].at = "deploying" /\ NodesLeft(c)
    /\ caller' = [caller EXCEPT ![c].nodes = @ + 1]
    /\ UNCHANGED current
Deployed(c) ==
    /\ caller[c].at = "deploying" /\ ~NodesLeft(c) /\ caller[c].component \in Known
    /\ caller' = [caller EXCEPT ![c].at = "verifying", ![c].status = "verifying"]
    /\ UNCHANGED current

\* The end of the try block: an alert is awaited under the lock.
Ends(c, status) ==
    /\ caller' = [caller EXCEPT ![c].at = "ending", ![c].status = status]
    /\ UNCHANGED current
\* A node fails its health check, or the component is unknown.
DeployFails(c) ==
    /\ caller[c].at = "deploying"
    /\ NodesLeft(c) \/ caller[c].component \notin Known
    /\ Ends(c, "failed")
Verified(c) == caller[c].at = "verifying" /\ Ends(c, "completed")
RolledBack(c) == caller[c].at = "verifying" /\ Ends(c, "rolled_back")

\* Mutant of Unlock: the lock is not released in a finally block.
UnlockUnlessFailed(c) ==
    /\ caller[c].at = "ending"
    /\ current' = IF caller[c].status = "failed" THEN current ELSE NoUpgrade
    /\ caller' = [caller EXCEPT ![c] =
          IF caller[c].todo = {} THEN NoCaller
          ELSE [NoCaller EXCEPT !.at = "loop", !.todo = caller[c].todo]]

\* The finally block; a check goes on with its next target.
Unlock(c) ==
    /\ caller[c].at = "ending"
    /\ current' = NoUpgrade
    /\ caller' = [caller EXCEPT ![c] =
          IF caller[c].todo = {} THEN NoCaller
          ELSE [NoCaller EXCEPT !.at = "loop", !.todo = caller[c].todo]]

UpgradeStep(c) ==
    \/ NextTarget(c) \/ EndCheck(c)
    \/ Started(c) \/ UpgradeNode(c) \/ Deployed(c) \/ DeployFails(c)
    \/ Verified(c) \/ RolledBack(c) \/ Unlock(c)

UpgraderRestart == current' = NoUpgrade /\ caller' = [c \in Callers |-> NoCaller]

UpgraderNext ==
    \/ \E c \in Callers :
          CheckForUpgrades(c) \/ UpgradeStep(c) \/ \E x \in Components : Trigger(c, x)
    \/ TriggerRejected /\ UpgraderRestart
UpgraderSpec == UpgraderInit /\ [][UpgraderNext]_upgraderVars

-----------------------------------------------------------------------------
(* Properties *)

\* Whatever an upgrade meets - an unknown component, a node that does not come
\* back, a failed health check - its lock is released, and the next one can run
\* (upgrader.ts:183-247).
EveryUpgradeEnds == []<>(current = NoUpgrade)
=============================================================================
