------------------------------ MODULE Sentinel ------------------------------
(***************************************************************************)
(* fth-guardian, daemons/sentinel.ts and daemons/watcher.ts: timers of the *)
(* sentinel probe every node and every service, those of the watcher the   *)
(* public endpoints.  They count consecutive failures, and report a target *)
(* that failed three times in a row.  Runs of a timer overlap, and each    *)
(* probe works with the count it read before its request.  The metrics of  *)
(* a probe are written to the database, and a failed write is treated like *)
(* a failed probe: see "metric" below.                                     *)
(***************************************************************************)
EXTENDS Naturals

CONSTANTS
    Targets,       \* what is probed
    Nodes,         \* the L1 nodes among them
    Endpoints,     \* the endpoints of the watcher; the others are services
    Probes,        \* bound: probes under way at one time
    MaxFailures    \* MAX_CONSECUTIVE_FAILURES, MAX_FAILURES_BEFORE_ALERT

ASSUME SentinelConstants ==
    /\ Nodes \subseteq Targets /\ Endpoints \subseteq Targets \ Nodes
    /\ MaxFailures \in Nat \ {0}

VARIABLES
    up,         \* target -> does it answer (external)
    db,         \* does the database answer (external)
    failures,   \* target -> consecutiveFailures, 0 when healthy; counted to MaxFailures
    probe,      \* slot -> a probe: where it is, of what, the count it has read, and
                \* (history) has no failure of its target been counted since its answer
    bad         \* history: target -> probes and metrics of it that failed since a probe
                \* of it last ended well, clean and with no other probe under way
sentinelVars == <<up, db, failures, probe, bad>>

Untargeted == "untargeted"
NoProbe == [at |-> "idle", target |-> Untargeted, count |-> 0, clean |-> TRUE]
UpTo(n) == IF n < MaxFailures THEN n ELSE MaxFailures

SentinelInit ==
    /\ up = [t \in Targets |-> TRUE]
    /\ db = TRUE
    /\ failures = [t \in Targets |-> 0]
    /\ probe = [p \in Probes |-> NoProbe]
    /\ bad = [t \in Targets |-> 0]

-----------------------------------------------------------------------------
\* The beginning of a check of one target: prev is read, the request is sent.
StartProbe(p, t) ==
    /\ probe[p].at = "idle"
    /\ probe' = [probe EXCEPT ![p] = [NoProbe EXCEPT !.at = "fetch", !.target = t, !.count = failures[t]]]
    /\ UNCHANGED <<up, db, failures, bad>>

\* Mutant of ProbeAnswered: a success keeps the count.
ProbeAnsweredCounted(p) ==
    /\ probe[p].at = "fetch" /\ up[probe[p].target]
    /\ probe' = [probe EXCEPT ![p].at = "metric", ![p].clean = TRUE]
    /\ UNCHANGED <<up, db, failures, bad>>

\* The target answered: healthy, whatever other probes of it have found.
ProbeAnswered(p) ==
    LET t == probe[p].target
    IN  /\ probe[p].at = "fetch" /\ up[t]
        /\ failures' = [failures EXCEPT ![t] = 0]
        /\ probe' = [probe EXCEPT ![p].at = "metric", ![p].clean = TRUE]
        /\ UNCHANGED <<up, db, bad>>

\* A count overwrites what other probes of the target have found; a success that is
\* still writing its metric is no longer clean.
WriteCount(p, n, next) ==
    LET t == probe[p].target
    IN  /\ failures' = [failures EXCEPT ![t] = n]
        /\ probe' = [q \in Probes |->
              CASE q = p -> next
                [] q # p /\ probe[q].target = t /\ probe[q].at = "metric" ->
                      [probe[q] EXCEPT !.clean = FALSE]
                [] OTHER -> probe[q]]
        /\ UNCHANGED <<up, db>>

\* A probe that counted n failures reports them, or is done.
Concluded(p, n) ==
    IF n = MaxFailures THEN [probe[p] EXCEPT !.at = "alarm", !.count = n] ELSE NoProbe
Unwritten(p, n) == [probe[p] EXCEPT !.at = "failed", !.count = n]
Blame(t) == bad' = [bad EXCEPT ![t] = UpTo(@ + 1)]

\* The catch block counts from what the probe had read.  A node writes a
\* metric before it reports; services and endpoints are reported at once.
CountFailure(p) ==
    LET n == UpTo(probe[p].count + 1)
    IN  /\ WriteCount(p, n, IF probe[p].target \in Nodes THEN Unwritten(p, n) ELSE Concluded(p, n))
        /\ Blame(probe[p].target)

ProbeFailed(p) == probe[p].at = "fetch" /\ ~up[probe[p].target] /\ CountFailure(p)

\* The metrics of a success, inside the same try block: when they cannot be
\* written, the healthy target is counted as failing.
Alone(p) == \A q \in Probes \ {p} : probe[q].target # probe[p].target
MetricWritten(p) ==
    LET t == probe[p].target
    IN  /\ probe[p].at = "metric" /\ db
        /\ probe' = [probe EXCEPT ![p] = NoProbe]
        /\ bad' = IF Alone(p) /\ probe[p].clean THEN [bad EXCEPT ![t] = 0] ELSE bad
        /\ UNCHANGED <<up, db, failures>>
MetricFailed(p) == probe[p].at = "metric" /\ ~db /\ CountFailure(p)

\* An endpoint that answers with another status is counted within the try block,
\* which goes on with the metrics.
EndpointWrong(p) ==
    LET n == UpTo(probe[p].count + 1)
    IN  /\ probe[p].at = "fetch" /\ probe[p].target \in Endpoints
        /\ ~up[probe[p].target]
        /\ WriteCount(p, n, Unwritten(p, n))
        /\ Blame(probe[p].target)
\* When they cannot be written, the catch block counts the same failure once more,
\* from the same old count, and reports it.
EndpointUnwritten(p) ==
    /\ probe[p].at = "failed" /\ ~db /\ probe[p].target \in Endpoints
    /\ WriteCount(p, probe[p].count, Concluded(p, probe[p].count))
    /\ UNCHANGED bad

\* The metric of a failure.  A node writes it in the catch block: when that fails,
\* the rest of the block, with the report, does not run.
FailureWritten(p) ==
    /\ probe[p].at = "failed" /\ db
    /\ probe' = [probe EXCEPT ![p] = Concluded(p, @.count)]
    /\ UNCHANGED <<up, db, failures, bad>>
FailureUnwritten(p) ==
    /\ probe[p].at = "failed" /\ ~db /\ probe[p].target \notin Endpoints
    /\ probe' = [probe EXCEPT ![p] = NoProbe]
    /\ UNCHANGED <<up, db, failures, bad>>

\* The alert has been awaited; node.down, service.down or external.down is emitted.
Report(p) ==
    /\ probe[p].at = "alarm"
    /\ probe' = [probe EXCEPT ![p] = NoProbe]
    /\ UNCHANGED <<up, db, failures, bad>>

ProbeStep(p) ==
    \/ ProbeAnswered(p) \/ ProbeFailed(p)
    \/ MetricWritten(p) \/ MetricFailed(p)
    \/ EndpointWrong(p) \/ EndpointUnwritten(p)
    \/ FailureWritten(p) \/ FailureUnwritten(p)

\* Nodes, services and the database come and go.
TargetFlips(t) ==
    /\ up' = [up EXCEPT ![t] = ~@]
    /\ UNCHANGED <<db, failures, probe, bad>>
DatabaseFlips ==
    /\ db' = ~db
    /\ UNCHANGED <<up, failures, probe, bad>>

\* The process ends and starts again: the states are in memory.
SentinelRestart ==
    /\ failures' = [t \in Targets |-> 0]
    /\ probe' = [p \in Probes |-> NoProbe]
    /\ bad' = [t \in Targets |-> 0]
    /\ UNCHANGED <<up, db>>

SentinelNext ==
    \/ \E p \in Probes : ProbeStep(p) \/ Report(p) \/ \E t \in Targets : StartProbe(p, t)
    \/ \E t \in Targets : TargetFlips(t)
    \/ DatabaseFlips \/ SentinelRestart
SentinelSpec == SentinelInit /\ [][SentinelNext]_sentinelVars

-----------------------------------------------------------------------------
(* Properties *)

\* A report of a target has at least MAX_CONSECUTIVE_FAILURES failed probes or
\* metrics of it behind it since a probe of it last ended well alone: overlapping probes that
\* work with an old count cannot add up to a false alarm (sentinel.ts:116-192,
\* 205-237, watcher.ts:99-155).
AlarmsAreEarned ==
    \A p \in Probes : probe[p].at = "alarm" => bad[probe[p].target] >= MaxFailures
=============================================================================
