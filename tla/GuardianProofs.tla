--------------------------- MODULE GuardianProofs ---------------------------
(***************************************************************************)
(* What holds of the daemons of the guardian for every value of the        *)
(* constants: the alarms, the funding of wallets, the revenue that is      *)
(* collected, the anchored receipts, and the promise of the audit log.     *)
(* Each daemon has an inductive invariant of its own, which every step of  *)
(* the daemon keeps and no other step touches.                             *)
(***************************************************************************)
EXTENDS Guardian, Sums

-----------------------------------------------------------------------------
(* The scenes *)

\* Whatever the scene, each component takes a step of its own or none.
LEMMA EachByItself ==
    ASSUME [Next]_guardianVars
    PROVE  /\ [SentinelNext]_sentinelVars /\ [AuditNext]_auditVars
           /\ [TreasurerNext]_treasurerVars /\ [ReaperNext]_reaperVars
           /\ [AnchorNext]_anchorVars /\ [AlertsNext]_alertVars
<1>1. CASE Monitor
  <2>1. UNCHANGED minor
    BY <1>1 DEF Monitor
  <2>2. [SentinelNext]_sentinelVars
    <3>1. ASSUME NEW p \in Probes, EndsProbe(p) \/ ReportDown(p) \/ \E t \in Targets : StartsProbe(p, t)
          PROVE  SentinelNext
      BY <3>1 DEF EndsProbe, ReportDown, StartsProbe, SentinelNext
    <3>2. ASSUME NEW t \in Probed, TargetFlips(t) PROVE SentinelNext
      <4>1. t \in Targets
        BY GuardianConstants, SentinelConstants DEF Probed
      <4>. QED  BY <3>2, <4>1 DEF SentinelNext
    <3>3. DatabaseFlips \/ WatcherThrows => SentinelNext
      BY DEF WatcherThrows, SentinelNext
    <3>4. ChainStalls \/ (HealerClock /\ UNCHANGED sentinelVars) => UNCHANGED sentinelVars
      BY DEF ChainStalls
    <3>5. ASSUME NEW k \in Ticks, StartsTick(k) \/ RunsTick(k) PROVE UNCHANGED sentinelVars
      BY <3>5 DEF StartsTick, RunsTick
    <3>. QED  BY <1>1, <3>1, <3>2, <3>3, <3>4, <3>5 DEF Monitor
  <2>. QED  BY <2>1, <2>2 DEF minor
<1>2. CASE Audit
  BY <1>2 DEF Audit, monitorVars
<1>3. CASE Upgrade
  BY <1>3 DEF Upgrade, monitorVars
<1>4. CASE Treasury
  BY <1>4 DEF Treasury, monitorVars
<1>5. CASE Enforce
  BY <1>5 DEF Enforce, monitorVars
<1>6. CASE Reap
  BY <1>6 DEF Reap, monitorVars
<1>7. CASE Anchor
  BY <1>7 DEF Anchor, monitorVars
<1>8. CASE Alert
  BY <1>8 DEF Alert, monitorVars
<1>9. CASE UNCHANGED guardianVars
  BY <1>9 DEF guardianVars, monitorVars
<1>. QED
  BY <1>1, <1>2, <1>3, <1>4, <1>5, <1>6, <1>7, <1>8, <1>9 DEF Next

-----------------------------------------------------------------------------
(* The alert manager *)

\* Beside AlertsAreTold: a key out of cooldown has been listed by nobody since, so
\* that the next alert of it is its first one.
AlertInv ==
    /\ cooling \subseteq Keys
    /\ alertCall = [c \in AlertCalls |-> alertCall[c]]
    /\ fired = [k \in Keys |-> fired[k]]
    /\ \A k \in Keys : fired[k] = IF k \in cooling THEN 1 ELSE 0
    /\ \A k \in cooling : k \in heard \/ InFlight(k)

\* A call that is at no INSERT goes on: every alert on its way stays there.
LEMMA GoesOnFlying ==
    ASSUME AlertInv, NEW c \in AlertCalls, NEW rest, GoesOn(c, rest),
           alertCall[c].at # "insert"
    PROVE  /\ alertCall' = [d \in AlertCalls |-> alertCall'[d]]
           /\ \A k : InFlight(k) => InFlight(k)'
<1>1. \A d \in AlertCalls \ {c} : alertCall'[d] = alertCall[d]
  BY DEF AlertInv, GoesOn
<1>2. alertCall' = [d \in AlertCalls |-> alertCall'[d]]
  BY DEF AlertInv, GoesOn
<1>3. ASSUME NEW k, InFlight(k) PROVE InFlight(k)'
  <2>1. PICK d \in AlertCalls : alertCall[d].at = "insert" /\ alertCall[d].key = k
    BY <1>3 DEF InFlight
  <2>2. d \in AlertCalls \ {c}
    BY <2>1
  <2>. QED  BY <1>1, <2>1, <2>2 DEF InFlight
<1>. QED  BY <1>2, <1>3

\* fire: turned away while its key cools; otherwise listed, once, and on its way.
LEMMA FireKeepsInv ==
    ASSUME AlertInv, NEW c \in AlertCalls, NEW k \in Keys, NEW rest, Fire(c, k, rest),
           alertCall[c].at # "insert"
    PROVE  AlertInv'
<1>1. CASE Throttled(k)
  <2>1. GoesOn(c, rest) /\ UNCHANGED <<cooling, fired, heard>>
    BY <1>1 DEF Fire
  <2>. QED  BY <2>1, GoesOnFlying DEF AlertInv
<1>2. CASE ~Throttled(k)
  <2>. DEFINE call == [at |-> "insert", todo |-> rest, key |-> k]
  <2>1. /\ cooling' = cooling \cup {k} /\ heard' = heard
        /\ alertCall' = [alertCall EXCEPT ![c] = call]
        /\ fired' = [fired EXCEPT ![k] = @ + 1]
    BY <1>2 DEF Fire
  <2>2. k \notin cooling /\ fired[k] = 0
    BY <1>2 DEF Throttled, AlertInv
  <2>3. call.at = "insert" /\ call.key = k
    OBVIOUS
  <2>. HIDE DEF call
  <2>4. alertCall'[c] = call /\ \A d \in AlertCalls \ {c} : alertCall'[d] = alertCall[d]
    BY <2>1 DEF AlertInv
  <2>5. InFlight(k)'
    BY <2>3, <2>4 DEF InFlight
  <2>6. ASSUME NEW j, InFlight(j) PROVE InFlight(j)'
    <3>1. PICK d \in AlertCalls : alertCall[d].at = "insert" /\ alertCall[d].key = j
      BY <2>6 DEF InFlight
    <3>2. d \in AlertCalls \ {c}
      BY <3>1
    <3>. QED  BY <2>4, <3>1, <3>2 DEF InFlight
  <2>7. alertCall' = [d \in AlertCalls |-> alertCall'[d]] /\ fired' = [j \in Keys |-> fired'[j]]
    BY <2>1 DEF AlertInv
  <2>8. \A j \in Keys : fired'[j] = IF j \in cooling' THEN 1 ELSE 0
    <3>1. fired'[k] = 1
      BY <2>1, <2>2 DEF AlertInv
    <3>2. \A j \in Keys \ {k} : fired'[j] = fired[j]
      BY <2>1 DEF AlertInv
    <3>. QED  BY <2>1, <3>1, <3>2 DEF AlertInv
  <2>9. \A j \in cooling' : j \in heard' \/ InFlight(j)'
    BY <2>1, <2>5, <2>6 DEF AlertInv
  <2>. QED  BY <2>1, <2>7, <2>8, <2>9 DEF AlertInv
<1>. QED  BY <1>1, <1>2

\* Every step of the alert manager and its callers.
LEMMA AlertNextInv == AlertInv /\ [AlertsNext]_alertVars => AlertInv'
<1>. SUFFICES ASSUME AlertInv, [AlertsNext]_alertVars PROVE AlertInv'
  OBVIOUS
<1>1. ASSUME NEW c \in AlertCalls, Announce(c) PROVE AlertInv'
  <2>. DEFINE k == alertCall[c].key
  <2>1. \A d \in AlertCalls \ {c} : alertCall'[d] = alertCall[d]
    BY <1>1 DEF Announce, GoesOn, AlertInv
  <2>2. ASSUME NEW j, InFlight(j), j # k PROVE InFlight(j)'
    <3>1. PICK d \in AlertCalls : alertCall[d].at = "insert" /\ alertCall[d].key = j
      BY <2>2 DEF InFlight
    <3>2. d \in AlertCalls \ {c}
      BY <2>2, <3>1
    <3>. QED  BY <2>1, <3>1, <3>2 DEF InFlight
  <2>3. alertCall' = [d \in AlertCalls |-> alertCall'[d]]
    BY <1>1 DEF Announce, GoesOn, AlertInv
  <2>4. heard' = heard \cup ({k} \cap cooling) /\ UNCHANGED <<cooling, fired>>
    BY <1>1 DEF Announce
  <2>5. \A j \in cooling : j \in heard' \/ InFlight(j)'
    BY <2>2, <2>4 DEF AlertInv
  <2>. QED  BY <2>3, <2>4, <2>5 DEF AlertInv
<1>2. ASSUME NEW c \in AlertCalls, StartsCheck(c) PROVE AlertInv'
  BY <1>2, GoesOnFlying DEF StartsCheck, AlertInv
<1>3. ASSUME NEW c \in AlertCalls, NEW names, NEW kinds, LoopStep(c, names, kinds),
             \A kind \in kinds, n \in names : Key(kind, n) \in Keys
      PROVE  AlertInv'
  <2>1. alertCall[c].at # "insert"
    BY <1>3 DEF LoopStep
  <2>2. ASSUME NEW rest, GoesOn(c, rest), UNCHANGED <<alerts, cooling, fired, heard>>
        PROVE  AlertInv'
    BY <2>1, <2>2, GoesOnFlying DEF AlertInv
  <2>. QED  BY <1>3, <2>1, <2>2, FireKeepsInv DEF LoopStep
<1>4. ASSUME NEW c \in AlertCalls, CheckDns(c) \/ CheckCertificates(c) PROVE AlertInv'
  <2>1. \A kind \in {"DNS failed", "DNS error"}, n \in Domains : Key(kind, n) \in Keys
    BY DEF Keys, Key
  <2>2. \A n \in Sites : Key("SSL", n) \in Keys
    BY DEF Keys, Key
  <2>. QED  BY <1>3, <1>4, <2>1, <2>2 DEF CheckDns, CheckCertificates
<1>5. ASSUME NEW c \in AlertCalls, EmergencyHalt(c) PROVE AlertInv'
  <2>1. Halt \in Keys
    BY DEF Keys
  <2>. QED  BY <1>5, <2>1, FireKeepsInv DEF EmergencyHalt
<1>6. ASSUME NEW k \in cooling, CooldownLapses(k) PROVE AlertInv'
  <2>1. \A j : InFlight(j)' <=> InFlight(j)
    BY <1>6 DEF CooldownLapses, InFlight
  <2>2. /\ cooling' = cooling \ {k} /\ heard' = heard \ {k} /\ alertCall' = alertCall
        /\ fired' = [fired EXCEPT ![k] = 0]
    BY <1>6 DEF CooldownLapses
  <2>3. fired' = [j \in Keys |-> IF j = k THEN 0 ELSE fired[j]]
    BY <2>2 DEF AlertInv
  <2>. QED  BY <2>1, <2>2, <2>3 DEF AlertInv
<1>7. ASSUME NEW i, Resolve(i) PROVE AlertInv'
  BY <1>7 DEF Resolve, AlertInv, InFlight
<1>8. ASSUME AlertsRestart PROVE AlertInv'
  BY <1>8 DEF AlertsRestart, AlertInv
<1>9. ASSUME UNCHANGED alertVars PROVE AlertInv'
  BY <1>9 DEF alertVars, AlertInv, InFlight
<1>. QED  BY <1>1, <1>2, <1>4, <1>5, <1>6, <1>7, <1>8, <1>9 DEF AlertsNext

\* Nothing cools at the start.
LEMMA AlertInitInv == AlertsInit => AlertInv
BY DEF AlertsInit, AlertInv

\* The invariant of the alert manager implies the property.
LEMMA AlertSafe == AlertInv => AlertsAreTold
BY DEF AlertInv, AlertsAreTold

-----------------------------------------------------------------------------
(* The sentinel and the watcher *)

ProbeRecords == [at : {"idle", "fetch", "metric", "failed", "alarm"},
            target : Targets \cup {Untargeted}, count : 0..MaxFailures, clean : BOOLEAN]

\* What a probe has counted is backed by failures, and a success that is still clean
\* has left no count behind.
ProbeOK(v, counts, sins) ==
    /\ v \in ProbeRecords
    /\ v.at # "idle" => v.target \in Targets /\ v.count <= sins[v.target]
    /\ v.at = "alarm" => v.count = MaxFailures
    /\ v.at = "metric" /\ v.clean => counts[v.target] = 0

\* Beside AlarmsAreEarned: no count, in memory or in the hands of a probe, exceeds the
\* failures since the last clean success.
SentinelInv ==
    /\ failures \in [Targets -> 0..MaxFailures]
    /\ bad \in [Targets -> 0..MaxFailures]
    /\ probe = [p \in Probes |-> probe[p]]
    /\ \A t \in Targets : failures[t] <= bad[t]
    /\ \A p \in Probes : ProbeOK(probe[p], failures, bad)

\* A slot without a probe counts nothing.
LEMMA NoProbeOK == ASSUME NEW counts, NEW sins PROVE ProbeOK(NoProbe, counts, sins)
BY SentinelConstants DEF ProbeOK, NoProbe, ProbeRecords

\* Nothing is counted at the start.
LEMMA SentinelInitInv == SentinelInit => SentinelInv
BY NoProbeOK, SentinelConstants DEF SentinelInit, SentinelInv

\* The invariant of the sentinel implies the property.
LEMMA SentinelSafe == SentinelInv => AlarmsAreEarned
BY SentinelConstants DEF SentinelInv, ProbeOK, ProbeRecords, AlarmsAreEarned

\* One probe moves, and counts nothing: what was counted before is still backed.
LEMMA ProbeMoves ==
    ASSUME SentinelInv, NEW p \in Probes, NEW v, ProbeOK(v, failures, bad),
           probe' = [probe EXCEPT ![p] = v], UNCHANGED <<failures, bad>>
    PROVE  SentinelInv'
BY DEF SentinelInv, ProbeOK

\* A probe writes a count that the failures back: the counts of others stay backed, and
\* successes of its target are no longer clean.
LEMMA WrittenCount ==
    ASSUME SentinelInv, NEW p \in Probes, NEW n \in 0..MaxFailures, NEW v,
           probe[p].target \in Targets,
           WriteCount(p, n, v), bad' \in [Targets -> 0..MaxFailures],
           \A t \in Targets : bad[t] <= bad'[t],
           n <= bad'[probe[p].target], ProbeOK(v, failures', bad')
    PROVE  SentinelInv'
<1>. DEFINE t == probe[p].target
<1>1. failures' \in [Targets -> 0..MaxFailures] /\ failures'[t] = n
      /\ \A u \in Targets \ {t} : failures'[u] = failures[u]
  BY DEF WriteCount, SentinelInv
<1>2. \A u \in Targets : failures'[u] <= bad'[u]
  BY <1>1 DEF SentinelInv
<1>3. probe' = [q \in Probes |-> probe'[q]]
  BY DEF WriteCount
<1>4. probe'[p] = v
  BY DEF WriteCount
<1>5. ASSUME NEW q \in Probes \ {p} PROVE ProbeOK(probe'[q], failures', bad')
  <2>. DEFINE w == probe[q]
  <2>1. ProbeOK(w, failures, bad)
    BY DEF SentinelInv
  <2>2. CASE w.target = t /\ w.at = "metric"
    <3>1. probe'[q] = [w EXCEPT !.clean = FALSE]
      BY <2>2 DEF WriteCount
    <3>2. probe'[q].at = "metric" /\ probe'[q].target = t /\ probe'[q].count = w.count
          /\ probe'[q].clean = FALSE /\ probe'[q] \in ProbeRecords
      BY <2>1, <2>2, <3>1 DEF ProbeOK, ProbeRecords
    <3>3. w.count <= bad'[t]
      BY <2>1, <2>2 DEF ProbeOK, ProbeRecords, SentinelInv
    <3>. QED  BY <2>2, <3>2, <3>3 DEF ProbeOK
  <2>3. CASE ~(w.target = t /\ w.at = "metric")
    <3>1. probe'[q] = w
      BY <2>3 DEF WriteCount
    <3>2. w.at # "idle" => w.target \in Targets /\ w.count <= bad'[w.target]
      BY <2>1 DEF ProbeOK, ProbeRecords, SentinelInv
    <3>3. w.at = "metric" /\ w.clean => failures'[w.target] = 0
      BY <1>1, <2>1, <2>3 DEF ProbeOK
    <3>. QED  BY <2>1, <3>1, <3>2, <3>3 DEF ProbeOK
  <2>. QED  BY <2>2, <2>3
<1>. QED  BY <1>1, <1>2, <1>3, <1>4, <1>5 DEF SentinelInv

\* What a probe that has counted does next is backed when its count is.
LEMMA NextProbeOK ==
    ASSUME NEW p, probe[p] \in ProbeRecords, probe[p].target \in Targets,
           NEW n \in 0..MaxFailures, NEW counts, NEW sins, n <= sins[probe[p].target]
    PROVE  ProbeOK(Unwritten(p, n), counts, sins) /\ ProbeOK(Concluded(p, n), counts, sins)
<1>1. ASSUME NEW v \in ProbeRecords, NEW at, NEW q, q = [v EXCEPT !.at = at, !.count = n]
      PROVE  q = [at |-> at, target |-> v.target, count |-> n, clean |-> v.clean]
  BY <1>1 DEF ProbeRecords
<1>2. PICK v \in ProbeRecords : v = probe[p]
  OBVIOUS
<1>3. ProbeOK(Unwritten(p, n), counts, sins)
  <2>0. Unwritten(p, n) = [v EXCEPT !.at = "failed", !.count = n]
    BY <1>2 DEF Unwritten
  <2>1. Unwritten(p, n) = [at |-> "failed", target |-> v.target, count |-> n, clean |-> v.clean]
    BY <1>1, <2>0
  <2>. QED  BY <1>2, <2>1 DEF ProbeOK, ProbeRecords
<1>4. ProbeOK(Concluded(p, n), counts, sins)
  <2>1. CASE n = MaxFailures
    <3>0. Concluded(p, n) = [v EXCEPT !.at = "alarm", !.count = n]
      BY <1>2, <2>1 DEF Concluded
    <3>1. Concluded(p, n) = [at |-> "alarm", target |-> v.target, count |-> n, clean |-> v.clean]
      BY <1>1, <3>0
    <3>. QED  BY <1>2, <2>1, <3>1 DEF ProbeOK, ProbeRecords
  <2>2. CASE n # MaxFailures
    BY <2>2, NoProbeOK DEF Concluded
  <2>. QED  BY <2>1, <2>2
<1>. QED  BY <1>3, <1>4

\* What a probe counts after a failure is what it had read and one more, and so is
\* what is held against its target.
LEMMA FailureCounted ==
    ASSUME SentinelInv, NEW p \in Probes, probe[p].at # "idle",
           NEW n, n = UpTo(probe[p].count + 1), NEW next,
           next = Unwritten(p, n) \/ next = Concluded(p, n),
           WriteCount(p, n, next), Blame(probe[p].target)
    PROVE  SentinelInv'
<1>. DEFINE v == probe[p]
            t == v.target
<1>1. /\ v \in ProbeRecords /\ t \in Targets /\ v.count <= bad[t]
      /\ bad \in [Targets -> 0..MaxFailures]
  BY DEF SentinelInv, ProbeOK
<1>2. n \in 0..MaxFailures
  BY <1>1, SentinelConstants DEF ProbeRecords, UpTo
<1>3. bad' = [bad EXCEPT ![t] = UpTo(@ + 1)]
  BY DEF Blame
<1>4. bad' \in [Targets -> 0..MaxFailures] /\ n <= bad'[t] /\ \A u \in Targets : bad[u] <= bad'[u]
  <2>1. bad[t] \in 0..MaxFailures /\ UpTo(bad[t] + 1) \in 0..MaxFailures
    BY <1>1, SentinelConstants DEF UpTo
  <2>2. bad[t] <= UpTo(bad[t] + 1) /\ n <= UpTo(bad[t] + 1)
    BY <1>1, <2>1, SentinelConstants DEF ProbeRecords, UpTo
  <2>3. bad'[t] = UpTo(bad[t] + 1) /\ \A u \in Targets \ {t} : bad'[u] = bad[u]
    BY <1>1, <1>3
  <2>4. bad' \in [Targets -> 0..MaxFailures]
    BY <1>1, <1>3, <2>1
  <2>. QED  BY <1>1, <2>1, <2>2, <2>3, <2>4
<1>5. ProbeOK(next, failures', bad')
  BY <1>1, <1>2, <1>4, NextProbeOK
<1>. QED  BY <1>1, <1>2, <1>4, <1>5, WrittenCount

\* The steps of a probe that is under way.
LEMMA ProbeKeepsInv ==
    ASSUME SentinelInv, NEW p \in Probes, ProbeStep(p)
    PROVE  SentinelInv'
<1>. DEFINE v == probe[p]
            t == v.target
<1>1. /\ v \in ProbeRecords /\ ProbeOK(v, failures, bad)
      /\ v.at # "idle" => t \in Targets
  BY DEF SentinelInv, ProbeOK
<1>2. CASE ProbeAnswered(p)
  <2>1. v.at = "fetch" /\ failures' = [failures EXCEPT ![t] = 0] /\ UNCHANGED bad
        /\ probe' = [probe EXCEPT ![p].at = "metric", ![p].clean = TRUE]
    BY <1>2 DEF ProbeAnswered
  <2>2. PICK w : w = [v EXCEPT !.at = "metric", !.clean = TRUE] /\ probe' = [probe EXCEPT ![p] = w]
    BY <2>1
  <2>3. w = [at |-> "metric", target |-> t, count |-> v.count, clean |-> TRUE]
    <3>. HIDE DEF v
    <3>. QED  BY <1>1, <2>2 DEF ProbeRecords
  <2>4. failures' \in [Targets -> 0..MaxFailures] /\ failures'[t] = 0
        /\ \A u \in Targets \ {t} : failures'[u] = failures[u]
    BY <1>1, <2>1, SentinelConstants DEF SentinelInv
  <2>5. ProbeOK(w, failures', bad)
    BY <1>1, <2>1, <2>3, <2>4 DEF ProbeOK, ProbeRecords
  <2>6. \A u \in Targets : failures'[u] = 0 \/ failures'[u] = failures[u]
    BY <2>4
  <2>7. \A q \in Probes : ProbeOK(probe'[q], failures', bad)
    <3>1. ASSUME NEW q \in Probes \ {p} PROVE ProbeOK(probe'[q], failures', bad)
      <4>1. probe'[q] = probe[q] /\ ProbeOK(probe[q], failures, bad)
        BY <2>2 DEF SentinelInv
      <4>. QED  BY <2>6, <4>1 DEF ProbeOK
    <3>2. probe'[p] = w
      BY <2>2 DEF SentinelInv
    <3>. QED  BY <2>5, <3>1, <3>2
  <2>8. \A u \in Targets : failures'[u] <= bad[u]
    BY <2>6 DEF SentinelInv
  <2>9. probe' = [q \in Probes |-> probe'[q]]
    BY <2>2 DEF SentinelInv
  <2>. QED  BY <2>1, <2>4, <2>7, <2>8, <2>9 DEF SentinelInv
<1>3. CASE ProbeFailed(p) \/ MetricFailed(p)
  <2>. DEFINE n == UpTo(v.count + 1)
  <2>1. v.at # "idle" /\ CountFailure(p)
    BY <1>3 DEF ProbeFailed, MetricFailed
  <2>2. WriteCount(p, n, IF t \in Nodes THEN Unwritten(p, n) ELSE Concluded(p, n)) /\ Blame(t)
    BY <2>1 DEF CountFailure
  <2>. HIDE DEF n
  <2>3. \/ WriteCount(p, n, Unwritten(p, n))
        \/ WriteCount(p, n, Concluded(p, n))
    BY <2>2
  <2>. QED  BY <2>1, <2>2, <2>3, FailureCounted DEF n
<1>4. CASE MetricWritten(p)
  <2>1. v.at = "metric" /\ probe' = [probe EXCEPT ![p] = NoProbe] /\ UNCHANGED failures
        /\ bad' = IF Alone(p) /\ v.clean THEN [bad EXCEPT ![t] = 0] ELSE bad
    BY <1>4 DEF MetricWritten
  <2>2. CASE Alone(p) /\ v.clean
    <3>1. failures[t] = 0
      BY <1>1, <2>1, <2>2 DEF ProbeOK
    <3>2. bad' \in [Targets -> 0..MaxFailures] /\ bad'[t] = 0
          /\ \A u \in Targets \ {t} : bad'[u] = bad[u]
      BY <1>1, <2>1, <2>2, SentinelConstants DEF SentinelInv
    <3>3. \A u \in Targets : failures[u] <= bad'[u]
      BY <1>1, <2>1, <3>1, <3>2 DEF SentinelInv
    <3>4. ASSUME NEW q \in Probes PROVE ProbeOK(probe'[q], failures, bad')
      <4>1. CASE q = p
        BY <2>1, <4>1, NoProbeOK DEF SentinelInv
      <4>2. CASE q # p
        <5>1. probe'[q] = probe[q] /\ probe[q].target # t /\ ProbeOK(probe[q], failures, bad)
          BY <2>1, <2>2, <4>2 DEF SentinelInv, Alone
        <5>. QED  BY <3>2, <5>1 DEF ProbeOK
      <4>. QED  BY <4>1, <4>2
    <3>5. probe' = [q \in Probes |-> probe'[q]]
      BY <2>1 DEF SentinelInv
    <3>. QED  BY <2>1, <3>2, <3>3, <3>4, <3>5 DEF SentinelInv
  <2>3. CASE ~(Alone(p) /\ v.clean)
    BY <2>1, <2>3, ProbeMoves, NoProbeOK
  <2>. QED  BY <2>2, <2>3
<1>5. CASE EndpointWrong(p)
  BY <1>5, FailureCounted DEF EndpointWrong
<1>6. CASE EndpointUnwritten(p)
  <2>1. /\ v.at = "failed" /\ WriteCount(p, v.count, Concluded(p, v.count)) /\ UNCHANGED bad
    BY <1>6 DEF EndpointUnwritten
  <2>2. v.count \in 0..MaxFailures /\ t \in Targets /\ v.count <= bad[t]
    BY <1>1, <2>1 DEF ProbeOK, ProbeRecords
  <2>3. ProbeOK(Concluded(p, v.count), failures', bad')
    BY <1>1, <2>1, <2>2, NextProbeOK
  <2>4. bad' \in [Targets -> 0..MaxFailures] /\ \A u \in Targets : bad[u] <= bad'[u]
    BY <2>1 DEF SentinelInv
  <2>. QED  BY <2>1, <2>2, <2>3, <2>4, WrittenCount
<1>7. CASE FailureWritten(p)
  <2>1. v.at = "failed" /\ UNCHANGED <<failures, bad>>
        /\ probe' = [probe EXCEPT ![p] = Concluded(p, v.count)]
    BY <1>7 DEF FailureWritten, SentinelInv
  <2>2. v.count \in 0..MaxFailures /\ t \in Targets /\ v.count <= bad[t]
    BY <1>1, <2>1 DEF ProbeOK, ProbeRecords
  <2>3. ProbeOK(Concluded(p, v.count), failures, bad)
    BY <1>1, <2>2, NextProbeOK
  <2>. QED  BY <2>1, <2>3, ProbeMoves
<1>8. CASE FailureUnwritten(p)
  BY <1>8, ProbeMoves, NoProbeOK DEF FailureUnwritten
<1>. QED  BY <1>2, <1>3, <1>4, <1>5, <1>6, <1>7, <1>8 DEF ProbeStep

\* The beginning of a probe reads a count that is backed.
LEMMA ProbeStarts ==
    ASSUME SentinelInv, NEW p \in Probes, NEW t \in Targets, StartProbe(p, t)
    PROVE  SentinelInv'
<1>. DEFINE v == [at |-> "fetch", target |-> t, count |-> failures[t], clean |-> TRUE]
<1>1. ASSUME NEW q, q = [NoProbe EXCEPT !.at = "fetch", !.target = t, !.count = failures[t]]
      PROVE  q = v
  BY <1>1 DEF NoProbe
<1>2. ProbeOK(v, failures, bad)
  BY DEF SentinelInv, ProbeOK, ProbeRecords
<1>3. probe' = [probe EXCEPT ![p] = v] /\ UNCHANGED <<failures, bad>>
  BY <1>1 DEF StartProbe
<1>. HIDE DEF v
<1>. QED  BY <1>2, <1>3, ProbeMoves

\* Every step of the sentinel and the watcher.
LEMMA SentinelNextInv == SentinelInv /\ [SentinelNext]_sentinelVars => SentinelInv'
<1>. SUFFICES ASSUME SentinelInv, [SentinelNext]_sentinelVars PROVE SentinelInv'
  OBVIOUS
<1>1. ASSUME NEW p \in Probes, Report(p) PROVE SentinelInv'
  BY <1>1, ProbeMoves, NoProbeOK DEF Report
<1>2. ASSUME UNCHANGED <<failures, probe, bad>> PROVE SentinelInv'
  BY <1>2 DEF SentinelInv
<1>3. ASSUME SentinelRestart PROVE SentinelInv'
  BY <1>3, NoProbeOK, SentinelConstants DEF SentinelRestart, SentinelInv
<1>4. ASSUME NEW t, TargetFlips(t) PROVE UNCHANGED <<failures, probe, bad>>
  BY <1>4 DEF TargetFlips
<1>5. DatabaseFlips \/ UNCHANGED sentinelVars => UNCHANGED <<failures, probe, bad>>
  BY DEF DatabaseFlips, sentinelVars
<1>. QED
  BY <1>1, <1>2, <1>3, <1>4, <1>5, ProbeKeepsInv, ProbeStarts DEF SentinelNext

\* Alarms and alerts are honest: a target is reported down only with MaxFailures failures
\* of it behind the report, whatever probes overlap and whatever the database does;
\* and a key that cools was announced, or is about to be, once.
THEOREM AlarmsStayHonest == Spec => []AlarmsAreHonest
<1>1. Init => SentinelInv /\ AlertInv
  BY SentinelInitInv, AlertInitInv DEF Init
<1>2. SentinelInv /\ AlertInv /\ [Next]_guardianVars => SentinelInv' /\ AlertInv'
  BY EachByItself, SentinelNextInv, AlertNextInv
<1>3. SentinelInv /\ AlertInv => AlarmsAreHonest
  BY SentinelSafe, AlertSafe DEF AlarmsAreHonest
<1>. QED  BY <1>1, <1>2, <1>3, PTL DEF Spec

-----------------------------------------------------------------------------
(* The treasurer *)

\* Runs of runCycle, and those of them that are at an await.
CycleRecords == [at : {"idle", "read", "loop", "fund", "count"}, todo : SUBSET Wallets,
                 wallet : Wallets \cup {Nobody}]
Funding == {c \in Cycles : cycle[c].at = "fund"}

\* Beside SpendBounded: the second bound has room for every request that is under way.
TreasurerInv ==
    /\ cycle \in [Cycles -> CycleRecords]
    /\ spent \in Nat /\ funded \in Nat
    /\ funded <= spent + Cardinality(Uncounted) * TopUp
    /\ funded + Cardinality(Funding) * TopUp <= DailyMax + (Overlap - 1) * TopUp

\* Cycles that are at two different awaits are no more than there are.
LEMMA CyclesAreFew ==
    /\ IsFiniteSet(Uncounted) /\ IsFiniteSet(Funding)
    /\ Cardinality(Uncounted) \in Nat /\ Cardinality(Funding) \in Nat
    /\ Overlap \in Nat \ {0}
    /\ Cardinality(Uncounted) + Cardinality(Funding) <= Overlap
    /\ Cardinality(Uncounted \cup Funding) = Cardinality(Uncounted) + Cardinality(Funding)
    /\ IsFiniteSet(Uncounted \cup Funding)
<1>1. IsFiniteSet(Cycles) /\ Uncounted \in SUBSET Cycles /\ Funding \in SUBSET Cycles
  BY TreasurerConstants DEF Uncounted, Funding
<1>2. IsFiniteSet(Uncounted) /\ IsFiniteSet(Funding)
  BY <1>1, FS_Subset
<1>3. Overlap \in Nat \ {0}
  BY <1>1, TreasurerConstants, FS_CardinalityType, FS_EmptySet DEF Overlap
<1>4. Uncounted \cap Funding = {}
  BY DEF Uncounted, Funding
<1>5. Cardinality(Uncounted \cup Funding) = Cardinality(Uncounted) + Cardinality(Funding)
  <2>1. Cardinality(Uncounted \cup Funding)
          = Cardinality(Uncounted) + Cardinality(Funding) - Cardinality({})
    BY <1>2, <1>4, FS_Union
  <2>2. Cardinality({}) = 0 /\ Cardinality(Uncounted) \in Nat /\ Cardinality(Funding) \in Nat
    BY <1>2, FS_EmptySet, FS_CardinalityType
  <2>. QED  BY <2>1, <2>2
<1>6. Cardinality(Uncounted \cup Funding) <= Overlap
  BY <1>1, FS_Subset DEF Overlap
<1>. QED  BY <1>2, <1>3, <1>5, <1>6, FS_CardinalityType, FS_Union

\* The same cycles are at an await when one moves between other places; one more or
\* one less when it comes or goes.
LEMMA CycleMoves ==
    ASSUME cycle \in [Cycles -> CycleRecords], NEW c \in Cycles, NEW v \in CycleRecords,
           cycle' = [cycle EXCEPT ![c] = v]
    PROVE  /\ cycle' \in [Cycles -> CycleRecords]
           /\ v.at = "count" /\ cycle[c].at # "count" =>
                 Cardinality(Uncounted') = Cardinality(Uncounted) + 1
           /\ v.at # "count" /\ cycle[c].at = "count" =>
                 Cardinality(Uncounted') = Cardinality(Uncounted) - 1
           /\ (v.at = "count" <=> cycle[c].at = "count") => Uncounted' = Uncounted
           /\ v.at = "fund" /\ cycle[c].at # "fund" =>
                 Cardinality(Funding') = Cardinality(Funding) + 1
           /\ v.at # "fund" /\ cycle[c].at = "fund" =>
                 Cardinality(Funding') = Cardinality(Funding) - 1
           /\ (v.at = "fund" <=> cycle[c].at = "fund") => Funding' = Funding
<1>1. cycle' \in [Cycles -> CycleRecords] /\ cycle'[c] = v
      /\ \A d \in Cycles \ {c} : cycle'[d] = cycle[d]
  OBVIOUS
<1>2. ASSUME NEW S, IsFiniteSet(S), c \notin S
      PROVE  Cardinality(S \cup {c}) = Cardinality(S) + 1
  BY <1>2, FS_AddElement
<1>3. ASSUME NEW S, IsFiniteSet(S), c \in S
      PROVE  Cardinality(S \ {c}) = Cardinality(S) - 1
  BY <1>3, FS_RemoveElement
<1>4. /\ v.at = "count" /\ cycle[c].at # "count" => Uncounted' = Uncounted \cup {c} /\ c \notin Uncounted
      /\ v.at # "count" /\ cycle[c].at = "count" => Uncounted' = Uncounted \ {c} /\ c \in Uncounted
      /\ (v.at = "count" <=> cycle[c].at = "count") => Uncounted' = Uncounted
  BY <1>1 DEF Uncounted
<1>5. /\ v.at = "fund" /\ cycle[c].at # "fund" => Funding' = Funding \cup {c} /\ c \notin Funding
      /\ v.at # "fund" /\ cycle[c].at = "fund" => Funding' = Funding \ {c} /\ c \in Funding
      /\ (v.at = "fund" <=> cycle[c].at = "fund") => Funding' = Funding
  BY <1>1 DEF Funding
<1>. QED  BY <1>1, <1>2, <1>3, <1>4, <1>5, CyclesAreFew

\* Nothing has been funded at the start, and there is at least one cycle.
LEMMA NothingFunded ==
    ASSUME cycle = [c \in Cycles |-> NoCycle], spent = 0, funded = 0
    PROVE  TreasurerInv
<1>1. Uncounted = {} /\ Funding = {} /\ cycle \in [Cycles -> CycleRecords]
  BY DEF Uncounted, Funding, NoCycle, CycleRecords
<1>2. Cardinality(Uncounted) = 0 /\ Cardinality(Funding) = 0
  BY <1>1, FS_EmptySet
<1>3. 0 * TopUp = 0 /\ (Overlap - 1) * TopUp \in Nat
  <2>1. \A n \in Nat : n * TopUp \in Nat
    BY TreasurerConstants
  <2>. QED  BY <2>1, CyclesAreFew, TreasurerConstants
<1>. QED  BY <1>1, <1>2, <1>3, TreasurerConstants DEF TreasurerInv

\* Every step of the treasurer.
LEMMA TreasurerNextInv == TreasurerInv /\ [TreasurerNext]_treasurerVars => TreasurerInv'
<1>. SUFFICES ASSUME TreasurerInv, [TreasurerNext]_treasurerVars PROVE TreasurerInv'
  OBVIOUS
<1>. DEFINE U == Cardinality(Uncounted)
            F == Cardinality(Funding)
            Ceiling == DailyMax + (Overlap - 1) * TopUp
<1>0. /\ cycle \in [Cycles -> CycleRecords] /\ spent \in Nat /\ funded \in Nat
      /\ U \in Nat /\ F \in Nat /\ U + F <= Overlap /\ Overlap \in Nat \ {0}
      /\ TopUp \in Nat \ {0} /\ DailyMax \in Nat /\ Ceiling \in Int
      /\ funded <= spent + U * TopUp
      /\ funded + F * TopUp <= Ceiling
  BY CyclesAreFew, TreasurerConstants DEF TreasurerInv
<1>1. /\ \A n \in Nat : n * TopUp \in Nat
      /\ \A n \in Nat : (n + 1) * TopUp = n * TopUp + TopUp
      /\ \A m, n \in Nat : (m + n) * TopUp = m * TopUp + n * TopUp
      /\ \A m, n \in Nat : m <= n => m * TopUp <= n * TopUp
  BY <1>0
<1>2. \A u, f \in Nat : u + f <= Overlap => DailyMax - TopUp + u * TopUp + f * TopUp <= Ceiling
  BY <1>0, <1>1
\* A cycle moves to v: what the books have to say of it.
<1>3. ASSUME NEW c \in Cycles, NEW v \in CycleRecords, cycle' = [cycle EXCEPT ![c] = v],
             spent' \in Nat, funded' \in Nat,
             funded' <= spent' + Cardinality(Uncounted') * TopUp,
             funded' + Cardinality(Funding') * TopUp <= Ceiling
      PROVE  TreasurerInv'
  <2>1. cycle' \in [Cycles -> CycleRecords]
    BY <1>0, <1>3
  <2>. QED  BY <1>3, <2>1 DEF TreasurerInv, Overlap
\* It moves between places that do not matter.
<1>4. ASSUME NEW c \in Cycles, NEW v \in CycleRecords, cycle' = [cycle EXCEPT ![c] = v],
             v.at \notin {"fund", "count"}, cycle[c].at \notin {"fund", "count"},
             UNCHANGED <<spent, funded>> \/ (spent' = 0 /\ funded' = 0)
      PROVE  TreasurerInv'
  <2>1. Uncounted' = Uncounted /\ Funding' = Funding
    BY <1>0, <1>4, CycleMoves
  <2>2. 0 + F * TopUp <= Ceiling /\ 0 <= 0 + U * TopUp
    <3>1. F * TopUp \in Nat /\ U * TopUp \in Nat
      BY <1>0, <1>1
    <3>. QED  BY <1>0, <3>1
  <2>3. spent' \in Nat /\ funded' \in Nat
    BY <1>0, <1>4
  <2>4. funded' <= spent' + Cardinality(Uncounted') * TopUp
    BY <1>0, <1>4, <2>1, <2>2 DEF U
  <2>5. funded' + Cardinality(Funding') * TopUp <= Ceiling
    BY <1>0, <1>4, <2>1, <2>2 DEF F
  <2>. QED  BY <1>3, <1>4, <2>3, <2>4, <2>5
<1>5. ASSUME NEW c \in Cycles, StartCycle(c) \/ CheckBalances(c) \/ EndCycle(c) PROVE TreasurerInv'
  <2>1. CASE StartCycle(c)
    <3>1. PICK v : v = [cycle[c] EXCEPT !.at = "read"] /\ cycle' = [cycle EXCEPT ![c] = v]
      BY <1>0, <2>1 DEF StartCycle
    <3>2. v \in CycleRecords /\ v.at = "read"
      BY <1>0, <3>1 DEF CycleRecords
    <3>3. UNCHANGED <<spent, funded>> \/ (spent' = 0 /\ funded' = 0)
      BY <2>1 DEF StartCycle
    <3>4. cycle[c].at = "idle"
      BY <2>1 DEF StartCycle
    <3>. QED  BY <1>4, <3>1, <3>2, <3>3, <3>4
  <2>2. CASE CheckBalances(c)
    <3>1. PICK v : v = [cycle[c] EXCEPT !.at = "loop", !.todo = Wallets]
                   /\ cycle' = [cycle EXCEPT ![c] = v]
      BY <1>0, <2>2 DEF CheckBalances
    <3>2. v \in CycleRecords /\ v.at = "loop"
      BY <1>0, <3>1 DEF CycleRecords
    <3>3. cycle[c].at = "read" /\ UNCHANGED <<spent, funded>>
      BY <2>2 DEF CheckBalances
    <3>. QED  BY <1>4, <3>1, <3>2, <3>3
  <2>3. CASE EndCycle(c)
    <3>1. NoCycle \in CycleRecords /\ NoCycle.at = "idle"
      BY DEF NoCycle, CycleRecords
    <3>. QED  BY <1>4, <2>3, <3>1 DEF EndCycle
  <2>. QED  BY <1>5, <2>1, <2>2, <2>3
<1>6. ASSUME NEW c \in Cycles, NEW w \in Wallets, EnforceReserve(c, w) PROVE TreasurerInv'
  <2>. DEFINE sends == [at |-> "fund", todo |-> cycle[c].todo \ {w}, wallet |-> w]
  <2>1. cycle[c].at = "loop" /\ UNCHANGED <<spent, funded>>
    BY <1>6 DEF EnforceReserve
  <2>2. CASE read[w] /\ WithinLimit
    <3>1. spent <= DailyMax - TopUp
      BY <1>0, <2>2 DEF WithinLimit
    <3>2. cycle' = [cycle EXCEPT ![c] = sends]
      BY <1>0, <1>6, <2>2 DEF EnforceReserve
    <3>3. sends \in CycleRecords /\ sends.at = "fund"
      BY <1>0 DEF CycleRecords
    <3>. HIDE DEF sends
    <3>4. Cardinality(Funding') = F + 1 /\ Uncounted' = Uncounted
      BY <1>0, <2>1, <3>2, <3>3, CycleMoves DEF F
    <3>5. F + 1 \in Nat /\ U + (F + 1) <= Overlap
      <4>1. c \notin Uncounted /\ c \notin Funding
        BY <2>1 DEF Uncounted, Funding
      <4>2. Cardinality((Uncounted \cup Funding) \cup {c}) <= Overlap
        <5>1. (Uncounted \cup Funding) \cup {c} \in SUBSET Cycles /\ IsFiniteSet(Cycles)
          BY TreasurerConstants DEF Uncounted, Funding
        <5>. QED  BY <5>1, FS_Subset DEF Overlap
      <4>3. Cardinality(Uncounted \cup Funding) = U + F /\ IsFiniteSet(Uncounted \cup Funding)
        BY CyclesAreFew DEF U, F
      <4>4. Cardinality((Uncounted \cup Funding) \cup {c}) = U + F + 1
        BY <4>1, <4>3, FS_AddElement
      <4>. QED  BY <1>0, <4>2, <4>4
    <3>6. DailyMax - TopUp + U * TopUp + (F + 1) * TopUp <= Ceiling
      BY <1>0, <1>2, <3>5
    <3>7. funded + (F + 1) * TopUp <= Ceiling
      <4>1. U * TopUp \in Int /\ (F + 1) * TopUp \in Int
        BY <1>0, <1>1
      <4>. QED  BY <1>0, <3>1, <3>6, <4>1
    <3>. QED  BY <1>0, <1>3, <2>1, <3>2, <3>3, <3>4, <3>7 DEF U
  <2>3. CASE ~(read[w] /\ WithinLimit)
    <3>1. PICK v : v = [cycle[c] EXCEPT !.todo = cycle[c].todo \ {w}]
                   /\ cycle' = [cycle EXCEPT ![c] = v]
      BY <1>0, <1>6, <2>3 DEF EnforceReserve
    <3>2. v \in CycleRecords /\ v.at = "loop"
      BY <1>0, <2>1, <3>1 DEF CycleRecords
    <3>. QED  BY <1>4, <2>1, <3>1, <3>2
  <2>. QED  BY <2>2, <2>3
\* An answer comes: the cycle was funding and is about to count.
<1>7. ASSUME NEW c \in Cycles, cycle[c].at = "fund",
             cycle' = [cycle EXCEPT ![c].at = "count", ![c].wallet = Nobody],
             spent' = spent, funded' = funded \/ funded' = funded + TopUp
      PROVE  TreasurerInv'
  <2>1. PICK v : v = [cycle[c] EXCEPT !.at = "count", !.wallet = Nobody]
                 /\ cycle' = [cycle EXCEPT ![c] = v]
    BY <1>0, <1>7
  <2>2. v \in CycleRecords /\ v.at = "count"
    BY <1>0, <2>1 DEF CycleRecords
  <2>3. Cardinality(Funding') = F - 1 /\ Cardinality(Uncounted') = U + 1
    BY <1>0, <1>7, <2>1, <2>2, CycleMoves DEF U, F
  <2>4. F - 1 \in Nat
    <3>1. c \in Funding
      BY <1>7 DEF Funding
    <3>2. F # 0
      BY <3>1, CyclesAreFew, FS_EmptySet DEF F
    <3>. QED  BY <1>0, <3>2
  <2>5. F * TopUp = (F - 1) * TopUp + TopUp /\ (U + 1) * TopUp = U * TopUp + TopUp
        /\ (F - 1) * TopUp \in Nat /\ U * TopUp \in Nat
    <3>1. (F - 1) + 1 = F
      BY <1>0
    <3>2. ((F - 1) + 1) * TopUp = (F - 1) * TopUp + TopUp
      BY <1>1, <2>4
    <3>3. (U + 1) * TopUp = U * TopUp + TopUp /\ (F - 1) * TopUp \in Nat /\ U * TopUp \in Nat
      BY <1>0, <1>1, <2>4
    <3>. QED  BY <3>1, <3>2, <3>3
  <2>6. funded' + (F - 1) * TopUp <= Ceiling /\ funded' <= spent' + (U + 1) * TopUp
        /\ funded' \in Nat
    <3>. DEFINE a == (F - 1) * TopUp
                b == U * TopUp
                e == F * TopUp
                g == (U + 1) * TopUp
    <3>1. e = a + TopUp /\ g = b + TopUp /\ a \in Nat /\ b \in Nat
          /\ funded + e <= Ceiling /\ funded <= spent + b
      BY <1>0, <2>5
    <3>. HIDE DEF a, b, e, g
    <3>2. funded' + a <= Ceiling /\ funded' <= spent' + g /\ funded' \in Nat
      BY <1>0, <1>7, <3>1
    <3>. QED  BY <3>2 DEF a, g
  <2>. QED  BY <1>0, <1>3, <1>7, <2>1, <2>2, <2>3, <2>6
<1>8. ASSUME NEW c \in Cycles, FundWallet(c) \/ FundRefused(c) PROVE TreasurerInv'
  BY <1>7, <1>8 DEF FundWallet, FundRefused
<1>10. ASSUME NEW c \in Cycles, Count(c) PROVE TreasurerInv'
  <2>1. cycle[c].at = "count" /\ funded' = funded /\ spent' = spent + TopUp
        /\ cycle' = [cycle EXCEPT ![c].at = "loop"]
    BY <1>10 DEF Count
  <2>2. PICK v \in CycleRecords : v.at = "loop" /\ cycle' = [cycle EXCEPT ![c] = v]
    <3>1. PICK v : v = [cycle[c] EXCEPT !.at = "loop"] /\ cycle' = [cycle EXCEPT ![c] = v]
      BY <1>0, <2>1
    <3>2. v \in CycleRecords /\ v.at = "loop"
      BY <1>0, <3>1 DEF CycleRecords
    <3>. QED  BY <3>1, <3>2
  <2>3. Funding' = Funding /\ Cardinality(Uncounted') = U - 1
    BY <1>0, <2>1, <2>2, CycleMoves DEF U
  <2>4. U - 1 \in Nat
    <3>1. c \in Uncounted
      BY <2>1 DEF Uncounted
    <3>2. U # 0
      BY <3>1, CyclesAreFew, FS_EmptySet DEF U
    <3>. QED  BY <1>0, <3>2
  <2>5. U * TopUp = (U - 1) * TopUp + TopUp /\ (U - 1) * TopUp \in Nat
    <3>1. (U - 1) + 1 = U
      BY <1>0
    <3>2. ((U - 1) + 1) * TopUp = (U - 1) * TopUp + TopUp /\ (U - 1) * TopUp \in Nat
      BY <1>1, <2>4
    <3>. QED  BY <3>1, <3>2
  <2>6. funded' <= spent' + (U - 1) * TopUp /\ spent' \in Nat
    <3>. DEFINE a == (U - 1) * TopUp
                b == U * TopUp
    <3>1. b = a + TopUp /\ a \in Nat /\ funded <= spent + b
      BY <1>0, <2>5
    <3>. HIDE DEF a, b
    <3>2. funded' <= spent' + a /\ spent' \in Nat
      BY <1>0, <2>1, <3>1
    <3>. QED  BY <3>2 DEF a
  <2>. QED  BY <1>0, <1>3, <2>1, <2>2, <2>3, <2>6 DEF F
\* Whoever else spends or looks.
<1>12. ASSUME UNCHANGED <<cycle, funded>>, spent' \in Nat, spent <= spent' PROVE TreasurerInv'
  <2>1. funded <= spent' + U * TopUp
    <3>. DEFINE b == U * TopUp
    <3>1. b \in Nat /\ funded <= spent + b /\ spent \in Nat /\ funded \in Nat
      BY <1>0, <1>1
    <3>. HIDE DEF b
    <3>2. \A m \in Nat : spent <= m => funded <= m + b
      BY <3>1
    <3>3. funded <= spent' + b
      BY <1>12, <3>2
    <3>. QED  BY <3>3 DEF b
  <2>2. Uncounted' = Uncounted /\ Funding' = Funding
    BY <1>12 DEF Uncounted, Funding
  <2>. QED  BY <1>0, <1>12, <2>1, <2>2 DEF TreasurerInv, Overlap, U, F, Ceiling
<1>13. SpendEvent => TreasurerInv'
  BY <1>0, <1>12 DEF SpendEvent
<1>14. ASSUME NEW w, FundRequest(w) \/ WalletSpends(w) PROVE TreasurerInv'
  BY <1>0, <1>12, <1>14 DEF FundRequest, WalletSpends
<1>15. DayPasses \/ UNCHANGED treasurerVars => TreasurerInv'
  BY <1>0, <1>12 DEF DayPasses, treasurerVars
<1>16. ASSUME TreasurerRestart PROVE TreasurerInv'
  <2>1. cycle' = [c \in Cycles |-> NoCycle] /\ spent' = 0 /\ funded' = 0
    BY <1>16 DEF TreasurerRestart
  <2>2. Uncounted' = {} /\ Funding' = {} /\ cycle' \in [Cycles -> CycleRecords]
    BY <2>1 DEF Uncounted, Funding, NoCycle, CycleRecords
  <2>3. Cardinality(Uncounted') = 0 /\ Cardinality(Funding') = 0
    BY <2>2, FS_EmptySet
  <2>4. 0 * TopUp = 0 /\ Ceiling \in Nat
    <3>1. \A n \in Nat : 0 * n = 0
      OBVIOUS
    <3>2. (Overlap - 1) * TopUp \in Nat
      BY <1>0, <1>1
    <3>. QED  BY <1>0, <3>1, <3>2 DEF Ceiling
  <2>. QED  BY <1>0, <2>1, <2>2, <2>3, <2>4 DEF TreasurerInv, Overlap, Ceiling
<1>. QED
  BY <1>5, <1>6, <1>8, <1>10, <1>13, <1>14, <1>15, <1>16 DEF TreasurerNext, CycleStep

\* The treasurer begins so.
LEMMA TreasurerInitInv == TreasurerInit => TreasurerInv
BY NothingFunded DEF TreasurerInit

\* The invariant of the treasurer implies the property.
LEMMA TreasurerSafe == TreasurerInv => SpendBounded
<1>. SUFFICES ASSUME TreasurerInv PROVE SpendBounded
  OBVIOUS
<1>1. \A n \in Nat : n * TopUp \in Nat
  BY TreasurerConstants
<1>2. Cardinality(Funding) * TopUp \in Nat /\ (Overlap - 1) * TopUp \in Nat
  BY <1>1, CyclesAreFew
<1>. QED  BY <1>2, TreasurerConstants DEF TreasurerInv, SpendBounded

-----------------------------------------------------------------------------
(* The reaper *)

\* A run of collect...(), and what it has counted in memory and in no row yet.
CollectorRecords == [at : {"idle", "ask", "claim", "count", "row", "done"}, amount : Nat,
                     alone : BOOLEAN]
Due(v) == IF v.at = "row" THEN v.amount ELSE 0
Waiting(runs, s) == Total([r \in Rounds |-> Due(runs[r][s])], Rounds)

\* The books of a stream, with what waits between memory and row.
BooksOK(book, due) ==
    /\ book["events"] <= book["rows"]
    /\ book["audit"] <= book["rows"]
    /\ book["rows"] + due <= book["memory"]

\* Rewards that nobody else has taken: they are still there until they are claimed, and
\* then the claim has got them.
ClaimOK(v, there, got) ==
    /\ v.alone /\ v.at = "claim" => v.amount <= there
    /\ v.alone /\ v.at \in {"count", "row"} => v.amount <= got

\* Beside RevenueIsBacked: amounts on their way to the table are in memory, and what a
\* run will claim is what it asked for.
ReaperInv ==
    /\ source \in [Streams -> Nat]
    /\ books \in [Streams -> [Books -> Nat]]
    /\ collector \in [Rounds -> [Streams -> CollectorRecords]]
    /\ claimed \in [Rounds -> Nat]
    /\ \A s \in Streams : BooksOK(books[s], Waiting(collector, s))
    /\ \A r \in Rounds : ClaimOK(collector[r][Staking], source[Staking], claimed[r])

\* What waits is a number.
LEMMA WaitingType ==
    ASSUME NEW d \in [Rounds -> [Streams -> CollectorRecords]], NEW s \in Streams
    PROVE  Waiting(d, s) \in Nat /\ \A r \in Rounds : Due(d[r][s]) \in Nat
<1>. DEFINE f == [r \in Rounds |-> Due(d[r][s])]
<1>1. \A r \in Rounds : Due(d[r][s]) \in Nat
  BY DEF Due, CollectorRecords
<1>2. \A r \in Rounds : f[r] \in Nat
  BY <1>1
<1>3. Total(f, Rounds) \in Nat
  <2>. HIDE DEF f
  <2>. QED  BY <1>2, ReaperConstants, TotalNat
<1>. QED  BY <1>1, <1>3 DEF Waiting

\* It stays when no run comes to its INSERT or leaves it.
LEMMA WaitingRests ==
    ASSUME NEW d \in [Rounds -> [Streams -> CollectorRecords]],
           NEW e \in [Rounds -> [Streams -> CollectorRecords]], NEW s \in Streams,
           \A r \in Rounds : Due(e[r][s]) = Due(d[r][s])
    PROVE  Waiting(e, s) = Waiting(d, s)
BY DEF Waiting

\* It changes by what one run has brought or taken.
LEMMA WaitingChanges ==
    ASSUME NEW d \in [Rounds -> [Streams -> CollectorRecords]],
           NEW e \in [Rounds -> [Streams -> CollectorRecords]], NEW s \in Streams,
           NEW r \in Rounds, \A q \in Rounds \ {r} : e[q][s] = d[q][s]
    PROVE  Waiting(e, s) = Waiting(d, s) + Due(e[r][s]) - Due(d[r][s])
<1>. DEFINE f == [q \in Rounds |-> Due(d[q][s])]
            g == [q \in Rounds |-> Due(e[q][s])]
<1>1. \A q \in Rounds : f[q] \in Int /\ g[q] \in Int
  BY WaitingType
<1>2. \A q \in Rounds \ {r} : g[q] = f[q]
  OBVIOUS
<1>3. f[r] = Due(d[r][s]) /\ g[r] = Due(e[r][s])
  OBVIOUS
<1>4. Total(g, Rounds) = Total(f, Rounds) + g[r] - f[r]
  <2>. HIDE DEF f, g
  <2>1. Total(f, Rounds) \in Int /\ DiffersAt(f, g, Rounds, r)
    BY <1>1, <1>2, ReaperConstants, TotalType DEF DiffersAt
  <2>2. Total(g, Rounds) = Total(f, Rounds) - f[r] + g[r]
    BY <2>1, ReaperConstants, TotalChange
  <2>. QED  BY <1>1, <2>1, <2>2
<1>. QED  BY <1>3, <1>4 DEF Waiting

\* The reaper begins with empty books.
LEMMA ReaperInitInv == ReaperInit => ReaperInv
<1>. SUFFICES ASSUME ReaperInit PROVE ReaperInv
  OBVIOUS
<1>1. collector \in [Rounds -> [Streams -> CollectorRecords]]
      /\ \A r \in Rounds, s \in Streams : collector[r][s] = Resting
  BY DEF ReaperInit, Resting, CollectorRecords
<1>2. ASSUME NEW s \in Streams PROVE Waiting(collector, s) = 0
  <2>. DEFINE f == [r \in Rounds |-> Due(collector[r][s])]
  <2>1. \A r \in Rounds : f[r] = 0
    BY <1>1 DEF Due, Resting
  <2>2. Total(f, Rounds) = 0
    <3>. HIDE DEF f
    <3>. QED  BY <2>1, ReaperConstants, TotalZero
  <2>. QED  BY <2>2 DEF Waiting
<1>3. \A s \in Streams : BooksOK(books[s], Waiting(collector, s))
  BY <1>2 DEF ReaperInit, BooksOK, Books
<1>4. Staking \in Streams
  BY DEF Streams
<1>5. \A r \in Rounds : ClaimOK(collector[r][Staking], source[Staking], claimed[r])
  BY <1>1, <1>4 DEF ClaimOK, Resting
<1>. QED  BY <1>1, <1>3, <1>5 DEF ReaperInv, ReaperInit

\* The invariant of the reaper implies the property.
LEMMA ReaperSafe == ReaperInv => RevenueIsBacked
<1>. SUFFICES ASSUME ReaperInv PROVE RevenueIsBacked
  OBVIOUS
<1>1. ASSUME NEW s \in Streams
      PROVE  /\ books[s]["events"] <= books[s]["rows"]
             /\ books[s]["audit"] <= books[s]["rows"]
             /\ books[s]["rows"] <= books[s]["memory"]
  <2>1. Waiting(collector, s) \in Nat /\ BooksOK(books[s], Waiting(collector, s))
    BY WaitingType DEF ReaperInv
  <2>2. books[s]["rows"] \in Nat /\ books[s]["memory"] \in Nat
    BY DEF ReaperInv, Books
  <2>. QED  BY <2>1, <2>2 DEF BooksOK
<1>2. ASSUME NEW r \in Rounds, collector[r][Staking].at = "row", collector[r][Staking].alone
      PROVE  collector[r][Staking].amount <= claimed[r]
  BY <1>2 DEF ReaperInv, ClaimOK
<1>. QED  BY <1>1, <1>2 DEF RevenueIsBacked

\* No run is at its INSERT before or after, and nothing is written: the books stay.
LEMMA BooksRest ==
    ASSUME ReaperInv, collector' \in [Rounds -> [Streams -> CollectorRecords]], books' = books,
           \A s \in Streams, r \in Rounds : Due(collector'[r][s]) = Due(collector[r][s])
    PROVE  \A s \in Streams : BooksOK(books'[s], Waiting(collector', s))
BY WaitingRests DEF ReaperInv

\* One run of one stream goes to v, and nothing is written.
LEMMA CollectorMoves ==
    ASSUME ReaperInv, NEW r \in Rounds, NEW s \in Streams, NEW v \in CollectorRecords,
           collector' = [collector EXCEPT ![r][s] = v],
           UNCHANGED <<source, books, claimed>>,
           v.at # "row", collector[r][s].at # "row",
           s = Staking => ClaimOK(v, source[Staking], claimed[r])
    PROVE  ReaperInv'
<1>1. collector' \in [Rounds -> [Streams -> CollectorRecords]]
  BY DEF ReaperInv
<1>2. collector'[r][s] = v
      /\ \A q \in Rounds, x \in Streams : (q = r /\ x = s) \/ collector'[q][x] = collector[q][x]
  BY DEF ReaperInv
<1>3. \A x \in Streams, q \in Rounds : Due(collector'[q][x]) = Due(collector[q][x])
  BY <1>2 DEF Due
<1>4. Staking \in Streams
  BY DEF Streams
<1>5. \A q \in Rounds : ClaimOK(collector'[q][Staking], source[Staking], claimed[q])
  BY <1>2, <1>4 DEF ReaperInv
<1>. QED  BY <1>1, <1>3, <1>5, BooksRest DEF ReaperInv

\* A run that asks, claims or throws.
LEMMA CollectorAsks ==
    ASSUME ReaperInv, NEW r \in Rounds, NEW s \in Streams,
           \/ CollectCounter(r, s) \/ CollectStakingRewards(r)
           \/ ClaimRefused(r) \/ CollectThrows(r, s)
    PROVE  ReaperInv'
<1>0. /\ \A x \in Streams : collector[r][x] \in CollectorRecords /\ source[x] \in Nat
      /\ Staking \in Streams
  BY DEF ReaperInv, Streams
<1>1. CASE CollectCounter(r, s)
  <2>1. PICK v : v = [collector[r][s] EXCEPT !.at = IF source[s] = 0 THEN "done" ELSE "count",
                                             !.amount = source[s]]
                 /\ collector' = [collector EXCEPT ![r][s] = v]
    BY <1>1 DEF CollectCounter, ReaperInv
  <2>2. v \in CollectorRecords /\ v.at # "row"
    BY <1>0, <2>1 DEF CollectorRecords
  <2>3. s # Staking /\ collector[r][s].at = "ask" /\ UNCHANGED <<source, books, claimed>>
    BY <1>1, ReaperConstants DEF CollectCounter
  <2>. QED  BY <2>1, <2>2, <2>3, CollectorMoves
<1>2. CASE CollectStakingRewards(r)
  <2>. DEFINE v == [at |-> IF source[Staking] = 0 THEN "done" ELSE "claim",
                    amount |-> source[Staking], alone |-> TRUE]
  <2>1. v \in CollectorRecords /\ v.at # "row" /\ ClaimOK(v, source[Staking], claimed[r])
    BY <1>0 DEF CollectorRecords, ClaimOK
  <2>2. collector' = [collector EXCEPT ![r][Staking] = v] /\ collector[r][Staking].at = "ask"
        /\ UNCHANGED <<source, books, claimed>>
    BY <1>2 DEF CollectStakingRewards
  <2>. HIDE DEF v
  <2>. QED  BY <1>0, <2>1, <2>2, CollectorMoves
<1>3. CASE ClaimRefused(r)
  <2>1. PICK v : v = [collector[r][Staking] EXCEPT !.at = "count", !.alone = FALSE]
                 /\ collector' = [collector EXCEPT ![r][Staking] = v]
    BY <1>0, <1>3 DEF ClaimRefused, ReaperInv
  <2>2. v \in CollectorRecords /\ v.at = "count" /\ v.alone = FALSE
    BY <1>0, <2>1 DEF CollectorRecords
  <2>3. collector[r][Staking].at = "claim" /\ UNCHANGED <<source, books, claimed>>
    BY <1>3 DEF ClaimRefused
  <2>. QED  BY <1>0, <2>1, <2>2, <2>3, CollectorMoves DEF ClaimOK
<1>4. CASE CollectThrows(r, s)
  <2>1. PICK v : v = [collector[r][s] EXCEPT !.at = "done"]
                 /\ collector' = [collector EXCEPT ![r][s] = v]
    BY <1>0, <1>4 DEF CollectThrows, Move, ReaperInv
  <2>2. v \in CollectorRecords /\ v.at = "done"
    BY <1>0, <2>1 DEF CollectorRecords
  <2>3. collector[r][s].at \in {"ask", "claim"} /\ UNCHANGED <<source, books, claimed>>
    BY <1>4 DEF CollectThrows
  <2>. QED  BY <1>0, <2>1, <2>2, <2>3, CollectorMoves DEF ClaimOK
<1>. QED  BY <1>1, <1>2, <1>3, <1>4

\* Somebody takes the rewards: nobody else was alone with them.
LEMMA RewardsTaken ==
    ASSUME ReaperInv, NEW r \in Rounds, ClaimRewards(r) \/ CompoundEarnings
    PROVE  ReaperInv'
<1>0. /\ collector \in [Rounds -> [Streams -> CollectorRecords]]
      /\ Staking \in Streams /\ source \in [Streams -> Nat] /\ claimed \in [Rounds -> Nat]
  BY DEF ReaperInv, Streams
<1>1. ASSUME NEW q \in Rounds, NEW d, d = [collector[q] EXCEPT ![Staking].alone = FALSE]
      PROVE  /\ d \in [Streams -> CollectorRecords]
             /\ \A s \in Streams : d[s].at = collector[q][s].at /\ d[s].amount = collector[q][s].amount
             /\ d[Staking].alone = FALSE
  <2>1. PICK v : v = [collector[q][Staking] EXCEPT !.alone = FALSE]
                 /\ d = [collector[q] EXCEPT ![Staking] = v]
    BY <1>0, <1>1
  <2>2. /\ v \in CollectorRecords /\ v.alone = FALSE
        /\ v.at = collector[q][Staking].at /\ v.amount = collector[q][Staking].amount
    <3>1. collector[q][Staking] \in CollectorRecords
      BY <1>0
    <3>. QED  BY <2>1, <3>1 DEF CollectorRecords
  <2>. QED  BY <1>0, <2>1, <2>2
<1>2. source' \in [Streams -> Nat] /\ claimed' \in [Rounds -> Nat] /\ books' = books
  <2>1. source' = [source EXCEPT ![Staking] = 0] /\ books' = books
        /\ (claimed' = claimed \/ claimed' = [claimed EXCEPT ![r] = source[Staking]])
    BY DEF ClaimRewards, CompoundEarnings
  <2>2. source[Staking] \in Nat
    BY <1>0
  <2>. QED  BY <1>0, <2>1, <2>2
<1>3. CASE CompoundEarnings
  <2>1. collector' = [q \in Rounds |-> [collector[q] EXCEPT ![Staking].alone = FALSE]]
        /\ claimed' = claimed
    BY <1>3 DEF CompoundEarnings
  <2>2. \A q \in Rounds : collector'[q] = [collector[q] EXCEPT ![Staking].alone = FALSE]
    BY <2>1
  <2>3. collector' \in [Rounds -> [Streams -> CollectorRecords]]
    BY <1>1, <2>1, <2>2
  <2>4. \A s \in Streams, q \in Rounds : Due(collector'[q][s]) = Due(collector[q][s])
    <3>1. ASSUME NEW s \in Streams, NEW q \in Rounds
          PROVE  /\ collector'[q][s].at = collector[q][s].at
                 /\ collector'[q][s].amount = collector[q][s].amount
      <4>1. collector'[q] = [collector[q] EXCEPT ![Staking].alone = FALSE]
        BY <2>2
      <4>. QED  BY <1>1, <4>1
    <3>. QED  BY <3>1 DEF Due
  <2>5. \A q \in Rounds : ClaimOK(collector'[q][Staking], source'[Staking], claimed'[q])
    BY <1>1, <2>2 DEF ClaimOK
  <2>. QED  BY <1>2, <2>3, <2>4, <2>5, BooksRest DEF ReaperInv
<1>4. CASE ClaimRewards(r)
  <2>. DEFINE d == Surprised(collector, r)
  <2>1. /\ \A q \in Rounds \ {r} : d[q] = [collector[q] EXCEPT ![Staking].alone = FALSE]
        /\ d[r] = collector[r] /\ d = [q \in Rounds |-> d[q]]
    BY DEF Surprised
  <2>2. collector' = [d EXCEPT ![r][Staking].at = "count"] /\ collector[r][Staking].at = "claim"
        /\ claimed' = [claimed EXCEPT ![r] = source[Staking]]
    BY <1>4 DEF ClaimRewards
  <2>. HIDE DEF d
  <2>3. PICK v : v = [collector[r][Staking] EXCEPT !.at = "count"]
                 /\ collector' = [d EXCEPT ![r] = [collector[r] EXCEPT ![Staking] = v]]
    BY <1>0, <2>1, <2>2
  <2>4. /\ v \in CollectorRecords /\ v.at = "count" /\ v.amount = collector[r][Staking].amount
        /\ v.alone = collector[r][Staking].alone
    <3>1. collector[r][Staking] \in CollectorRecords
      BY <1>0
    <3>. QED  BY <2>3, <3>1 DEF CollectorRecords
  <2>5. /\ collector' = [q \in Rounds |-> collector'[q]]
        /\ collector'[r] = [collector[r] EXCEPT ![Staking] = v]
        /\ \A q \in Rounds \ {r} : collector'[q] = d[q]
    BY <2>1, <2>3
  <2>6. collector'[r] \in [Streams -> CollectorRecords]
        /\ \A q \in Rounds \ {r} : collector'[q] \in [Streams -> CollectorRecords]
    <3>1. collector'[r] \in [Streams -> CollectorRecords]
      BY <1>0, <2>4, <2>5
    <3>2. ASSUME NEW q \in Rounds \ {r} PROVE collector'[q] \in [Streams -> CollectorRecords]
      <4>1. collector'[q] = [collector[q] EXCEPT ![Staking].alone = FALSE]
        BY <2>1, <2>5
      <4>. QED  BY <1>1, <4>1
    <3>. QED  BY <3>1, <3>2
  <2>7. collector' \in [Rounds -> [Streams -> CollectorRecords]]
    BY <2>5, <2>6
  <2>8. ASSUME NEW s \in Streams, NEW q \in Rounds PROVE Due(collector'[q][s]) = Due(collector[q][s])
    <3>1. CASE q = r /\ s = Staking
      BY <1>0, <2>2, <2>4, <2>5, <3>1 DEF Due
    <3>2. CASE q = r /\ s # Staking
      BY <1>0, <2>5, <3>2
    <3>3. CASE q # r
      <4>1. collector'[q] = [collector[q] EXCEPT ![Staking].alone = FALSE]
        BY <2>1, <2>5, <3>3
      <4>. QED  BY <1>1, <4>1 DEF Due
    <3>. QED  BY <3>1, <3>2, <3>3
  <2>9. ASSUME NEW q \in Rounds PROVE ClaimOK(collector'[q][Staking], source'[Staking], claimed'[q])
    <3>1. CASE q = r
      <4>1. collector'[r][Staking] = v /\ claimed'[r] = source[Staking]
        BY <1>0, <2>2, <2>5
      <4>2. ClaimOK(collector[r][Staking], source[Staking], claimed[r])
        BY DEF ReaperInv
      <4>. QED  BY <2>2, <2>4, <3>1, <4>1, <4>2 DEF ClaimOK
    <3>2. CASE q # r
      <4>1. collector'[q] = [collector[q] EXCEPT ![Staking].alone = FALSE]
        BY <2>1, <2>5, <3>2
      <4>2. collector'[q][Staking].alone = FALSE
        BY <1>1, <4>1
      <4>. QED  BY <4>2 DEF ClaimOK
    <3>. QED  BY <3>1, <3>2
  <2>. QED  BY <1>2, <2>7, <2>8, <2>9, BooksRest DEF ReaperInv
<1>. QED  BY <1>3, <1>4

\* What is counted goes to memory first, and from there to the table, the audit log and
\* the event, or to nobody.
LEMMA RevenueCounted ==
    ASSUME ReaperInv, NEW r \in Rounds, NEW s \in Streams, UpdateStream(r, s) \/ RecordRevenue(r, s)
    PROVE  ReaperInv'
<1>. DEFINE n == collector[r][s].amount
            w == Waiting(collector, s)
            m == books[s]["memory"]
            t == books[s]["rows"]
            a == books[s]["audit"]
            e == books[s]["events"]
<1>0. /\ collector \in [Rounds -> [Streams -> CollectorRecords]]
      /\ books \in [Streams -> [Books -> Nat]]
      /\ collector[r][s] \in CollectorRecords /\ n \in Nat
      /\ w \in Nat /\ m \in Nat /\ t \in Nat /\ a \in Nat /\ e \in Nat
      /\ e <= t /\ a <= t /\ t + w <= m
  BY WaitingType DEF ReaperInv, Books, CollectorRecords, BooksOK
<1>1. PICK v, at : /\ v = [collector[r][s] EXCEPT !.at = at]
                   /\ collector' = [collector EXCEPT ![r][s] = v]
                   /\ at = IF UpdateStream(r, s) THEN "row" ELSE "done"
  <2>1. collector' = [collector EXCEPT ![r][s].at = IF UpdateStream(r, s) THEN "row" ELSE "done"]
    BY DEF UpdateStream, RecordRevenue, Move
  <2>. QED  BY <1>0, <2>1
<1>2. at \in {"row", "done"} /\ (UpdateStream(r, s) <=> at = "row")
  BY <1>1
<1>3. v \in CollectorRecords /\ v.amount = n /\ v.at = at /\ v.alone = collector[r][s].alone
  BY <1>0, <1>1, <1>2 DEF CollectorRecords
<1>4. /\ collector' \in [Rounds -> [Streams -> CollectorRecords]]
      /\ collector'[r][s] = v
      /\ \A q \in Rounds, x \in Streams : (q = r /\ x = s) \/ collector'[q][x] = collector[q][x]
  BY <1>0, <1>1, <1>3
<1>5. Waiting(collector', s) = w + Due(v) - Due(collector[r][s])
  BY <1>0, <1>4, WaitingChanges
<1>6. \A x \in Streams \ {s} : Waiting(collector', x) = Waiting(collector, x)
  <2>1. \A x \in Streams \ {s}, q \in Rounds : collector'[q][x] = collector[q][x]
    BY <1>4
  <2>. QED  BY <1>0, <1>4, <2>1, WaitingRests
<1>7. UNCHANGED <<source, claimed>>
  BY DEF UpdateStream, RecordRevenue
<1>8. /\ books' \in [Streams -> [Books -> Nat]]
      /\ \A x \in Streams \ {s} : books'[x] = books[x]
      /\ BooksOK(books'[s], Waiting(collector', s))
  <2>1. CASE UpdateStream(r, s)
    <3>1. PICK book : book = [books[s] EXCEPT !["memory"] = m + n]
                      /\ books' = [books EXCEPT ![s] = book]
      BY <1>0, <2>1 DEF UpdateStream
    <3>2. book \in [Books -> Nat] /\ book["memory"] = m + n /\ book["rows"] = t
          /\ book["audit"] = a /\ book["events"] = e
      <4>1. books[s] \in [Books -> Nat] /\ "memory" \in Books /\ "rows" \in Books
            /\ "audit" \in Books /\ "events" \in Books /\ m + n \in Nat
        BY <1>0 DEF Books
      <4>. QED  BY <3>1, <4>1
    <3>3. Waiting(collector', s) = w + n
      <4>1. collector[r][s].at = "count" /\ at = "row"
        BY <1>2, <2>1 DEF UpdateStream
      <4>. QED  BY <1>0, <1>3, <1>5, <4>1 DEF Due
    <3>. QED  BY <1>0, <3>1, <3>2, <3>3 DEF BooksOK
  <2>2. CASE RecordRevenue(r, s)
    <3>1. Waiting(collector', s) = w - n /\ n <= w
      <4>1. collector[r][s].at = "row" /\ at = "done"
        BY <1>2, <2>2 DEF UpdateStream, RecordRevenue
      <4>2. Waiting(collector', s) \in Nat
        BY <1>4, WaitingType
      <4>. QED  BY <1>0, <1>3, <1>5, <4>1, <4>2 DEF Due
    <3>2. CASE UNCHANGED books
      BY <1>0, <3>1, <3>2 DEF BooksOK
    <3>3. CASE books' = Tell([books EXCEPT ![s]["rows"] = @ + n], s, n)
      <4>. DEFINE reported == IF s \in Audited THEN a + n ELSE a
      <4>1. PICK first : first = [books[s] EXCEPT !["rows"] = t + n]
                         /\ books' = Tell([books EXCEPT ![s] = first], s, n)
        BY <1>0, <3>3
      <4>2. first \in [Books -> Nat] /\ first["memory"] = m /\ first["rows"] = t + n
            /\ first["audit"] = a /\ first["events"] = e
        <5>1. books[s] \in [Books -> Nat] /\ "memory" \in Books /\ "rows" \in Books
              /\ "audit" \in Books /\ "events" \in Books /\ t + n \in Nat
          BY <1>0 DEF Books
        <5>. QED  BY <4>1, <5>1
      <4>3. PICK book : book = [first EXCEPT !["audit"] = reported, !["events"] = e + n]
                        /\ books' = [books EXCEPT ![s] = book]
        BY <1>0, <4>1, <4>2 DEF Tell, Books
      <4>4. reported \in Nat /\ reported <= a + n /\ e + n \in Nat
        BY <1>0
      <4>5. book \in [Books -> Nat] /\ book["memory"] = m /\ book["rows"] = t + n
            /\ book["audit"] = reported /\ book["events"] = e + n
        <5>1. "memory" \in Books /\ "rows" \in Books /\ "audit" \in Books /\ "events" \in Books
          BY DEF Books
        <5>. HIDE DEF reported
        <5>. QED  BY <4>2, <4>3, <4>4, <5>1
      <4>. HIDE DEF reported
      <4>6. BooksOK(book, w - n)
        BY <1>0, <3>1, <4>4, <4>5 DEF BooksOK
      <4>. QED  BY <1>0, <3>1, <4>3, <4>5, <4>6
    <3>. QED  BY <2>2, <3>2, <3>3 DEF RecordRevenue
  <2>. QED  BY <2>1, <2>2
<1>9. ASSUME NEW x \in Streams PROVE BooksOK(books'[x], Waiting(collector', x))
  <2>. HIDE DEF w
  <2>. QED  BY <1>6, <1>8 DEF ReaperInv
<1>10. ASSUME NEW q \in Rounds PROVE ClaimOK(collector'[q][Staking], source[Staking], claimed[q])
  <2>1. ClaimOK(collector[q][Staking], source[Staking], claimed[q]) /\ Staking \in Streams
    BY DEF ReaperInv, Streams
  <2>2. CASE q = r /\ s = Staking
    <3>1. UpdateStream(r, s) \/ at = "done"
      BY <1>2
    <3>2. UpdateStream(r, s) => collector[r][s].at = "count"
      BY DEF UpdateStream
    <3>3. collector'[q][Staking] = v
      BY <1>4, <2>2
    <3>4. at = "row" => collector[r][s].at = "count"
      BY <1>2, <3>2
    <3>. QED  BY <1>2, <1>3, <2>1, <2>2, <3>3, <3>4 DEF ClaimOK
  <2>3. CASE ~(q = r /\ s = Staking)
    <3>1. collector'[q][Staking] = collector[q][Staking]
      BY <1>4, <2>1, <2>3
    <3>. QED  BY <2>1, <3>1
  <2>. QED  BY <2>2, <2>3
<1>. QED  BY <1>4, <1>7, <1>8, <1>9, <1>10 DEF ReaperInv

\* Every step of the reaper and of its sources.
LEMMA ReaperNextInv == ReaperInv /\ [ReaperNext]_reaperVars => ReaperInv'
<1>. SUFFICES ASSUME ReaperInv, [ReaperNext]_reaperVars PROVE ReaperInv'
  OBVIOUS
<1>0. /\ collector \in [Rounds -> [Streams -> CollectorRecords]]
      /\ Staking \in Streams /\ source \in [Streams -> Nat] /\ claimed \in [Rounds -> Nat]
  BY DEF ReaperInv, Streams
<1>1. ASSUME NEW s \in Streams, Earn(s) PROVE ReaperInv'
  <2>1. /\ source' \in [Streams -> Nat] /\ source[Staking] <= source'[Staking]
        /\ source[Staking] \in Nat /\ source'[Staking] \in Nat
        /\ UNCHANGED <<books, collector, claimed>>
    BY <1>0, <1>1 DEF Earn
  <2>2. \A r \in Rounds : ClaimOK(collector'[r][Staking], source'[Staking], claimed'[r])
    <3>1. \A r \in Rounds : collector[r][Staking].amount \in Nat
      BY <1>0 DEF CollectorRecords
    <3>. QED  BY <2>1, <3>1 DEF ReaperInv, ClaimOK
  <2>. QED  BY <2>1, <2>2 DEF ReaperInv, Waiting, BooksOK
\* All runs of a round begin or end.
<1>2. ASSUME NEW r \in Rounds, NEW v \in CollectorRecords, v.at \in {"idle", "ask"},
             \A s \in Streams : collector[r][s].at # "row",
             collector' = [collector EXCEPT ![r] = [s \in Streams |-> v]],
             claimed' \in [Rounds -> Nat], \A q \in Rounds \ {r} : claimed'[q] = claimed[q],
             UNCHANGED <<source, books>>
      PROVE  ReaperInv'
  <2>1. collector' \in [Rounds -> [Streams -> CollectorRecords]]
    BY <1>0, <1>2
  <2>2. /\ \A s \in Streams : collector'[r][s] = v
        /\ \A q \in Rounds \ {r} : collector'[q] = collector[q]
    BY <1>0, <1>2
  <2>3. \A s \in Streams, q \in Rounds : Due(collector'[q][s]) = Due(collector[q][s])
    BY <1>2, <2>2 DEF Due
  <2>4. \A q \in Rounds : ClaimOK(collector'[q][Staking], source'[Staking], claimed'[q])
    BY <1>0, <1>2, <2>2 DEF ClaimOK, ReaperInv
  <2>. QED  BY <1>2, <2>1, <2>3, <2>4, BooksRest DEF ReaperInv
<1>3. ASSUME NEW r \in Rounds, StartRound(r) PROVE ReaperInv'
  <2>1. PICK v : v = [Resting EXCEPT !.at = "ask"]
                 /\ collector' = [collector EXCEPT ![r] = [s \in Streams |-> v]]
    BY <1>3 DEF StartRound
  <2>2. v \in CollectorRecords /\ v.at = "ask"
    BY <2>1 DEF Resting, CollectorRecords
  <2>3. claimed' \in [Rounds -> Nat] /\ \A q \in Rounds \ {r} : claimed'[q] = claimed[q]
    BY <1>0, <1>3 DEF StartRound
  <2>. QED  BY <1>2, <1>3, <2>1, <2>2, <2>3 DEF StartRound
<1>4. ASSUME NEW r \in Rounds, EndRound(r) PROVE ReaperInv'
  <2>1. Resting \in CollectorRecords /\ Resting.at = "idle"
    BY DEF Resting, CollectorRecords
  <2>. QED  BY <1>0, <1>2, <1>4, <2>1 DEF EndRound
<1>5. ASSUME UNCHANGED reaperVars PROVE ReaperInv'
  BY <1>5 DEF reaperVars, ReaperInv, Waiting
<1>6. CompoundEarnings => ReaperInv'
  <2>1. CASE Rounds = {}
    <3>. SUFFICES ASSUME CompoundEarnings PROVE ReaperInv'
      OBVIOUS
    <3>1. collector' = collector
      BY <1>0, <2>1 DEF CompoundEarnings
    <3>2. source' \in [Streams -> Nat] /\ UNCHANGED <<books, claimed>>
      BY <1>0 DEF CompoundEarnings
    <3>. QED  BY <2>1, <3>1, <3>2 DEF ReaperInv, Waiting
  <2>. QED  BY <2>1, RewardsTaken
<1>. QED
  BY <1>0, <1>1, <1>3, <1>4, <1>5, <1>6, CollectorAsks, RewardsTaken, RevenueCounted DEF ReaperNext

-----------------------------------------------------------------------------
(* The anchor daemon *)

RootRecords == [receipts : SUBSET Receipts, block : Nat]
BatchRecords == [receipts : SUBSET Receipts, block : Nat,
                 status : {"pending", "submitted", "failed", "confirmed", "finalized"}]

\* The chain has the root of a batch, in the block that the batch names.
RootedIn(rs, b) == \E r \in Range(rs) : r.receipts = b.receipts /\ r.block = b.block

\* The receipts that some root is made of.
CoveredBy(rs) == UNION {r.receipts : r \in Range(rs)}

\* A batch that names a block is on the chain, and a finalized one is deep.
BatchOK(b, rs, height) ==
    /\ b \in BatchRecords
    /\ b.status \in {"submitted", "confirmed", "finalized"} /\ b.block # Unset => RootedIn(rs, b)
    /\ b.status = "finalized" => b.block # Unset /\ height - b.block >= FinalDepth

\* A cycle works on such batches, and confirms only what the chain has.
RooterOK(v, rs, height) ==
    /\ v = [at |-> v.at, batch |-> v.batch]
    /\ BatchOK(v.batch, rs, height)
    /\ v.at = "confirm" => v.batch.receipts \subseteq CoveredBy(rs)

\* Beside FinalityIsReal: what is kept or under way is real too, and the height of a
\* check was reached.
AnchorInv ==
    /\ tip \in Nat \ {0} /\ checked \in Nat /\ checked <= tip
    /\ roots \in Seq(RootRecords)
    /\ kept \in Seq(BatchRecords)
    /\ rooter = [k \in Rooters |-> rooter[k]]
    /\ \A k \in Rooters : RooterOK(rooter[k], roots, tip)
    /\ \A b \in Range(kept) : BatchOK(b, roots, tip)
    /\ \A b \in final : b.status = "finalized" /\ BatchOK(b, roots, tip)
    /\ told \subseteq CoveredBy(roots)
    /\ total \in Nat /\ total <= Anchored(roots)

\* What is anchored is a total.
LEMMA AnchoredIsTotal ==
    ASSUME NEW rs
    PROVE  Anchored(rs) = Total([i \in DOMAIN rs |-> Cardinality(rs[i].receipts)], DOMAIN rs)
BY DEF Anchored, Total, MapThenSumSet, MapThenFoldSet

\* A root more: its receipts more.
LEMMA AnchoredAppend ==
    ASSUME NEW rs \in Seq(RootRecords), NEW x \in RootRecords
    PROVE  /\ Anchored(rs) \in Nat
           /\ Anchored(Append(rs, x)) = Anchored(rs) + Cardinality(x.receipts)
           /\ Cardinality(x.receipts) \in Nat
<1>. DEFINE t == Append(rs, x)
            n == Len(rs)
            f == [i \in DOMAIN rs |-> Cardinality(rs[i].receipts)]
            e == [i \in DOMAIN t |-> Cardinality(t[i].receipts)]
<1>1. /\ n \in Nat /\ DOMAIN rs = 1..n /\ DOMAIN t = 1..(n + 1) /\ t[n + 1] = x
      /\ \A i \in 1..n : t[i] = rs[i] /\ rs[i] \in RootRecords
  <2>. HIDE DEF RootRecords
  <2>. QED  OBVIOUS
<1>2. \A r \in RootRecords : Cardinality(r.receipts) \in Nat
  <2>1. \A r \in RootRecords : IsFiniteSet(r.receipts)
    BY AnchorConstants, FS_Subset DEF RootRecords
  <2>. QED  BY <2>1, FS_CardinalityType
<1>3. IsFiniteSet(1..n) /\ n + 1 \notin 1..n /\ 1..(n + 1) = (1..n) \cup {n + 1}
  <2>. HIDE DEF n
  <2>1. IsFiniteSet(1..n)
    BY <1>1, PositionsFinite
  <2>2. n + 1 \notin 1..n /\ 1..(n + 1) = (1..n) \cup {n + 1}
    BY <1>1
  <2>. QED  BY <2>1, <2>2
<1>4. Anchored(rs) = Total(f, 1..n) /\ Anchored(t) = Total(e, (1..n) \cup {n + 1})
  BY <1>1, <1>3, AnchoredIsTotal
<1>5. (\A i \in 1..n : e[i] = f[i] /\ f[i] \in Nat) /\ e[n + 1] = Cardinality(x.receipts)
  <2>. HIDE DEF RootRecords, t, n
  <2>1. n + 1 \in 1..(n + 1) /\ \A i \in 1..n : i \in 1..(n + 1)
    BY <1>1
  <2>. QED  BY <1>1, <1>2, <2>1
<1>. HIDE DEF f, e, t, n, RootRecords
<1>6. Total(f, 1..n) \in Nat
  BY <1>3, <1>5, TotalNat
<1>7. Total(e, 1..n) = Total(f, 1..n)
  <2>1. \A i \in 1..n : f[i] \in Int /\ e[i] = f[i]
    BY <1>5
  <2>. QED  BY <1>3, <2>1, TotalAgrees
<1>8. e[n + 1] \in Int /\ \A i \in 1..n : e[i] \in Int
  BY <1>2, <1>5
<1>9. Total(e, (1..n) \cup {n + 1}) = Total(e, 1..n) + e[n + 1]
  BY <1>3, <1>8, TotalAdd
<1>. QED  BY <1>2, <1>4, <1>5, <1>6, <1>7, <1>9 DEF t

\* What is true of a batch stays true when the chain grows.
LEMMA BatchLasts ==
    ASSUME NEW rs, NEW qs, Range(rs) \subseteq Range(qs),
           NEW h \in Nat, NEW g \in Nat, h <= g
    PROVE  /\ CoveredBy(rs) \subseteq CoveredBy(qs)
           /\ \A b : BatchOK(b, rs, h) => BatchOK(b, qs, g)
           /\ \A v : RooterOK(v, rs, h) => RooterOK(v, qs, g)
<1>1. CoveredBy(rs) \subseteq CoveredBy(qs)
  BY DEF CoveredBy
<1>2. ASSUME NEW b, BatchOK(b, rs, h) PROVE BatchOK(b, qs, g)
  <2>1. b \in BatchRecords /\ b.block \in Nat
    BY <1>2 DEF BatchOK, BatchRecords
  <2>2. RootedIn(rs, b) => RootedIn(qs, b)
    BY DEF RootedIn
  <2>3. b.status = "finalized" => g - b.block >= FinalDepth
    BY <1>2, <2>1, AnchorConstants DEF BatchOK
  <2>. QED  BY <1>2, <2>1, <2>2, <2>3 DEF BatchOK
<1>. QED  BY <1>1, <1>2 DEF RooterOK

\* One cycle moves, and its batch is real.
LEMMA RooterMoves ==
    ASSUME AnchorInv, NEW k \in Rooters, NEW v, RooterOK(v, roots, tip),
           rooter' = [rooter EXCEPT ![k] = v]
    PROVE  /\ rooter' = [q \in Rooters |-> rooter'[q]]
           /\ \A q \in Rooters : RooterOK(rooter'[q], roots, tip)
<1>1. DOMAIN rooter = Rooters
  BY DEF AnchorInv
<1>2. rooter'[k] = v /\ \A q \in Rooters \ {k} : rooter'[q] = rooter[q]
  BY <1>1
<1>3. rooter' = [q \in Rooters |-> rooter'[q]]
  BY <1>1
<1>. QED  BY <1>2, <1>3 DEF AnchorInv

\* At first no root and no batch.
LEMMA AnchorInitInv == AnchorInit => AnchorInv
<1>. SUFFICES ASSUME AnchorInit PROVE AnchorInv
  OBVIOUS
<1>1. NoBatch \in BatchRecords /\ NoBatch.status = "pending"
  BY DEF NoBatch, BatchRecords, Unset
<1>2. RooterOK(OffDuty, roots, tip)
  BY <1>1 DEF RooterOK, BatchOK, OffDuty
<1>3. roots \in Seq(RootRecords) /\ kept \in Seq(BatchRecords) /\ Range(kept) = {}
  BY DEF AnchorInit, Range
<1>4. Anchored(roots) \in Nat
  <2>1. [receipts |-> {}, block |-> 0] \in RootRecords
    BY DEF RootRecords
  <2>. QED  BY <1>3, <2>1, AnchoredAppend
<1>. QED
  BY <1>1, <1>2, <1>3, <1>4 DEF AnchorInit, AnchorInv, Unset

\* Every step of the daemon, of the chain and of the height's timer.
LEMMA AnchorNextInv == AnchorInv /\ [AnchorNext]_anchorVars => AnchorInv'
<1>. SUFFICES ASSUME AnchorInv, [AnchorNext]_anchorVars PROVE AnchorInv'
  OBVIOUS
<1>0. /\ tip \in Nat \ {0} /\ FinalDepth \in Nat /\ checked \in Nat
      /\ NoBatch \in BatchRecords /\ RooterOK(OffDuty, roots, tip)
  <2>1. NoBatch \in BatchRecords /\ NoBatch.status = "pending"
    BY DEF NoBatch, BatchRecords, Unset
  <2>. QED  BY <2>1, AnchorConstants DEF AnchorInv, RooterOK, BatchOK, OffDuty
<1>1. CASE BlockMined
  <2>1. tip + 1 \in Nat \ {0} /\ tip <= tip + 1 /\ checked <= tip + 1
    BY <1>0 DEF AnchorInv
  <2>2. /\ \A b : BatchOK(b, roots, tip) => BatchOK(b, roots, tip + 1)
        /\ \A v : RooterOK(v, roots, tip) => RooterOK(v, roots, tip + 1)
    BY <1>0, <2>1, BatchLasts
  <2>. QED  BY <1>1, <2>1, <2>2 DEF BlockMined, AnchorInv
<1>2. CASE AskHeight
  BY <1>0, <1>2 DEF AskHeight, AnchorInv
\* What a check makes of a batch.
<1>3. ASSUME NEW b, BatchOK(b, roots, tip) PROVE BatchOK(Deepen(b), roots, tip)
  <2>1. b \in BatchRecords /\ b.block \in Nat
    BY <1>3 DEF BatchOK, BatchRecords
  <2>2. CASE Deepen(b) = b
    BY <1>3, <2>2
  <2>3. CASE b.status = "submitted" /\ b.block # Unset
    <3>1. RootedIn(roots, b)
      BY <1>3, <2>3 DEF BatchOK
    <3>2. ASSUME checked - b.block >= FinalDepth PROVE BatchOK(Deepen(b), roots, tip)
      <4>1. PICK q : q = [b EXCEPT !.status = "finalized"] /\ Deepen(b) = q
        BY <2>3, <3>2 DEF Deepen
      <4>2. /\ q \in BatchRecords /\ q.status = "finalized"
            /\ q.block = b.block /\ q.receipts = b.receipts
        BY <2>1, <4>1 DEF BatchRecords
      <4>3. tip - q.block >= FinalDepth
        BY <1>0, <2>1, <3>2, <4>2 DEF AnchorInv
      <4>. QED  BY <2>3, <3>1, <4>1, <4>2, <4>3 DEF BatchOK, RootedIn
    <3>3. ASSUME ~(checked - b.block >= FinalDepth), checked - b.block >= 1
          PROVE  BatchOK(Deepen(b), roots, tip)
      <4>1. PICK q : q = [b EXCEPT !.status = "confirmed"] /\ Deepen(b) = q
        BY <2>3, <3>3 DEF Deepen
      <4>2. /\ q \in BatchRecords /\ q.status = "confirmed"
            /\ q.block = b.block /\ q.receipts = b.receipts
        BY <2>1, <4>1 DEF BatchRecords
      <4>. QED  BY <2>3, <3>1, <4>1, <4>2 DEF BatchOK, RootedIn
    <3>. QED  BY <1>3, <3>2, <3>3 DEF Deepen
  <2>. QED  BY <2>2, <2>3 DEF Deepen
<1>4. CASE MarkBatches
  <2>1. \A b \in Range(kept) : BatchOK(b, roots, tip)
    BY DEF AnchorInv
  <2>2. \A i \in DOMAIN kept : kept'[i] = Deepen(kept[i]) /\ kept[i] \in Range(kept)
    BY <1>4 DEF MarkBatches, Range
  <2>3. DOMAIN kept' = DOMAIN kept
    BY <1>4 DEF MarkBatches
  <2>4. \A b \in Range(kept') : BatchOK(b, roots, tip)
    <3>1. ASSUME NEW b \in Range(kept') PROVE BatchOK(b, roots, tip)
      <4>1. PICK i \in DOMAIN kept : b = kept'[i]
        BY <2>3 DEF Range
      <4>. QED  BY <1>3, <2>1, <2>2, <4>1
    <3>. QED  BY <3>1
  <2>5. kept' \in Seq(BatchRecords)
    <3>1. kept \in Seq(BatchRecords)
      BY DEF AnchorInv
    <3>2. \A i \in DOMAIN kept : Deepen(kept[i]) \in BatchRecords
      BY <1>3, <2>1, <2>2 DEF BatchOK
    <3>3. kept' = [i \in DOMAIN kept |-> Deepen(kept[i])]
      BY <1>4 DEF MarkBatches
    <3>4. Len(kept) \in Nat /\ DOMAIN kept = 1..Len(kept)
      BY <3>1
    <3>5. kept' \in [1..Len(kept) -> BatchRecords]
      BY <3>2, <3>3, <3>4
    <3>. HIDE DEF BatchRecords
    <3>. QED  BY <3>4, <3>5
  <2>6. \A b \in final' : b.status = "finalized" /\ BatchOK(b, roots, tip)
    BY <1>4, <2>4 DEF MarkBatches, AnchorInv
  <2>. QED  BY <1>0, <1>4, <2>4, <2>5, <2>6 DEF MarkBatches, AnchorInv, Unset
<1>5. ASSUME NEW k \in Rooters, AskPending(k) PROVE AnchorInv'
  <2>1. PICK pending \in SUBSET (Receipts \ told) :
             Goes(k, "submit", [NoBatch EXCEPT !.receipts = pending])
    BY <1>5 DEF AskPending
  <2>2. PICK b : b = [NoBatch EXCEPT !.receipts = pending] /\ Goes(k, "submit", b)
    BY <2>1
  <2>3. b \in BatchRecords /\ b.status = "pending"
    BY <2>2 DEF NoBatch, BatchRecords, Unset
  <2>4. RooterOK([at |-> "submit", batch |-> b], roots, tip)
    BY <2>3 DEF RooterOK, BatchOK
  <2>5. /\ rooter' = [q \in Rooters |-> rooter'[q]]
        /\ \A q \in Rooters : RooterOK(rooter'[q], roots, tip)
    BY <2>2, <2>4, RooterMoves DEF Goes
  <2>. QED  BY <1>5, <2>5 DEF AskPending, AnchorInv
<1>6. ASSUME NEW k \in Rooters, RootTaken(k) PROVE AnchorInv'
  <2>. DEFINE b == rooter[k].batch
              x == [receipts |-> b.receipts, block |-> tip]
              qs == Append(roots, x)
  <2>1. RooterOK(rooter[k], roots, tip) /\ b \in BatchRecords
    BY DEF AnchorInv, RooterOK, BatchOK
  <2>2. x \in RootRecords /\ b.receipts \in SUBSET Receipts
    BY <1>0, <2>1 DEF RootRecords, BatchRecords
  <2>3. /\ qs \in Seq(RootRecords) /\ x \in Range(qs) /\ Range(roots) \subseteq Range(qs)
    <3>1. roots \in Seq(RootRecords)
      BY DEF AnchorInv
    <3>. HIDE DEF x, RootRecords
    <3>. QED  BY <2>2, <3>1, LongerRange
  <2>4. roots' = qs /\ UNCHANGED <<tip, told, checked, kept, final>>
    BY <1>6 DEF RootTaken
  <2>5. /\ CoveredBy(roots) \subseteq CoveredBy(qs)
        /\ \A c : BatchOK(c, roots, tip) => BatchOK(c, qs, tip)
        /\ \A v : RooterOK(v, roots, tip) => RooterOK(v, qs, tip)
    BY <1>0, <2>3, BatchLasts
  <2>6. b.receipts \subseteq CoveredBy(qs) /\ x.receipts = b.receipts /\ x.block = tip
    BY <2>3 DEF CoveredBy
  <2>7. total' \in Nat /\ total' <= Anchored(qs)
    <3>1. /\ Anchored(roots) \in Nat /\ Cardinality(b.receipts) \in Nat
          /\ Anchored(qs) = Anchored(roots) + Cardinality(b.receipts)
      BY <2>2, AnchoredAppend DEF AnchorInv
    <3>2. total' = total \/ total' = total + Cardinality(b.receipts)
      BY <1>6 DEF RootTaken
    <3>3. total \in Nat /\ total <= Anchored(roots)
      BY DEF AnchorInv
    <3>. DEFINE c == Cardinality(b.receipts)
                a == Anchored(roots)
                d == Anchored(qs)
    <3>. HIDE DEF c, a, d
    <3>4. a \in Nat /\ c \in Nat /\ d = a + c /\ (total' = total \/ total' = total + c)
          /\ total <= a
      BY <3>1, <3>2, <3>3 DEF c, a, d
    <3>5. total' \in Nat /\ total' <= d
      BY <3>3, <3>4
    <3>. QED  BY <3>5 DEF d
  <2>8. \E v : RooterOK(v, qs, tip) /\ rooter' = [rooter EXCEPT ![k] = v]
    <3>1. CASE Goes(k, "idle", NoBatch)
      BY <1>0, <2>5, <3>1 DEF Goes, OffDuty
    <3>2. CASE \E h \in {tip, Unset} :
                 Goes(k, "confirm", [b EXCEPT !.block = h, !.status = "submitted"])
      <4>1. PICK h \in {tip, Unset} :
                 Goes(k, "confirm", [b EXCEPT !.block = h, !.status = "submitted"])
        BY <3>2
      <4>2. PICK c : c = [b EXCEPT !.block = h, !.status = "submitted"] /\ Goes(k, "confirm", c)
        BY <4>1
      <4>3. c = [receipts |-> b.receipts, block |-> h, status |-> "submitted"]
        BY <2>1, <4>2 DEF BatchRecords
      <4>4. c \in BatchRecords
        BY <1>0, <2>2, <4>1, <4>3 DEF BatchRecords, Unset
      <4>5. h # Unset => RootedIn(qs, c)
        <5>1. h # Unset => x.receipts = c.receipts /\ x.block = c.block
          BY <4>1, <4>3
        <5>. QED  BY <2>3, <5>1 DEF RootedIn
      <4>6. BatchOK(c, qs, tip)
        BY <4>3, <4>4, <4>5 DEF BatchOK
      <4>. DEFINE v == [at |-> "confirm", batch |-> c]
      <4>7. RooterOK(v, qs, tip)
        BY <2>6, <4>3, <4>6 DEF RooterOK
      <4>8. rooter' = [rooter EXCEPT ![k] = v]
        BY <4>2 DEF Goes
      <4>. QED  BY <4>7, <4>8
    <3>. QED  BY <1>6, <3>1, <3>2 DEF RootTaken
  <2>9. PICK v : RooterOK(v, qs, tip) /\ rooter' = [rooter EXCEPT ![k] = v]
    BY <2>8
  <2>10. DOMAIN rooter = Rooters
    BY DEF AnchorInv
  <2>11. rooter'[k] = v /\ \A q \in Rooters \ {k} : rooter'[q] = rooter[q]
    BY <2>9, <2>10
  <2>12. rooter' = [q \in Rooters |-> rooter'[q]]
    BY <2>9, <2>10
  <2>. HIDE DEF qs
  <2>13. \A q \in Rooters : RooterOK(rooter'[q], qs, tip)
    BY <2>5, <2>9, <2>11 DEF AnchorInv
  <2>. QED  BY <2>3, <2>4, <2>5, <2>7, <2>12, <2>13 DEF AnchorInv
<1>7. ASSUME NEW k \in Rooters, RootRefused(k) PROVE AnchorInv'
  <2>1. rooter[k].batch \in BatchRecords
    BY DEF AnchorInv, RooterOK, BatchOK
  <2>2. PICK b : b = [rooter[k].batch EXCEPT !.status = "failed"] /\ Goes(k, "keep", b)
    BY <1>7 DEF RootRefused
  <2>3. b \in BatchRecords /\ b.status = "failed"
    BY <2>1, <2>2 DEF BatchRecords
  <2>4. RooterOK([at |-> "keep", batch |-> b], roots, tip)
    BY <2>3 DEF RooterOK, BatchOK
  <2>5. /\ rooter' = [q \in Rooters |-> rooter'[q]]
        /\ \A q \in Rooters : RooterOK(rooter'[q], roots, tip)
    BY <2>2, <2>4, RooterMoves DEF Goes
  <2>. QED  BY <1>7, <2>5 DEF RootRefused, AnchorInv
<1>8. ASSUME NEW k \in Rooters, RpcThrows(k) PROVE AnchorInv'
  <2>1. /\ rooter' = [q \in Rooters |-> rooter'[q]]
        /\ \A q \in Rooters : RooterOK(rooter'[q], roots, tip)
    BY <1>0, <1>8, RooterMoves DEF RpcThrows, Goes, OffDuty
  <2>. QED  BY <1>8, <2>1 DEF RpcThrows, AnchorInv
<1>9. ASSUME NEW k \in Rooters, ConfirmAnchor(k) PROVE AnchorInv'
  <2>1. RooterOK(rooter[k], roots, tip) /\ DOMAIN rooter = Rooters
    BY DEF AnchorInv
  <2>2. PICK v : v = [rooter[k] EXCEPT !.at = "keep"] /\ rooter' = [rooter EXCEPT ![k] = v]
    BY <1>9 DEF ConfirmAnchor
  <2>3. v = [at |-> "keep", batch |-> rooter[k].batch]
    BY <2>1, <2>2 DEF RooterOK
  <2>4. RooterOK(v, roots, tip)
    BY <2>1, <2>3 DEF RooterOK
  <2>5. /\ rooter' = [q \in Rooters |-> rooter'[q]]
        /\ \A q \in Rooters : RooterOK(rooter'[q], roots, tip)
    BY <2>2, <2>4, RooterMoves
  <2>6. told' \subseteq CoveredBy(roots)
    BY <1>9, <2>1 DEF ConfirmAnchor, RooterOK, AnchorInv
  <2>. QED  BY <1>9, <2>5, <2>6 DEF ConfirmAnchor, AnchorInv
<1>10. ASSUME NEW k \in Rooters, KeepBatch(k) PROVE AnchorInv'
  <2>. DEFINE b == rooter[k].batch
              more == Append(kept, b)
  <2>1. /\ rooter' = [q \in Rooters |-> rooter'[q]]
        /\ \A q \in Rooters : RooterOK(rooter'[q], roots, tip)
    BY <1>0, <1>10, RooterMoves DEF KeepBatch, Goes, OffDuty
  <2>2. BatchOK(b, roots, tip) /\ b \in BatchRecords
    BY DEF AnchorInv, RooterOK, BatchOK
  <2>3. kept \in Seq(BatchRecords) /\ \A c \in Range(kept) : BatchOK(c, roots, tip)
    BY DEF AnchorInv
  <2>4. more \in Seq(BatchRecords) /\ Range(more) = Range(kept) \cup {b} /\ more # << >>
    <3>. HIDE DEF b, BatchRecords
    <3>1. more # << >>
      <4>1. Len(more) = Len(kept) + 1 /\ Len(kept) \in Nat
        BY <2>2, <2>3
      <4>. HIDE DEF more
      <4>. QED  BY <4>1
    <3>. QED  BY <2>2, <2>3, <3>1, LongerRange
  <2>5. Tail(more) \in Seq(BatchRecords) /\ Range(Tail(more)) \subseteq Range(more)
    <3>. HIDE DEF more, BatchRecords
    <3>. QED  BY <2>4, ShorterRange
  <2>6. kept' \in {kept, more, Tail(more)}
    BY <1>10 DEF KeepBatch
  <2>. HIDE DEF b, more, BatchRecords
  <2>7. kept' \in Seq(BatchRecords) /\ \A c \in Range(kept') : BatchOK(c, roots, tip)
    BY <2>2, <2>3, <2>4, <2>5, <2>6
  <2>. QED  BY <1>10, <2>1, <2>7 DEF KeepBatch, AnchorInv
<1>11. CASE UNCHANGED anchorVars
  BY <1>11 DEF anchorVars, AnchorInv
<1>. QED
  BY <1>1, <1>2, <1>4, <1>5, <1>6, <1>7, <1>8, <1>9, <1>10, <1>11 DEF AnchorNext

\* What the invariant says of what was finalized and counted.
LEMMA AnchorSafe == AnchorInv => FinalityIsReal
<1>. SUFFICES ASSUME AnchorInv PROVE FinalityIsReal
  OBVIOUS
<1>1. ASSUME NEW b \in final PROVE tip - b.block >= FinalDepth /\ RootedIn(roots, b)
  BY <1>1 DEF AnchorInv, BatchOK
<1>. QED  BY <1>1 DEF AnchorInv, FinalityIsReal, RootedIn, CoveredBy

-----------------------------------------------------------------------------
(* What the guardian counts *)

\* What the guardian counts is backed by what was done: between two resets no more is
\* funded than the daily limit and a top-up for each cycle that overlaps, no announced
\* revenue is missing from the table, nor a row from the totals, and no receipt is taken
\* for anchored, or counted, that the chain has no root for - for any cycles, rounds and
\* receipts, and whatever answers are lost.
THEOREM CountsStayBacked == Spec => []CountsAreBacked
<1>1. Init => TreasurerInv /\ ReaperInv /\ AnchorInv
  BY TreasurerInitInv, ReaperInitInv, AnchorInitInv DEF Init
<1>2. TreasurerInv /\ ReaperInv /\ AnchorInv /\ [Next]_guardianVars
      => TreasurerInv' /\ ReaperInv' /\ AnchorInv'
  BY EachByItself, TreasurerNextInv, ReaperNextInv, AnchorNextInv
<1>3. TreasurerInv /\ ReaperInv /\ AnchorInv => CountsAreBacked
  BY TreasurerSafe, ReaperSafe, AnchorSafe DEF CountsAreBacked
<1>. QED  BY <1>1, <1>2, <1>3, PTL DEF Spec

-----------------------------------------------------------------------------
(* The audit log keeps the promise of AtLeastOnce *)

FlushRecords == [batch : Seq(Entries), inserted : BOOLEAN]

\* What the refinement needs: a batch whose INSERT has run is in the log.
AuditInv ==
    /\ buffer \in Seq(Entries)
    /\ flush \in [Flushes -> FlushRecords]
    /\ \A f \in Flushes : flush[f].inserted => Range(flush[f].batch) \subseteq log
    /\ ends \in Nat

\* What the runs of flush hold, without one of them.
TakenElsewhere(f) == UNION {Range(flush[g].batch) : g \in Flushes \ {f}}

\* A run of flush changes, the others hold what they held.
LEMMA TakenMoves ==
    ASSUME AuditInv, NEW f \in Flushes, NEW v \in FlushRecords,
           flush' = [flush EXCEPT ![f] = v],
           v.inserted => Range(v.batch) \subseteq log', log \subseteq log'
    PROVE  /\ Taken = TakenElsewhere(f) \cup Range(flush[f].batch)
           /\ Taken' = TakenElsewhere(f) \cup Range(v.batch)
           /\ flush' \in [Flushes -> FlushRecords]
           /\ \A g \in Flushes : flush'[g].inserted => Range(flush'[g].batch) \subseteq log'
<1>. DEFINE Had(g) == Range(flush[g].batch)
            Has(g) == Range(flush'[g].batch)
<1>1. flush' \in [Flushes -> FlushRecords]
  BY DEF AuditInv
<1>2. flush'[f] = v /\ \A g \in Flushes \ {f} : flush'[g] = flush[g]
  BY DEF AuditInv
<1>3. Has(f) = Range(v.batch) /\ \A g \in Flushes \ {f} : Has(g) = Had(g)
  BY <1>2
<1>4. /\ Taken = UNION {Had(g) : g \in Flushes}
      /\ Taken' = UNION {Has(g) : g \in Flushes}
      /\ TakenElsewhere(f) = UNION {Had(g) : g \in Flushes \ {f}}
  BY DEF Taken, TakenElsewhere
<1>5. \A g \in Flushes : flush'[g].inserted => Range(flush'[g].batch) \subseteq log'
  BY <1>2 DEF AuditInv
<1>. HIDE DEF Had, Has
<1>6. Taken = TakenElsewhere(f) \cup Had(f)
  BY <1>4
<1>7. Taken' = TakenElsewhere(f) \cup Has(f)
  BY <1>3, <1>4
<1>. QED  BY <1>1, <1>3, <1>5, <1>6, <1>7 DEF Had

\* Every step of the audit log is a step of the outbox, or none, and keeps the invariant.
LEMMA AuditRefines ==
    ASSUME AuditInv, [AuditNext]_auditVars
    PROVE  AuditInv' /\ [Outbox!OutboxNext]_(Outbox!outbox)
<1>. DEFINE waits == Range(buffer) \cup Taken
            Rests == waits' = waits /\ log' = log /\ ends' = ends
<1>0. /\ NoFlush \in FlushRecords /\ ~NoFlush.inserted /\ Range(NoFlush.batch) = {}
      /\ buffer \in Seq(Entries) /\ ends \in Nat /\ \A f \in Flushes : flush[f] \in FlushRecords
  BY DEF AuditInv, NoFlush, FlushRecords, Range
<1>1. \A e \in Entries : waits' = waits \cup {e} /\ e \notin waits \cup log
                         /\ log' = log /\ ends' = ends => Outbox!OutboxNext
  BY DEF Outbox!OutboxNext, Outbox!Accept
<1>2. \A S \in SUBSET Entries : S # {} /\ S \subseteq waits /\ log' = log \cup S
                                /\ waits' = waits /\ ends' = ends => Outbox!OutboxNext
  BY DEF Outbox!OutboxNext, Outbox!Store
<1>3. \A S \in SUBSET Entries : S # {} /\ S \subseteq waits \cap log /\ waits' = waits \ S
                                /\ log' = log /\ ends' = ends => Outbox!OutboxNext
  BY DEF Outbox!OutboxNext, Outbox!Settle
<1>4. Rests => [Outbox!OutboxNext]_(Outbox!outbox)
  BY DEF Outbox!outbox
\* A batch is taken out of the buffer.
<1>5. ASSUME NEW f \in Flushes, NEW es \in Seq(Entries), Splice(f, es),
             UNCHANGED <<log, ends>>
      PROVE  AuditInv' /\ waits' = Taken \cup Range(es)
  <2>. DEFINE v == [batch |-> es, inserted |-> FALSE]
  <2>1. v \in FlushRecords /\ ~v.inserted /\ v.batch = es
    BY DEF FlushRecords
  <2>2. flush' = [flush EXCEPT ![f] = v] /\ flush[f] = NoFlush /\ buffer' = << >>
    BY <1>5 DEF Splice, Running
  <2>. HIDE DEF v
  <2>3. /\ Taken = TakenElsewhere(f) \cup Range(flush[f].batch)
        /\ Taken' = TakenElsewhere(f) \cup Range(v.batch)
        /\ flush' \in [Flushes -> FlushRecords]
        /\ \A g \in Flushes : flush'[g].inserted => Range(flush'[g].batch) \subseteq log'
    BY <1>5, <2>1, <2>2, TakenMoves
  <2>4. Range(buffer') = {} /\ buffer' \in Seq(Entries)
    BY <2>2 DEF Range
  <2>. QED  BY <1>0, <1>5, <2>1, <2>2, <2>3, <2>4 DEF AuditInv
<1>6. ASSUME NEW e \in Entries, Record(e)
      PROVE  AuditInv' /\ Outbox!OutboxNext
  <2>1. Append(buffer, e) \in Seq(Entries) /\ Range(Append(buffer, e)) = Range(buffer) \cup {e}
    BY <1>0, LongerRange
  <2>2. AuditInv' /\ waits' = waits \cup {e}
    <3>1. CASE \E f \in Flushes : Splice(f, Append(buffer, e))
      BY <1>5, <1>6, <2>1, <3>1 DEF Record
    <3>2. CASE buffer' = Append(buffer, e) /\ UNCHANGED flush
      <4>1. Taken' = Taken
        BY <3>2 DEF Taken
      <4>. QED  BY <1>6, <2>1, <3>2, <4>1 DEF Record, AuditInv
    <3>. QED  BY <1>6, <3>1, <3>2 DEF Record
  <2>. QED  BY <1>1, <1>6, <2>2 DEF Record
<1>7. ASSUME NEW f \in Flushes, FlushTimer(f) PROVE AuditInv' /\ Rests
  BY <1>0, <1>5, <1>7 DEF FlushTimer
<1>8. ASSUME NEW f \in Flushes, InsertRuns(f)
      PROVE  AuditInv' /\ [Outbox!OutboxNext]_(Outbox!outbox)
  <2>. DEFINE S == Range(flush[f].batch)
  <2>1. PICK v : v = [flush[f] EXCEPT !.inserted = TRUE] /\ flush' = [flush EXCEPT ![f] = v]
    BY <1>8 DEF InsertRuns
  <2>2. v \in FlushRecords /\ v.inserted /\ v.batch = flush[f].batch
    BY <1>0, <2>1 DEF FlushRecords
  <2>3. log' = log \cup S /\ UNCHANGED <<buffer, ends>>
    BY <1>8 DEF InsertRuns
  <2>4. /\ Taken = TakenElsewhere(f) \cup S /\ Taken' = TakenElsewhere(f) \cup S
        /\ flush' \in [Flushes -> FlushRecords]
        /\ \A g \in Flushes : flush'[g].inserted => Range(flush'[g].batch) \subseteq log'
    BY <2>1, <2>2, <2>3, TakenMoves
  <2>5. AuditInv'
    BY <1>0, <2>3, <2>4 DEF AuditInv
  <2>6. S \in SUBSET Entries
    <3>1. flush[f].batch \in Seq(Entries)
      BY <1>0 DEF FlushRecords
    <3>. QED  BY <3>1, LongerRange DEF Range
  <2>. HIDE DEF S
  <2>7. waits' = waits /\ S \subseteq waits
    BY <2>3, <2>4
  <2>. QED  BY <1>2, <1>4, <2>3, <2>5, <2>6, <2>7
\* A run of flush ends.
<1>9. ASSUME NEW f \in Flushes, flush' = [flush EXCEPT ![f] = NoFlush], log' = log
      PROVE  /\ Taken = TakenElsewhere(f) \cup Range(flush[f].batch)
             /\ Taken' = TakenElsewhere(f)
             /\ flush' \in [Flushes -> FlushRecords]
             /\ \A g \in Flushes : flush'[g].inserted => Range(flush'[g].batch) \subseteq log'
  <2>1. log \subseteq log' /\ (NoFlush.inserted => Range(NoFlush.batch) \subseteq log')
    BY <1>0, <1>9
  <2>2. NoFlush \in FlushRecords /\ Range(NoFlush.batch) = {}
    BY <1>0
  <2>. HIDE DEF NoFlush
  <2>3. /\ Taken = TakenElsewhere(f) \cup Range(flush[f].batch)
        /\ Taken' = TakenElsewhere(f) \cup Range(NoFlush.batch)
        /\ flush' \in [Flushes -> FlushRecords]
        /\ \A g \in Flushes : flush'[g].inserted => Range(flush'[g].batch) \subseteq log'
    BY <1>9, <2>1, <2>2, TakenMoves
  <2>. QED  BY <2>2, <2>3
<1>10. ASSUME NEW f \in Flushes, InsertAnswered(f)
       PROVE  AuditInv' /\ [Outbox!OutboxNext]_(Outbox!outbox)
  <2>. DEFINE S == waits \ waits'
  <2>1. UNCHANGED <<buffer, log, ends>>
    BY <1>10 DEF InsertAnswered
  <2>2. /\ Taken = TakenElsewhere(f) \cup Range(flush[f].batch)
        /\ Taken' = TakenElsewhere(f)
        /\ flush' \in [Flushes -> FlushRecords]
        /\ \A g \in Flushes : flush'[g].inserted => Range(flush'[g].batch) \subseteq log'
    BY <1>9, <1>10 DEF InsertAnswered
  <2>3. AuditInv'
    BY <1>0, <2>1, <2>2 DEF AuditInv
  <2>4. Range(flush[f].batch) \subseteq log /\ Range(flush[f].batch) \subseteq Entries
    <3>1. flush[f].batch \in Seq(Entries) /\ flush[f].inserted
      BY <1>0, <1>10 DEF FlushRecords, InsertAnswered
    <3>. QED  BY <3>1 DEF Range, AuditInv
  <2>5. /\ S \subseteq Range(flush[f].batch) /\ S \subseteq waits /\ waits' = waits \ S
    BY <2>1, <2>2
  <2>6. S \in SUBSET Entries /\ S \subseteq waits \cap log
    BY <2>4, <2>5
  <2>. HIDE DEF S
  <2>7. S = {} => waits' = waits
    BY <2>5
  <2>. QED  BY <1>3, <1>4, <2>1, <2>3, <2>5, <2>6, <2>7
<1>11. ASSUME NEW f \in Flushes, InsertFails(f) PROVE AuditInv' /\ Rests
  <2>1. flush[f].batch \in Seq(Entries)
    BY <1>0 DEF FlushRecords
  <2>2. /\ buffer' = flush[f].batch \o buffer /\ UNCHANGED <<log, ends>>
    BY <1>11 DEF InsertFails
  <2>3. buffer' \in Seq(Entries) /\ Range(buffer') = Range(flush[f].batch) \cup Range(buffer)
    BY <1>0, <2>1, <2>2, JoinedRange
  <2>4. /\ Taken = TakenElsewhere(f) \cup Range(flush[f].batch)
        /\ Taken' = TakenElsewhere(f)
        /\ flush' \in [Flushes -> FlushRecords]
        /\ \A g \in Flushes : flush'[g].inserted => Range(flush'[g].batch) \subseteq log'
    BY <1>9, <1>11 DEF InsertFails
  <2>. QED  BY <1>0, <2>2, <2>3, <2>4 DEF AuditInv
<1>12. CASE AuditEnds
  <2>1. /\ buffer' = << >> /\ flush' = [f \in Flushes |-> NoFlush]
        /\ log' = log /\ ends' = ends + 1
    BY <1>12 DEF AuditEnds
  <2>2. AuditInv'
    <3>1. << >> \in Seq(Entries)
      OBVIOUS
    <3>. QED  BY <1>0, <2>1, <3>1 DEF AuditInv
  <2>3. waits' = {}
    <3>1. \A f \in Flushes : Range(flush'[f].batch) = {}
      BY <1>0, <2>1
    <3>2. Range(buffer') = {}
      BY <2>1 DEF Range
    <3>. QED  BY <3>1, <3>2 DEF Taken
  <2>4. ends' # ends
    BY <1>0, <2>1
  <2>5. Outbox!ProcessEnds
    BY <2>1, <2>3, <2>4 DEF Outbox!ProcessEnds
  <2>. QED  BY <2>2, <2>5 DEF Outbox!OutboxNext
<1>13. CASE UNCHANGED auditVars
  BY <1>4, <1>13 DEF auditVars, AuditInv, Taken
<1>. HIDE DEF waits
<1>. QED
  BY <1>4, <1>6, <1>7, <1>8, <1>10, <1>11, <1>12, <1>13 DEF AuditNext

\* The audit log keeps the safety half of AtLeastOnce, for any entries, any runs of flush
\* at one time and any limit of the buffer: an entry waits until it is stored, nothing
\* else is stored, and only the end of the process loses it.
THEOREM AuditLogRefinesOutbox == Spec => AuditDeliversSafely
<1>1. Init => AuditInv /\ Range(buffer) \cup Taken = {} /\ log = {}
  <2>. SUFFICES ASSUME AuditInit
                PROVE  AuditInv /\ Range(buffer) \cup Taken = {} /\ log = {}
    BY DEF Init
  <2>1. NoFlush \in FlushRecords /\ ~NoFlush.inserted /\ Range(NoFlush.batch) = {}
    BY DEF NoFlush, FlushRecords, Range
  <2>2. flush = [f \in Flushes |-> NoFlush] /\ buffer = << >> /\ log = {} /\ ends = 0
    BY DEF AuditInit
  <2>3. Range(buffer) = {} /\ buffer \in Seq(Entries)
    BY <2>2 DEF Range
  <2>. HIDE DEF NoFlush, FlushRecords
  <2>4. \A f \in Flushes : Range(flush[f].batch) = {} /\ ~flush[f].inserted
    BY <2>1, <2>2
  <2>. QED  BY <2>1, <2>2, <2>3, <2>4 DEF AuditInv, Taken
<1>2. AuditInv /\ [Next]_guardianVars => AuditInv' /\ [Outbox!OutboxNext]_(Outbox!outbox)
  BY EachByItself, AuditRefines
<1>. QED
  BY <1>1, <1>2, PTL DEF Spec, AuditDeliversSafely, Outbox!OutboxSafe
=============================================================================
