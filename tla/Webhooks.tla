------------------------------ MODULE Webhooks ------------------------------
(***************************************************************************)
(* The webhooks of the facilitator (services/webhooks.ts): dispatchEvent   *)
(* queues a delivery for every subscription that listens for an event and  *)
(* starts deliverWebhook for it without waiting; a timer of index.ts       *)
(* starts deliverWebhook again for failed deliveries.  A delivery's row    *)
(* and the runs of deliverWebhook that work on it are only loosely tied:   *)
(* runs live in memory, and any number may work on one row.                *)
(*                                                                         *)
(* The treasury is a process of its own with a copy of the dispatch and of *)
(* deliverWebhook (fth-x402-treasury, services/webhooks.ts) over the same  *)
(* tables; it has no timer, and leaves what failed to the facilitator's.   *)
(*                                                                         *)
(* Data abstraction.  An event is dispatched once, by one of the services  *)
(* and for one wallet; the subscriptions are those of this wallet that     *)
(* name the event.  Of age only whether a delivery is older than 24 hours  *)
(* is kept.  The sleeps between attempts, url, secret and payload are left *)
(* out.                                                                    *)
(***************************************************************************)
EXTENDS Integers, SequencesExt

CONSTANTS
    Events,      \* events
    Subs,        \* subscriptions
    Runs,        \* concurrent runs of deliverWebhook
    RetryLimit,  \* LIMIT of the retry query (20)
    MaxTries     \* bound: further attempts of a delivery count as this one

None == "none"
ASSUME NoneIsNoEvent == None \notin Events \cup Subs
ASSUME SubsAreFinite == IsFiniteSet(Subs)
ASSUME LimitIsPositive == RetryLimit \in Nat \ {0}
ASSUME TriesReachAttempts == MaxTries \in Nat /\ MaxTries >= 3

maxAttempts == 3

VARIABLES
    subs,        \* subscription -> none, active, inactive or deleted
    dispatching, \* event -> the subscriptions that wait for their INSERT
    matched,     \* dispatched event -> its service and what the SELECT returned
    queued,      \* the deliveries that were inserted, by created_at
    deliveries,  \* delivery -> its row
    runs,        \* run -> the attempt it is at
    sweep,       \* the deliveries that the retry timer has still to start
    tries,       \* history: delivery -> its attempts
    accepted,    \* history: the deliveries that an endpoint answered with 2xx
    mishaps      \* history: which kinds of mishap have happened

webhooksVars == <<subs, dispatching, matched, queued, deliveries, runs, sweep,
          tries, accepted, mishaps>>
history == <<tries, accepted, mishaps>>

Services == {"facilitator", "treasury"}

\* One event is delivered once to each subscription.
Delivery == Events \X Subs
NoDelivery == <<None, None>>
Row == [status : {"none", "pending", "delivered", "failed"},
        attempts : 0..maxAttempts,
        old : BOOLEAN]
NoRow == [status |-> "none", attempts |-> 0, old |-> FALSE]

Run == [at : {"idle", "post", "record"},
        delivery : Delivery \cup {NoDelivery},
        attempt : 1..maxAttempts,
        result : {None, "ok", "refused", "threw"},
        service : Services]
NoRun == [at |-> "idle", delivery |-> NoDelivery, attempt |-> 1, result |-> None,
          service |-> "facilitator"]

WebhooksInit ==
    /\ subs = [s \in Subs |-> "none"]
    /\ dispatching = [e \in Events |-> << >>]
    /\ matched = << >>
    /\ queued = << >>
    /\ deliveries = [d \in Delivery |-> NoRow]
    /\ runs = [r \in Runs |-> NoRun]
    /\ sweep = << >>
    /\ tries = [d \in Delivery |-> 0]
    /\ accepted = {}
    /\ mishaps = {}

-----------------------------------------------------------------------------
(* Subscriptions *)

CreateSubscription(s) ==
    /\ subs[s] = "none"
    /\ subs' = [subs EXCEPT ![s] = "active"]
    /\ UNCHANGED <<dispatching, matched, queued, deliveries, runs, sweep, history>>

\* PATCH /webhooks/:id with active.
UpdateSubscription(s) ==
    /\ subs[s] \in {"active", "inactive"}
    /\ subs' = [subs EXCEPT ![s] = IF @ = "active" THEN "inactive" ELSE "active"]
    /\ UNCHANGED <<dispatching, matched, queued, deliveries, runs, sweep, history>>

\* DELETE, and by ON DELETE CASCADE the deliveries.
DeleteSubscription(s) ==
    /\ subs[s] \in {"active", "inactive"}
    /\ subs' = [subs EXCEPT ![s] = "deleted"]
    /\ deliveries' = [d \in Delivery |-> IF d[2] = s THEN NoRow ELSE deliveries[d]]
    /\ UNCHANGED <<dispatching, matched, queued, runs, sweep, history>>

-----------------------------------------------------------------------------
(* dispatchEvent *)

\* A run of deliverWebhook starts in a service.
StartRun(d, service) ==
    \E r \in Runs :
        /\ runs[r].at = "idle"
        /\ runs' = [runs EXCEPT ![r] =
               [NoRun EXCEPT !.at = "post", !.delivery = d, !.service = service]]

\* SELECT of the active subscriptions, in the order of the table.
SelectSubscriptions(e, service) ==
    /\ e \notin DOMAIN matched
    /\ matched' = [f \in DOMAIN matched \cup {e} |->
          IF f = e THEN [by |-> service, subs |-> {s \in Subs : subs[s] = "active"}]
          ELSE matched[f]]
    /\ \E order \in SetToSeqs(matched'[e].subs) :
          dispatching' = [dispatching EXCEPT ![e] = order]
    /\ UNCHANGED <<subs, queued, deliveries, runs, sweep, history>>

DispatchEvent(e) == SelectSubscriptions(e, "facilitator")
DispatchTreasuryEvent(e) == SelectSubscriptions(e, "treasury")

\* INSERT INTO webhook_deliveries, and a run.
QueueDelivery(e) ==
    /\ dispatching[e] # << >>
    /\ LET d == <<e, Head(dispatching[e])>>
       IN  /\ subs[d[2]] # "deleted"
           /\ deliveries' = [deliveries EXCEPT ![d].status = "pending"]
           /\ queued' = Append(queued, d)
           /\ StartRun(d, matched[e].by)
    /\ dispatching' = [dispatching EXCEPT ![e] = Tail(@)]
    /\ UNCHANGED <<subs, matched, sweep, history>>

\* The subscription was deleted since the SELECT: the foreign key refuses the
\* INSERT, dispatchEvent throws, and its caller ignores that.
QueueRefused(e) ==
    /\ dispatching[e] # << >>
    /\ subs[Head(dispatching[e])] = "deleted"
    /\ dispatching' = [dispatching EXCEPT ![e] = << >>]
    /\ UNCHANGED <<subs, matched, queued, deliveries, runs, sweep, history>>

-----------------------------------------------------------------------------
(* deliverWebhook *)

\* fetch: the endpoint answers 2xx, answers otherwise, or fetch throws (no
\* connection, timeout).
Post(r, result) ==
    LET d == runs[r].delivery
    IN  /\ runs[r].at = "post"
        /\ runs' = [runs EXCEPT ![r].at = "record", ![r].result = result]
        /\ tries' = [tries EXCEPT ![d] = IF @ < MaxTries THEN @ + 1 ELSE @]
        /\ accepted' = IF result = "ok" THEN accepted \cup {d} ELSE accepted
        /\ UNCHANGED <<subs, dispatching, matched, queued, deliveries, sweep, mishaps>>

\* Mutant of Outcome: any answer will do.
AnyAnswer(r) ==
    IF runs[r].result # "threw" THEN "delivered"
    ELSE IF runs[r].attempt >= maxAttempts THEN "failed" ELSE "pending"

Outcome(r) ==
    IF runs[r].result = "ok" THEN "delivered"
    ELSE IF runs[r].attempt >= maxAttempts THEN "failed" ELSE "pending"

\* The UPDATE; a row that is gone stays so.
Recorded(r) ==
    LET d == runs[r].delivery
    IN  IF deliveries[d].status = "none" THEN deliveries
        ELSE [deliveries EXCEPT ![d].status = Outcome(r), ![d].attempts = runs[r].attempt]

NextAttempt(run) == [run EXCEPT !.at = "post", !.attempt = @ + 1, !.result = None]

\* UPDATE webhook_deliveries; the loop returns, goes on, or ends.
Record(r) ==
    /\ runs[r].at = "record"
    /\ deliveries' = Recorded(r)
    /\ runs' = [runs EXCEPT ![r] =
                  IF @.result = "ok" \/ @.attempt = maxAttempts THEN NoRun
                  ELSE NextAttempt(@)]
    /\ UNCHANGED <<subs, dispatching, matched, queued, sweep, history>>

\* The UPDATE throws, committed or not: in the try block, that counts as a
\* failure of the attempt; in the catch block, it ends the run.
RecordThrows(r) ==
    /\ runs[r].at = "record"
    /\ deliveries' \in {deliveries, Recorded(r)}
    /\ runs' = [runs EXCEPT ![r] = IF @.result = "threw" THEN NoRun
                                   ELSE [@ EXCEPT !.result = "threw"]]
    /\ mishaps' = mishaps \cup {"dbError"}
    /\ UNCHANGED <<subs, dispatching, matched, queued, sweep, tries, accepted>>

-----------------------------------------------------------------------------
(* The maintenance timer *)

\* Mutant of Retriable: no test of the status.
AnyStatus(d) ==
    /\ deliveries[d].status # "none"
    /\ deliveries[d].attempts < 5
    /\ subs[d[2]] = "active"
    /\ ~deliveries[d].old

\* Mutant of Retriable: attempts < 3.
RetriableOnce(d) ==
    /\ deliveries[d].status = "failed"
    /\ deliveries[d].attempts < maxAttempts
    /\ subs[d[2]] = "active"
    /\ ~deliveries[d].old

\* WHERE of retryFailedDeliveries.
Retriable(d) ==
    /\ deliveries[d].status = "failed"
    /\ deliveries[d].attempts < 5
    /\ subs[d[2]] = "active"
    /\ ~deliveries[d].old

\* ORDER BY created_at LIMIT 20.
Oldest(rows) ==
    [i \in 1..(IF Len(rows) < RetryLimit THEN Len(rows) ELSE RetryLimit) |-> queued[rows[i]]]

\* Every 5 minutes; the queries of the tick before are over by then.
StartRetries ==
    LET due == {i \in DOMAIN queued : Retriable(queued[i])}
    IN  /\ sweep = << >>
        /\ due # {}
        /\ \E rows \in SetToSeqs(due) :
              /\ \A i, j \in DOMAIN rows : i < j => rows[i] < rows[j]
              /\ sweep' = Oldest(rows)
        /\ mishaps' = IF \A r \in Runs : runs[r].at = "idle" THEN mishaps
                      ELSE mishaps \cup {"overlap"}
        /\ UNCHANGED <<subs, dispatching, matched, queued, deliveries, runs,
                       tries, accepted>>

\* SELECT of the subscription, and a run, unless it has been deleted.
RetryDelivery ==
    /\ sweep # << >>
    /\ IF subs[Head(sweep)[2]] = "deleted" THEN UNCHANGED runs ELSE StartRun(Head(sweep), "facilitator")
    /\ sweep' = Tail(sweep)
    /\ UNCHANGED <<subs, dispatching, matched, queued, deliveries, history>>

\* 24 hours pass; after 7 days cleanupDeliveries deletes the row.
Age(d) ==
    /\ deliveries[d].status # "none"
    /\ ~deliveries[d].old
    /\ deliveries' = [deliveries EXCEPT ![d].old = TRUE]
    /\ UNCHANGED <<subs, dispatching, matched, queued, runs, sweep, history>>

CleanupDeliveries(d) ==
    /\ deliveries[d].old
    /\ deliveries' = [deliveries EXCEPT ![d] = NoRow]
    /\ UNCHANGED <<subs, dispatching, matched, queued, runs, sweep, history>>

\* A service ends and starts again: its runs, dispatches and ticks are forgotten.
WebhooksRestart(service) ==
    /\ runs' = [r \in Runs |-> IF runs[r].service = service THEN NoRun ELSE runs[r]]
    /\ dispatching' = [e \in Events |->
          IF e \in DOMAIN matched /\ matched[e].by = service THEN << >> ELSE dispatching[e]]
    /\ sweep' = IF service = "facilitator" THEN << >> ELSE sweep
    /\ mishaps' = mishaps \cup {"crash"}
    /\ UNCHANGED <<subs, matched, queued, deliveries, tries, accepted>>

-----------------------------------------------------------------------------
SubscriptionStep ==
    \E s \in Subs : CreateSubscription(s) \/ UpdateSubscription(s) \/ DeleteSubscription(s)

DispatchStep(e) == QueueDelivery(e) \/ QueueRefused(e)
Posting(r) == \E result \in {"ok", "refused", "threw"} : Post(r, result)
DeliverWebhook(r) ==
    runs[r].service = "facilitator" /\ (Posting(r) \/ Record(r) \/ RecordThrows(r))
TreasuryDelivers(r) ==
    runs[r].service = "treasury" /\ (Posting(r) \/ Record(r) \/ RecordThrows(r))
RetryTimer == StartRetries \/ RetryDelivery

WebhooksNext ==
    \/ SubscriptionStep
    \/ \E e \in Events : DispatchEvent(e) \/ DispatchTreasuryEvent(e) \/ DispatchStep(e)
    \/ \E r \in Runs : DeliverWebhook(r) \/ TreasuryDelivers(r)
    \/ RetryTimer
    \/ \E d \in Delivery : Age(d) \/ CleanupDeliveries(d)
    \/ \E service \in Services : WebhooksRestart(service)

\* The runtime resumes every await, the timer fires, and an endpoint that is
\* tried again and again answers some time.
WebhooksFairness ==
    /\ \A r \in Runs : WF_webhooksVars(Posting(r) \/ Record(r))
    /\ \A d \in Delivery :
          SF_webhooksVars(\E r \in Runs : runs[r].delivery = d /\ Post(r, "ok"))
    /\ WF_webhooksVars(StartRetries)
    /\ SF_webhooksVars(RetryDelivery \/ \E e \in Events : DispatchStep(e))
WebhooksSpec == WebhooksInit /\ [][WebhooksNext]_webhooksVars /\ WebhooksFairness

-----------------------------------------------------------------------------
(* Properties *)

\* What the history page of a subscription says is true, whatever runs overlap,
\* whatever fails and whichever service restarts: a delivery shown as delivered was accepted by
\* the endpoint, and one shown as failed was tried three times at least.
StatusIsHonest ==
    \A d \in Delivery :
        /\ deliveries[d].status = "delivered" => d \in accepted
        /\ deliveries[d].status = "failed" => tries[d] >= maxAttempts

\* As long as no tick of the timer finds a run under way (a run takes up to 36 s,
\* the ticks are 5 minutes apart) and no answer of the database is lost, what was
\* delivered stays delivered and is not sent again, also across restarts.
DeliveredIsFinal ==
    [][\A d \in Delivery : deliveries[d].status = "delivered" /\ mishaps' \subseteq {"crash"} =>
          /\ deliveries'[d].status \in {"delivered", "none"}
          /\ tries'[d] = tries[d]]_webhooksVars

\* A delivery reaches its endpoint by the first run or by a retry, also when runs
\* overlap, unless the subscriber leaves or pauses, a day passes, or the process
\* or the database fails.
EveryDeliveryArrives ==
    \A d \in Delivery : deliveries[d].status \in {"pending", "failed"} ~>
        \/ deliveries[d].status \in {"delivered", "none"}
        \/ deliveries[d].old
        \/ subs[d[2]] # "active"
        \/ mishaps \cap {"crash", "dbError"} # {}

=============================================================================
