------------------------------- MODULE Healer -------------------------------
(***************************************************************************)
(* fth-guardian, daemons/healer.ts: a queue of repairs in memory, and a    *)
(* timer (setInterval, ten seconds) whose ticks run processQueue.  A tick  *)
(* does not wait for the one before it: a repair may take forty seconds,   *)
(* and each tick works through the repairs that were pending when it       *)
(* began.                                                                  *)
(***************************************************************************)
EXTENDS Naturals, FiniteSets

CONSTANTS
    Repairs,           \* bound: entries of the queue at one time
    Ticks,             \* bound: runs of processQueue at one time
    MaxAttempts,       \* MAX_REPAIR_ATTEMPTS
    BreakerThreshold   \* CIRCUIT_BREAKER_THRESHOLD

ASSUME HealerConstants == MaxAttempts \in Nat \ {0} /\ BreakerThreshold \in Nat \ {0}

VARIABLES
    repair,      \* entry -> RepairAction
    breaker,     \* circuitBroken; "lapsed" once CIRCUIT_BREAKER_RESET_MS is over
    inARow,      \* consecutiveFailures
    tick         \* tick -> where processQueue is
healerVars == <<repair, breaker, inARow, tick>>

None == "none"
Active == {"pending", "in-progress"}

\* RepairAction: "due" is next_attempt, "free" an entry that is not there.
Free == [target |-> None, status |-> "free", attempts |-> 0, due |-> FALSE]
NoTick == [at |-> "idle", todo |-> {}, subject |-> None]

HealerInit ==
    /\ repair = [r \in Repairs |-> Free]
    /\ breaker = "closed"
    /\ inARow = 0
    /\ tick = [k \in Ticks |-> NoTick]

-----------------------------------------------------------------------------
\* enqueueRepair: dropped when the target has an active entry.
Queued(t) == \E r \in Repairs : repair[r].target = t /\ repair[r].status \in Active
EnqueueRepair(t) ==
    /\ IF Queued(t)
       THEN UNCHANGED repair
       ELSE \E r \in Repairs :
              /\ repair[r].status = "free"
              /\ repair' = [repair EXCEPT ![r] =
                    [target |-> t, status |-> "pending", attempts |-> 0, due |-> TRUE]]
    /\ UNCHANGED <<breaker, inARow, tick>>

\* An entry that is over plays no part once no tick holds it: it is dropped at
\* once, where the code drops it an hour later.
Held(r) == \E k \in Ticks : r \in tick'[k].todo \cup {tick'[k].subject}
Prune(entries) == repair' =
    [r \in Repairs |-> IF entries[r].status \in Active \/ Held(r) THEN entries[r] ELSE Free]

\* processQueue up to its loop.  An open breaker ends the tick, unless its time
\* is over.
Pending == {r \in Repairs : repair[r].status = "pending" /\ repair[r].due}
StartTick(k) ==
    /\ tick[k].at = "idle"
    /\ breaker # "open"
    /\ breaker' = "closed"
    /\ inARow' = IF breaker = "lapsed" THEN 0 ELSE inARow
    /\ tick' = [tick EXCEPT ![k] = [at |-> "loop", todo |-> Pending, subject |-> None]]
    /\ UNCHANGED repair

\* The next entry of those that were pending, whatever its status is by now.
Attempt(k, r) ==
    /\ tick[k].at = "loop" /\ r \in tick[k].todo
    /\ breaker = "closed"
    /\ repair' = [repair EXCEPT ![r].status = "in-progress", ![r].attempts = @ + 1,
                                ![r].due = FALSE]
    /\ tick' = [tick EXCEPT ![k] = [at |-> "execute", todo |-> @.todo \ {r}, subject |-> r]]
    /\ UNCHANGED <<breaker, inARow>>

\* executeRepair succeeded; the state of the daemon is still to be saved.
RepairDone(k) ==
    /\ tick[k].at = "execute"
    /\ repair' = [repair EXCEPT ![tick[k].subject].status = "completed"]
    /\ inARow' = 0
    /\ tick' = [tick EXCEPT ![k].at = "save"]
    /\ UNCHANGED breaker

StateSaved(k) ==
    /\ tick[k].at = "save"
    /\ tick' = [tick EXCEPT ![k].at = "loop", ![k].subject = None]
    /\ Prune(repair)
    /\ UNCHANGED <<breaker, inARow>>

\* The catch block: of a repair that failed, and of a completed one whose state
\* could not be saved.
Exhausted(r) == repair[r].attempts >= MaxAttempts
Trips == inARow' >= BreakerThreshold
Rises == inARow' = IF inARow < BreakerThreshold THEN inARow + 1 ELSE inARow

\* Mutant of RetryLater: the entry is not put back to pending.
RetryNever(k) ==
    /\ tick[k].at \in {"execute", "save"} /\ ~Exhausted(tick[k].subject)
    /\ Rises
    /\ breaker' = IF Trips THEN "open" ELSE breaker
    /\ tick' = [tick EXCEPT ![k].at = "loop", ![k].subject = None]
    /\ UNCHANGED repair

\* A retry, after a back-off; the breaker is looked at without an await.
RetryLater(k) ==
    LET r == tick[k].subject
    IN  /\ tick[k].at \in {"execute", "save"} /\ ~Exhausted(r)
        /\ Rises
        /\ repair' = [repair EXCEPT ![r].status = "pending", ![r].due = FALSE]
        /\ breaker' = IF Trips THEN "open" ELSE breaker
        /\ tick' = [tick EXCEPT ![k].at = "loop", ![k].subject = None]

\* The attempts are exhausted: an alert is awaited, then the breaker is looked at.
GiveUp(k) ==
    LET r == tick[k].subject
    IN  /\ tick[k].at \in {"execute", "save"} /\ Exhausted(r)
        /\ Rises
        /\ repair' = [repair EXCEPT ![r].status = "failed"]
        /\ tick' = [tick EXCEPT ![k].at = "alert"]
        /\ UNCHANGED breaker
Alerted(k) ==
    /\ tick[k].at = "alert"
    /\ breaker' = IF inARow >= BreakerThreshold THEN "open" ELSE breaker
    /\ tick' = [tick EXCEPT ![k].at = "loop", ![k].subject = None]
    /\ Prune(repair)
    /\ UNCHANGED inARow

\* The loop is over, or the breaker has tripped.
EndTick(k) ==
    /\ tick[k].at = "loop"
    /\ tick[k].todo = {} \/ breaker # "closed"
    /\ tick' = [tick EXCEPT ![k] = NoTick]
    /\ Prune(repair)
    /\ UNCHANGED <<breaker, inARow>>

\* Time: the back-off of a repair, the reset of the breaker.
BackoffElapses(r) ==
    /\ repair[r].status = "pending" /\ ~repair[r].due
    /\ repair' = [repair EXCEPT ![r].due = TRUE]
    /\ UNCHANGED <<breaker, inARow, tick>>
BreakerLapses ==
    /\ breaker = "open"
    /\ breaker' = "lapsed"
    /\ UNCHANGED <<repair, inARow, tick>>

TickStep(k) ==
    \/ \E r \in Repairs : Attempt(k, r)
    \/ RepairDone(k) \/ StateSaved(k) \/ RetryLater(k) \/ GiveUp(k) \/ Alerted(k)
    \/ EndTick(k)
HealerClock ==
    \/ \E r \in Repairs : BackoffElapses(r)
    \/ BreakerLapses

\* The process ends: the queue is in memory.
HealerRestart ==
    /\ repair' = [r \in Repairs |-> Free]
    /\ breaker' = "closed" /\ inARow' = 0
    /\ tick' = [k \in Ticks |-> NoTick]
=============================================================================
