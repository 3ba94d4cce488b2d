------------------------------ MODULE AuditLog ------------------------------
(***************************************************************************)
(* fth-guardian, core/audit-log.ts: entries are buffered in memory and     *)
(* written in batches, by a timer and when the buffer grows too large.     *)
(* Runs of flush overlap.  An INSERT that fails, or whose answer is lost,  *)
(* puts its batch back.                                                    *)
(***************************************************************************)
EXTENDS Naturals, SequencesExt

CONSTANTS
    Entries,       \* audit entries
    Flushes,       \* bound: runs of flush at one time
    BufferLimit,   \* entries the buffer holds before record flushes it
    MaxEnds        \* bound: how often the process ends

VARIABLES
    buffer,   \* the buffer
    flush,    \* slot -> a run of flush: the entries it has taken, has the INSERT run
    log,      \* entries of guardian_audit_log
    ends      \* how often the process has ended
auditVars == <<buffer, flush, log, ends>>

NoFlush == [batch |-> << >>, inserted |-> FALSE]
Running(f) == flush[f] # NoFlush

AuditInit ==
    /\ buffer = << >>
    /\ flush = [f \in Flushes |-> NoFlush]
    /\ log = {}
    /\ ends = 0

Taken == UNION {Range(flush[f].batch) : f \in Flushes}

-----------------------------------------------------------------------------
\* The first half of flush: splice the whole buffer.
Splice(f, entries) ==
    /\ ~Running(f)
    /\ flush' = [flush EXCEPT ![f] = [batch |-> entries, inserted |-> FALSE]]
    /\ buffer' = << >>

\* record: entry after entry, with a flush when the buffer is too large.  The
\* bus records every event, so each daemon is a source.
Record(e) ==
    /\ e \notin Range(buffer) \cup Taken \cup log
    /\ IF Len(buffer) + 1 > BufferLimit
       THEN \E f \in Flushes : Splice(f, Append(buffer, e))
       ELSE buffer' = Append(buffer, e) /\ UNCHANGED flush
    /\ UNCHANGED <<log, ends>>

FlushTimer(f) ==
    /\ buffer # << >>
    /\ Splice(f, buffer)
    /\ UNCHANGED <<log, ends>>

\* The INSERT of the batch, one statement.
InsertRuns(f) ==
    /\ Running(f) /\ ~flush[f].inserted
    /\ log' = log \cup Range(flush[f].batch)
    /\ flush' = [flush EXCEPT ![f].inserted = TRUE]
    /\ UNCHANGED <<buffer, ends>>
InsertAnswered(f) ==
    /\ Running(f) /\ flush[f].inserted
    /\ flush' = [flush EXCEPT ![f] = NoFlush]
    /\ UNCHANGED <<buffer, log, ends>>

\* Mutant of InsertFails: the batch replaces what was recorded meanwhile.
InsertFailsOver(f) ==
    /\ Running(f)
    /\ buffer' = flush[f].batch
    /\ flush' = [flush EXCEPT ![f] = NoFlush]
    /\ UNCHANGED <<log, ends>>

\* The INSERT fails, or has run and its answer is lost: the batch goes back in
\* front of the buffer.
InsertFails(f) ==
    /\ Running(f)
    /\ buffer' = flush[f].batch \o buffer
    /\ flush' = [flush EXCEPT ![f] = NoFlush]
    /\ UNCHANGED <<log, ends>>

\* The process ends, by a crash or by a signal: the handler of a signal stops
\* the daemons, not the log, and does not wait for a flush.
AuditEnds ==
    /\ ends < MaxEnds
    /\ ends' = ends + 1
    /\ buffer' = << >>
    /\ flush' = [f \in Flushes |-> NoFlush]
    /\ UNCHANGED log

AuditNext ==
    \/ \E e \in Entries : Record(e)
    \/ \E f \in Flushes : FlushTimer(f) \/ InsertRuns(f) \/ InsertAnswered(f) \/ InsertFails(f)
    \/ AuditEnds

\* The timer fires, a statement is answered or fails, and an entry that is sent
\* again and again is inserted in the end: the database comes back.
AuditFairness ==
    /\ WF_auditVars(\E f \in Flushes : FlushTimer(f))
    /\ \A f \in Flushes : WF_auditVars(InsertAnswered(f) \/ InsertFails(f))
    /\ \A e \in Entries :
          SF_auditVars(\E f \in Flushes : e \in Range(flush[f].batch) /\ InsertRuns(f))
AuditSafe == AuditInit /\ [][AuditNext]_auditVars

-----------------------------------------------------------------------------
(* Properties *)

Outbox == INSTANCE AtLeastOnce WITH
    waiting <- Range(buffer) \cup Taken, stored <- log

\* The audit log delivers its entries at least once: whatever flushes overlap
\* and fail, an entry waits in the buffer or in a flush until it is stored, only
\* an end of the process loses it, and once the database answers it is stored
\* (audit-log.ts:50-64, 93-119).
AuditDelivers == Outbox!OutboxSpec
AuditDeliversSafely == Outbox!OutboxSafe
=============================================================================
