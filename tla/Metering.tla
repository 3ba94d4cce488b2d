------------------------------ MODULE Metering ------------------------------
(***************************************************************************)
(* fth-metering, client.ts: usage events are buffered in an isolate of the *)
(* gateway and sent in batches to OpenMeter, by a timer and when the       *)
(* buffer is full.  One flush runs at a time; a batch that is refused, or  *)
(* whose answer is lost, goes back, and is sent later under new event ids. *)
(***************************************************************************)
EXTENDS Naturals, SequencesExt

CONSTANTS
    Usage,          \* usage events
    MaxBuffer,      \* max_buffer_size
    MaxIsolates     \* bound: how often an isolate ends

VARIABLES
    pending,    \* buffer
    sending,    \* the batch of the flush that runs
    flushing,   \* flushing
    metered,    \* the events OpenMeter has stored
    isolates    \* how often the isolate has ended
meteringVars == <<pending, sending, flushing, metered, isolates>>

MeteringInit ==
    /\ pending = << >> /\ sending = << >>
    /\ flushing = FALSE
    /\ metered = {}
    /\ isolates = 0

-----------------------------------------------------------------------------
\* The synchronous half of flush, on a buffer.
Take(events) ==
    IF flushing \/ events = << >>
    THEN pending' = events /\ UNCHANGED <<sending, flushing>>
    ELSE pending' = << >> /\ sending' = events /\ flushing' = TRUE

\* emit, by emitApiRequest after a challenge or a served request.
Emit(e) ==
    /\ e \notin Range(pending) \cup Range(sending) \cup metered
    /\ IF Len(pending) + 1 >= MaxBuffer
       THEN Take(Append(pending, e))
       ELSE pending' = Append(pending, e) /\ UNCHANGED <<sending, flushing>>
    /\ UNCHANGED <<metered, isolates>>

AutoFlush ==
    /\ ~flushing /\ pending # << >>
    /\ Take(pending)
    /\ UNCHANGED <<metered, isolates>>

\* OpenMeter stores the batch.
Ingested ==
    /\ sending # << >>
    /\ metered' = metered \cup Range(sending)
    /\ UNCHANGED <<pending, sending, flushing, isolates>>
Flushed ==
    /\ sending # << >> /\ Range(sending) \subseteq metered
    /\ sending' = << >> /\ flushing' = FALSE
    /\ UNCHANGED <<pending, metered, isolates>>

\* Mutant of FlushFailed: the flag is reset only after a success.
FlushFailedStuck ==
    /\ sending # << >>
    /\ pending' = sending \o pending
    /\ sending' = << >>
    /\ UNCHANGED <<flushing, metered, isolates>>

\* An error, or a lost answer: the batch goes back in front of the buffer.
FlushFailed ==
    /\ sending # << >>
    /\ pending' = sending \o pending
    /\ sending' = << >> /\ flushing' = FALSE
    /\ UNCHANGED <<metered, isolates>>

\* The isolate is evicted, or shutdown has run: it does not wait for a flush that
\* was under way, and drops what this flush left behind.
IsolateEnds ==
    /\ isolates < MaxIsolates
    /\ isolates' = isolates + 1
    /\ pending' = << >> /\ sending' = << >> /\ flushing' = FALSE
    /\ UNCHANGED metered

MeteringNext ==
    \/ \E e \in Usage : Emit(e)
    \/ AutoFlush \/ Ingested \/ Flushed \/ FlushFailed
    \/ IsolateEnds

\* The timer fires, a request ends (the runtime cuts it off), and OpenMeter takes a
\* batch that is sent again and again.
MeteringFairness ==
    /\ WF_meteringVars(AutoFlush)
    /\ WF_meteringVars(Flushed \/ FlushFailed)
    /\ SF_meteringVars(Ingested)
MeteringSpec == MeteringInit /\ [][MeteringNext]_meteringVars

-----------------------------------------------------------------------------
(* Properties *)

Meter == INSTANCE AtLeastOnce WITH
    Entries <- Usage, waiting <- Range(pending) \cup Range(sending),
    stored <- metered, ends <- isolates

\* Usage is metered at least once: an event waits in the buffer or in the batch
\* under way until OpenMeter has it, whatever flushes fail and whatever is emitted
\* meanwhile; only the end of an isolate loses it (client.ts:52-98).
MeteringDelivers == Meter!OutboxSpec
MeteringDeliversSafely == Meter!OutboxSafe
=============================================================================
