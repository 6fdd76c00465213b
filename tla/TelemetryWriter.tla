--------------------------- MODULE TelemetryWriter ---------------------------
(***************************************************************************)
(* db/writer.py: the TelemetryWriter both consumer groups share, and the   *)
(* hypertables behind it.                                                  *)
(*                                                                         *)
(* add() and the swap at the head of flush() never suspend (the lock they  *)
(* take is never held across an await), so a batch that reaches the        *)
(* threshold is buffered and swapped out in one action.  Each table's      *)
(* executemany is one transaction, hence one action; the sampled latency   *)
(* rows, which no property is about, are part of FlushReturns.             *)
(***************************************************************************)
EXTENDS Topics

CONSTANT BatchSize   \* settings.write_batch_size

ASSUME WriterAssumption == BatchSize \in Nat \ {0}

VARIABLES
    buffers,      \* entries whose rows are buffered
    pending,      \* stats.pending
    inflight,     \* task -> entries its flush() has swapped out, not yet written
    flushing,     \* tasks inside flush()
    timer,        \* _flush_task is alive
    rows,         \* natural keys present in the database
    dropped       \* entries counted as db_write_failed or derivation_failed

writerVars == <<buffers, pending, inflight, flushing, timer, rows, dropped>>

\* The tasks that call flush(): the consumers' loops through add(), the
\* periodic flush, and stop() on the main task.
Periodic == "db-flush"
Main     == "main"
Tasks    == Groups \union {Periodic, Main}

WriterTypeOK ==
    /\ buffers \subseteq Entries
    /\ pending \in Nat
    /\ inflight \in [Tasks -> SUBSET Entries]
    /\ flushing \subseteq Tasks
    /\ timer \in BOOLEAN
    /\ rows \subseteq Records
    /\ dropped \subseteq Entries

WriterInit ==
    /\ buffers = {}
    /\ pending = 0
    /\ inflight = [t \in Tasks |-> {}]
    /\ flushing = {}
    /\ timer = FALSE
    /\ rows = {}
    /\ dropped = {}

\* Everything the writer holds in process memory.
InMemory == buffers \union UNION {inflight[t] : t \in Tasks}

\* The entries of S whose row goes to table k.
RowsFor(S, k) == {e \in S : TableOf[RecordOf(e)] = k}

-----------------------------------------------------------------------------
\* Mutant: the counter is decremented by what is swapped out, not reset.
SwapOutDecrement(t, held) ==
    /\ inflight' = [inflight EXCEPT ![t] = held]
    /\ flushing' = flushing \union {t}
    /\ buffers' = {}
    /\ pending' = pending - Cardinality(held)

\* flush() by task t up to its first await, on the given buffered entries.
SwapOut(t, held) ==
    /\ inflight' = [inflight EXCEPT ![t] = held]
    /\ flushing' = flushing \union {t}
    /\ buffers' = {}
    /\ pending' = 0

\* Mutant: off by one.
ExceedsThreshold(S) ==
    pending + Cardinality({e \in S : HasRow(e)}) > BatchSize

\* add(): the batch reaches the threshold and its caller flushes.
ReachesThreshold(S) ==
    pending + Cardinality({e \in S : HasRow(e)}) >= BatchSize

Add(t, S) ==
    LET new == {e \in S : HasRow(e)} IN
    /\ \/ /\ ReachesThreshold(S)
          /\ SwapOut(t, buffers \union new)
       \/ /\ ~ ReachesThreshold(S)
          /\ buffers' = buffers \union new
          /\ pending' = pending + Cardinality(new)
          /\ UNCHANGED <<inflight, flushing>>
    /\ UNCHANGED <<timer, rows>>

\* Mutant: one table written, all of the batch forgotten.
WriteTableOnly(t, k) ==
    /\ t \in flushing
    /\ RowsFor(inflight[t], k) # {}
    /\ rows' = rows \union RecordsOf(RowsFor(inflight[t], k))
    /\ inflight' = [inflight EXCEPT ![t] = {}]
    /\ UNCHANGED <<buffers, pending, flushing, timer, dropped>>

\* executemany for one table succeeds: ON CONFLICT makes a known key a no-op.
WriteTable(t, k) ==
    /\ t \in flushing
    /\ RowsFor(inflight[t], k) # {}
    /\ rows' = rows \union RecordsOf(RowsFor(inflight[t], k))
    /\ inflight' = [inflight EXCEPT ![t] = @ \ RowsFor(@, k)]
    /\ UNCHANGED <<buffers, pending, flushing, timer, dropped>>

\* Mutant: the failed rows are not counted.
WriteFailsSilently(t, k) ==
    /\ t \in flushing
    /\ RowsFor(inflight[t], k) # {}
    /\ inflight' = [inflight EXCEPT ![t] = @ \ RowsFor(@, k)]
    /\ UNCHANGED <<buffers, pending, flushing, timer, rows, dropped>>

\* executemany raises: that table's rows are counted and dropped.  The
\* transaction may have committed before the connection failed.
WriteFails(t, k) ==
    /\ t \in flushing
    /\ RowsFor(inflight[t], k) # {}
    /\ dropped' = dropped \union RowsFor(inflight[t], k)
    /\ rows' \in {rows, rows \union RecordsOf(RowsFor(inflight[t], k))}
    /\ inflight' = [inflight EXCEPT ![t] = @ \ RowsFor(@, k)]
    /\ UNCHANGED <<buffers, pending, flushing, timer>>

FlushReturns(t) ==
    /\ t \in flushing
    /\ inflight[t] = {}
    /\ flushing' = flushing \ {t}
    /\ UNCHANGED <<buffers, pending, inflight, timer, rows, dropped>>

\* Mutant: the periodic task, too, waits for a full batch.
PeriodicFlushWhenFull ==
    /\ timer
    /\ Periodic \notin flushing
    /\ pending >= BatchSize
    /\ SwapOut(Periodic, buffers)
    /\ UNCHANGED <<timer, rows, dropped>>

\* The periodic task wakes up; with nothing buffered flush() returns at once.
PeriodicFlush ==
    /\ timer
    /\ Periodic \notin flushing
    /\ buffers # {}
    /\ SwapOut(Periodic, buffers)
    /\ UNCHANGED <<timer, rows, dropped>>

\* A task is cancelled: what its flush() had swapped out is gone.
CancelFlush(t) ==
    /\ inflight' = [inflight EXCEPT ![t] = {}]
    /\ flushing' = flushing \ {t}

\* stop() up to the first await of its flush(): the periodic task is
\* cancelled wherever it is, then the tail is swapped out by the main task.
StopWriter ==
    /\ timer' = FALSE
    /\ inflight' = [inflight EXCEPT ![Periodic] = {}, ![Main] = buffers]
    /\ flushing' = (flushing \ {Periodic}) \union {Main}
    /\ buffers' = {}
    /\ pending' = 0
    /\ UNCHANGED <<rows, dropped>>

StartWriter ==
    /\ timer' = TRUE
    /\ UNCHANGED <<buffers, pending, inflight, flushing, rows, dropped>>
=============================================================================
