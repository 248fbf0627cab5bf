---------------------------- MODULE MetricsWriter ----------------------------
(***************************************************************************)
(* backend_cpp/server/metrics_writer.h: records wait in a bounded queue    *)
(* that two consumers empty, the writer thread and whoever calls flush.    *)
(* Each takes records under queue_mutex_ and writes them outside it.  What *)
(* the connection pool does to a statement is one of Outcomes.             *)
(***************************************************************************)
EXTENDS Naturals, Sequences, FiniteSets, Functions

CONSTANTS Records,       \* the measurements handed to record_algorithm, each once
          BatchSize,     \* batch_size_
          QueueFactor    \* 10: the queue holds batch_size_ * 10 records

ASSUME BatchAssumption == BatchSize \in Nat \ {0} /\ QueueFactor \in Nat \ {0}

VARIABLES pending_records,   \* the queue
          async_mode, shutdown,
          stage,             \* stage[c]: where a consumer stands
          batch,             \* batch[c]: its local vector
          stats,             \* WriterStats
          rows,              \* rows[r]: how often r is in algorithm_metrics
          fate               \* fate[r]: what became of r

writerVars == <<pending_records, async_mode, shutdown, stage, batch, stats, rows, fate>>

\* The writer thread, and the thread that owns the MetricsWriter.
Consumers == {"writer", "owner"}
Counters == {"written", "batched", "dropped", "errors"}
Fates == {"new", "queued", "taken", "written", "failed", "dropped"}

WriterTypeOK == /\ pending_records \in Seq(Records)
                /\ Len(pending_records) <= BatchSize * QueueFactor
                /\ async_mode \in BOOLEAN /\ shutdown \in BOOLEAN
                /\ stage \in [Consumers -> {"idle", "batch", "retry", "exited", "joining", "destroyed"}]
                /\ batch \in [Consumers -> Seq(Records)]
                /\ stats \in [Counters -> Nat]
                /\ rows \in [Records -> Nat]
                /\ fate \in [Records -> Fates]

\* The constructor as main.cpp calls it: async_mode, so the writer runs.
WriterInit == /\ pending_records = <<>>
              /\ async_mode = TRUE /\ shutdown = FALSE
              /\ stage = [c \in Consumers |-> "idle"]
              /\ batch = [c \in Consumers |-> <<>>]
              /\ stats = [k \in Counters |-> 0]
              /\ rows = [r \in Records |-> 0]
              /\ fate = [r \in Records |-> "new"]

Smaller(m, n) == IF m < n THEN m ELSE n
Marked(rs, f) == [r \in Records |-> IF r \in rs THEN f ELSE fate[r]]

-----------------------------------------------------------------------------
(* DbConnectionPool::execute, as far as its callers can tell: the rows are *)
(* inserted; an SQLException is caught inside and execute returns; or no   *)
(* connection could be acquired and it throws.                             *)

Outcomes == {"inserted", "caught", "throws"}

Insert(rs, outcome) ==
    rows' = [r \in Records |-> rows[r] + IF r \in rs /\ outcome = "inserted" THEN 1 ELSE 0]

-----------------------------------------------------------------------------
(* record_algorithm                                                        *)

\* Mutant: the queue takes one record more than it should.
QueueFullLate == Len(pending_records) > BatchSize * QueueFactor

QueueFull == Len(pending_records) >= BatchSize * QueueFactor

Record(r) ==
    /\ fate[r] = "new" /\ ~shutdown /\ async_mode
    /\ IF QueueFull
       THEN /\ stats' = [stats EXCEPT !["dropped"] = @ + 1]
            /\ fate' = [fate EXCEPT ![r] = "dropped"]
            /\ UNCHANGED pending_records
       ELSE /\ pending_records' = Append(pending_records, r)
            /\ fate' = [fate EXCEPT ![r] = "queued"]
            /\ UNCHANGED stats
    /\ UNCHANGED <<async_mode, shutdown, stage, batch, rows>>

\* write_record_sync, by a recorder in synchronous mode or as part of a retry.
WriteRecord(r, outcome) ==
    /\ Insert({r}, outcome)
    /\ fate' = [fate EXCEPT ![r] = IF outcome = "throws" THEN "failed" ELSE "written"]
    /\ stats' = IF outcome = "throws" THEN [stats EXCEPT !["errors"] = @ + 1]
                                      ELSE [stats EXCEPT !["written"] = @ + 1]

RecordSync(r, outcome) ==
    /\ fate[r] = "new" /\ ~shutdown /\ ~async_mode
    /\ WriteRecord(r, outcome)
    /\ UNCHANGED <<pending_records, async_mode, shutdown, stage, batch>>

SetAsync(b) == /\ ~shutdown
               /\ async_mode' = b
               /\ UNCHANGED <<pending_records, shutdown, stage, batch, stats, rows, fate>>

-----------------------------------------------------------------------------
(* The consumers                                                           *)

\* The first n records leave the queue for the consumer's vector.
Take(c, n) ==
    /\ n > 0
    /\ batch' = [batch EXCEPT ![c] = SubSeq(pending_records, 1, n)]
    /\ pending_records' = SubSeq(pending_records, n + 1, Len(pending_records))
    /\ fate' = Marked(Range(SubSeq(pending_records, 1, n)), "taken")
    /\ stage' = [stage EXCEPT ![c] = "batch"]

\* writer_loop: wait_for returns at the latest after a second, whatever its
\* predicate says, so the writer may collect at any time.
Collect ==
    /\ stage["writer"] = "idle"
    /\ Take("writer", Smaller(Len(pending_records), BatchSize))
    /\ UNCHANGED <<async_mode, shutdown, stats, rows>>

\* Mutant: the writer leaves as soon as it sees shutdown_.
WriterExitAtOnce ==
    /\ stage["writer"] = "idle" /\ shutdown
    /\ stage' = [stage EXCEPT !["writer"] = "exited"]
    /\ UNCHANGED <<pending_records, async_mode, shutdown, batch, stats, rows, fate>>

\* Mutant: the writer looks at shutdown_ only in asynchronous mode.
WriterExitIfAsync ==
    /\ stage["writer"] = "idle" /\ shutdown /\ async_mode /\ pending_records = <<>>
    /\ stage' = [stage EXCEPT !["writer"] = "exited"]
    /\ UNCHANGED <<pending_records, async_mode, shutdown, batch, stats, rows, fate>>

WriterExit ==
    /\ stage["writer"] = "idle" /\ shutdown /\ pending_records = <<>>
    /\ stage' = [stage EXCEPT !["writer"] = "exited"]
    /\ UNCHANGED <<pending_records, async_mode, shutdown, batch, stats, rows, fate>>

Flush ==
    /\ stage["owner"] = "idle" /\ async_mode
    /\ Take("owner", Len(pending_records))
    /\ UNCHANGED <<async_mode, shutdown, stats, rows>>

\* Mutant: the batch is retried although its statement was run.
WriteBatchAnxious(c, outcome) ==
    /\ stage[c] = "batch"
    /\ Insert(Range(batch[c]), outcome)
    /\ stage' = [stage EXCEPT ![c] = "retry"]
    /\ UNCHANGED <<pending_records, async_mode, shutdown, batch, stats, fate>>

\* write_batch_sync up to the retry.
WriteBatch(c, outcome) ==
    /\ stage[c] = "batch"
    /\ Insert(Range(batch[c]), outcome)
    /\ IF outcome = "throws"
       THEN /\ stats' = [stats EXCEPT !["errors"] = @ + Len(batch[c])]
            /\ stage' = [stage EXCEPT ![c] = "retry"]
            /\ UNCHANGED <<batch, fate>>
       ELSE /\ stats' = [stats EXCEPT !["written"] = @ + Len(batch[c]), !["batched"] = @ + 1]
            /\ fate' = Marked(Range(batch[c]), "written")
            /\ batch' = [batch EXCEPT ![c] = <<>>]
            /\ stage' = [stage EXCEPT ![c] = "idle"]
    /\ UNCHANGED <<pending_records, async_mode, shutdown>>

\* One turn of the loop that writes the records of the batch one by one.
Retry(c, outcome) ==
    /\ stage[c] = "retry" /\ batch[c] # <<>>
    /\ WriteRecord(Head(batch[c]), outcome)
    /\ batch' = [batch EXCEPT ![c] = Tail(@)]
    /\ UNCHANGED <<pending_records, async_mode, shutdown, stage>>

RetryDone(c) ==
    /\ stage[c] = "retry" /\ batch[c] = <<>>
    /\ stage' = [stage EXCEPT ![c] = "idle"]
    /\ UNCHANGED <<pending_records, async_mode, shutdown, batch, stats, rows, fate>>

-----------------------------------------------------------------------------
(* ~MetricsWriter: nobody records any more.  The notification may be lost, *)
(* the writer's wait ends all the same.                                    *)

Destroy == /\ stage["owner"] = "idle"
           /\ shutdown' = TRUE
           /\ stage' = [stage EXCEPT !["owner"] = "joining"]
           /\ UNCHANGED <<pending_records, async_mode, batch, stats, rows, fate>>

Join == /\ stage["owner"] = "joining" /\ stage["writer"] = "exited"
        /\ stage' = [stage EXCEPT !["owner"] = "destroyed"]
        /\ UNCHANGED <<pending_records, async_mode, shutdown, batch, stats, rows, fate>>

-----------------------------------------------------------------------------
WriterStep == \/ Collect \/ WriterExit \/ RetryDone("writer")
              \/ \E o \in Outcomes : WriteBatch("writer", o) \/ Retry("writer", o)

OwnerStep == \/ Join \/ RetryDone("owner")
             \/ \E o \in Outcomes : WriteBatch("owner", o) \/ Retry("owner", o)

WriterNext == \/ \E r \in Records : Record(r) \/ \E o \in Outcomes : RecordSync(r, o)
              \/ \E b \in BOOLEAN : SetAsync(b)
              \/ WriterStep \/ OwnerStep \/ Flush \/ Destroy

WriterSpec == WriterInit /\ [][WriterNext]_writerVars

\* Both threads go on; statements end, if only by their timeouts.
WriterFairness == WF_writerVars(WriterStep) /\ WF_writerVars(OwnerStep)

-----------------------------------------------------------------------------
(* Properties                                                              *)

\* A record that is queued or taken is in one place only, and has not been
\* written yet: the two consumers never share a record.
OneConsumer ==
    /\ IsInjective(pending_records) /\ \A c \in Consumers : IsInjective(batch[c])
    /\ \A r \in Range(pending_records) : fate[r] = "queued"
    /\ \A c \in Consumers : \A r \in Range(batch[c]) : fate[r] = "taken"
    /\ Range(batch["writer"]) \cap Range(batch["owner"]) = {}

\* The fallback that retries a failed batch record by record never stores a
\* record twice, and a record reported as failed or dropped is not stored.
StoredOnce == \A r \in Records : /\ rows[r] <= 1
                                 /\ rows[r] = 1 => fate[r] = "written"

\* When the destructor returns nothing is left behind, although the writer
\* takes one batch at a time and the owner may just have flushed.
DestructorDrains ==
    stage["owner"] = "destroyed" => \A r \in Records : fate[r] \notin {"queued", "taken"}

\* The destructor returns.
DestructorReturns == stage["owner"] = "joining" ~> stage["owner"] = "destroyed"

\* The final report says how many records were written and how many failed:
\* what it counts as written is in the table.
WrittenIsStored ==
    stage["owner"] = "destroyed" => stats["written"] = Cardinality({r \in Records : rows[r] > 0})
==============================================================================
