------------------------------ MODULE Traffic -------------------------------
(***************************************************************************)
(* The path of the requests of one client through the middleware: the      *)
(* sliding window of the rate limiter (middleware/rate_limiter.py), the    *)
(* route, and the log of the operation, which a background task writes to  *)
(* MongoDB in batches (services/performance.py).  Requests of all workers  *)
(* interleave; the clock is read before the round trip to Redis.           *)
(***************************************************************************)
EXTENDS Naturals, FiniteSets

CONSTANTS Requests,
          Limit,         \* requests per window
          Window,        \* its length, in the clock's milliseconds
          MaxTime,       \* bound on the clock
          TrafficFaults  \* bound on the commands that fail

ASSUME TrafficAssumption == /\ {Limit, Window, MaxTime} \subseteq Nat \ {0}
                            /\ TrafficFaults \in Nat

VARIABLES now, failures,
          rpc,        \* each request: its place
          stamp,      \* now_ms of the request
          window,     \* members of the sorted set, which are their own scores
          admitted,   \* stamps of the requests let through (not stored)
          blind,      \* the limiter failed, or a later request overtook one (not stored)
          buffer,     \* _batch_buffer
          batch,      \* the local batch of the flush task
          flush,      \* where the task is
          stored,     \* operation_logs: how often each document is there
          lost,       \* documents whose write failed or was cancelled (not stored)
          stopping    \* the event loop has cancelled its tasks

log == <<buffer, batch, flush, stored, lost, stopping>>
limiter == <<window, admitted, blind>>
trafficVars == <<now, failures, rpc, stamp, limiter, log>>

TrafficTypeOK ==
    /\ now \in 1 .. MaxTime /\ failures \in 0 .. TrafficFaults
    /\ rpc \in [Requests -> {"new", "check", "route", "refused", "done"}]
    /\ stamp \in [Requests -> 0 .. now]
    /\ window \subseteq 1 .. now /\ admitted \subseteq 1 .. now /\ blind \in BOOLEAN
    /\ buffer \subseteq Requests /\ batch \subseteq Requests
    /\ flush \in {"none", "sleep", "write", "last", "done"}
    /\ flush \in {"none", "sleep", "done"} => batch = {}
    /\ stored \in [Requests -> 0 .. 2] /\ lost \subseteq Requests /\ stopping \in BOOLEAN

TrafficInit ==
    /\ now = 1 /\ failures = 0
    /\ rpc = [r \in Requests |-> "new"] /\ stamp = [r \in Requests |-> 0]
    /\ window = {} /\ admitted = {} /\ blind = FALSE
    /\ buffer = {} /\ batch = {} /\ flush = "none"
    /\ stored = [r \in Requests |-> 0] /\ lost = {} /\ stopping = FALSE

Failure == failures < TrafficFaults /\ failures' = failures + 1

-----------------------------------------------------------------------------
(* The rate limiter                                                        *)

\* dispatch: the client is identified, and _check_rate_limit reads the clock.
dispatch(r) == /\ rpc[r] = "new" /\ ~stopping
               /\ rpc' = [rpc EXCEPT ![r] = "check"] /\ stamp' = [stamp EXCEPT ![r] = now]
               /\ UNCHANGED <<now, failures, limiter, log>>

\* Mutant: the requests are counted before this one is added.
_check_rate_limit_before(r) ==
    LET t == stamp[r]  recent == {m \in window : m + Window > t} IN
    /\ rpc[r] = "check"
    /\ window' = recent \cup {t}
    /\ IF Cardinality(recent) <= Limit
       THEN admitted' = admitted \cup {t} /\ rpc' = [rpc EXCEPT ![r] = "route"]
       ELSE UNCHANGED admitted /\ rpc' = [rpc EXCEPT ![r] = "refused"]
    /\ UNCHANGED <<now, failures, stamp, blind, log>>

\* _check_rate_limit, one transaction: ZREMRANGEBYSCORE, ZADD, ZCARD (a request
\* that is refused stays in the set; EXPIRE comes after its members).  Without
\* Redis, or if it fails, the request passes: the transaction may have been
\* applied, and only its reply lost.
_check_rate_limit(r) ==
    LET t == stamp[r]  recent == {m \in window : m + Window > t} \cup {t} IN
    /\ rpc[r] = "check"
    /\ \/ /\ window' = recent
          /\ blind' = (blind \/ \E m \in window : m > t)
          /\ IF Cardinality(recent) <= Limit
             THEN admitted' = admitted \cup {t} /\ rpc' = [rpc EXCEPT ![r] = "route"]
             ELSE UNCHANGED admitted /\ rpc' = [rpc EXCEPT ![r] = "refused"]
          /\ UNCHANGED failures
       \/ /\ Failure /\ blind' = TRUE /\ admitted' = admitted \cup {t}
          /\ rpc' = [rpc EXCEPT ![r] = "route"] /\ window' \in {window, recent}
    /\ UNCHANGED <<now, stamp, log>>

Clock == /\ now < MaxTime /\ now' = now + 1
         /\ UNCHANGED <<failures, rpc, stamp, limiter, log>>

-----------------------------------------------------------------------------
(* The log                                                                 *)

\* log_operation: the task is started if there is none, the document appended.
log_operation(r) ==
    /\ rpc[r] = "route" /\ rpc' = [rpc EXCEPT ![r] = "done"]
    /\ buffer' = buffer \cup {r}
    /\ flush' = (IF flush \in {"none", "done"} THEN "sleep" ELSE flush)
    /\ UNCHANGED <<now, failures, stamp, limiter, batch, stored, lost, stopping>>

\* bulk_write_logs of the batch: an insert that is not acknowledged, so it may
\* fail unnoticed.
bulk_write_logs == \/ /\ stored' = [r \in Requests |-> stored[r] + (IF r \in batch THEN 1 ELSE 0)]
                      /\ UNCHANGED <<lost, failures>>
                   \/ Failure /\ lost' = lost \cup batch /\ UNCHANGED stored

\* Mutant: the buffer is cleared when the batch has been written.
_flush_batch_late ==
    /\ \/ flush = "sleep" /\ buffer # {} /\ batch' = buffer /\ flush' = "write"
          /\ UNCHANGED <<buffer, stored, lost, failures>>
       \/ flush = "write" /\ bulk_write_logs /\ batch' = {} /\ buffer' = {} /\ flush' = "sleep"
    /\ UNCHANGED <<now, rpc, stamp, limiter, stopping>>

\* _flush_batch: the buffer is copied and cleared in one step, then written.
\* The last write, of a task that was cancelled, is followed by the clearing.
_flush_batch ==
    /\ \/ flush = "sleep" /\ buffer # {} /\ batch' = buffer /\ buffer' = {} /\ flush' = "write"
          /\ UNCHANGED <<stored, lost, failures>>
       \/ flush = "write" /\ bulk_write_logs /\ batch' = {} /\ flush' = "sleep" /\ UNCHANGED buffer
       \/ /\ flush = "last"
          /\ \/ stored' = [r \in Requests |-> stored[r] + (IF r \in batch THEN 1 ELSE 0)]
                /\ lost' = lost \cup (buffer \ batch) /\ UNCHANGED failures
             \/ Failure /\ lost' = lost \cup buffer /\ UNCHANGED stored
          /\ batch' = {} /\ buffer' = {} /\ flush' = "done"
    /\ UNCHANGED <<now, rpc, stamp, limiter, stopping>>

\* The event loop ends and cancels the task: asleep, or in a write, whose batch
\* has reached MongoDB or not.
CancelFlush ==
    /\ ~stopping /\ stopping' = TRUE /\ flush \in {"sleep", "write"}
    /\ \/ lost' = lost \cup batch /\ UNCHANGED stored
       \/ stored' = [r \in Requests |-> stored[r] + (IF r \in batch THEN 1 ELSE 0)] /\ UNCHANGED lost
    /\ batch' = buffer
    /\ flush' = (IF buffer = {} THEN "done" ELSE "last")
    /\ UNCHANGED <<now, failures, rpc, stamp, limiter, buffer>>

TrafficNext == \/ \E r \in Requests : dispatch(r) \/ _check_rate_limit(r) \/ log_operation(r)
               \/ _flush_batch \/ CancelFlush \/ Clock

-----------------------------------------------------------------------------
(* Properties                                                              *)

\* No window of time, wherever it begins, has more than Limit milliseconds with
\* a request that was let through, unless the limiter failed or a request was
\* overtaken on its way to Redis by one with a later stamp.
WindowBound ==
    ~blind => \A t \in 1 .. MaxTime :
                Cardinality({a \in admitted : a <= t /\ a + Window > t}) <= Limit

\* Every operation that was logged is in the buffer, in the batch under way or
\* exactly once in the database, and is lost only if a write failed or the task
\* was cancelled in one.
LoggedOnce ==
    /\ \A r \in Requests : stored[r] <= IF rpc[r] = "done" THEN 1 ELSE 0
    /\ \A r \in Requests : rpc[r] = "done" => stored[r] = 1 \/ r \in buffer \cup batch \cup lost
    /\ lost # {} => failures > 0 \/ stopping
=============================================================================
