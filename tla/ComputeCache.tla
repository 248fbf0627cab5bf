---------------------------- MODULE ComputeCache ----------------------------
(***************************************************************************)
(* cache_get_or_compute of middleware_python/services/cache.py: the        *)
(* cache-aside read of one cache key by concurrent requests (coroutines    *)
(* and worker processes), with the Redis lock that should let a single     *)
(* request compute while the others poll.  Every Redis command is one      *)
(* step; everything can happen between two of them.  Time is counted in    *)
(* ticks, each much longer than the 0.1 s between two polls.               *)
(***************************************************************************)
EXTENDS Naturals, FiniteSets

CONSTANTS Requests,       \* callers, each may call again when it is done
          LockTimeout,    \* lock_timeout, in ticks: life of the lock and of a wait
          MaxHold,        \* longest time from starting to compute to unlocking
          MaxVersion,     \* bound on the versions of the graph data
          LegacyEntries,  \* what the social_graph:* key may hold at start
          CanFail,        \* the computation may raise or not report success
          Evictions,      \* subset of {"expire", "all", "admin"}: how entries go away
          CanCrash,       \* a worker process may die
          Large,          \* whether the serialised value may exceed the compression
                          \* threshold: subset of BOOLEAN
          None, Nobody

ASSUME TimeAssumption == LockTimeout \in Nat \ {0} /\ MaxHold \in Nat \ {0}
ASSUME VersionAssumption == MaxVersion \in Nat /\ None \notin 0 .. MaxVersion
ASSUME LegacyAssumption == LegacyEntries \subseteq {None, 0}
ASSUME NobodyAssumption == Nobody \notin Requests
ASSUME EvictionAssumption == Evictions \subseteq {"expire", "all", "admin"}
ASSUME FlagAssumption == {CanFail, CanCrash} \cup Large \subseteq BOOLEAN

VARIABLES source,    \* version of the graph data a computation would read now
          entry,     \* entry[k]: version held under the new and the legacy key
          lock,      \* who set sgp:lock:compute:<key>; Redis itself stores "1"
          lockTtl,   \* ticks until Redis expires the lock
          pc,        \* where each request stands
          left,      \* ticks left of its wait, or of the time it may hold
          val,       \* version its computation has read and is to write
          floor,     \* source version at the last invalidation of all graph data
          clearing,  \* that invalidation has yet to delete the legacy key
          spoilt,    \* it met a computation on older data, or one of its DELs failed
          calm,      \* nothing has failed, crashed or been evicted since the last
                     \* moment without a request and without a lock
          slow,      \* since then a computation has taken lock_timeout or longer
          large      \* the value exceeds the compression threshold

moving == <<source, entry, lock, lockTtl, pc, left, val, floor, clearing, spoilt,
            calm, slow>>
vars == <<moving, large>>

Keys == {"sgp", "legacy"}
Versions == 0 .. MaxVersion
Value == Versions \cup {None}
Holding == {"compute", "write", "unlock"}

TypeOK == /\ source \in Versions
          /\ entry \in [Keys -> Value]
          /\ lock \in Requests \cup {Nobody}
          /\ lockTtl \in 0 .. LockTimeout
          /\ pc \in [Requests -> {"idle", "read", "readLegacy", "lock", "wait",
                                  "bare", "dead"} \cup Holding]
          /\ left \in [Requests -> 0 .. LockTimeout + MaxHold]
          /\ val \in [Requests -> Value]
          /\ floor \in Versions
          /\ clearing \in BOOLEAN
          /\ spoilt \in BOOLEAN
          /\ calm \in BOOLEAN
          /\ slow \in BOOLEAN
          /\ large \in Large

Init == /\ source = 0
        /\ entry \in {[k \in Keys |-> IF k = "legacy" THEN v ELSE None] : v \in LegacyEntries}
        /\ lock = Nobody
        /\ lockTtl = 0
        /\ pc = [r \in Requests |-> "idle"]
        /\ left = [r \in Requests |-> 0]
        /\ val = [r \in Requests |-> None]
        /\ floor = 0
        /\ clearing = FALSE
        /\ spoilt = FALSE
        /\ calm = TRUE
        /\ slow = FALSE
        /\ large \in Large

-----------------------------------------------------------------------------
(* Redis                                                                   *)

\* get_compressed: the client decodes replies as UTF-8, and a zlib stream is
\* not UTF-8, so a compressed entry raises and is reported as absent.
Readable(k) == entry[k] # None /\ ~(large /\ k = "sgp")

\* The lock's EX ran out, or somebody deleted it.
Released == lock' = Nobody /\ lockTtl' = 0

-----------------------------------------------------------------------------
(* One call of cache_get_or_compute                                        *)

\* No request is under way and nothing is left of an earlier one but entries.
Quiet == /\ \A r \in Requests : pc[r] \in {"idle", "dead"}
         /\ lock = Nobody /\ ~clearing

Begin(r) ==
    /\ pc[r] = "idle"
    /\ pc' = [pc EXCEPT ![r] = "read"]
    /\ calm' = (calm \/ Quiet)
    /\ slow' = (slow /\ ~Quiet)
    /\ UNCHANGED <<source, entry, lock, lockTtl, left, val, floor, clearing, spoilt>>

\* The request leaves, with an answer or an error, or its process dies.
Leave(r, to) == /\ pc' = [pc EXCEPT ![r] = to]
                /\ val' = [val EXCEPT ![r] = None]
                /\ left' = [left EXCEPT ![r] = 0]

Return(r) == Leave(r, "idle")

\* get_redis_async finds no Redis: no cache is read, no lock taken, the value is
\* computed at once and written nowhere.
WithoutRedis(r) ==
    /\ CanFail
    /\ pc[r] = "read"
    /\ pc' = [pc EXCEPT ![r] = "bare"]
    /\ left' = [left EXCEPT ![r] = MaxHold]
    /\ calm' = FALSE
    /\ UNCHANGED <<source, entry, lock, lockTtl, val, floor, clearing, spoilt, slow>>

ComputeBare(r) ==
    /\ pc[r] = "bare"
    /\ Return(r)
    /\ UNCHANGED <<source, entry, lock, lockTtl, floor, clearing, spoilt, calm, slow>>

\* Step 1, the double read: the sgp key, then the legacy one.  A read that
\* fails counts as a miss.
Read(r, at, k, next) ==
    /\ pc[r] = at
    /\ \/ /\ Readable(k)
          /\ Return(r)
          /\ UNCHANGED calm
       \/ /\ Readable(k) => CanFail
          /\ pc' = [pc EXCEPT ![r] = next]
          /\ calm' = (calm /\ ~Readable(k))
          /\ UNCHANGED <<val, left>>
    /\ UNCHANGED <<source, entry, lock, lockTtl, floor, clearing, spoilt, slow>>

ReadNew(r) == Read(r, "read", "sgp", "readLegacy")
ReadLegacy(r) == Read(r, "readLegacy", "legacy", "lock")

\* Mutant: SET EX without NX.
TryLockWithoutNX(r) ==
    /\ pc[r] = "lock"
    /\ lock' = r
    /\ lockTtl' = LockTimeout
    /\ pc' = [pc EXCEPT ![r] = "compute"]
    /\ left' = [left EXCEPT ![r] = MaxHold]
    /\ val' = [val EXCEPT ![r] = source]
    /\ UNCHANGED <<source, entry, floor, clearing, spoilt, calm, slow>>

\* Mutant: the EX of the lock is given in another unit than the polls.
TryLockWrongUnit(r) ==
    /\ pc[r] = "lock" /\ lock = Nobody
    /\ lock' = r
    /\ lockTtl' = 10 * LockTimeout
    /\ pc' = [pc EXCEPT ![r] = "compute"]
    /\ left' = [left EXCEPT ![r] = MaxHold]
    /\ val' = [val EXCEPT ![r] = source]
    /\ UNCHANGED <<source, entry, floor, clearing, spoilt, calm, slow>>

\* Step 2, SET NX EX.  The cache is not read again once the lock is held.  An
\* error of this command is the caller's.
TryLock(r) ==
    /\ pc[r] = "lock"
    /\ \/ /\ lock = Nobody
          /\ lock' = r
          /\ lockTtl' = LockTimeout
          /\ pc' = [pc EXCEPT ![r] = "compute"]
          /\ left' = [left EXCEPT ![r] = MaxHold]
          /\ val' = [val EXCEPT ![r] = source]
          /\ UNCHANGED calm
       \/ /\ lock # Nobody
          /\ pc' = [pc EXCEPT ![r] = "wait"]
          /\ left' = [left EXCEPT ![r] = LockTimeout]
          /\ UNCHANGED <<lock, lockTtl, val, calm>>
       \/ /\ CanFail
          /\ Return(r)
          /\ calm' = FALSE
          /\ UNCHANGED <<lock, lockTtl>>
    /\ UNCHANGED <<source, entry, floor, clearing, spoilt, slow>>

\* One round of the polling loop that finds the value.  The two keys are read by
\* separate commands, so either may be the one that answers.
Poll(r) ==
    /\ pc[r] = "wait"
    /\ \E k \in Keys : Readable(k) /\ Return(r)
    /\ UNCHANGED <<source, entry, lock, lockTtl, floor, clearing, spoilt, calm, slow>>

\* Mutant: the loop never runs out.
KeepWaiting(r) ==
    /\ pc[r] = "wait"
    /\ left[r] = 0
    /\ UNCHANGED moving

\* The loop is exhausted: compute without the lock.
GiveUpWaiting(r) ==
    /\ pc[r] = "wait"
    /\ left[r] = 0
    /\ pc' = [pc EXCEPT ![r] = "compute"]
    /\ left' = [left EXCEPT ![r] = MaxHold]
    /\ val' = [val EXCEPT ![r] = source]
    /\ UNCHANGED <<source, entry, lock, lockTtl, floor, clearing, spoilt, calm, slow>>

\* Step 3: success, or an exception or a status that is not "success".
Compute(r) ==
    /\ pc[r] = "compute"
    /\ \/ /\ pc' = [pc EXCEPT ![r] = "write"]
          /\ UNCHANGED <<val, calm>>
       \/ /\ CanFail
          /\ pc' = [pc EXCEPT ![r] = "unlock"]
          /\ val' = [val EXCEPT ![r] = None]
          /\ calm' = FALSE
    /\ UNCHANGED <<source, entry, lock, lockTtl, left, floor, clearing, spoilt, slow>>

\* Step 4: a success is written under the new key only; a write that fails is
\* logged and forgotten.
Write(r) ==
    /\ pc[r] = "write"
    /\ \/ entry' = [entry EXCEPT !["sgp"] = val[r]] /\ UNCHANGED calm
       \/ CanFail /\ calm' = FALSE /\ UNCHANGED entry
    /\ pc' = [pc EXCEPT ![r] = "unlock"]
    /\ val' = [val EXCEPT ![r] = None]
    /\ UNCHANGED <<source, lock, lockTtl, left, floor, clearing, spoilt, slow>>

\* Step 5 (and the except branch of step 3): DEL, whoever holds the lock.  If
\* it fails the caller gets the error and the lock stays.
Unlock(r) ==
    /\ pc[r] = "unlock"
    /\ \/ Released /\ Return(r) /\ UNCHANGED calm
       \/ CanFail /\ Return(r) /\ calm' = FALSE /\ UNCHANGED <<lock, lockTtl>>
    /\ UNCHANGED <<source, entry, floor, clearing, spoilt, slow>>

-----------------------------------------------------------------------------
(* The rest of the system                                                  *)

\* The graph data changes (an import).
ImportData ==
    /\ source < MaxVersion
    /\ source' = source + 1
    /\ UNCHANGED <<entry, lock, lockTtl, pc, left, val, floor, clearing, spoilt, calm, slow>>

\* An entry's TTL runs out.
Expire(k) ==
    /\ "expire" \in Evictions
    /\ entry[k] # None
    /\ entry' = [entry EXCEPT ![k] = None]
    /\ calm' = FALSE
    /\ UNCHANGED <<source, lock, lockTtl, pc, left, val, floor, clearing, spoilt, slow>>

Computing == {r \in Requests : pc[r] \in {"compute", "write"}}

\* invalidate_all_graph_cache, after an import, one at a time: it deletes the new
\* keys, then the legacy ones, and swallows the errors of both.  The INCR of the
\* data version at its end is part of no key a route asks for.
InvalidateNew ==
    /\ "all" \in Evictions
    /\ ~clearing
    /\ clearing' = TRUE
    /\ floor' = source
    /\ calm' = FALSE
    /\ \/ /\ entry' = [entry EXCEPT !["sgp"] = None]
          /\ spoilt' = \E r \in Computing : val[r] # source
       \/ /\ CanFail
          /\ spoilt' = TRUE
          /\ UNCHANGED entry
    /\ UNCHANGED <<source, lock, lockTtl, pc, left, val, slow>>

\* Mutant: the keys of the old layout are forgotten.
ForgetLegacy ==
    /\ clearing
    /\ clearing' = FALSE
    /\ UNCHANGED <<source, entry, lock, lockTtl, pc, left, val, floor, spoilt, calm, slow>>

InvalidateLegacy ==
    /\ clearing
    /\ clearing' = FALSE
    /\ \/ entry' = [entry EXCEPT !["legacy"] = None] /\ UNCHANGED spoilt
       \/ CanFail /\ spoilt' = TRUE /\ UNCHANGED entry
    /\ UNCHANGED <<source, lock, lockTtl, pc, left, val, floor, calm, slow>>

\* POST /admin/cache/invalidate with its default pattern social_graph:*, outside
\* production (where invalidate_cache refuses that pattern and deletes nothing).
AdminInvalidate ==
    /\ "admin" \in Evictions
    /\ entry' = [entry EXCEPT !["legacy"] = None]
    /\ calm' = FALSE
    /\ UNCHANGED <<source, lock, lockTtl, pc, left, val, floor, clearing, spoilt, slow>>

\* A worker process dies in the middle of a request; its lock stays.
Crash(r) ==
    /\ CanCrash
    /\ pc[r] \notin {"idle", "dead"}
    /\ Leave(r, "dead")
    /\ calm' = FALSE
    /\ UNCHANGED <<source, entry, lock, lockTtl, floor, clearing, spoilt, slow>>

\* A value is there, but the polls of a waiter fail.
MissedPoll == \E r \in Requests, k \in Keys : pc[r] = "wait" /\ Readable(k)

\* With the next tick a computation will have taken as long as the lock lives.
Overdue == \E r \in Requests : pc[r] \in Holding /\ MaxHold - left[r] + 1 >= LockTimeout

\* Time passes: never past MaxHold for a request that computes, nor past a
\* waiter that has yet to poll a value already there.
Tick ==
    /\ \A r \in Requests : pc[r] \in Holding \cup {"bare"} => left[r] > 0
    /\ MissedPoll => CanFail
    /\ calm' = (calm /\ ~MissedPoll)
    /\ left' = [r \in Requests |-> IF left[r] > 0 THEN left[r] - 1 ELSE 0]
    /\ slow' = (slow \/ Overdue)
    /\ \/ lockTtl > 1 /\ lockTtl' = lockTtl - 1 /\ UNCHANGED lock
       \/ lockTtl <= 1 /\ Released
    /\ UNCHANGED <<source, entry, pc, val, floor, clearing, spoilt>>

-----------------------------------------------------------------------------
Step(r) == \/ ReadNew(r) \/ ReadLegacy(r) \/ TryLock(r) \/ Poll(r)
           \/ GiveUpWaiting(r) \/ Compute(r) \/ Write(r) \/ Unlock(r)
           \/ WithoutRedis(r) \/ ComputeBare(r)

Next == /\ \/ \E r \in Requests : Begin(r) \/ Step(r) \/ Crash(r)
           \/ \E k \in Keys : Expire(k)
           \/ ImportData \/ InvalidateNew \/ InvalidateLegacy \/ AdminInvalidate
           \/ Tick
        /\ UNCHANGED large

Spec == Init /\ [][Next]_vars

\* The event loop serves every coroutine, and time goes on however often others
\* compute in the meantime; no request has to begin, no process to crash, no
\* data to change.
FairSpec == /\ Spec
            /\ \A r \in Requests : WF_moving(Step(r))
            /\ SF_moving(Tick)

-----------------------------------------------------------------------------
(* Properties                                                              *)

\* "Only the first request computes, the others poll", as far as it goes: while
\* nothing has failed, crashed or been evicted, no computation has outlasted the
\* lock and the value can be read back, no two requests compute the key at once,
\* however the deadlines of the waiters fall.  An episode with such an event
\* spoils nothing after it: when its requests and its lock are gone, the next
\* request starts with a clean slate.
OneComputes == calm /\ ~slow /\ ~large => Cardinality(Computing) <= 1

\* In the same conditions a request holds the lock until it releases it: the
\* lock does not expire under it and no other request's DEL takes it away.
ComputingHoldsLock ==
    calm /\ ~slow /\ ~large => \A r \in Requests : pc[r] \in Holding => lock = r

\* What the docstring of cache_get_or_compute says without any condition: while
\* nothing fails, crashes or is evicted, only one request computes.
FirstComputes == calm => Cardinality(Computing) <= 1

\* A request that comes to read the cache after an invalidation of all graph data
\* has completed does not find data older than the invalidation there.
FreshAfterInvalidate ==
    ~clearing => \A r \in Requests : pc[r] = "read" /\ Readable("sgp") => entry["sgp"] >= floor

\* The same, for an invalidation that met no computation on older data and whose
\* deletions succeeded: once it is complete no cached entry is older than it,
\* whatever is computed, fails or crashes around it.
FreshUnlessSpoilt ==
    ~spoilt /\ ~clearing => \A k \in Keys : entry[k] # None => entry[k] >= floor

\* Every request is answered, whatever fails, expires or crashes around it.
EveryRequestAnswered ==
    \A r \in Requests : pc[r] = "read" ~> pc[r] \in {"idle", "dead"}
=============================================================================
