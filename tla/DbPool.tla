------------------------------- MODULE DbPool -------------------------------
(***************************************************************************)
(* The MySQL connection pool of backend_cpp/server/db_pool.h.  acquire     *)
(* creates and validates connections while it holds mutex_, so each turn   *)
(* of its loop is one step; it gives mutex_ up only in cv_.wait_until.     *)
(* The vector pool_ only grows, until shutdown clears it; its elements     *)
(* are the slots 1 .. size.                                                *)
(***************************************************************************)
EXTENDS Naturals, FiniteSets

CONSTANTS Threads,         \* callers of query, execute and prepared_query
          Conns,           \* connection objects; an address may be used again
          MinConns, MaxConns, MaxIdle,   \* of DbConfig
          CanFail,         \* connecting to the server may fail
          NoConn, Nobody

ASSUME SizeAssumption == /\ MinConns \in Nat /\ MaxConns \in Nat /\ MaxIdle \in Nat
                         /\ MinConns <= MaxConns
ASSUME NameAssumption == NoConn \notin Conns /\ Nobody \notin Threads
ASSUME FailAssumption == CanFail \in BOOLEAN
ASSUME ThreadsAssumption == IsFiniteSet(Threads)

VARIABLES size,    \* pool_.size()
          conn,    \* conn[i]: the connection of a slot, NoConn for a null pointer
          used,    \* used[i]: in_use
          alive,   \* alive[i]: the connection would pass SELECT 1
          old,     \* old[i]: past connection_lifetime_seconds
          shut,    \* shutdown_
          mutex,   \* a thread stuck inside mutex_, or Nobody
          pc,      \* where each caller stands
          held,    \* held[t]: the local variable conn
          calm     \* no connect has failed and no notification came too late

slotVars == <<conn, used, alive, old>>
vars == <<size, slotVars, shut, mutex, pc, held, calm>>

Slots == 1 .. MaxConns
Pointer == Conns \cup {NoConn}

TypeOK == /\ size \in 0 .. MaxConns
          /\ conn \in [Slots -> Pointer]
          /\ used \in [Slots -> BOOLEAN]
          /\ alive \in [Slots -> BOOLEAN]
          /\ old \in [Slots -> BOOLEAN]
          /\ shut \in BOOLEAN
          /\ mutex \in Threads \cup {Nobody}
          /\ pc \in [Threads -> {"out", "acquire", "waiting", "woken", "holding",
                                 "release", "stuck"}]
          /\ held \in [Threads -> Pointer]
          /\ calm \in BOOLEAN

\* initialize_pool: min_connections connections, less those that fail.
Init == /\ size \in {n \in 0 .. MinConns : n = MinConns \/ CanFail}
        /\ conn \in [Slots -> Pointer]
        /\ \A i \in Slots : (i <= size) <=> (conn[i] # NoConn)
        /\ \A i, j \in 1 .. size : conn[i] = conn[j] => i = j
        /\ used = [i \in Slots |-> FALSE]
        /\ alive = [i \in Slots |-> i <= size]
        /\ old = [i \in Slots |-> FALSE]
        /\ shut = FALSE
        /\ mutex = Nobody
        /\ pc = [t \in Threads |-> "out"]
        /\ held = [t \in Threads |-> NoConn]
        /\ calm = TRUE

Idle == {i \in 1 .. size : ~used[i]}
Broken(i) == conn[i] = NoConn \/ ~alive[i]
Fresh(c) == /\ \A i \in Slots : conn[i] # c
            /\ \A t \in Threads : held[t] # c
Sleeping == {t \in Threads : pc[t] = "waiting"}
Woken == {t \in Threads : pc[t] = "woken"}

-----------------------------------------------------------------------------
(* acquire                                                                 *)

Call(t) == /\ pc[t] = "out"
           /\ pc' = [pc EXCEPT ![t] = "acquire"]
           /\ UNCHANGED <<size, slotVars, shut, mutex, held, calm>>

\* The thread has mutex_ and starts a turn of the loop.
InLoop(t) == pc[t] \in {"acquire", "woken"} /\ mutex = Nobody

\* The loop passes an idle slot by only if its connection fails validation
\* and cannot be replaced.
PassedBy(S) == /\ \A i \in S : ~old[i] /\ Broken(i)
               /\ S # {} => CanFail

Earlier(i) == {j \in Idle : j < i}

\* The slot gets a connection and the caller takes it.
Hand(t, i, c) == /\ conn' = [conn EXCEPT ![i] = c]
                 /\ used' = [used EXCEPT ![i] = TRUE]
                 /\ held' = [held EXCEPT ![t] = c]
                 /\ pc' = [pc EXCEPT ![t] = "holding"]

\* Mutant: in_use is not set when the idle connection passes validation.
TakeWithoutMark(t, i) ==
    /\ InLoop(t) /\ i \in Idle /\ PassedBy(Earlier(i))
    /\ ~old[i] /\ ~Broken(i)
    /\ held' = [held EXCEPT ![t] = conn[i]]
    /\ pc' = [pc EXCEPT ![t] = "holding"]
    /\ UNCHANGED <<size, slotVars, shut, mutex, calm>>

TakeIdle(t, i) ==
    /\ InLoop(t) /\ i \in Idle /\ PassedBy(Earlier(i))
    /\ ~old[i] /\ ~Broken(i)
    /\ Hand(t, i, conn[i])
    /\ calm' = (calm /\ Earlier(i) = {})
    /\ UNCHANGED <<size, alive, old, shut, mutex>>

\* An expired connection, or one that fails validation, is replaced.
TakeReplaced(t, i) ==
    /\ InLoop(t) /\ i \in Idle /\ PassedBy(Earlier(i))
    /\ old[i] \/ Broken(i)
    /\ \E c \in Conns : Fresh(c) /\ Hand(t, i, c)
    /\ alive' = [alive EXCEPT ![i] = TRUE]
    /\ old' = [old EXCEPT ![i] = FALSE]
    /\ calm' = (calm /\ Earlier(i) = {})
    /\ UNCHANGED <<size, shut, mutex>>

\* The connect for an expired connection throws out of acquire; the old one is
\* gone, the slot stays idle and expired.
ReplaceThrows(t, i) ==
    /\ InLoop(t) /\ i \in Idle /\ PassedBy(Earlier(i))
    /\ old[i] /\ CanFail
    /\ conn' = [conn EXCEPT ![i] = NoConn]
    /\ alive' = [alive EXCEPT ![i] = FALSE]
    /\ pc' = [pc EXCEPT ![t] = "out"]
    /\ calm' = FALSE
    /\ UNCHANGED <<size, used, old, shut, mutex, held>>

\* Mutant: the bound is checked with <=.
GrowPastMax(t) ==
    /\ InLoop(t) /\ PassedBy(Idle)
    /\ size <= MaxConns
    /\ size' = size + 1
    /\ \E c \in Conns : Fresh(c) /\ Hand(t, size + 1, c)
    /\ alive' = [alive EXCEPT ![size + 1] = TRUE]
    /\ old' = [old EXCEPT ![size + 1] = FALSE]
    /\ calm' = (calm /\ Idle = {})
    /\ UNCHANGED <<shut, mutex>>

\* No idle connection will do, and pool_ may grow.
Grow(t) ==
    /\ InLoop(t) /\ PassedBy(Idle)
    /\ size < MaxConns
    /\ size' = size + 1
    /\ \E c \in Conns : Fresh(c) /\ Hand(t, size + 1, c)
    /\ alive' = [alive EXCEPT ![size + 1] = TRUE]
    /\ old' = [old EXCEPT ![size + 1] = FALSE]
    /\ calm' = (calm /\ Idle = {})
    /\ UNCHANGED <<shut, mutex>>

\* pool_ is full, or growing failed (which is logged): wait_until.
Sleep(t) ==
    /\ InLoop(t) /\ PassedBy(Idle)
    /\ size < MaxConns => CanFail
    /\ pc' = [pc EXCEPT ![t] = "waiting"]
    /\ calm' = (calm /\ Idle = {} /\ size = MaxConns)
    /\ UNCHANGED <<size, slotVars, shut, mutex, held>>

SpuriousWake(t) == /\ pc[t] = "waiting"
                   /\ pc' = [pc EXCEPT ![t] = "woken"]
                   /\ UNCHANGED <<size, slotVars, shut, mutex, held, calm>>

\* The deadline passes: acquire throws.  wait_until also reports a timeout to a
\* thread that was notified, if the deadline is past when it has mutex_ again:
\* it throws without another look at the slots.
TimeOut(t) ==
    /\ pc[t] \in {"waiting", "woken"}
    /\ mutex = Nobody
    /\ pc' = [pc EXCEPT ![t] = "out"]
    /\ calm' = (calm /\ pc[t] = "waiting")
    /\ UNCHANGED <<size, slotVars, shut, mutex, held>>

-----------------------------------------------------------------------------
(* query, execute, prepared_query                                          *)

\* The statement has run or raised an SQLException, which is caught.
FinishQuery(t) ==
    /\ pc[t] = "holding"
    /\ pc' = [pc EXCEPT ![t] = "release"]
    /\ UNCHANGED <<size, slotVars, shut, mutex, held, calm>>

\* prepared_query of a name that is not registered calls release(), which locks
\* mutex_, while it holds mutex_.
MissingStatement(t) ==
    /\ pc[t] = "holding"
    /\ mutex = Nobody
    /\ mutex' = t
    /\ pc' = [pc EXCEPT ![t] = "stuck"]
    /\ UNCHANGED <<size, slotVars, shut, held, calm>>

NotifyOne(t) ==
    \/ Sleeping = {} /\ pc' = [pc EXCEPT ![t] = "out"]
    \/ \E u \in Sleeping : pc' = [pc EXCEPT ![t] = "out", ![u] = "woken"]

Mine(t) == {i \in 1 .. size : used[i] /\ conn[i] = held[t]}

\* The slot whose in_use was just cleared is counted as idle; so are the slots
\* that lost their connection.
TooManyIdle == Cardinality(Idle) + 1 > MaxIdle

\* Mutant: a release notifies nobody.
ReleaseQuietly(t) ==
    /\ pc[t] = "release"
    /\ mutex = Nobody
    /\ held' = [held EXCEPT ![t] = NoConn]
    /\ used' = [i \in Slots |-> used[i] /\ i \notin Mine(t)]
    /\ conn' = [i \in Slots |-> IF i \in Mine(t) /\ TooManyIdle THEN NoConn ELSE conn[i]]
    /\ alive' = [i \in Slots |-> alive[i] /\ ~(i \in Mine(t) /\ TooManyIdle)]
    /\ pc' = [pc EXCEPT ![t] = "out"]
    /\ UNCHANGED <<size, old, shut, mutex, calm>>

\* Mutant: the connection is closed but its slot is not given back.
ReleaseForgetsSlot(t) ==
    /\ pc[t] = "release"
    /\ mutex = Nobody
    /\ held' = [held EXCEPT ![t] = NoConn]
    /\ used' = [i \in Slots |-> used[i] /\ (i \notin Mine(t) \/ TooManyIdle)]
    /\ conn' = [i \in Slots |-> IF i \in Mine(t) /\ TooManyIdle THEN NoConn ELSE conn[i]]
    /\ alive' = [i \in Slots |-> alive[i] /\ ~(i \in Mine(t) /\ TooManyIdle)]
    /\ NotifyOne(t)
    /\ UNCHANGED <<size, old, shut, mutex, calm>>

\* release: after a shutdown the caller's slot may be gone.
Release(t) ==
    /\ pc[t] = "release"
    /\ mutex = Nobody
    /\ held' = [held EXCEPT ![t] = NoConn]
    /\ used' = [i \in Slots |-> used[i] /\ i \notin Mine(t)]
    /\ conn' = [i \in Slots |-> IF i \in Mine(t) /\ TooManyIdle THEN NoConn ELSE conn[i]]
    /\ alive' = [i \in Slots |-> alive[i] /\ ~(i \in Mine(t) /\ TooManyIdle)]
    /\ NotifyOne(t)
    /\ UNCHANGED <<size, old, shut, mutex, calm>>

-----------------------------------------------------------------------------
(* The rest of the pool                                                    *)

\* Every idle connection that fails validation is replaced, or reset if the
\* connect fails.
HealthCheck ==
    LET broken == {i \in Idle : Broken(i)}
    IN  /\ mutex = Nobody
        /\ broken # {}
        /\ \E f \in [broken -> {c \in Pointer : c = NoConn \/ Fresh(c)}] :
              /\ \A i, j \in broken : f[i] = f[j] => i = j \/ f[i] = NoConn
              /\ (\E i \in broken : f[i] = NoConn) => CanFail
              /\ conn' = [i \in Slots |-> IF i \in broken THEN f[i] ELSE conn[i]]
              /\ alive' = [i \in Slots |-> IF i \in broken THEN f[i] # NoConn ELSE alive[i]]
              /\ old' = [i \in Slots |-> old[i] /\ ~(i \in broken /\ f[i] # NoConn)]
        /\ UNCHANGED <<size, used, shut, mutex, pc, held, calm>>

\* shutdown: the vector is cleared, nobody is notified, and acquire never looks
\* at shutdown_.
Shutdown ==
    /\ ~shut
    /\ mutex = Nobody
    /\ shut' = TRUE
    /\ size' = 0
    /\ conn' = [i \in Slots |-> NoConn]
    /\ used' = [i \in Slots |-> FALSE]
    /\ alive' = [i \in Slots |-> FALSE]
    /\ old' = [i \in Slots |-> FALSE]
    /\ UNCHANGED <<mutex, pc, held, calm>>

\* The server closes a connection, or a connection reaches its lifetime.
Die(i) == /\ alive[i]
          /\ alive' = [alive EXCEPT ![i] = FALSE]
          /\ UNCHANGED <<size, conn, used, old, shut, mutex, pc, held, calm>>

GrowOld(i) == /\ i <= size /\ ~old[i]
              /\ old' = [old EXCEPT ![i] = TRUE]
              /\ UNCHANGED <<size, conn, used, alive, shut, mutex, pc, held, calm>>

-----------------------------------------------------------------------------
Next == \/ \E t \in Threads :
              \/ Call(t) \/ Grow(t) \/ Sleep(t) \/ SpuriousWake(t) \/ TimeOut(t)
              \/ FinishQuery(t) \/ MissingStatement(t) \/ Release(t)
              \/ \E i \in Slots : TakeIdle(t, i) \/ TakeReplaced(t, i) \/ ReplaceThrows(t, i)
        \/ \E i \in Slots : Die(i) \/ GrowOld(i)
        \/ HealthCheck \/ Shutdown

Spec == Init /\ [][Next]_vars

-----------------------------------------------------------------------------
(* Properties                                                              *)

\* Two callers never hold the same connection, and a connection that is held is
\* never offered as idle, also across a shutdown with connections out.
ExclusiveUse ==
    /\ \A t, u \in Threads : held[t] = held[u] /\ held[t] # NoConn => t = u
    /\ \A t \in Threads, i \in Idle : held[t] = conn[i] => held[t] = NoConn

\* Slots and callers agree: a slot in use has its user, and until a shutdown
\* every caller's connection has its slot, so no slot is ever leaked.
SlotsMatchCallers ==
    /\ \A i \in 1 .. size : used[i] => \E t \in Threads : held[t] = conn[i] /\ conn[i] # NoConn
    /\ ~shut => \A t \in Threads : held[t] # NoConn => Mine(t) # {}

\* Until the pool is shut down no more than max_connections exist.
BoundedConnections ==
    ~shut => Cardinality({c \in Conns : ~Fresh(c)}) <= MaxConns

\* As long as connects succeed and no notification arrives at a deadline, a
\* caller sleeps only while every slot is in use or promised to a woken caller.
NoMissedRelease ==
    calm /\ ~shut /\ Sleeping # {} =>
        size = MaxConns /\ Cardinality(Idle) <= Cardinality(Woken)

=============================================================================
