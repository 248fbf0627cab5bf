------------------------------- MODULE Stores -------------------------------
(***************************************************************************)
(* The clients of the four stores (db/redis.py, mysql.py, mongodb.py,      *)
(* neo4j.py): each is a module global made by the first call that needs    *)
(* it.  Redis and Neo4j publish the client before they test it, MySQL and  *)
(* MongoDB after; a failed test sets a flag that ends all further attempts.*)
(* Calls are coroutines; a step runs from one await to the next.  The      *)
(* stores share nothing, so a behaviour follows one of them, from the      *)
(* start of the application to its shutdown.                               *)
(***************************************************************************)
EXTENDS Naturals, FiniteSets

CONSTANTS Callers,
          Stores,        \* the stores a behaviour may follow
          MaxClients,    \* bound on the clients made
          MaxAttempts,   \* neo4j_max_retry_attempts
          PoolMax,       \* mysql_pool_max_size
          Faults         \* bound on the changes of the server's state

ASSUME StoresAssumption == Stores \subseteq {"redis", "mysql", "mongo", "neo4j"}
ASSUME CallersAssumption == IsFiniteSet(Callers)
ASSUME BoundAssumption == /\ {MaxClients, Faults} \subseteq Nat
                          /\ {MaxAttempts, PoolMax} \subseteq Nat \ {0}

Clients == 1 .. MaxClients
None == 0

VARIABLES store, up, faults,
          handle,   \* the global: _redis_async, _mysql_pool, _mongo_db, _neo4j_driver
          latest,   \* _mongo_client
          failed,   \* _redis_async_failed and its siblings
          open,     \* clients that hold connections
          made,     \* clients made so far
          lost,     \* pool connections that are never given back
          phase,    \* of the application, and the client it is closing
          doomed,
          raced,    \* a client was made, closed or refused beside another (not stored)
          pc, op, mine, got, tries   \* of each call

server == <<store, up, faults>>
globals == <<handle, latest, failed>>
call == <<pc, op, mine, got, tries>>
vars == <<server, globals, open, made, lost, phase, doomed, raced, call>>

Ops == {"warm", "query", "health", "transaction"}

TypeOK == /\ store \in Stores /\ up \in BOOLEAN /\ faults \in 0 .. Faults
          /\ {handle, latest, doomed, made} \subseteq 0 .. MaxClients
          /\ failed \in BOOLEAN /\ raced \in BOOLEAN
          /\ open \subseteq 1 .. made
          /\ lost \in [Clients -> 0 .. PoolMax]
          /\ phase \in {"running", "resetting", "closing", "closed"}
          /\ pc \in [Callers -> {"idle", "get", "connect", "use", "begin", "held"}]
          /\ op \in [Callers -> Ops]
          /\ mine \in [Callers -> 0 .. MaxClients] /\ got \in [Callers -> 0 .. MaxClients]
          /\ tries \in [Callers -> 0 .. MaxAttempts]

Init == /\ store \in Stores /\ up \in BOOLEAN /\ faults = 0
        /\ handle = None /\ latest = None /\ failed = FALSE
        /\ open = {} /\ made = 0 /\ lost = [i \in Clients |-> 0]
        /\ phase = "running" /\ doomed = None /\ raced = FALSE
        /\ pc = [c \in Callers |-> "idle"] /\ op = [c \in Callers |-> "warm"]
        /\ mine = [c \in Callers |-> None] /\ got = [c \in Callers |-> None]
        /\ tries = [c \in Callers |-> 0]

Set(f, c, v) == [f EXCEPT ![c] = v]

Goto(c, step) == pc' = Set(pc, c, step) /\ UNCHANGED <<op, tries>>

\* The call ends: with a result, with the default for a missing store (an empty
\* result, "unavailable") or with an error, which is not recorded.
Return(c) == /\ pc' = Set(pc, c, "idle")
             /\ op' = Set(op, c, "warm") /\ tries' = Set(tries, c, 0)
Connecting == {c \in Callers : pc[c] = "connect"}

-----------------------------------------------------------------------------
(* Getting the client                                                      *)

\* What the call does with the client it was given: nothing, in a warm-up or
\* without one.
Serve(c, h) == /\ mine' = Set(mine, c, None)
               /\ IF h = None \/ op[c] = "warm"
                  THEN Return(c) /\ got' = Set(got, c, None)
                  ELSE Goto(c, "use") /\ got' = Set(got, c, h)

Reuse(c) == /\ pc[c] = "get" /\ (handle # None \/ failed)
            /\ Serve(c, handle)
            /\ UNCHANGED <<globals, open, made, raced>>

\* A new client; publish says whether the global is set before the test.
Create(c, publish) ==
    /\ pc[c] = "get" /\ handle = None /\ ~failed /\ made < MaxClients
    /\ made' = made + 1 /\ mine' = Set(mine, c, made + 1)
    /\ open' = open \cup {made + 1}
    /\ handle' = IF publish THEN made + 1 ELSE handle
    /\ latest' = made + 1
    /\ raced' = (raced \/ (Connecting # {} /\ ~publish) \/ phase # "running")
    /\ Goto(c, "connect") /\ UNCHANGED <<failed, got>>

\* The test succeeds and the global becomes (or stays) h.
Connected(c, h) ==
    /\ pc[c] = "connect" /\ up
    /\ handle' = h /\ Serve(c, h)
    /\ UNCHANGED <<latest, failed, open, made, raced>>

\* The test fails: the flag is set and the global cleared, whoever's client it
\* holds.  Only a pool that could not be made gives its connections back.
Refused(c) ==
    /\ pc[c] = "connect" /\ ~up
    /\ failed' = TRUE /\ handle' = None /\ Serve(c, None)
    /\ open' = IF store = "mysql" THEN open \ {mine[c]} ELSE open
    /\ raced' = (raced \/ store # "mysql" \/ handle # None)
    /\ UNCHANGED <<latest, made>>

\* Mutant: the global is set only after the ping.
get_redis_async_late(c) ==
    store = "redis" /\ (Reuse(c) \/ Create(c, FALSE) \/ Connected(c, mine[c]) \/ Refused(c))

get_redis_async(c) == /\ store = "redis"
                      /\ Reuse(c) \/ Create(c, TRUE) \/ Connected(c, handle) \/ Refused(c)

get_neo4j_driver(c) == /\ store = "neo4j"
                       /\ Reuse(c) \/ Create(c, TRUE) \/ Connected(c, handle) \/ Refused(c)

get_mysql_pool(c) == /\ store = "mysql"
                     /\ Reuse(c) \/ Create(c, FALSE) \/ Connected(c, mine[c]) \/ Refused(c)

\* The database is taken from the client made last, not from the tested one.
get_mongo_db(c) == /\ store = "mongo"
                   /\ Reuse(c) \/ Create(c, FALSE) \/ Connected(c, latest) \/ Refused(c)

Get(c) == /\ get_redis_async(c) \/ get_neo4j_driver(c) \/ get_mysql_pool(c) \/ get_mongo_db(c)
          /\ UNCHANGED <<server, lost, phase, doomed>>

-----------------------------------------------------------------------------
(* Using it                                                                *)

Begin(c, o) == /\ pc[c] = "idle" /\ phase \in {"running", "resetting"}
               /\ o = "transaction" => store = "mysql"
               /\ op' = Set(op, c, o) /\ tries' = Set(tries, c, 1)
               /\ pc' = Set(pc, c, "get")
               /\ UNCHANGED <<server, globals, open, made, lost, phase, doomed, raced, mine, got>>

\* _warmup_services, and a request or a health check.
_warmup_services(c) == Begin(c, "warm")
Request(c) == \E o \in Ops \ {"warm"} : Begin(c, o)

\* One command on Redis or MongoDB; its error reaches the caller, or the health
\* check, which reports it.
Command(c) == /\ store \in {"redis", "mongo"} /\ pc[c] = "use"
              /\ Return(c) /\ got' = Set(got, c, None) /\ UNCHANGED lost

\* Mutant: one attempt too many.
CypherOnceMore(c) == /\ store = "neo4j" /\ pc[c] = "use"
                     /\ got' = Set(got, c, None) /\ UNCHANGED lost
                     /\ \/ Return(c) /\ (up \/ op[c] = "health" \/ tries[c] > MaxAttempts)
                        \/ /\ ~up /\ op[c] = "query" /\ tries[c] <= MaxAttempts
                           /\ tries' = Set(tries, c, tries[c] + 1)
                           /\ pc' = Set(pc, c, "get") /\ UNCHANGED op

\* Mutant: attempts are not counted.
CypherForever(c) == /\ store = "neo4j" /\ pc[c] = "use"
                    /\ got' = Set(got, c, None) /\ UNCHANGED lost
                    /\ IF up \/ op[c] = "health" THEN Return(c)
                       ELSE pc' = Set(pc, c, "get") /\ UNCHANGED <<op, tries>>

\* _retry_with_backoff: each attempt of a query asks for the driver again; what
\* is left of the last error is an empty result.
Cypher(c) == /\ store = "neo4j" /\ pc[c] = "use"
             /\ got' = Set(got, c, None) /\ UNCHANGED lost
             /\ \/ Return(c) /\ (up \/ op[c] = "health" \/ tries[c] = MaxAttempts)
                \/ /\ ~up /\ op[c] = "query" /\ tries[c] < MaxAttempts
                   /\ tries' = Set(tries, c, tries[c] + 1)
                   /\ pc' = Set(pc, c, "get") /\ UNCHANGED op

Out(p) == Cardinality({c \in Callers : pc[c] \in {"begin", "held"} /\ got[c] = p}) + lost[p]

\* A connection of the pool, unless it is closing.
Acquire(c) == /\ store = "mysql" /\ pc[c] = "use"
              /\ \/ /\ got[c] \in open /\ Out(got[c]) < PoolMax
                    /\ Goto(c, IF op[c] = "transaction" THEN "begin" ELSE "held")
                    /\ UNCHANGED got
                 \/ got[c] \notin open /\ Return(c) /\ got' = Set(got, c, None)
              /\ UNCHANGED lost

\* mysql_transaction: BEGIN is outside the try block whose finally releases.
mysql_transaction(c) ==
    /\ pc[c] = "begin"
    /\ \/ up /\ Goto(c, "held") /\ UNCHANGED <<lost, got>>
       \/ /\ ~up /\ Return(c) /\ got' = Set(got, c, None)
          /\ lost' = Set(lost, got[c], lost[got[c]] + 1)

\* The statement of execute_query and its siblings, or the body and the COMMIT
\* or ROLLBACK; the connection is released whether it fails or not.
execute_query(c) ==
    /\ pc[c] = "held" /\ Return(c) /\ got' = Set(got, c, None) /\ UNCHANGED lost

Use(c) == /\ Command(c) \/ Cypher(c) \/ Acquire(c) \/ mysql_transaction(c) \/ execute_query(c)
          /\ UNCHANGED <<server, globals, open, made, phase, doomed, raced, mine>>

-----------------------------------------------------------------------------
(* Closing                                                                 *)

\* close_redis and its siblings take the global's client (close_mongo the one
\* made last) and do nothing at all without it: failed stays.
Closing(next) ==
    LET h == IF store = "mongo" THEN latest ELSE handle IN
    /\ phase = "running"
    /\ doomed' = h /\ open' = open \ {h}
    /\ phase' = (IF h = None THEN (IF next = "closing" THEN "closed" ELSE "running") ELSE next)
    /\ raced' = (raced \/ Connecting # {})

_shutdown_services == Closing("closing") /\ UNCHANGED globals

\* reset_redis_connection clears failed in any case.
reset_redis_connection == /\ store = "redis" /\ Closing("resetting")
                          /\ failed' = (failed /\ handle # None)
                          /\ UNCHANGED <<handle, latest>>

\* The client has closed (a pool waits for its connections); the globals are
\* cleared, whatever they hold by now.
Closed == /\ phase \in {"closing", "resetting"}
          /\ store = "mysql" => Out(doomed) = 0
          /\ handle' = None /\ latest' = None /\ failed' = FALSE
          /\ raced' = (raced \/ handle \notin {doomed, None} \/ Connecting # {})
          /\ doomed' = None
          /\ phase' = (IF phase = "closing" THEN "closed" ELSE "running")
          /\ UNCHANGED open

Close == /\ _shutdown_services \/ reset_redis_connection \/ Closed
         /\ UNCHANGED <<server, made, lost, call>>

Toggle == /\ faults < Faults
          /\ faults' = faults + 1 /\ up' = ~up
          /\ UNCHANGED <<store, globals, open, made, lost, phase, doomed, raced, call>>

Next == \/ \E c \in Callers : _warmup_services(c) \/ Request(c) \/ Get(c) \/ Use(c)
        \/ Close \/ Toggle

\* Every call has a timeout at each await (connect_timeout, socket_timeout, ...)
\* and closing is awaited.
Fairness == /\ \A c \in Callers : WF_vars(Get(c)) /\ WF_vars(Use(c))
            /\ WF_vars(Closed /\ UNCHANGED <<server, made, lost, call>>)

Spec == Init /\ [][Next]_vars /\ Fairness

-----------------------------------------------------------------------------
(* Properties                                                              *)

\* The lazy getters keep one client per store: unless two of them overlapped, a
\* test failed or a close met one that was connecting, no client is open but
\* the global's and the one being tested.  Redis and Neo4j, which publish
\* first, never connect twice at a time.
OneClient ==
    /\ ~raced => open \subseteq {handle} \cup {mine[c] : c \in Connecting}
    /\ store \in {"redis", "neo4j"} /\ ~raced => Cardinality(Connecting) <= 1
    /\ phase = "running" /\ handle # None /\ ~raced => handle \in open

\* Every call ends, and so does the shutdown, unless a connection of the pool
\* was lost to a transaction that could not begin.
CallsEnd ==
    LET Leaked == \E p \in Clients : lost[p] > 0 IN
    /\ \A c \in Callers : (pc[c] # "idle") ~> (pc[c] = "idle" \/ Leaked \/ made = MaxClients)
    /\ (phase = "closing") ~> (phase = "closed" \/ Leaked)
=============================================================================
