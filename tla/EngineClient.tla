---------------------------- MODULE EngineClient ----------------------------
(***************************************************************************)
(* The clients of the C++ engine's servers (services/cpp_tcp_client.py,    *)
(* services/cpp_grpc_client.py): a pool of TCP connections with a line per *)
(* command and per reply, and a gRPC client that reconnects and retries.   *)
(* Both fall back to a process of the engine's command line                *)
(* (services/cpp_engine.py).  They share nothing else, so a behaviour uses *)
(* one of them.  A step runs from one await to the next; writing to a      *)
(* connection does not wait.                                               *)
(***************************************************************************)
EXTENDS Naturals, FiniteSets, Sequences, FiniteSetsExt

CONSTANTS Callers, Nobody,
          PoolSize,     \* _MAX_POOL_SIZE
          MaxRetries,   \* config.max_retries
          MaxCalls, MaxConns, MaxClients,  \* bounds on what is begun and made
          EngineFaults  \* bound on the changes of the engine's state

ASSUME EngineAssumption == /\ Nobody \notin Callers
                           /\ {PoolSize, MaxRetries} \subseteq Nat \ {0}
                           /\ {MaxCalls, MaxConns, MaxClients, EngineFaults} \subseteq Nat

None == 0
Conns == 1 .. MaxConns
Clients == 1 .. MaxClients

VARIABLES mode,         \* "tcp" or "grpc"
          up, downs,    \* the engine's server answers; changes so far
          cpc, call,    \* each caller: its place, the number of its call
          begun,
          mine,         \* the connection or the client that it uses
          attempt,      \* of _call_with_retry
          pool, in_use, \* _pool, whose order is that of the connections' numbers
          made, eof,    \* connections made; those whose reader has seen the end
          sent, buf,    \* calls the server has yet to answer; replies to be read
          waiter,       \* the reader's waiter
          lock,         \* holder of _pool_lock, or of _grpc_init_lock
          mixed,        \* connections shared, or left with a reply to come (not stored)
          wrong,        \* connections that gave a call another one's reply (not stored)
          client,       \* _global_grpc_client
          connected, stub,   \* of each gRPC client
          clients, closing   \* clients made; the one that is being closed

server == <<mode, up, downs>>
caller == <<cpc, call, begun, mine, attempt>>
tcp == <<pool, in_use, made, eof, sent, buf, waiter, mixed, wrong>>
grpc == <<client, connected, stub, clients, closing>>
engineVars == <<server, caller, tcp, lock, grpc>>

EngineTypeOK ==
    /\ mode \in {"tcp", "grpc"} /\ up \in BOOLEAN /\ downs \in 0 .. EngineFaults
    /\ cpc \in [Callers -> {"idle", "get", "connect", "read", "wait", "close", "subprocess",
                            "attempt", "reconnect", "rpc", "backoff"}]
    /\ call \in [Callers -> 0 .. MaxCalls] /\ begun \in 0 .. MaxCalls
    /\ mine \in [Callers -> 0 .. IF mode = "tcp" THEN made ELSE clients]
    /\ attempt \in [Callers -> 1 .. MaxRetries]
    /\ pool \subseteq 1 .. made /\ Cardinality(pool) <= PoolSize
    /\ in_use \subseteq 1 .. made /\ made \in 0 .. MaxConns /\ eof \subseteq 1 .. made
    /\ \A k \in Conns : \A i \in DOMAIN (sent[k] \o buf[k]) : (sent[k] \o buf[k])[i] \in 1 .. begun
    /\ waiter \in [Conns -> Callers \cup {Nobody}]
    /\ \A k \in Conns : waiter[k] # Nobody => cpc[waiter[k]] = "wait" /\ mine[waiter[k]] = k
    /\ lock \in Callers \cup {Nobody}
    /\ mixed \subseteq 1 .. made /\ wrong \subseteq 1 .. made
    /\ client \in 0 .. clients /\ clients \in 0 .. MaxClients /\ closing \in 0 .. clients
    /\ connected \in [Clients -> BOOLEAN] /\ stub \in [Clients -> BOOLEAN]

EngineInit ==
    /\ mode \in {"tcp", "grpc"} /\ up \in BOOLEAN /\ downs = 0
    /\ cpc = [c \in Callers |-> "idle"] /\ call = [c \in Callers |-> 0] /\ begun = 0
    /\ mine = [c \in Callers |-> None] /\ attempt = [c \in Callers |-> 1]
    /\ pool = {} /\ in_use = {} /\ made = 0 /\ eof = {}
    /\ sent = [k \in Conns |-> <<>>] /\ buf = [k \in Conns |-> <<>>]
    /\ waiter = [k \in Conns |-> Nobody] /\ lock = Nobody
    /\ mixed = {} /\ wrong = {}
    /\ client = None /\ connected = [l \in Clients |-> FALSE] /\ stub = [l \in Clients |-> FALSE]
    /\ clients = 0 /\ closing = None

Goto(c, step) == cpc' = [cpc EXCEPT ![c] = step]
Ends(c) == Goto(c, "idle") /\ mine' = [mine EXCEPT ![c] = None]
           /\ attempt' = [attempt EXCEPT ![c] = 1]

\* execute_command_tcp, execute_via_grpc
BeginCall(c) == /\ cpc[c] = "idle" /\ begun < MaxCalls
                /\ begun' = begun + 1 /\ call' = [call EXCEPT ![c] = begun + 1]
                /\ Goto(c, "get")
                /\ UNCHANGED <<server, mine, attempt, tcp, lock, grpc>>

\* cpp_engine.execute_command: a process answers, fails or times out.
execute_command(c) == /\ cpc[c] = "subprocess" /\ Goto(c, "idle")
                      /\ mine' = [mine EXCEPT ![c] = None]
                      /\ in_use' = in_use \ {mine[c]}
                      /\ UNCHANGED <<server, call, begun, attempt, pool, made, eof, sent, buf,
                                     waiter, mixed, wrong, lock, grpc>>

-----------------------------------------------------------------------------
(* The pool of connections                                                 *)

\* is_healthy: not at the end; replies in the buffer are not the end.
Healthy(k) == k \notin eof \/ buf[k] # <<>>

\* The connection is the caller's, who writes its command at once.
Send(c, k) == /\ mine' = [mine EXCEPT ![c] = k] /\ in_use' = in_use \cup {k}
              /\ sent' = [sent EXCEPT ![k] = IF k \in eof THEN @ ELSE Append(@, call[c])]
              /\ Goto(c, "read")

\* Mutant: one connection too many.
HasRoomOver == Cardinality(pool) <= PoolSize

HasRoom == Cardinality(pool) < PoolSize

\* _get_connection: the first idle connection, or a new one (connecting holds
\* the lock), or with a full pool the first healthy one, busy as it is.
_get_connection(c) ==
    LET idle == {k \in pool \ in_use : Healthy(k)}
        healthy == {k \in pool : Healthy(k)}
    IN
    /\ mode = "tcp" /\ cpc[c] = "get" /\ lock = Nobody
    /\ \/ /\ idle # {} /\ Send(c, Min(idle)) /\ UNCHANGED <<mixed, lock>>
       \/ /\ idle = {} /\ HasRoom /\ made < MaxConns
          /\ lock' = c /\ Goto(c, "connect") /\ UNCHANGED <<mine, in_use, sent, mixed>>
       \/ /\ idle = {} /\ ~HasRoom /\ healthy # {}
          /\ Send(c, Min(healthy)) /\ mixed' = mixed \cup {Min(healthy)} /\ UNCHANGED lock
       \/ /\ idle = {}
          /\ IF HasRoom THEN made = MaxConns ELSE healthy = {}
          /\ Goto(c, "subprocess") /\ UNCHANGED <<mine, in_use, sent, mixed, lock>>
    /\ UNCHANGED <<server, call, begun, attempt, pool, made, eof, buf, waiter, wrong, grpc>>

\* _TcpConnection.connect
Connect(c) ==
    /\ mode = "tcp" /\ cpc[c] = "connect" /\ lock' = Nobody
    /\ \/ /\ up /\ made' = made + 1 /\ pool' = pool \cup {made + 1} /\ Send(c, made + 1)
       \/ ~up /\ Goto(c, "subprocess") /\ UNCHANGED <<made, pool, mine, in_use, sent>>
    /\ UNCHANGED <<server, call, begun, attempt, eof, buf, waiter, mixed, wrong, grpc>>

\* Whoever waits for the reader of k goes on, when data or its end arrives.
Wake(k, pc) == IF waiter[k] = Nobody THEN pc ELSE [pc EXCEPT ![waiter[k]] = "read"]

\* The reply is read, whosoever it is, and the connection released.
Receive(c) ==
    LET k == mine[c] IN
    /\ mode = "tcp" /\ cpc[c] = "read" /\ buf[k] # <<>>
    /\ buf' = [buf EXCEPT ![k] = Tail(@)]
    /\ wrong' = IF Head(buf[k]) = call[c] THEN wrong ELSE wrong \cup {k}
    /\ in_use' = in_use \ {k} /\ mine' = [mine EXCEPT ![c] = None]
    /\ Goto(c, "idle")
    /\ UNCHANGED <<server, call, begun, attempt, pool, made, eof, sent, waiter, mixed, lock, grpc>>

Wait(c) ==
    LET k == mine[c] IN
    /\ mode = "tcp" /\ cpc[c] = "read" /\ buf[k] = <<>> /\ k \notin eof /\ waiter[k] = Nobody
    /\ waiter' = [waiter EXCEPT ![k] = c] /\ Goto(c, "wait")
    /\ UNCHANGED <<server, call, begun, mine, attempt, pool, in_use, made, eof, sent, buf, mixed,
                   wrong, lock, grpc>>

\* The end, a second reader at a time (RuntimeError), or the timeout.
MayFail(c) == \/ cpc[c] = "wait"
              \/ /\ cpc[c] = "read"
                 /\ mine[c] \in eof \/ (buf[mine[c]] = <<>> /\ waiter[mine[c]] # Nobody)

\* Mutant: after a timeout the connection goes back to the pool as it is.
FailKeeps(c) ==
    /\ mode = "tcp" /\ MayFail(c) /\ Goto(c, "subprocess")
    /\ waiter' = [waiter EXCEPT ![mine[c]] = IF @ = c THEN Nobody ELSE @]
    /\ UNCHANGED <<server, call, begun, mine, attempt, pool, in_use, made, eof, sent, buf, mixed,
                   wrong, lock, grpc>>

\* send_command raises: the connection is closed.
Fail(c) ==
    LET k == mine[c] IN
    /\ mode = "tcp" /\ MayFail(c)
    /\ cpc' = [Wake(k, cpc) EXCEPT ![c] = "close"]
    /\ waiter' = [waiter EXCEPT ![k] = Nobody]
    /\ eof' = eof \cup {k} /\ sent' = [sent EXCEPT ![k] = <<>>]
    /\ UNCHANGED <<server, call, begun, mine, attempt, pool, in_use, made, buf, mixed, wrong,
                   lock, grpc>>

\* It is taken out of the pool, and the command given to a process.
Remove(c) == /\ mode = "tcp" /\ cpc[c] = "close" /\ lock = Nobody
             /\ pool' = pool \ {mine[c]} /\ Goto(c, "subprocess")
             /\ UNCHANGED <<server, call, begun, mine, attempt, in_use, made, eof, sent, buf,
                            waiter, mixed, wrong, lock, grpc>>

execute_command_tcp(c) == Connect(c) \/ Receive(c) \/ Wait(c) \/ Fail(c) \/ Remove(c)

\* The request is cancelled, wherever it stands: locks are given back, and the
\* connection is released, with the reply to come.  A client of gRPC that was
\* connecting for the first time is dropped; one that was reconnecting keeps its
\* stub and stays unconnected.
Cancel(c) ==
    /\ cpc[c] # "idle" /\ Ends(c)
    /\ mixed' = IF mode = "tcp" /\ cpc[c] \in {"read", "wait", "close"}
                THEN mixed \cup {mine[c]} ELSE mixed
    /\ waiter' = [k \in Conns |-> IF waiter[k] = c THEN Nobody ELSE waiter[k]]
    /\ lock' = (IF lock = c THEN Nobody ELSE lock)
    /\ in_use' = in_use \ {mine[c]}
    /\ UNCHANGED <<server, call, begun, pool, made, eof, sent, buf, wrong, grpc>>

\* The connections K end.
End(K) == /\ eof' = eof \cup K
          /\ sent' = [k \in Conns |-> IF k \in K THEN <<>> ELSE sent[k]]
          /\ waiter' = [k \in Conns |-> IF k \in K THEN Nobody ELSE waiter[k]]
          /\ cpc' = [c \in Callers |-> IF \E k \in K : waiter[k] = c THEN "read" ELSE cpc[c]]

shutdown_tcp_pool ==
    /\ mode = "tcp" /\ lock = Nobody /\ pool # {}
    /\ End(pool) /\ pool' = {}
    /\ UNCHANGED <<server, call, begun, mine, attempt, in_use, made, buf, mixed, wrong, lock, grpc>>

\* The engine's server answers the commands of a connection in their order.
Serve == \E k \in Conns :
    /\ sent[k] # <<>>
    /\ sent' = [sent EXCEPT ![k] = Tail(@)] /\ buf' = [buf EXCEPT ![k] = Append(@, Head(sent[k]))]
    /\ waiter' = [waiter EXCEPT ![k] = Nobody] /\ cpc' = Wake(k, cpc)
    /\ UNCHANGED <<server, call, begun, mine, attempt, pool, in_use, made, eof, mixed, wrong, lock,
                   grpc>>

\* It stops, and its connections end, or it starts again.
Toggle == /\ downs < EngineFaults /\ downs' = downs + 1 /\ up' = ~up
          /\ IF up THEN End(1 .. made) ELSE UNCHANGED <<eof, sent, waiter, cpc>>
          /\ UNCHANGED <<mode, call, begun, mine, attempt, pool, in_use, made, buf, mixed, wrong,
                         lock, grpc>>

-----------------------------------------------------------------------------
(* The gRPC client                                                         *)

\* get_grpc_client: the connected global, or under the lock a new client, which
\* replaces a global that has lost its connection.
get_grpc_client(c) ==
    LET ready == client # None /\ connected[client] IN
    /\ mode = "grpc"
    /\ \/ /\ cpc[c] = "get" /\ ready
          /\ mine' = [mine EXCEPT ![c] = client] /\ Goto(c, "attempt")
          /\ UNCHANGED <<lock, client, connected, stub, clients>>
       \/ /\ cpc[c] = "get" /\ ~ready /\ lock = Nobody /\ clients < MaxClients
          /\ lock' = c /\ clients' = clients + 1 /\ mine' = [mine EXCEPT ![c] = clients + 1]
          /\ stub' = [stub EXCEPT ![clients + 1] = TRUE]
          /\ Goto(c, "connect") /\ UNCHANGED <<client, connected>>
       \/ /\ cpc[c] = "connect" /\ lock' = Nobody /\ UNCHANGED clients
          /\ IF up
             THEN /\ client' = mine[c] /\ connected' = [connected EXCEPT ![mine[c]] = TRUE]
                  /\ Goto(c, "attempt") /\ UNCHANGED <<stub, mine>>
             ELSE /\ stub' = [stub EXCEPT ![mine[c]] = FALSE]
                  /\ mine' = [mine EXCEPT ![c] = None]
                  /\ Goto(c, "subprocess") /\ UNCHANGED <<client, connected>>
       \/ /\ cpc[c] = "get" /\ ~ready /\ clients = MaxClients /\ lock = Nobody
          /\ Goto(c, "subprocess") /\ UNCHANGED <<mine, lock, client, connected, stub, clients>>
    /\ UNCHANGED <<server, call, begun, attempt, tcp, closing>>

\* CppGrpcClient.connect, again: one caller at a time per client, and the rest
\* find it connected; a new channel, then a ping.
connect(c) ==
    LET l == mine[c] IN
    /\ \/ /\ cpc[c] = "attempt" /\ ~connected[l]
          /\ \A d \in Callers \ {c} : cpc[d] = "reconnect" => mine[d] # l
          /\ stub' = [stub EXCEPT ![l] = TRUE] /\ Goto(c, "reconnect")
          /\ UNCHANGED <<connected, mine, attempt>>
       \/ /\ cpc[c] = "reconnect" /\ up
          /\ connected' = [connected EXCEPT ![l] = TRUE] /\ Goto(c, "rpc")
          /\ UNCHANGED <<stub, mine, attempt>>
       \/ /\ cpc[c] = "reconnect" /\ ~up
          /\ connected' = [connected EXCEPT ![l] = FALSE] /\ stub' = [stub EXCEPT ![l] = FALSE]
          /\ Ends(c)
    /\ mode = "grpc"
    /\ UNCHANGED <<server, call, begun, tcp, lock, client, clients, closing>>

\* The next attempt after a pause, or the error.
Again(c) == IF attempt[c] < MaxRetries
            THEN Goto(c, "backoff") /\ UNCHANGED <<mine, attempt>>
            ELSE Ends(c)

\* Mutant: an attempt that could not be made for want of a stub does not count.
_call_uncounted(c) ==
    LET l == mine[c] IN
    /\ mode = "grpc"
    /\ \/ cpc[c] = "attempt" /\ connected[l] /\ Goto(c, "rpc") /\ UNCHANGED <<connected, mine, attempt>>
       \/ cpc[c] = "rpc" /\ stub[l] /\ Ends(c) /\ UNCHANGED connected
       \/ /\ cpc[c] = "rpc" /\ stub[l]
          /\ connected' = [connected EXCEPT ![l] = FALSE] /\ Again(c)
       \/ /\ cpc[c] = "rpc" /\ (~stub[l] \/ closing = l)
          /\ Goto(c, "backoff") /\ UNCHANGED <<connected, mine, attempt>>
       \/ /\ cpc[c] = "backoff" /\ Goto(c, "attempt") /\ UNCHANGED <<connected, mine, attempt>>
    /\ UNCHANGED <<server, call, begun, tcp, lock, client, stub, clients, closing>>

\* _call_with_retry: UNAVAILABLE ends the connection, an error without a status
\* (no stub, a closed channel) does not; both are tried again.  A reply, or any
\* other status, ends the call.
_call_with_retry(c) ==
    LET l == mine[c] IN
    /\ mode = "grpc"
    /\ \/ cpc[c] = "attempt" /\ connected[l] /\ Goto(c, "rpc") /\ UNCHANGED <<connected, mine, attempt>>
       \/ cpc[c] = "rpc" /\ stub[l] /\ Ends(c) /\ UNCHANGED connected
       \/ /\ cpc[c] = "rpc" /\ stub[l]
          /\ connected' = [connected EXCEPT ![l] = FALSE] /\ Again(c)
       \/ /\ cpc[c] = "rpc" /\ (~stub[l] \/ closing = l)
          /\ Again(c) /\ UNCHANGED connected
       \/ /\ cpc[c] = "backoff" /\ Goto(c, "attempt")
          /\ attempt' = [attempt EXCEPT ![c] = @ + 1] /\ UNCHANGED <<connected, mine>>
    /\ UNCHANGED <<server, call, begun, tcp, lock, client, stub, clients, closing>>

\* close_grpc_client: the channel is closed in between, without any lock; then
\* the client's fields and the global, whichever it is by now, are cleared.
close_grpc_client ==
    /\ mode = "grpc"
    /\ \/ /\ closing = None /\ client # None
          /\ IF stub[client] THEN closing' = client /\ UNCHANGED client
             ELSE client' = None /\ UNCHANGED closing
          /\ UNCHANGED <<connected, stub>>
       \/ /\ closing # None
          /\ connected' = [connected EXCEPT ![closing] = FALSE]
          /\ stub' = [stub EXCEPT ![closing] = FALSE]
          /\ client' = None /\ closing' = None
    /\ UNCHANGED <<server, caller, tcp, lock, clients>>

-----------------------------------------------------------------------------
CallStep(c) == \/ execute_command(c) \/ _get_connection(c) \/ execute_command_tcp(c)
               \/ get_grpc_client(c) \/ connect(c) \/ _call_with_retry(c)

EngineNext == \/ \E c \in Callers : BeginCall(c) \/ CallStep(c) \/ Cancel(c)
              \/ shutdown_tcp_pool \/ close_grpc_client \/ Serve \/ Toggle

-----------------------------------------------------------------------------
(* Properties                                                              *)

\* Replies carry no name of their command: a call gets another one's only on a
\* connection that was shared with a full pool or released by a cancelled call.
\* Timeouts, lost connections and the shutdown of the pool do not mix replies.
RightReply == wrong \subseteq mixed

\* Every call of the engine ends, whatever the engine does: connecting and
\* waiting are limited, and so are the attempts.
EngineAnswers == \A c \in Callers : (cpc[c] # "idle") ~> (cpc[c] = "idle")
=============================================================================
