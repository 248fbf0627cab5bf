---------------------------- MODULE PubSubProofs ----------------------------
(***************************************************************************)
(* Proofs about the clients of the stores and the subscription that is     *)
(* built on the one of Redis: the types, among them the bound on the       *)
(* connections taken from the MySQL pool; that there is one client per     *)
(* store; and that each channel has its task.                              *)
(***************************************************************************)
EXTENDS Storage, FiniteSetTheorems, TLAPS

-----------------------------------------------------------------------------
(* Types                                                                   *)

GlobalTypes == /\ store \in Stores /\ up \in BOOLEAN /\ faults \in 0 .. Faults
               /\ handle \in 0 .. MaxClients /\ latest \in 0 .. MaxClients
               /\ doomed \in 0 .. MaxClients /\ made \in 0 .. MaxClients
               /\ failed \in BOOLEAN /\ raced \in BOOLEAN
               /\ open \subseteq 1 .. made
               /\ phase \in {"running", "resetting", "closing", "closed"}
Places == {"idle", "get", "connect", "use", "begin", "held"}
CallTypes == /\ pc \in [Callers -> Places] /\ op \in [Callers -> Ops]
             /\ mine \in [Callers -> 0 .. MaxClients] /\ got \in [Callers -> 0 .. MaxClients]
             /\ tries \in [Callers -> 0 .. MaxAttempts]

\* What the types rest on: a call that uses a client has one, and no pool has more
\* connections out, or lost, than it may have.
Users(p) == {c \in Callers : pc[c] \in {"begin", "held"} /\ got[c] = p}
UseInv == /\ lost \in [Clients -> Nat]
          /\ \A c \in Callers : pc[c] \in {"use", "begin", "held"} => got[c] \in Clients
          /\ \A p \in Clients : Cardinality(Users(p)) + lost[p] <= PoolMax

StoresInv == GlobalTypes /\ CallTypes /\ UseInv

LEMMA BoundFacts ==
    /\ MaxClients \in Nat /\ Faults \in Nat /\ MaxAttempts \in Nat /\ PoolMax \in Nat
    /\ 1 \in 0 .. MaxAttempts /\ 0 \in 0 .. MaxAttempts /\ None \in 0 .. MaxClients /\ None = 0
    /\ Clients = 1 .. MaxClients
BY BoundAssumption DEF BoundAssumption, None, Clients

LEMMA UsersAreFinite ==
    ASSUME NEW p
    PROVE  /\ IsFiniteSet(Users(p)) /\ Cardinality(Users(p)) \in Nat
           /\ IsFiniteSet(Users(p)') /\ Cardinality(Users(p)') \in Nat
<1>1. Users(p) \subseteq Callers /\ Users(p)' \subseteq Callers
  BY DEF Users
<1> QED
  BY <1>1, CallersAssumption, FS_Subset, FS_CardinalityType DEF CallersAssumption

LEMMA StoresInvTypes == StoresInv => TypeOK
<1> SUFFICES ASSUME StoresInv PROVE TypeOK
  OBVIOUS
<1>1. lost \in [Clients -> 0 .. PoolMax]
  <2>1. \A p \in Clients : lost[p] \in Nat /\ lost[p] <= PoolMax
    BY UsersAreFinite, BoundFacts DEF StoresInv, UseInv
  <2> QED
    BY <2>1 DEF StoresInv, UseInv
<1> QED
  BY <1>1 DEF StoresInv, GlobalTypes, CallTypes, TypeOK, Places

\* A call goes on that has no connection of a pool, before or after.
LEMMA UseMoves ==
    ASSUME CallTypes, UseInv, NEW c \in Callers, NEW place \in {"idle", "get", "connect", "use"},
           pc' = Set(pc, c, place), \A d \in Callers \ {c} : got'[d] = got[d],
           place = "use" => got'[c] \in Clients, lost' = lost
    PROVE  UseInv'
<1>1. \A d \in Callers : pc'[d] = IF d = c THEN place ELSE pc[d]
  BY DEF CallTypes, Set
<1>2. ASSUME NEW p \in Clients PROVE Cardinality(Users(p)') + lost[p] <= PoolMax
  <2>1. Users(p)' \subseteq Users(p)
    BY <1>1 DEF Users
  <2>2. Cardinality(Users(p)') <= Cardinality(Users(p))
    BY <2>1, UsersAreFinite, FS_Subset
  <2>3. Cardinality(Users(p)) + lost[p] <= PoolMax /\ lost[p] \in Nat
    BY DEF UseInv
  <2> QED
    BY <2>2, <2>3, UsersAreFinite, BoundFacts
<1> QED
  BY <1>1, <1>2 DEF UseInv

\* The call is given a client, or none.
LEMMA ServeTypes ==
    ASSUME StoresInv, NEW c \in Callers, NEW h \in 0 .. MaxClients, Serve(c, h), lost' = lost
    PROVE  /\ CallTypes' /\ UseInv'
           /\ mine' = Set(mine, c, None)
           /\ \E place \in {"idle", "use"} : pc' = Set(pc, c, place)
<1> USE DEF StoresInv
<1>1. mine' = Set(mine, c, None)
  BY DEF Serve
<1>2. CASE h = None \/ op[c] = "warm"
  <2>1. /\ pc' = Set(pc, c, "idle") /\ got' = Set(got, c, None)
        /\ op' = Set(op, c, "warm") /\ tries' = Set(tries, c, 0)
    BY <1>2 DEF Serve, Return
  <2>2. CallTypes'
    BY <1>1, <2>1, BoundFacts DEF CallTypes, Set, Places, Ops
  <2>3. UseInv'
    BY <2>1, UseMoves DEF CallTypes, Set
  <2> QED
    BY <1>1, <2>1, <2>2, <2>3
<1>3. CASE ~(h = None \/ op[c] = "warm")
  <2>1. pc' = Set(pc, c, "use") /\ got' = Set(got, c, h) /\ UNCHANGED <<op, tries>>
    BY <1>3 DEF Serve, Goto
  <2>2. CallTypes'
    BY <1>1, <2>1, BoundFacts DEF CallTypes, Set, Places
  <2>3. got'[c] \in Clients /\ \A d \in Callers \ {c} : got'[d] = got[d]
    BY <1>3, <2>1, BoundFacts DEF CallTypes, Set
  <2>4. UseInv'
    BY <2>1, <2>3, UseMoves
  <2> QED
    BY <1>1, <2>1, <2>2, <2>4
<1> QED
  BY <1>2, <1>3

\* What getting the client does: which client the two kinds of stores make and keep.
First == {"redis", "neo4j"}
Then == {"mysql", "mongo"}
LEMMA GetCases ==
    ASSUME StoresInv, NEW c \in Callers, Get(c)
    PROVE  /\ UNCHANGED <<store, up, faults, lost, phase, doomed>>
           /\ \/ Reuse(c) \/ Refused(c)
              \/ store \in First /\ (Create(c, TRUE) \/ Connected(c, handle))
              \/ store = "mysql" /\ (Create(c, FALSE) \/ Connected(c, mine[c]))
              \/ store = "mongo" /\ (Create(c, FALSE) \/ Connected(c, latest))
BY DEF Get, get_redis_async, get_neo4j_driver, get_mysql_pool, get_mongo_db, server, First

LEMMA GetTypes ==
    ASSUME StoresInv, NEW c \in Callers, Get(c)
    PROVE  StoresInv'
<1> USE DEF globals
<1>0. /\ UNCHANGED <<store, up, faults, lost, phase, doomed>> /\ GlobalTypes /\ CallTypes /\ UseInv
      /\ {handle, mine[c], latest} \subseteq 0 .. MaxClients
  BY GetCases DEF StoresInv, GlobalTypes, CallTypes
<1>1. CASE Reuse(c)
  <2>1. Serve(c, handle) /\ UNCHANGED <<handle, latest, failed, open, made, raced>>
    BY <1>1 DEF Reuse
  <2> QED
    BY <1>0, <2>1, ServeTypes DEF StoresInv, GlobalTypes
<1>2. CASE Refused(c)
  <2>1. /\ Serve(c, None) /\ failed' = TRUE /\ handle' = None /\ open' \subseteq open
        /\ raced' \in BOOLEAN /\ UNCHANGED <<latest, made>>
    BY <1>2 DEF Refused
  <2> QED
    BY <1>0, <2>1, ServeTypes, BoundFacts DEF StoresInv, GlobalTypes
<1>3. ASSUME NEW h \in 0 .. MaxClients, Connected(c, h) PROVE StoresInv'
  <2>1. Serve(c, h) /\ handle' = h /\ UNCHANGED <<latest, failed, open, made, raced>>
    BY <1>3 DEF Connected
  <2> QED
    BY <1>0, <2>1, ServeTypes DEF StoresInv, GlobalTypes
<1>4. ASSUME NEW first \in BOOLEAN, Create(c, first) PROVE StoresInv'
  <2>1. /\ made < MaxClients /\ made' = made + 1 /\ mine' = Set(mine, c, made + 1)
        /\ open' = open \cup {made + 1} /\ handle' \in {handle, made + 1} /\ latest' = made + 1
        /\ raced' \in BOOLEAN /\ pc' = Set(pc, c, "connect") /\ UNCHANGED <<failed, got, op, tries>>
    BY <1>4 DEF Create, Goto
  <2>2. made + 1 \in 0 .. MaxClients /\ made + 1 \in 1 .. made' /\ 1 .. made \subseteq 1 .. made'
    BY <1>0, <2>1, BoundFacts DEF GlobalTypes
  <2>3. GlobalTypes'
    BY <1>0, <2>1, <2>2 DEF GlobalTypes
  <2>4. CallTypes'
    BY <1>0, <2>1, <2>2 DEF CallTypes, Set, Places
  <2>5. UseInv'
    BY <1>0, <2>1, UseMoves
  <2> QED
    BY <2>3, <2>4, <2>5 DEF StoresInv
<1> QED
  BY <1>0, <1>1, <1>2, <1>3, <1>4, GetCases

\* A call begins or ends, and asks for the driver again.
LEMMA BeginTypes ==
    ASSUME StoresInv, NEW c \in Callers, _warmup_services(c) \/ Request(c)
    PROVE  StoresInv'
<1>1. PICK o \in Ops : Begin(c, o)
  BY DEF _warmup_services, Request, Ops
<1>2. /\ pc' = Set(pc, c, "get") /\ op' = Set(op, c, o) /\ tries' = Set(tries, c, 1)
      /\ UNCHANGED <<store, up, faults, handle, latest, failed, open, made, lost, phase, doomed, raced,
                     mine, got>>
  BY <1>1 DEF Begin, server, globals
<1>3. CallTypes'
  BY <1>2, BoundFacts DEF StoresInv, CallTypes, Set, Places
<1>4. UseInv'
  BY <1>2, UseMoves DEF StoresInv
<1> QED
  BY <1>2, <1>3, <1>4 DEF StoresInv, GlobalTypes

LEMMA UseTypes ==
    ASSUME StoresInv, NEW c \in Callers, Use(c)
    PROVE  StoresInv'
<1>0. /\ GlobalTypes /\ CallTypes /\ UseInv
      /\ UNCHANGED <<store, up, faults, handle, latest, failed, open, made, phase, doomed, raced, mine>>
  BY DEF StoresInv, Use, server, globals
<1>1. GlobalTypes'
  BY <1>0 DEF GlobalTypes
\* The call ends without a connection, or goes on to the next attempt.
<1>2. ASSUME got' = Set(got, c, None), lost' = lost, NEW place \in {"idle", "get"},
             pc' = Set(pc, c, place), op' \in {op, Set(op, c, "warm")}, NEW n \in 0 .. MaxAttempts,
             tries' = Set(tries, c, n)
      PROVE  StoresInv'
  <2>1. CallTypes'
    BY <1>0, <1>2, BoundFacts DEF CallTypes, Set, Places, Ops
  <2>2. UseInv'
    BY <1>0, <1>2, UseMoves DEF CallTypes, Set
  <2> QED
    BY <1>1, <2>1, <2>2 DEF StoresInv
<1>3. ASSUME Return(c), got' = Set(got, c, None), lost' = lost PROVE StoresInv'
  BY <1>2, <1>3, BoundFacts DEF Return
<1>4. CASE Command(c) \/ execute_query(c)
  BY <1>3, <1>4 DEF Command, execute_query
<1>5. CASE Cypher(c)
  <2>1. CASE Return(c)
    BY <1>3, <1>5, <2>1 DEF Cypher
  <2>2. CASE ~Return(c)
    <3>1. /\ tries[c] < MaxAttempts /\ tries' = Set(tries, c, tries[c] + 1) /\ pc' = Set(pc, c, "get")
          /\ op' = op /\ got' = Set(got, c, None) /\ lost' = lost
      BY <1>5, <2>2 DEF Cypher
    <3>2. tries[c] + 1 \in 0 .. MaxAttempts
      BY <1>0, <3>1, BoundFacts DEF CallTypes
    <3> QED
      BY <1>2, <3>1, <3>2
  <2> QED
    BY <2>1, <2>2
<1>6. CASE Acquire(c)
  <2>1. CASE Return(c) /\ got' = Set(got, c, None)
    BY <1>3, <1>6, <2>1 DEF Acquire
  <2>2. CASE ~(Return(c) /\ got' = Set(got, c, None))
    <3>1. PICK place \in {"begin", "held"} :
            /\ pc[c] = "use" /\ Out(got[c]) < PoolMax /\ pc' = Set(pc, c, place)
            /\ UNCHANGED <<op, tries, got, lost>>
      BY <1>6, <2>2 DEF Acquire, Goto
    <3>2. CallTypes'
      BY <1>0, <3>1 DEF CallTypes, Set, Places
    <3>3. \A d \in Callers : pc'[d] = IF d = c THEN place ELSE pc[d]
      BY <1>0, <3>1 DEF CallTypes, Set
    <3>4. got[c] \in Clients
      BY <1>0, <3>1 DEF UseInv
    <3>5. ASSUME NEW p \in Clients PROVE Cardinality(Users(p)') + lost[p] <= PoolMax
      <4>0. Cardinality(Users(p)) + lost[p] <= PoolMax /\ lost[p] \in Nat
        BY <1>0 DEF UseInv
      <4>1. CASE p = got[c]
        <5>1. Users(p)' = Users(p) \cup {c} /\ c \notin Users(p)
          BY <3>1, <3>3, <4>1 DEF Users
        <5>2. Cardinality(Users(p)') = Cardinality(Users(p)) + 1
          BY <5>1, UsersAreFinite, FS_AddElement
        <5>3. Cardinality(Users(p)) + lost[p] < PoolMax
          BY <3>1, <4>1 DEF Out, Users
        <5> QED
          BY <4>0, <5>2, <5>3, UsersAreFinite, BoundFacts
      <4>2. CASE p # got[c]
        <5>1. Users(p)' = Users(p)
          BY <3>1, <3>3, <4>2 DEF Users
        <5> QED
          BY <4>0, <5>1
      <4> QED
        BY <4>1, <4>2
    <3>6. UseInv'
      BY <1>0, <3>1, <3>3, <3>4, <3>5 DEF UseInv
    <3> QED
      BY <1>1, <3>2, <3>6 DEF StoresInv
  <2> QED
    BY <2>1, <2>2
<1>7. CASE mysql_transaction(c)
  <2>1. pc[c] = "begin" /\ got[c] \in Clients
    BY <1>0, <1>7 DEF mysql_transaction, UseInv
  <2>2. CASE pc' = Set(pc, c, "held") /\ UNCHANGED <<op, tries, lost, got>>
    <3>1. CallTypes'
      BY <1>0, <2>2 DEF CallTypes, Set, Places
    <3>2. \A d \in Callers : pc'[d] = IF d = c THEN "held" ELSE pc[d]
      BY <1>0, <2>2 DEF CallTypes, Set
    <3>3. \A p \in Clients : Users(p)' = Users(p)
      BY <2>1, <2>2, <3>2 DEF Users
    <3>4. UseInv'
      BY <1>0, <2>1, <2>2, <3>2, <3>3 DEF UseInv
    <3> QED
      BY <1>1, <3>1, <3>4 DEF StoresInv
  <2>3. CASE Return(c) /\ got' = Set(got, c, None) /\ lost' = Set(lost, got[c], lost[got[c]] + 1)
    <3>1. /\ pc' = Set(pc, c, "idle") /\ op' = Set(op, c, "warm") /\ tries' = Set(tries, c, 0)
          /\ got' = Set(got, c, None)
      BY <2>3 DEF Return
    <3>2. CallTypes'
      BY <1>0, <3>1, BoundFacts DEF CallTypes, Set, Places, Ops
    <3>3. \A d \in Callers : pc'[d] = IF d = c THEN "idle" ELSE pc[d]
      BY <1>0, <3>1 DEF CallTypes, Set
    <3>4. \A d \in Callers \ {c} : got'[d] = got[d]
      BY <1>0, <3>1 DEF CallTypes, Set
    <3>5. lost' \in [Clients -> Nat] /\ \A p \in Clients : lost'[p] = IF p = got[c] THEN lost[p] + 1 ELSE lost[p]
      BY <1>0, <2>1, <2>3 DEF UseInv, Set
    <3>6. ASSUME NEW p \in Clients PROVE Cardinality(Users(p)') + lost'[p] <= PoolMax
      <4>0. Cardinality(Users(p)) + lost[p] <= PoolMax /\ lost[p] \in Nat
        BY <1>0 DEF UseInv
      <4>1. CASE p = got[c]
        <5>1. Users(p)' = Users(p) \ {c} /\ c \in Users(p)
          BY <2>1, <3>3, <3>4, <4>1 DEF Users
        <5>2. Cardinality(Users(p)') = Cardinality(Users(p)) - 1
          BY <5>1, UsersAreFinite, FS_RemoveElement
        <5>3. lost'[p] = lost[p] + 1
          BY <3>5, <4>1
        <5> QED
          BY <4>0, <5>2, <5>3, UsersAreFinite, BoundFacts
      <4>2. CASE p # got[c]
        <5>1. Users(p)' = Users(p) /\ lost'[p] = lost[p]
          BY <3>3, <3>4, <3>5, <4>2 DEF Users
        <5> QED
          BY <4>0, <5>1
      <4> QED
        BY <4>1, <4>2
    <3>7. UseInv'
      BY <1>0, <3>3, <3>4, <3>5, <3>6 DEF UseInv
    <3> QED
      BY <1>1, <3>2, <3>7 DEF StoresInv
  <2> QED
    BY <1>7, <2>2, <2>3 DEF mysql_transaction, Goto
<1> QED
  BY <1>4, <1>5, <1>6, <1>7 DEF Use

\* The application closes the clients; the server goes away and comes back.
LEMMA CloseTypes ==
    ASSUME StoresInv, Close \/ Toggle
    PROVE  StoresInv'
<1> USE DEF globals, server, call
<1>0. GlobalTypes /\ CallTypes /\ UseInv /\ UNCHANGED <<store, made, lost, pc, op, mine, got, tries>>
  BY DEF StoresInv, Close, Toggle
<1>1. CallTypes' /\ UseInv'
  BY <1>0 DEF CallTypes, UseInv, Users
<1>2. CASE Toggle
  <2>1. UNCHANGED <<handle, latest, failed, open, phase, doomed, raced>>
    BY <1>2 DEF Toggle
  <2>2. up' \in BOOLEAN /\ faults' \in 0 .. Faults
    BY <1>0, <1>2, BoundFacts DEF Toggle, GlobalTypes
  <2> QED
    BY <1>0, <1>1, <2>1, <2>2 DEF StoresInv, GlobalTypes
<1>3. ASSUME NEW next \in {"closing", "resetting"}, Closing(next), UNCHANGED <<up, faults, handle, latest>>,
             failed' \in BOOLEAN
      PROVE  GlobalTypes'
  <2>1. /\ doomed' \in {latest, handle} /\ open' \subseteq open /\ raced' \in BOOLEAN
        /\ phase' \in {"running", "resetting", "closing", "closed"}
    BY <1>3 DEF Closing
  <2> QED
    BY <1>0, <1>3, <2>1 DEF GlobalTypes
<1>4. CASE Close
  <2>1. UNCHANGED <<up, faults>>
    BY <1>4 DEF Close
  <2>2. CASE _shutdown_services
    <3>1. Closing("closing") /\ UNCHANGED <<handle, latest, failed>>
      BY <2>2 DEF _shutdown_services
    <3>2. failed' \in BOOLEAN
      BY <1>0, <3>1 DEF GlobalTypes
    <3> QED
      BY <1>1, <1>3, <2>1, <3>1, <3>2 DEF StoresInv
  <2>3. CASE reset_redis_connection
    <3>1. Closing("resetting") /\ UNCHANGED <<handle, latest>>
      BY <2>3 DEF reset_redis_connection
    <3>2. failed' \in BOOLEAN
      BY <2>3 DEF reset_redis_connection
    <3> QED
      BY <1>1, <1>3, <2>1, <3>1, <3>2 DEF StoresInv
  <2>4. CASE Closed
    <3>1. /\ handle' = None /\ latest' = None /\ failed' = FALSE /\ doomed' = None /\ open' = open
          /\ raced' \in BOOLEAN /\ phase' \in {"closed", "running"}
      BY <2>4 DEF Closed
    <3> QED
      BY <1>0, <1>1, <2>1, <3>1, BoundFacts DEF GlobalTypes, StoresInv
  <2> QED
    BY <1>4, <2>2, <2>3, <2>4 DEF Close
<1> QED
  BY <1>2, <1>4

\* What the subscription does to its own call, and nothing else of the stores.
ListenerMoves == /\ UNCHANGED <<store, up, faults, handle, latest, failed, open, made, lost, phase, doomed,
                                raced, got, tries>>
                 /\ op' \in {op, Set(op, Listener, "warm")}
                 /\ \E place \in {"idle", "get"} : pc' = Set(pc, Listener, place)
                 /\ mine' \in {mine, Set(mine, Listener, None)}
Quiet == UNCHANGED <<store, up, faults, handle, latest, failed, open, made, lost, phase, doomed, raced, pc,
                     op, mine, got, tries>>

LEMMA PubSubCases ==
    ASSUME [PubSubNext]_allvars
    PROVE  \/ \E c \in Callers : _warmup_services(c) \/ Request(c) \/ Get(c) \/ Use(c)
           \/ Close \/ Toggle
           \/ store = "redis" /\ ListenerMoves
           \/ Quiet
<1> USE DEF server, globals, call
<1>1. CASE Others
  BY <1>1 DEF Others
<1>2. CASE subscribe \/ Cancelled \/ ListenerRetries
  BY <1>2 DEF subscribe, Cancelled, ListenerRetries, Local, ListenerMoves
<1>3. CASE start \/ stop \/ unsubscribe \/ TaskAwaited \/ ListenerSubscribes \/ ListenerReads \/ publish
  BY <1>3 DEF start, stop, unsubscribe, TaskAwaited, ListenerSubscribes, ListenerReads, publish, Local,
              NoCall, Quiet
<1>4. CASE ListenerGets
  BY <1>4, ListenerAssumption DEF ListenerGets, ListenerAssumption
<1>5. CASE UNCHANGED allvars
  BY <1>5 DEF allvars, vars, Quiet
<1> QED
  BY <1>1, <1>2, <1>3, <1>4, <1>5 DEF PubSubNext, _listen_loop

LEMMA StoresStep ==
    ASSUME StoresInv, [PubSubNext]_allvars
    PROVE  StoresInv'
<1>1. CASE ListenerMoves
  <2>0. Listener \in Callers
    BY ListenerAssumption DEF ListenerAssumption
  <2>1. PICK place \in {"idle", "get"} : pc' = Set(pc, Listener, place)
    BY <1>1 DEF ListenerMoves
  <2>2. CallTypes'
    <3>1. pc' \in [Callers -> Places]
      BY <2>1 DEF StoresInv, CallTypes, Set, Places
    <3>2. op' \in [Callers -> Ops]
      BY <1>1 DEF StoresInv, ListenerMoves, CallTypes, Set, Ops
    <3>3. mine' \in [Callers -> 0 .. MaxClients]
      BY <1>1, BoundFacts DEF StoresInv, ListenerMoves, CallTypes, Set
    <3>4. got' = got /\ tries' = tries
      BY <1>1 DEF ListenerMoves
    <3> QED
      BY <3>1, <3>2, <3>3, <3>4 DEF StoresInv, CallTypes
  <2>3. UseInv'
    BY <1>1, <2>0, <2>1, UseMoves DEF StoresInv, ListenerMoves
  <2> QED
    BY <1>1, <2>2, <2>3 DEF StoresInv, ListenerMoves, GlobalTypes
<1>2. CASE Quiet
  BY <1>2 DEF Quiet, StoresInv, GlobalTypes, CallTypes, UseInv, Users
<1> QED
  BY <1>1, <1>2, PubSubCases, GetTypes, BeginTypes, UseTypes, CloseTypes

LEMMA StoresStart == PubSubInit => StoresInv
<1> SUFFICES ASSUME Init PROVE StoresInv
  BY DEF PubSubInit
<1>1. GlobalTypes
  <2>1. /\ store \in Stores /\ up \in BOOLEAN /\ faults = 0 /\ handle = 0 /\ latest = 0 /\ made = 0
        /\ doomed = 0 /\ failed = FALSE /\ raced = FALSE /\ open = {} /\ phase = "running"
    BY DEF Init, None
  <2>2. 0 \in 0 .. Faults /\ 0 \in 0 .. MaxClients
    BY BoundFacts
  <2> QED
    BY <2>1, <2>2 DEF GlobalTypes
<1>2. CallTypes
  BY BoundFacts DEF Init, CallTypes, Places, Ops
<1>3. UseInv
  <2>1. \A p \in Clients : Users(p) = {} /\ lost[p] = 0
    BY DEF Init, Users
  <2>2. Cardinality({}) = 0 /\ 0 <= PoolMax
    BY BoundFacts, FS_EmptySet
  <2>3. lost \in [Clients -> Nat]
    BY DEF Init
  <2>4. \A c \in Callers : pc[c] = "idle"
    BY DEF Init
  <2>5. \A p \in Clients : Cardinality(Users(p)) + lost[p] <= PoolMax
    BY <2>1, <2>2
  <2> QED
    BY <2>3, <2>4, <2>5 DEF UseInv
<1> QED
  BY <1>1, <1>2, <1>3 DEF StoresInv

\* The globals, the clients and the calls keep their types, the attempts of a query
\* their bound, and no pool loses more connections than it may have: for any number
\* of callers, clients, attempts and faults.
THEOREM TypeCorrect == PubSubSpec => []TypeOK
BY StoresStart, StoresStep, StoresInvTypes, PTL DEF PubSubSpec

-----------------------------------------------------------------------------
(* One client per store                                                    *)

\* Until a race: one call at a time connects, to the client made last, which the
\* stores that publish first have in the global, and nothing else is open; whatever
\* is closing has been closed, and nobody connects meanwhile.
ClientInv == ~raced =>
    /\ \A c, d \in Connecting : c = d
    /\ \A c \in Connecting : /\ mine[c] \in open /\ mine[c] = latest
                             /\ handle = IF store \in First THEN mine[c] ELSE None
    /\ open \subseteq {handle} \cup {mine[c] : c \in Connecting}
    /\ phase = "running" /\ handle # None => handle \in open
    /\ phase # "running" => Connecting = {} /\ open = {}
    /\ store = "mongo" => handle \in {None, latest}

\* Nobody begins to connect, and what is connecting keeps its client.
LEMMA ClientKept ==
    ASSUME ClientInv, UNCHANGED <<store, handle, latest, open, phase, raced>>,
           Connecting' = Connecting, \A c \in Connecting : mine'[c] = mine[c]
    PROVE  ClientInv'
BY DEF ClientInv

LEMMA ClientStep ==
    ASSUME StoresInv, ClientInv, [PubSubNext]_allvars
    PROVE  ClientInv'
<1>0. /\ GlobalTypes /\ CallTypes /\ None \notin open /\ None = 0 /\ made \in Nat /\ raced \in BOOLEAN
      /\ store \in {"redis", "neo4j", "mysql", "mongo"}
  BY BoundFacts, StoresAssumption DEF StoresInv, GlobalTypes, StoresAssumption
\* The call of c goes on, to a place where it does not connect.
<1>1. ASSUME NEW c \in Callers, NEW place \in Places \ {"connect"}, pc' = Set(pc, c, place)
      PROVE  Connecting' = Connecting \ {c}
  BY <1>0, <1>1 DEF Connecting, CallTypes, Set
<1>2. ASSUME NEW c \in Callers, _warmup_services(c) \/ Request(c) PROVE ClientInv'
  <2>1. /\ pc[c] = "idle" /\ pc' = Set(pc, c, "get")
        /\ UNCHANGED <<store, handle, latest, open, phase, raced, mine>>
    BY <1>2 DEF _warmup_services, Request, Begin, server, globals
  <2>2. Connecting' = Connecting
    BY <1>1, <2>1 DEF Places, Connecting
  <2> QED
    BY <2>1, <2>2, ClientKept
<1>3. ASSUME NEW c \in Callers, Use(c) PROVE ClientInv'
  <2>1. UNCHANGED <<store, handle, latest, open, phase, raced, mine>>
    BY <1>3 DEF Use, server, globals
  <2>2. pc[c] # "connect" /\ \E place \in Places \ {"connect"} : pc' = Set(pc, c, place)
    BY <1>3 DEF Use, Command, Cypher, Acquire, mysql_transaction, execute_query, Return, Goto, Places
  <2>3. Connecting' = Connecting
    BY <1>1, <2>2 DEF Connecting
  <2> QED
    BY <2>1, <2>3, ClientKept
<1>4. ASSUME NEW c \in Callers, Get(c) PROVE ClientInv'
  <2>0. UNCHANGED <<store, phase>>
    BY <1>4, GetCases
  <2>1. ASSUME NEW h \in 0 .. MaxClients, Serve(c, h)
        PROVE  /\ Connecting' = Connecting \ {c}
               /\ \A d \in Callers \ {c} : mine'[d] = mine[d]
    <3>1. lost' = lost
      BY <1>4, GetCases
    <3>2. mine' = Set(mine, c, None) /\ \E place \in {"idle", "use"} : pc' = Set(pc, c, place)
      BY <2>1, <3>1, ServeTypes
    <3> QED
      BY <1>0, <1>1, <3>2 DEF Places, CallTypes, Set
  <2>2. CASE Reuse(c)
    <3>1. /\ pc[c] = "get" /\ Serve(c, handle) /\ handle \in 0 .. MaxClients
          /\ UNCHANGED <<handle, latest, open, raced>>
      BY <1>0, <2>2 DEF Reuse, globals, GlobalTypes
    <3>2. Connecting' = Connecting /\ \A d \in Connecting : mine'[d] = mine[d]
      BY <2>1, <3>1 DEF Connecting
    <3> QED
      BY <2>0, <3>1, <3>2, ClientKept
  <2>3. CASE Refused(c)
    <3>1. /\ pc[c] = "connect" /\ handle' = None /\ Serve(c, None) /\ latest' = latest
          /\ open' = (IF store = "mysql" THEN open \ {mine[c]} ELSE open)
          /\ raced' = (raced \/ store # "mysql" \/ handle # None)
      BY <2>3 DEF Refused
    <3>2. None \in 0 .. MaxClients /\ c \in Connecting
      BY <3>1, BoundFacts DEF Connecting
    <3> SUFFICES ASSUME ~raced' PROVE ClientInv'
      BY DEF ClientInv
    <3>3. ~raced /\ store = "mysql" /\ handle = None
      BY <3>1
    <3>4. Connecting = {c} /\ Connecting' = {}
      BY <2>1, <3>1, <3>2, <3>3 DEF ClientInv
    <3>5. open' = {}
      BY <1>0, <3>1, <3>3, <3>4 DEF ClientInv
    <3> QED
      BY <2>0, <3>1, <3>3, <3>4, <3>5 DEF ClientInv
  <2>4. ASSUME NEW h \in 0 .. MaxClients, Connected(c, h), ~raced => h = mine[c] PROVE ClientInv'
    <3>1. pc[c] = "connect" /\ handle' = h /\ Serve(c, h) /\ UNCHANGED <<latest, open, raced>>
      BY <2>4 DEF Connected
    <3> SUFFICES ASSUME ~raced PROVE ClientInv'
      BY <3>1 DEF ClientInv
    <3>2. c \in Connecting
      BY <3>1 DEF Connecting
    <3>3. Connecting = {c} /\ Connecting' = {}
      BY <2>1, <3>1, <3>2 DEF ClientInv
    <3>4. handle' = mine[c] /\ mine[c] \in open /\ mine[c] = latest /\ handle \in {None, mine[c]}
      BY <2>4, <3>1, <3>2 DEF ClientInv
    <3>5. open' \subseteq {handle'} /\ phase = "running"
      BY <1>0, <3>1, <3>2, <3>3, <3>4 DEF ClientInv
    <3> QED
      BY <2>0, <3>1, <3>3, <3>4, <3>5 DEF ClientInv
  <2>5. ASSUME NEW first \in BOOLEAN, first <=> store \in First, Create(c, first) PROVE ClientInv'
    <3>1. /\ pc[c] = "get" /\ handle = None /\ made' = made + 1 /\ mine' = Set(mine, c, made + 1)
          /\ open' = open \cup {made + 1} /\ handle' = (IF first THEN made + 1 ELSE handle)
          /\ latest' = made + 1 /\ pc' = Set(pc, c, "connect")
          /\ raced' = (raced \/ (Connecting # {} /\ ~first) \/ phase # "running")
      BY <2>5 DEF Create, Goto
    <3> SUFFICES ASSUME ~raced' PROVE ClientInv'
      BY DEF ClientInv
    <3>2. ~raced /\ phase = "running" /\ (first \/ Connecting = {})
      BY <3>1
    <3>3. Connecting = {}
      <4> SUFFICES ASSUME first, NEW d \in Connecting PROVE FALSE
        BY <3>2
      <4>1. handle = mine[d] /\ mine[d] \in open
        BY <2>5, <3>2 DEF ClientInv
      <4> QED
        BY <1>0, <3>1, <4>1
    <3>4. Connecting' = {c} /\ mine'[c] = made + 1
      BY <1>0, <3>1, <3>3 DEF Connecting, CallTypes, Set
    <3>5. open = {} /\ made + 1 # None
      BY <1>0, <3>1, <3>2, <3>3 DEF ClientInv
    <3>6. store' = "mongo" => ~first
      BY <2>0, <2>5 DEF First
    <3> QED
      BY <2>0, <2>5, <3>1, <3>2, <3>4, <3>5, <3>6 DEF ClientInv
  <2>6. /\ {handle, mine[c], latest} \subseteq 0 .. MaxClients
        /\ ~raced /\ pc[c] = "connect" => latest = mine[c] /\ (store \in First => handle = mine[c])
    BY <1>0 DEF GlobalTypes, CallTypes, ClientInv, Connecting
  <2>7. ASSUME NEW h, Connected(c, h) PROVE pc[c] = "connect"
    BY <2>7 DEF Connected
  <2>8. store \in {"mysql", "mongo"} => store \notin First
    BY DEF First
  <2> QED
    BY <1>4, <2>2, <2>3, <2>4, <2>5, <2>6, <2>7, <2>8, GetCases
<1>5. CASE Toggle \/ Quiet
  <2>1. UNCHANGED <<store, handle, latest, open, phase, raced, pc, mine>>
    BY <1>5 DEF Toggle, Quiet, globals, call
  <2> QED
    BY <2>1, ClientKept DEF Connecting
<1>6. CASE Close
  <2>0. UNCHANGED <<store, made, pc, mine>> /\ Connecting' = Connecting
    BY <1>6 DEF Close, server, call, Connecting
  <2>1. ASSUME NEW next \in {"closing", "resetting"}, Closing(next), UNCHANGED <<handle, latest>>
        PROVE  ClientInv'
    <3> DEFINE h == IF store = "mongo" THEN latest ELSE handle
    <3>1. /\ phase = "running" /\ open' = open \ {h} /\ raced' = (raced \/ Connecting # {})
          /\ phase' = (IF h = None THEN (IF next = "closing" THEN "closed" ELSE "running") ELSE next)
      BY <2>1 DEF Closing
    <3> SUFFICES ASSUME ~raced' PROVE ClientInv'
      BY DEF ClientInv
    <3>2. ~raced /\ Connecting = {} /\ open \subseteq {handle} /\ (store = "mongo" => handle \in {None, latest})
      BY <3>1 DEF ClientInv
    <3>3. open' = {}
      BY <1>0, <3>1, <3>2
    <3>4. phase' = "running" => handle = None
      <4>1. phase' = "running" => h = None
        BY <2>1, <3>1
      <4> QED
        BY <3>2, <4>1
    <3> QED
      BY <2>0, <2>1, <3>2, <3>3, <3>4 DEF ClientInv
  <2>2. CASE Closed
    <3>1. /\ phase # "running" /\ handle' = None /\ latest' = None /\ open' = open
          /\ raced' = (raced \/ handle \notin {doomed, None} \/ Connecting # {})
      BY <2>2 DEF Closed
    <3> SUFFICES ASSUME ~raced' PROVE ClientInv'
      BY DEF ClientInv
    <3>2. ~raced /\ Connecting = {}
      BY <3>1
    <3>3. open = {}
      BY <3>1, <3>2 DEF ClientInv
    <3> QED
      BY <2>0, <3>1, <3>2, <3>3 DEF ClientInv
  <2>3. CASE _shutdown_services
    BY <2>1, <2>3 DEF _shutdown_services, globals
  <2>4. CASE reset_redis_connection
    BY <2>1, <2>4 DEF reset_redis_connection
  <2> QED
    BY <1>6, <2>2, <2>3, <2>4 DEF Close
\* The task is cancelled, or begins again: a client it was testing stays the global's.
<1>7. CASE store = "redis" /\ ListenerMoves
  <2>0. Listener \in Callers
    BY ListenerAssumption DEF ListenerAssumption
  <2>1. PICK place \in {"idle", "get"} : pc' = Set(pc, Listener, place)
    BY <1>7 DEF ListenerMoves
  <2>2. /\ UNCHANGED <<store, handle, latest, open, phase, raced>>
        /\ mine' \in {mine, Set(mine, Listener, None)}
    BY <1>7 DEF ListenerMoves
  <2>3. Connecting' = Connecting \ {Listener} /\ \A c \in Connecting' : mine'[c] = mine[c]
    BY <1>0, <1>1, <2>0, <2>1, <2>2 DEF Places, CallTypes, Set, Connecting
  <2> SUFFICES ASSUME ~raced PROVE ClientInv'
    BY <2>2 DEF ClientInv
  <2>4. open \subseteq {handle}
    BY <1>7 DEF ClientInv, First
  <2> QED
    BY <2>2, <2>3, <2>4 DEF ClientInv
<1> QED
  BY <1>2, <1>3, <1>4, <1>5, <1>6, <1>7, PubSubCases

LEMMA ClientStarts == PubSubInit => ClientInv
BY DEF PubSubInit, Init, ClientInv, Connecting

\* The lazy getters keep one client per store, whatever is called at the same time
\* and however often the server goes and the application resets: unless two calls of
\* a store that publishes last overlapped, a test failed or a close met a call that
\* was connecting.
THEOREM OneClientPerStore == PubSubSpec => []OneClient
<1>1. StoresInv /\ ClientInv => OneClient
  <2> SUFFICES ASSUME StoresInv, ClientInv, ~raced PROVE OneClient
    BY DEF OneClient
  <2>1. Cardinality(Connecting) <= 1
    <3>1. CASE Connecting = {}
      BY <3>1, FS_EmptySet
    <3>2. CASE Connecting # {}
      <4>1. PICK c \in Connecting : Connecting = {c}
        BY <3>2 DEF ClientInv
      <4> QED
        BY <4>1, FS_Singleton
    <3> QED
      BY <3>1, <3>2
  <2> QED
    BY <2>1 DEF ClientInv, OneClient
<1> QED
  BY <1>1, StoresStart, StoresStep, ClientStarts, ClientStep, PTL DEF PubSubSpec

-----------------------------------------------------------------------------
(* One task per channel                                                    *)

\* While unsubscribe waits for the task, the channel is no longer listed.
ListenInv == /\ OneListener /\ subscribed \in BOOLEAN /\ running \in BOOLEAN
             /\ waiter \in {"nobody", "stop", "unsubscribe"}
             /\ waiter = "unsubscribe" => ~subscribed

LEMMA ListenStep ==
    ASSUME ListenInv, [PubSubNext]_allvars
    PROVE  ListenInv'
<1> USE DEF ListenInv, OneListener
<1>1. CASE UNCHANGED <<running, subscribed, waiter, task>>
  BY <1>1
<1>2. CASE ListenerGets
  BY <1>2 DEF ListenerGets
<1>3. CASE ListenerSubscribes
  BY <1>3 DEF ListenerSubscribes
<1>4. CASE ListenerReads
  BY <1>4 DEF ListenerReads
<1>5. CASE ListenerRetries
  BY <1>5 DEF ListenerRetries
<1>6. CASE start
  BY <1>6 DEF start
<1>7. CASE subscribe
  BY <1>7 DEF subscribe
<1>8. CASE stop \/ unsubscribe
  BY <1>8 DEF stop, unsubscribe
<1>9. CASE TaskAwaited
  BY <1>9 DEF TaskAwaited
<1>10. CASE Cancelled
  BY <1>10 DEF Cancelled
<1>11. CASE publish
  BY <1>1, <1>11 DEF publish
<1> QED
  BY <1>1, <1>2, <1>3, <1>4, <1>5, <1>6, <1>7, <1>8, <1>9, <1>10, <1>11
  DEF PubSubNext, _listen_loop, allvars, pubsub

\* Every subscribed channel has its task and every task its channel, except while a
\* call holds the lock for a cancelled task: whatever the order of the calls of the
\* lifecycle and of the failures.
THEOREM OneTaskPerChannel == PubSubSpec => []OneListener
<1>1. PubSubInit => ListenInv
  BY DEF PubSubInit, ListenInv, OneListener
<1>2. ListenInv => OneListener
  BY DEF ListenInv
<1> QED
  BY <1>1, <1>2, ListenStep, PTL DEF PubSubSpec

-----------------------------------------------------------------------------
(* The writer of the measurements beside the clients                       *)

\* What Storage runs is a behaviour of the clients and one of MetricsWriter: the
\* theorems about either hold of it.
THEOREM StorageKeepsItsParts == StorageSpec => PubSubSpec /\ WriterSpec
<1>1. StorageInit => PubSubInit /\ WriterInit
  BY DEF StorageInit
<1>2. [StorageNext]_storageVars => [PubSubNext]_allvars /\ [WriterNext]_writerVars
  BY DEF StorageNext, storageVars
<1> QED
  BY <1>1, <1>2, PTL DEF StorageSpec, PubSubSpec, WriterSpec
=============================================================================
