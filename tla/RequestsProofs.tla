--------------------------- MODULE RequestsProofs ---------------------------
(***************************************************************************)
(* Theorems about the path of the requests: the operation log writes each  *)
(* operation at most once and loses none silently, and the rate limiter's  *)
(* window holds, for any requests, limits and times.                       *)
(***************************************************************************)
EXTENDS Requests, FiniteSetTheorems, SequenceTheorems, WellFoundedInduction, TLAPS

-----------------------------------------------------------------------------
(* The operation log                                                       *)

\* What LoggedOnce rests on: a document that is buffered or in the batch has
\* been logged and not been stored, and the two have nothing in common until the
\* last write, which takes the buffer as its batch.
LogTypes == /\ rpc \in [Requests -> {"new", "check", "route", "refused", "done"}]
            /\ stored \in [Requests -> Nat] /\ failures \in Nat /\ stopping \in BOOLEAN
            /\ buffer \subseteq Requests /\ batch \subseteq Requests

LogInv == /\ \A r \in Requests : stored[r] <= IF rpc[r] = "done" THEN 1 ELSE 0
          /\ \A r \in buffer \cup batch : rpc[r] = "done" /\ stored[r] = 0
          /\ \A r \in Requests : rpc[r] = "done" => stored[r] = 1 \/ r \in buffer \cup batch \cup lost
          /\ lost # {} => failures > 0 \/ stopping
          /\ flush = "last" => stopping /\ batch \subseteq buffer
          /\ flush # "last" => buffer \cap batch = {}
          /\ flush \notin {"write", "last"} => batch = {}

\* The requests and the log start out empty, and what the engine or a WebSocket
\* does leaves them alone.
LEMMA LogInit == Init => LogTypes /\ LogInv
<1> SUFFICES ASSUME TrafficInit PROVE LogTypes /\ LogInv
  BY DEF Init
<1>1. /\ rpc = [r \in Requests |-> "new"] /\ stored = [r \in Requests |-> 0]
      /\ failures = 0 /\ stopping = FALSE /\ buffer = {} /\ batch = {} /\ lost = {} /\ flush = "none"
  BY DEF TrafficInit
<1>2. LogTypes
  BY <1>1 DEF LogTypes
<1>3. \A r \in Requests : stored[r] = 0 /\ rpc[r] # "done"
  BY <1>1
<1> QED
  BY <1>1, <1>2, <1>3 DEF LogInv

LEMMA LogFrame ==
    ASSUME LogTypes, LogInv, UNCHANGED <<rpc, stored, failures, stopping, buffer, batch, lost, flush>>
    PROVE  LogTypes' /\ LogInv'
BY DEF LogTypes, LogInv

\* A request moves on without reaching the log: dispatch and the rate limiter.
LEMMA LogIgnoresLimiter ==
    ASSUME LogTypes, LogInv, TrafficAssumption, NEW r \in Requests,
           dispatch(r) \/ _check_rate_limit(r)
    PROVE  LogTypes' /\ LogInv'
<1> USE DEF LogTypes, LogInv
<1>1. /\ rpc[r] \in {"new", "check"}
      /\ \E place \in {"check", "route", "refused"} : rpc' = [rpc EXCEPT ![r] = place]
      /\ UNCHANGED log
  BY DEF dispatch, _check_rate_limit
<1>2. failures' \in Nat /\ (failures > 0 => failures' > 0)
  BY DEF dispatch, _check_rate_limit, Failure
<1>3. PICK place \in {"check", "route", "refused"} : rpc' = [rpc EXCEPT ![r] = place]
  BY <1>1
<1>4. UNCHANGED <<buffer, batch, flush, stored, lost, stopping>>
  BY <1>1 DEF log
<1>5. LogTypes'
  BY <1>2, <1>3, <1>4
<1>6. \A q \in Requests : rpc[q] = "done" <=> rpc'[q] = "done"
  BY <1>1, <1>3
<1>7. \A q \in Requests : stored'[q] <= IF rpc'[q] = "done" THEN 1 ELSE 0
  BY <1>4, <1>6
<1>8. \A q \in buffer \cup batch : rpc'[q] = "done" /\ stored'[q] = 0
  BY <1>4, <1>6
<1> QED
  BY <1>2, <1>4, <1>5, <1>6, <1>7, <1>8

\* An operation is appended.
LEMMA LogAppends ==
    ASSUME LogTypes, LogInv, NEW r \in Requests, log_operation(r)
    PROVE  LogTypes' /\ LogInv'
<1> USE DEF LogTypes, LogInv
<1>1. /\ rpc[r] = "route" /\ rpc' = [rpc EXCEPT ![r] = "done"] /\ buffer' = buffer \cup {r}
      /\ flush' = (IF flush \in {"none", "done"} THEN "sleep" ELSE flush)
      /\ UNCHANGED <<failures, batch, stored, lost, stopping>>
  BY DEF log_operation
<1>2. LogTypes'
  BY <1>1
<1>3. stored[r] = 0 /\ r \notin buffer \cup batch
  BY <1>1
<1>4. \A q \in Requests : rpc'[q] = "done" <=> rpc[q] = "done" \/ q = r
  BY <1>1
<1> QED
  BY <1>1, <1>2, <1>3, <1>4

\* The flush task and its cancellation.
LEMMA LogFlushes ==
    ASSUME LogTypes, LogInv, TrafficAssumption, _flush_batch
    PROVE  LogTypes' /\ LogInv'
<1> USE DEF LogTypes, LogInv
<1>0. UNCHANGED <<rpc, stopping>>
  BY DEF _flush_batch
<1> DEFINE Added(S) == stored' = [q \in Requests |-> stored[q] + (IF q \in S THEN 1 ELSE 0)]
<1>1. CASE flush = "sleep"
  <2>1. batch' = buffer /\ buffer' = {} /\ flush' = "write" /\ UNCHANGED <<stored, lost, failures>>
    BY <1>1 DEF _flush_batch
  <2> QED
    BY <1>0, <1>1, <2>1
<1>2. CASE flush = "write"
  <2>1. batch' = {} /\ flush' = "sleep" /\ UNCHANGED buffer /\ bulk_write_logs
    BY <1>2 DEF _flush_batch
  <2>2. CASE Added(batch) /\ UNCHANGED <<lost, failures>>
    BY <1>0, <1>2, <2>1, <2>2
  <2>3. CASE Failure /\ lost' = lost \cup batch /\ UNCHANGED stored
    BY <1>0, <1>2, <2>1, <2>3 DEF Failure
  <2> QED
    BY <2>1, <2>2, <2>3 DEF bulk_write_logs
<1>3. CASE flush = "last"
  <2>1. /\ batch' = {} /\ buffer' = {} /\ flush' = "done"
        /\ \/ Added(batch) /\ lost' = lost \cup (buffer \ batch) /\ UNCHANGED failures
           \/ Failure /\ lost' = lost \cup buffer /\ UNCHANGED stored
    BY <1>3 DEF _flush_batch
  <2>2. CASE Added(batch) /\ lost' = lost \cup (buffer \ batch) /\ UNCHANGED failures
    BY <1>0, <1>3, <2>1, <2>2
  <2>3. CASE Failure /\ lost' = lost \cup buffer /\ UNCHANGED stored
    BY <1>0, <1>3, <2>1, <2>3 DEF Failure
  <2> QED
    BY <2>1, <2>2, <2>3
<1> QED
  BY <1>1, <1>2, <1>3 DEF _flush_batch

LEMMA LogIsCancelled ==
    ASSUME LogTypes, LogInv, CancelFlush
    PROVE  LogTypes' /\ LogInv'
<1> USE DEF LogTypes, LogInv
<1>1. /\ flush \in {"sleep", "write"} /\ stopping' = TRUE /\ batch' = buffer
      /\ flush' = (IF buffer = {} THEN "done" ELSE "last")
      /\ UNCHANGED <<failures, rpc, buffer>>
  BY DEF CancelFlush
<1>2. CASE lost' = lost \cup batch /\ UNCHANGED stored
  BY <1>1, <1>2
<1>3. CASE /\ stored' = [q \in Requests |-> stored[q] + (IF q \in batch THEN 1 ELSE 0)]
           /\ UNCHANGED lost
  BY <1>1, <1>3
<1> QED
  BY <1>2, <1>3 DEF CancelFlush

\* A step of the engine's clients or of a WebSocket leaves the requests alone; the
\* others are one of the path's own steps.
LEMMA StepOfTraffic ==
    ASSUME Next
    PROVE  TrafficNext \/ UNCHANGED trafficVars
<1>1. CASE EngineStep(EngineNext)
  BY <1>1 DEF EngineStep
<1>2. CASE TrafficStep(TrafficNext)
  BY <1>2 DEF TrafficStep
<1>3. CASE SocketStep(follows = "live" /\ LiveNext) \/ SocketStep(follows = "analysis" /\ AnalysisNext)
  BY <1>3 DEF SocketStep
<1> QED
  BY <1>1, <1>2, <1>3 DEF Next

\* Every step preserves the log's invariant.
LEMMA LogStep ==
    ASSUME LogTypes, LogInv, [Next]_requestVars
    PROVE  LogTypes' /\ LogInv'
<1>1. TrafficNext \/ UNCHANGED trafficVars
  <2>1. CASE Next
    BY <2>1, StepOfTraffic
  <2>2. CASE UNCHANGED requestVars
    BY <2>2 DEF requestVars
  <2> QED
    BY <2>1, <2>2
<1>2. CASE UNCHANGED trafficVars
  BY <1>2, LogFrame DEF trafficVars, log
<1>3. CASE \E r \in Requests : dispatch(r) \/ _check_rate_limit(r)
  BY <1>3, LogIgnoresLimiter, TrafficAssumption
<1>4. CASE \E r \in Requests : log_operation(r)
  BY <1>4, LogAppends
<1>5. CASE _flush_batch
  BY <1>5, LogFlushes, TrafficAssumption
<1>6. CASE CancelFlush
  BY <1>6, LogIsCancelled
<1>7. CASE Clock
  <2>1. UNCHANGED <<rpc, stored, failures, stopping, buffer, batch, lost, flush>>
    BY <1>7 DEF Clock, log
  <2> QED
    BY <2>1, LogFrame
<1> QED
  BY <1>1, <1>2, <1>3, <1>4, <1>5, <1>6, <1>7 DEF TrafficNext

\* Every operation that was logged is in the buffer, in the batch under way or
\* exactly once in the database, and is lost only by a failed write or by the
\* cancellation of the task: for any number of requests and of failures.
THEOREM OperationsLoggedOnce == Spec => []LoggedOnce
<1>1. LogInv => LoggedOnce
  BY DEF LogInv, LoggedOnce
<1> QED
  BY <1>1, LogInit, LogStep, PTL DEF Spec

-----------------------------------------------------------------------------
(* The rate limiter                                                        *)

\* The requests let through whose window of time holds t.
Active(t) == {a \in admitted : a <= t /\ a + Window > t}

\* What WindowBound rests on: until the limiter is blind, a stamp that was let
\* through is in the sorted set, or older than a whole window before a member.
WindowTypes == /\ stamp \in [Requests -> Nat] /\ now \in Nat
               /\ window \subseteq Nat /\ IsFiniteSet(window)
               /\ admitted \subseteq Nat

WindowInv == ~blind => /\ \A a \in admitted : a \in window \/ \E m \in window : a + Window <= m
                       /\ \A t \in Nat : Cardinality(Active(t)) <= Limit

LEMMA WindowInit == Init => WindowTypes /\ WindowInv
<1> SUFFICES ASSUME TrafficInit PROVE WindowTypes /\ WindowInv
  BY DEF Init
<1>1. /\ now = 1 /\ stamp = [r \in Requests |-> 0] /\ window = {} /\ admitted = {}
  BY DEF TrafficInit
<1>2. WindowTypes
  BY <1>1, FS_EmptySet DEF WindowTypes
<1>3. \A t \in Nat : Active(t) = {}
  BY <1>1 DEF Active
<1>4. Cardinality({}) <= Limit
  BY FS_EmptySet, TrafficAssumption DEF TrafficAssumption
<1> QED
  BY <1>1, <1>2, <1>3, <1>4 DEF WindowInv

LEMMA WindowFrame ==
    ASSUME WindowTypes, WindowInv, UNCHANGED <<window, admitted, blind>>,
           now' \in Nat, stamp' \in [Requests -> Nat]
    PROVE  WindowTypes' /\ WindowInv'
BY DEF WindowTypes, WindowInv, Active

\* What the transaction leaves in the sorted set.
LEMMA RecentTypes ==
    ASSUME WindowTypes, NEW r \in Requests,
           NEW recent, recent = {m \in window : m + Window > stamp[r]} \cup {stamp[r]}
    PROVE  IsFiniteSet(recent) /\ recent \subseteq Nat
<1>1. {m \in window : m + Window > stamp[r]} \in SUBSET window /\ stamp[r] \in Nat
  BY DEF WindowTypes
<1>2. IsFiniteSet({m \in window : m + Window > stamp[r]})
  BY <1>1, FS_Subset DEF WindowTypes
<1> QED
  BY <1>1, <1>2, FS_AddElement DEF WindowTypes

\* The limiter fails: it is blind, and the request passes, counted or not.
LEMMA WindowFails ==
    ASSUME WindowTypes, NEW r \in Requests, UNCHANGED <<now, stamp>>,
           IsFiniteSet(window') /\ window' \subseteq Nat,
           blind' = TRUE, admitted' = admitted \cup {stamp[r]}
    PROVE  WindowTypes' /\ WindowInv'
BY DEF WindowTypes, WindowInv

\* The transaction: the members of the request's window are those that were let
\* through in it, so their number bounds every window that holds the new stamp.
LEMMA WindowCounts ==
    ASSUME WindowTypes, WindowInv, NEW r \in Requests,
           NEW recent, recent = {m \in window : m + Window > stamp[r]} \cup {stamp[r]},
           UNCHANGED <<now, stamp>>, window' = recent,
           blind' = (blind \/ \E m \in window : m > stamp[r]),
           \/ Cardinality(recent) <= Limit /\ admitted' = admitted \cup {stamp[r]}
           \/ UNCHANGED admitted
    PROVE  WindowTypes' /\ WindowInv'
<1> DEFINE t0 == stamp[r]
<1>0. t0 \in Nat /\ Window \in Nat /\ Limit \in Nat
  BY TrafficAssumption DEF WindowTypes, TrafficAssumption
<1>1. IsFiniteSet(recent) /\ recent \subseteq Nat
  BY RecentTypes
<1>2. admitted' \subseteq admitted \cup {t0} /\ admitted' \subseteq Nat
  BY <1>0 DEF WindowTypes
<1>3. WindowTypes'
  BY <1>1, <1>2 DEF WindowTypes
<1> SUFFICES ASSUME ~blind' PROVE WindowInv'
  BY <1>3 DEF WindowInv
<1>4. /\ \A m \in window : m <= t0
      /\ \A a \in admitted : a \in window \/ \E m \in window : a + Window <= m
      /\ \A t \in Nat : Cardinality(Active(t)) <= Limit
  <2>1. ~blind /\ ~(\E m \in window : m > t0)
    OBVIOUS
  <2>2. \A m \in window : m <= t0
    BY <1>0, <2>1 DEF WindowTypes
  <2> QED
    BY <2>1, <2>2 DEF WindowInv
<1>5. \A a \in admitted : a \in recent \/ a + Window <= t0
  BY <1>0, <1>4 DEF WindowTypes
<1>6. \A a \in admitted' : a \in window' \/ \E m \in window' : a + Window <= m
  BY <1>2, <1>5
<1>7. ASSUME NEW t \in Nat PROVE Cardinality(Active(t)') <= Limit
  <2>1. CASE Active(t)' \subseteq Active(t)
    <3>1. Active(t)' = Active(t)
      BY <2>1 DEF Active
    <3> QED
      BY <3>1, <1>4
  <2>2. CASE ~(Active(t)' \subseteq Active(t))
    <3>1. t0 <= t /\ Cardinality(recent) <= Limit
      BY <2>2 DEF Active
    <3>2. Active(t)' \in SUBSET recent
      <4>1. Active(t)' = {a \in admitted' : a <= t /\ a + Window > t}
        BY DEF Active
      <4> SUFFICES ASSUME NEW a \in admitted', a <= t, a + Window > t PROVE a \in recent
        BY <4>1
      <4>2. CASE a = t0
        BY <4>2
      <4>3. CASE a \in admitted
        BY <1>0, <1>5, <3>1, <4>3 DEF WindowTypes
      <4> QED
        BY <1>2, <4>2, <4>3
    <3>3. Cardinality(Active(t)') <= Cardinality(recent)
      BY <1>1, <3>2, FS_Subset
    <3>4. Cardinality(recent) \in Nat /\ Cardinality(Active(t)') \in Nat
      BY <1>1, <3>2, FS_Subset, FS_CardinalityType
    <3> QED
      BY <1>0, <3>1, <3>3, <3>4
  <2> QED
    BY <2>1, <2>2
<1> QED
  BY <1>6, <1>7 DEF WindowInv

\* Every step preserves the window's invariant.
LEMMA WindowStep ==
    ASSUME WindowTypes, WindowInv, [Next]_requestVars
    PROVE  WindowTypes' /\ WindowInv'
<1>1. TrafficNext \/ UNCHANGED trafficVars
  BY StepOfTraffic DEF requestVars
<1>2. CASE UNCHANGED trafficVars
  BY <1>2, WindowFrame DEF trafficVars, limiter, WindowTypes
<1>3. ASSUME NEW r \in Requests, dispatch(r) PROVE WindowTypes' /\ WindowInv'
  <2>1. UNCHANGED <<now, window, admitted, blind>> /\ stamp' = [stamp EXCEPT ![r] = now]
    BY <1>3 DEF dispatch, limiter
  <2> QED
    BY <2>1, WindowFrame DEF WindowTypes
<1>4. ASSUME NEW r \in Requests, _check_rate_limit(r) PROVE WindowTypes' /\ WindowInv'
  <2> DEFINE recent == {m \in window : m + Window > stamp[r]} \cup {stamp[r]}
  <2>1. UNCHANGED <<now, stamp>>
    BY <1>4 DEF _check_rate_limit
  <2>2. CASE /\ window' = recent /\ blind' = (blind \/ \E m \in window : m > stamp[r])
             /\ \/ Cardinality(recent) <= Limit /\ admitted' = admitted \cup {stamp[r]}
                \/ UNCHANGED admitted
    BY <2>1, <2>2, WindowCounts
  <2>3. CASE blind' = TRUE /\ admitted' = admitted \cup {stamp[r]} /\ window' \in {window, recent}
    <3>1. IsFiniteSet(recent) /\ recent \subseteq Nat
      BY RecentTypes
    <3>2. IsFiniteSet(window') /\ window' \subseteq Nat
      BY <2>3, <3>1 DEF WindowTypes
    <3> QED
      BY <2>1, <2>3, <3>2, WindowFails
  <2> QED
    BY <1>4, <2>2, <2>3 DEF _check_rate_limit
<1>5. CASE Clock
  <2>1. now' \in Nat /\ UNCHANGED <<stamp, window, admitted, blind>>
    BY <1>5 DEF Clock, limiter, WindowTypes
  <2> QED
    BY <2>1, WindowFrame DEF WindowTypes
<1>6. CASE (\E r \in Requests : log_operation(r)) \/ _flush_batch \/ CancelFlush
  <2>1. UNCHANGED <<now, stamp, limiter>>
    BY <1>6 DEF log_operation, _flush_batch, CancelFlush
  <2> QED
    BY <2>1, WindowFrame DEF limiter, WindowTypes
<1> QED
  BY <1>1, <1>2, <1>3, <1>4, <1>5, <1>6 DEF TrafficNext

\* No window of time lets more than Limit milliseconds' requests through, unless
\* the limiter failed or a request was overtaken: whatever the limit, the window
\* and the number of requests.
THEOREM WindowIsBounded == Spec => []WindowBound
<1>1. WindowInv => WindowBound
  BY DEF WindowInv, WindowBound, Active
<1> QED
  BY <1>1, WindowInit, WindowStep, PTL DEF Spec

-----------------------------------------------------------------------------
(* The engine's clients                                                    *)

\* What EngineTypeOK needs to be inductive: whoever is on its way has a call, and
\* the sequences are of calls that were begun.
CallInv == /\ sent \in [Conns -> Seq(1 .. begun)] /\ buf \in [Conns -> Seq(1 .. begun)]
           /\ \A c \in Callers : cpc[c] # "idle" => call[c] \in 1 .. begun
           /\ \A c \in Callers : cpc[c] = "backoff" => attempt[c] < MaxRetries

\* The pool: one caller at a time connects, which finds room when it is done;
\* a caller uses a connection from its command to the end of its call.
TcpPlaces == {"idle", "get", "connect", "read", "wait", "close", "subprocess"}
PoolInv == mode = "tcp" =>
             /\ \A c \in Callers :
                   /\ cpc[c] \in TcpPlaces
                   /\ cpc[c] \in {"idle", "get", "connect"} => mine[c] = None
                   /\ cpc[c] \in {"read", "wait", "close"} => mine[c] # None
                   /\ cpc[c] = "connect" => lock = c /\ made < MaxConns /\ HasRoom
             /\ \A k \in Conns : k > made => sent[k] = <<>> /\ buf[k] = <<>>

\* Why replies are not mixed: but for the connections that are known to be, a
\* connection has one user, whose reply is all that is under way on it; a
\* connection without a user is empty, or no longer in the pool.
Clear(k) == sent[k] = <<>> /\ buf[k] = <<>>
Owed(c, k) == \/ Clear(k)
              \/ sent[k] = <<call[c]>> /\ buf[k] = <<>>
              \/ sent[k] = <<>> /\ buf[k] = <<call[c]>>
Sound(k) == /\ \A c, d \in Callers : mine[c] = k /\ mine[d] = k => c = d
            /\ \A c \in Callers : mine[c] = k =>
                  /\ k \in in_use
                  /\ cpc[c] \in {"read", "wait"} => Owed(c, k)
                  /\ cpc[c] = "subprocess" => k \notin pool
            /\ k \in pool /\ (\A c \in Callers : mine[c] # k) => Clear(k)
ReplyInv == mode = "tcp" => \A k \in Conns \ mixed : Sound(k)

EngineInv == EngineTypeOK /\ CallInv /\ PoolInv /\ ReplyInv /\ RightReply

\* The types, by what they are of.
ClientTypes == /\ mode \in {"tcp", "grpc"} /\ up \in BOOLEAN /\ downs \in 0 .. EngineFaults
               /\ client \in 0 .. clients /\ clients \in 0 .. MaxClients /\ closing \in 0 .. clients
               /\ connected \in [Clients -> BOOLEAN] /\ stub \in [Clients -> BOOLEAN]
CallerPlaces == TcpPlaces \cup {"attempt", "reconnect", "rpc", "backoff"}
CallerTypes == /\ cpc \in [Callers -> CallerPlaces]
               /\ call \in [Callers -> 0 .. MaxCalls] /\ begun \in 0 .. MaxCalls
               /\ mine \in [Callers -> 0 .. IF mode = "tcp" THEN made ELSE clients]
               /\ attempt \in [Callers -> 1 .. MaxRetries]
ConnTypes == /\ pool \subseteq 1 .. made /\ Cardinality(pool) <= PoolSize
             /\ in_use \subseteq 1 .. made /\ made \in 0 .. MaxConns /\ eof \subseteq 1 .. made
             /\ mixed \subseteq 1 .. made /\ wrong \subseteq 1 .. made
             /\ lock \in Callers \cup {Nobody}
WaiterTypes == /\ waiter \in [Conns -> Callers \cup {Nobody}]
               /\ \A k \in Conns : waiter[k] # Nobody => cpc[waiter[k]] = "wait" /\ mine[waiter[k]] = k

\* A command that is written, and a reply that is read, is one of a call.
LEMMA Joined ==
    ASSUME NEW n \in Nat, NEW s \in Seq(1 .. n), NEW t \in Seq(1 .. n)
    PROVE  \A i \in DOMAIN (s \o t) : (s \o t)[i] \in 1 .. n
<1>1. s \o t \in Seq(1 .. n)
  BY ConcatProperties
<1>2. DOMAIN (s \o t) = 1 .. Len(s \o t)
  BY <1>1, LenProperties
<1> QED
  BY <1>1, <1>2, ElementOfSeq

LEMMA EngineTypesJoin ==
    ClientTypes /\ CallerTypes /\ ConnTypes /\ WaiterTypes /\ CallInv => EngineTypeOK
<1> SUFFICES ASSUME ClientTypes, CallerTypes, ConnTypes, WaiterTypes, CallInv PROVE EngineTypeOK
  OBVIOUS
<1>1. \A k \in Conns : \A i \in DOMAIN (sent[k] \o buf[k]) : (sent[k] \o buf[k])[i] \in 1 .. begun
  <2> SUFFICES ASSUME NEW k \in Conns
               PROVE  \A i \in DOMAIN (sent[k] \o buf[k]) : (sent[k] \o buf[k])[i] \in 1 .. begun
    OBVIOUS
  <2>1. sent[k] \in Seq(1 .. begun) /\ buf[k] \in Seq(1 .. begun) /\ begun \in Nat
    BY DEF CallInv, CallerTypes
  <2> QED
    BY <2>1, Joined
<1> QED
  BY <1>1 DEF EngineTypeOK, ClientTypes, CallerTypes, CallerPlaces, TcpPlaces, ConnTypes, WaiterTypes

LEMMA EngineTypesJoinNext ==
    ClientTypes' /\ CallerTypes' /\ ConnTypes' /\ WaiterTypes' /\ CallInv' => EngineTypeOK'
BY EngineTypesJoin, PTL

LEMMA EngineTypesSplit ==
    EngineTypeOK => ClientTypes /\ CallerTypes /\ ConnTypes /\ WaiterTypes
BY DEF EngineTypeOK, ClientTypes, CallerTypes, CallerPlaces, TcpPlaces, ConnTypes, WaiterTypes

\* The connection that _get_connection takes is one of those it looked at.
LEMMA MinIsMember ==
    ASSUME NEW S \in SUBSET Nat, S # {}
    PROVE  Min(S) \in S
<1>1. PICK x \in S : \A y \in S : ~(<<y, x>> \in OpToRel(<, Nat))
  BY NatLessThanWellFounded, WFMin
<1>2. ASSUME NEW y \in S PROVE x <= y
  <2>1. <<y, x>> \in Nat \X Nat /\ <<y, x>>[1] = y /\ <<y, x>>[2] = x
    OBVIOUS
  <2>2. ~(y < x)
    <3>1. y < x => <<y, x>> \in {ss \in Nat \X Nat : ss[1] < ss[2]}
      BY <2>1
    <3> QED
      BY <1>1, <3>1 DEF OpToRel
  <2> QED
    BY <2>2
<1> QED
  BY <1>2 DEF Min

\* What a step does that writes nothing to a connection and reads nothing from it
\* but the first reply.
LEMMA SeqsKept ==
    ASSUME ClientTypes, CallerTypes, CallInv,
           \A k \in Conns : sent'[k] \in {sent[k], <<>>},
           \A k \in Conns : buf'[k] = buf[k] \/ (buf[k] # <<>> /\ buf'[k] = Tail(buf[k])),
           sent' = [k \in Conns |-> sent'[k]], buf' = [k \in Conns |-> buf'[k]],
           begun' = begun, \A c \in Callers : cpc'[c] # "idle" => cpc[c] # "idle" /\ call'[c] = call[c],
           \A c \in Callers : cpc'[c] = "backoff" => attempt'[c] < MaxRetries
    PROVE  CallInv'
<1>1. \A k \in Conns : sent[k] \in Seq(1 .. begun) /\ buf[k] \in Seq(1 .. begun)
  BY DEF CallInv
<1>2. \A k \in Conns : sent'[k] \in Seq(1 .. begun)
  BY <1>1, EmptySeq
<1>3. \A k \in Conns : buf'[k] \in Seq(1 .. begun)
  BY <1>1, HeadTailProperties
<1>4. \A c \in Callers : cpc'[c] # "idle" => call'[c] \in 1 .. begun'
  BY DEF CallInv
<1> QED
  BY <1>2, <1>3, <1>4 DEF CallInv

\* A command is written.
LEMMA SeqsSend ==
    ASSUME ClientTypes, CallerTypes, CallInv, NEW c \in Callers, NEW k \in Conns, Send(c, k),
           cpc[c] # "idle", UNCHANGED <<buf, begun, call, attempt>>
    PROVE  CallInv'
<1>1. call[c] \in 1 .. begun
  BY DEF CallInv
<1>2. \A j \in Conns : sent[j] \in Seq(1 .. begun) /\ buf[j] \in Seq(1 .. begun)
  BY DEF CallInv
<1>3. Append(sent[k], call[c]) \in Seq(1 .. begun)
  BY <1>1, <1>2
<1>4. sent' \in [Conns -> Seq(1 .. begun)]
  BY <1>2, <1>3 DEF Send, CallInv
<1>5. cpc' = [cpc EXCEPT ![c] = "read"]
  BY DEF Send, Goto
<1>6. \A d \in Callers : cpc'[d] # "idle" => cpc[d] # "idle"
  BY <1>5 DEF CallerTypes
<1>7. \A d \in Callers : cpc'[d] = "backoff" => cpc[d] = "backoff"
  BY <1>5 DEF CallerTypes
<1> QED
  BY <1>4, <1>6, <1>7 DEF CallInv

\* The end of a connection, or an answer, wakes whoever waits for it.
LEMMA WaitersWoken ==
    ASSUME CallerTypes, WaiterTypes, UNCHANGED mine, NEW K \in SUBSET Conns,
           waiter' = [k \in Conns |-> IF k \in K THEN Nobody ELSE waiter[k]],
           \A c \in Callers : \/ cpc'[c] = cpc[c]
                              \/ cpc[c] # "wait"
                              \/ \E k \in K : waiter[k] = c
    PROVE  WaiterTypes'
<1> SUFFICES ASSUME NEW k \in Conns, waiter'[k] # Nobody
             PROVE  cpc'[waiter'[k]] = "wait" /\ mine'[waiter'[k]] = k
  BY DEF WaiterTypes
<1>1. waiter'[k] = waiter[k] /\ k \notin K
  OBVIOUS
<1>2. waiter[k] \in Callers /\ cpc[waiter[k]] = "wait" /\ mine[waiter[k]] = k
  BY <1>1 DEF WaiterTypes
<1>3. \A j \in K : waiter[j] # waiter[k]
  BY <1>1, <1>2, EngineAssumption DEF WaiterTypes, EngineAssumption
<1> QED
  BY <1>1, <1>2, <1>3

\* No caller waits but where its place says so.
LEMMA WaitersKept ==
    ASSUME CallerTypes, WaiterTypes, NEW c \in Callers, cpc[c] # "wait", UNCHANGED waiter,
           \A d \in Callers \ {c} : cpc'[d] = cpc[d] /\ mine'[d] = mine[d]
    PROVE  WaiterTypes'
BY DEF WaiterTypes

LEMMA PoolIsFinite ==
    ASSUME ConnTypes
    PROVE  IsFiniteSet(pool) /\ Cardinality(pool) \in Nat
<1>1. made \in Nat
  BY EngineAssumption DEF ConnTypes, EngineAssumption
<1>2. IsFiniteSet(1 .. made)
  BY <1>1, FS_Interval
<1> QED
  BY <1>2, FS_Subset, FS_CardinalityType DEF ConnTypes

\* Every step of the engine's clients keeps the types: the beginning of a call, ...
LEMMA BeginTypes ==
    ASSUME EngineTypeOK, CallInv, NEW c \in Callers, BeginCall(c)
    PROVE  EngineTypeOK' /\ CallInv'
<1> USE DEF server, tcp, grpc
<1>0. ClientTypes /\ CallerTypes /\ ConnTypes /\ WaiterTypes
  BY EngineTypesSplit
<1>1. /\ cpc[c] = "idle" /\ begun < MaxCalls /\ begun' = begun + 1
      /\ call' = [call EXCEPT ![c] = begun + 1] /\ cpc' = [cpc EXCEPT ![c] = "get"]
      /\ UNCHANGED <<server, mine, attempt, tcp, lock, grpc>>
  BY DEF BeginCall, Goto
<1>2. ClientTypes' /\ ConnTypes'
  BY <1>0, <1>1 DEF ClientTypes, ConnTypes
<1>3. begun' \in 0 .. MaxCalls /\ begun + 1 \in 0 .. MaxCalls
  BY <1>0, <1>1, EngineAssumption DEF CallerTypes, EngineAssumption
<1>4. CallerTypes'
  BY <1>0, <1>1, <1>3 DEF CallerTypes, CallerPlaces, TcpPlaces
<1>5. WaiterTypes'
  BY <1>0, <1>1, WaitersKept DEF CallerTypes
<1>6. CallInv'
  <2>1. begun \in Nat /\ 1 .. begun \subseteq 1 .. begun + 1
    BY <1>0 DEF CallerTypes
  <2>2. \A k \in Conns : sent[k] \in Seq(1 .. begun + 1) /\ buf[k] \in Seq(1 .. begun + 1)
    BY <2>1, SeqMonotonic DEF CallInv
  <2>3. sent \in [Conns -> Seq(1 .. begun + 1)] /\ buf \in [Conns -> Seq(1 .. begun + 1)]
    BY <2>2 DEF CallInv
  <2>4. \A d \in Callers : cpc'[d] # "idle" => call'[d] \in 1 .. begun + 1
    BY <1>0, <1>1, <2>1 DEF CallInv, CallerTypes
  <2>5. \A d \in Callers : cpc'[d] = "backoff" => attempt[d] < MaxRetries
    BY <1>0, <1>1 DEF CallInv, CallerTypes
  <2> QED
    BY <1>1, <2>3, <2>4, <2>5 DEF CallInv
<1> QED
  BY <1>2, <1>4, <1>5, <1>6, EngineTypesJoinNext

\* ... the taking of a connection, ...
LEMMA GetTypes ==
    ASSUME EngineTypeOK, CallInv, NEW c \in Callers, _get_connection(c)
    PROVE  EngineTypeOK' /\ CallInv'
<1> USE DEF server, grpc
<1>0. ClientTypes /\ CallerTypes /\ ConnTypes /\ WaiterTypes
  BY EngineTypesSplit
<1>1. /\ mode = "tcp" /\ cpc[c] = "get" /\ lock = Nobody
      /\ UNCHANGED <<server, call, begun, attempt, pool, made, eof, buf, waiter, wrong, grpc>>
  BY DEF _get_connection
<1>2. ClientTypes'
  BY <1>0, <1>1 DEF ClientTypes
<1>3. ASSUME NEW k \in pool, Send(c, k), mixed' \in {mixed, mixed \cup {k}}, lock' = lock
      PROVE  EngineTypeOK' /\ CallInv'
  <2>1. k \in 1 .. made /\ k \in Conns /\ made \in Nat
    BY <1>0, EngineAssumption DEF ConnTypes, Conns, EngineAssumption
  <2>2. CallInv'
    BY <1>0, <1>1, <1>3, <2>1, SeqsSend
  <2>3. ConnTypes'
    BY <1>0, <1>1, <1>3, <2>1 DEF ConnTypes, Send
  <2>4. CallerTypes'
    BY <1>0, <1>1, <1>3, <2>1 DEF CallerTypes, CallerPlaces, TcpPlaces, Send, Goto
  <2>5. WaiterTypes'
    BY <1>0, <1>1, <1>3, WaitersKept DEF CallerTypes, Send, Goto
  <2> QED
    BY <1>2, <2>2, <2>3, <2>4, <2>5, EngineTypesJoinNext
<1>4. ASSUME NEW place \in {"connect", "subprocess"}, Goto(c, place), lock' \in {c, lock},
             UNCHANGED <<mine, in_use, sent, mixed>>
      PROVE  EngineTypeOK' /\ CallInv'
  <2>1. ConnTypes'
    BY <1>0, <1>1, <1>4 DEF ConnTypes
  <2>2. CallerTypes'
    BY <1>0, <1>1, <1>4 DEF CallerTypes, CallerPlaces, TcpPlaces, Goto
  <2>3. WaiterTypes'
    BY <1>0, <1>1, <1>4, WaitersKept DEF CallerTypes, Goto
  <2>4. CallInv'
    BY <1>0, <1>1, <1>4 DEF CallInv, CallerTypes, Goto
  <2> QED
    BY <1>2, <2>1, <2>2, <2>3, <2>4, EngineTypesJoinNext
<1> DEFINE idle == {k \in pool \ in_use : Healthy(k)}
           healthy == {k \in pool : Healthy(k)}
<1>5. idle \in SUBSET pool /\ healthy \in SUBSET pool /\ pool \subseteq Nat
  BY <1>0 DEF ConnTypes
<1>6. /\ idle # {} => Min(idle) \in pool
      /\ healthy # {} => Min(healthy) \in pool
  BY <1>5, MinIsMember
<1> HIDE DEF idle, healthy
<1> QED
  BY <1>3, <1>4, <1>6 DEF _get_connection, idle, healthy

\* ... connecting, and the end of a call in a process, ...
LEMMA ConnectTypes ==
    ASSUME EngineTypeOK, CallInv, PoolInv, NEW c \in Callers, Connect(c) \/ execute_command(c)
    PROVE  EngineTypeOK' /\ CallInv'
<1> USE DEF server, grpc
<1>0. ClientTypes /\ CallerTypes /\ ConnTypes /\ WaiterTypes
  BY EngineTypesSplit
<1>1. UNCHANGED <<server, call, begun, attempt, eof, buf, waiter, mixed, wrong, grpc>>
  BY DEF Connect, execute_command
<1>2. ClientTypes'
  BY <1>0, <1>1 DEF ClientTypes
<1>3. made \in Nat /\ MaxConns \in Nat
  BY <1>0, EngineAssumption DEF ConnTypes, EngineAssumption
<1>4. CASE Connect(c) /\ up
  <2>1. /\ mode = "tcp" /\ cpc[c] = "connect" /\ lock' = Nobody /\ made' = made + 1
        /\ pool' = pool \cup {made + 1} /\ Send(c, made + 1)
    BY <1>4 DEF Connect
  <2>2. made < MaxConns /\ HasRoom
    BY <2>1 DEF PoolInv
  <2>3. made + 1 \in Conns /\ made + 1 \in 0 .. MaxConns
    BY <1>3, <2>2 DEF Conns
  <2>4. CallInv'
    BY <1>0, <1>1, <2>1, <2>3, SeqsSend
  <2>5. Cardinality(pool') <= PoolSize
    <3>1. Cardinality(pool \cup {made + 1}) <= Cardinality(pool) + 1 /\ Cardinality(pool) \in Nat
      BY <1>0, PoolIsFinite, FS_AddElement
    <3>2. Cardinality(pool \cup {made + 1}) \in Nat /\ PoolSize \in Nat
      BY <1>0, PoolIsFinite, FS_AddElement, FS_CardinalityType, EngineAssumption DEF EngineAssumption
    <3> QED
      BY <2>1, <2>2, <3>1, <3>2 DEF HasRoom
  <2>6. ConnTypes'
    <3>1. 1 .. made \subseteq 1 .. made + 1 /\ made + 1 \in 1 .. made + 1
      BY <1>3
    <3>2. in_use' = in_use \cup {made + 1}
      BY <2>1 DEF Send
    <3> QED
      BY <1>0, <1>1, <2>1, <2>3, <2>5, <3>1, <3>2 DEF ConnTypes
  <2>7. CallerTypes'
    <3>1. mine' = [mine EXCEPT ![c] = made + 1] /\ cpc' = [cpc EXCEPT ![c] = "read"] /\ mode' = mode
      BY <1>1, <2>1 DEF Send, Goto
    <3>2. mine' \in [Callers -> 0 .. made']
      BY <1>0, <1>3, <2>1, <3>1 DEF CallerTypes
    <3> QED
      BY <1>0, <1>1, <2>1, <3>1, <3>2 DEF CallerTypes, CallerPlaces, TcpPlaces
  <2>8. WaiterTypes'
    BY <1>0, <1>1, <2>1, WaitersKept DEF CallerTypes, Send, Goto
  <2> QED
    BY <1>2, <2>4, <2>6, <2>7, <2>8, EngineTypesJoinNext
<1>5. CASE (Connect(c) /\ ~up) \/ execute_command(c)
  <2>1. /\ cpc[c] \in {"connect", "subprocess"} /\ lock' \in {lock, Nobody}
        /\ \E place \in {"subprocess", "idle"} : cpc' = [cpc EXCEPT ![c] = place]
        /\ mine' \in {mine, [mine EXCEPT ![c] = None]} /\ in_use' \subseteq in_use
        /\ UNCHANGED <<made, pool, sent>>
    BY <1>5 DEF Connect, execute_command, Goto
  <2>2. ConnTypes'
    BY <1>0, <1>1, <2>1 DEF ConnTypes
  <2>3. CallerTypes'
    <3>1. mine' \in [Callers -> 0 .. IF mode = "tcp" THEN made ELSE clients]
      BY <1>0, <1>3, <2>1 DEF CallerTypes, ClientTypes, None
    <3> QED
      BY <1>0, <1>1, <2>1, <3>1 DEF CallerTypes, CallerPlaces, TcpPlaces
  <2>4. WaiterTypes'
    BY <1>0, <1>1, <2>1, WaitersKept DEF CallerTypes
  <2>5. CallInv'
    BY <1>0, <1>1, <2>1 DEF CallInv, CallerTypes
  <2> QED
    BY <1>2, <2>2, <2>3, <2>4, <2>5, EngineTypesJoinNext
<1> QED
  BY <1>4, <1>5 DEF Connect

\* ... reading, waiting, failing and giving the connection up, ...
LEMMA UseTypes ==
    ASSUME EngineTypeOK, CallInv, PoolInv, NEW c \in Callers,
           Receive(c) \/ Wait(c) \/ Fail(c) \/ Remove(c)
    PROVE  EngineTypeOK' /\ CallInv'
<1> USE DEF server, grpc
<1>0. ClientTypes /\ CallerTypes /\ ConnTypes /\ WaiterTypes
  BY EngineTypesSplit
<1>1. mode = "tcp" /\ UNCHANGED <<server, call, begun, attempt, made, grpc>>
  BY DEF Receive, Wait, Fail, Remove
<1>2. ClientTypes'
  BY <1>0, <1>1 DEF ClientTypes
<1>3. made \in Nat /\ MaxConns \in Nat /\ PoolSize \in Nat /\ None \in 0 .. made /\ mine[c] \in 0 .. made
  BY <1>0, <1>1, EngineAssumption DEF ConnTypes, CallerTypes, EngineAssumption, None
<1>4. cpc[c] \in {"read", "wait", "close"} => mine[c] \in 1 .. made /\ mine[c] \in Conns
  BY <1>0, <1>1, <1>3 DEF PoolInv, None, Conns, ConnTypes
<1>5. /\ sent = [k \in Conns |-> sent[k]] /\ buf = [k \in Conns |-> buf[k]]
      /\ waiter = [k \in Conns |-> waiter[k]]
  BY <1>0 DEF CallInv, WaiterTypes
<1>6. CASE Receive(c)
  <2>1. /\ cpc[c] = "read" /\ buf[mine[c]] # <<>> /\ buf' = [buf EXCEPT ![mine[c]] = Tail(@)]
        /\ wrong' \in {wrong, wrong \cup {mine[c]}} /\ in_use' = in_use \ {mine[c]}
        /\ mine' = [mine EXCEPT ![c] = None] /\ cpc' = [cpc EXCEPT ![c] = "idle"]
        /\ UNCHANGED <<pool, eof, sent, waiter, mixed, lock>>
    BY <1>6 DEF Receive, Goto
  <2>2. ConnTypes'
    BY <1>0, <1>1, <1>4, <2>1 DEF ConnTypes
  <2>3. CallerTypes'
    BY <1>0, <1>1, <1>3, <2>1 DEF CallerTypes, CallerPlaces, TcpPlaces
  <2>4. WaiterTypes'
    BY <1>0, <2>1, WaitersKept DEF CallerTypes
  <2>5. buf' = [k \in Conns |-> buf'[k]] /\ \A k \in Conns : buf'[k] = IF k = mine[c] THEN Tail(buf[k])
                                                                      ELSE buf[k]
    BY <1>4, <1>5, <2>1
  <2>6. \A d \in Callers : /\ cpc'[d] # "idle" => cpc[d] # "idle"
                           /\ cpc'[d] = "backoff" => attempt'[d] < MaxRetries
    BY <1>0, <1>1, <2>1 DEF CallerTypes, CallInv
  <2>7. CallInv'
    BY <1>0, <1>1, <1>5, <2>1, <2>5, <2>6, SeqsKept
  <2> QED
    BY <1>2, <2>2, <2>3, <2>4, <2>7, EngineTypesJoinNext
<1>7. CASE Wait(c)
  <2>1. /\ cpc[c] = "read" /\ waiter[mine[c]] = Nobody /\ waiter' = [waiter EXCEPT ![mine[c]] = c]
        /\ cpc' = [cpc EXCEPT ![c] = "wait"]
        /\ UNCHANGED <<mine, pool, in_use, eof, sent, buf, mixed, wrong, lock>>
    BY <1>7 DEF Wait, Goto
  <2>2. ConnTypes'
    BY <1>0, <1>1, <2>1 DEF ConnTypes
  <2>3. CallerTypes'
    BY <1>0, <1>1, <2>1 DEF CallerTypes, CallerPlaces, TcpPlaces
  <2>4. WaiterTypes'
    <3>1. waiter' \in [Conns -> Callers \cup {Nobody}]
      BY <1>0, <2>1 DEF WaiterTypes
    <3>2. ASSUME NEW k \in Conns, waiter'[k] # Nobody
          PROVE  cpc'[waiter'[k]] = "wait" /\ mine'[waiter'[k]] = k
      <4>1. CASE k = mine[c]
        BY <1>0, <2>1, <4>1 DEF WaiterTypes, CallerTypes
      <4>2. CASE k # mine[c]
        BY <1>0, <2>1, <3>2, <4>2 DEF WaiterTypes, CallerTypes
      <4> QED
        BY <4>1, <4>2
    <3> QED
      BY <3>1, <3>2 DEF WaiterTypes
  <2>5. CallInv'
    BY <1>0, <1>1, <2>1 DEF CallInv, CallerTypes
  <2> QED
    BY <1>2, <2>2, <2>3, <2>4, <2>5, EngineTypesJoinNext
<1>8. CASE Fail(c)
  <2>1. /\ MayFail(c) /\ cpc' = [Wake(mine[c], cpc) EXCEPT ![c] = "close"]
        /\ waiter' = [waiter EXCEPT ![mine[c]] = Nobody]
        /\ eof' = eof \cup {mine[c]} /\ sent' = [sent EXCEPT ![mine[c]] = <<>>]
        /\ UNCHANGED <<mine, pool, in_use, buf, mixed, wrong, lock>>
    BY <1>8 DEF Fail
  <2>2. cpc[c] \in {"read", "wait"}
    BY <2>1 DEF MayFail
  <2>3. \A d \in Callers : cpc'[d] = IF d = c THEN "close"
                                     ELSE IF waiter[mine[c]] = d THEN "read" ELSE cpc[d]
    BY <1>0, <1>4, <2>1, <2>2, EngineAssumption DEF Wake, CallerTypes, WaiterTypes, EngineAssumption
  <2>4. cpc' = [d \in Callers |-> cpc'[d]]
    BY <1>0, <2>1 DEF Wake, CallerTypes
  <2>5. ConnTypes'
    BY <1>0, <1>1, <1>4, <2>1, <2>2 DEF ConnTypes
  <2>6. CallerTypes'
    BY <1>0, <1>1, <2>1, <2>3, <2>4 DEF CallerTypes, CallerPlaces, TcpPlaces
  <2>7. WaiterTypes'
    <3>1. waiter' = [k \in Conns |-> IF k \in {mine[c]} THEN Nobody ELSE waiter[k]]
      BY <1>0, <2>1 DEF WaiterTypes
    <3>2. cpc[c] = "wait" => \A k \in Conns : waiter[k] = c => k = mine[c]
      BY <1>0, EngineAssumption DEF WaiterTypes, EngineAssumption
    <3> SUFFICES ASSUME NEW k \in Conns, waiter'[k] # Nobody
                 PROVE  cpc'[waiter'[k]] = "wait" /\ mine'[waiter'[k]] = k
      BY <1>0, <3>1 DEF WaiterTypes
    <3>3. waiter'[k] = waiter[k] /\ k # mine[c] /\ waiter[k] \in Callers
      BY <1>0, <3>1 DEF WaiterTypes
    <3>4. cpc[waiter[k]] = "wait" /\ mine[waiter[k]] = k
      BY <1>0, <3>3 DEF WaiterTypes
    <3>5. waiter[k] # c /\ waiter[k] # waiter[mine[c]]
      BY <1>0, <1>4, <2>2, <3>3, <3>4 DEF WaiterTypes
    <3> QED
      BY <2>1, <2>3, <3>3, <3>4, <3>5
  <2>8. CallInv'
    <3>1. \A d \in Callers : /\ cpc'[d] # "idle" => cpc[d] # "idle"
                             /\ cpc'[d] = "backoff" => attempt'[d] < MaxRetries
      <4> SUFFICES ASSUME NEW d \in Callers
                   PROVE  /\ cpc'[d] # "idle" => cpc[d] # "idle"
                          /\ cpc'[d] = "backoff" => attempt'[d] < MaxRetries
        OBVIOUS
      <4>1. waiter[mine[c]] = d => cpc[d] = "wait"
        BY <1>0, <1>4, <2>2, EngineAssumption DEF WaiterTypes, EngineAssumption
      <4>2. cpc'[d] = cpc[d] \/ (cpc'[d] \in {"close", "read"} /\ cpc[d] \in {"read", "wait"})
        BY <2>2, <2>3, <4>1
      <4> QED
        BY <1>1, <4>2 DEF CallInv
    <3>2. /\ \A k \in Conns : sent'[k] \in {sent[k], <<>>}
          /\ sent' = [k \in Conns |-> sent'[k]]
      BY <1>5, <2>1
    <3> QED
      BY <1>0, <1>1, <1>5, <2>1, <3>1, <3>2, SeqsKept
  <2> QED
    BY <1>2, <2>5, <2>6, <2>7, <2>8, EngineTypesJoinNext
<1>9. CASE Remove(c)
  <2>1. /\ cpc[c] = "close" /\ pool' = pool \ {mine[c]} /\ cpc' = [cpc EXCEPT ![c] = "subprocess"]
        /\ UNCHANGED <<mine, in_use, eof, sent, buf, waiter, mixed, wrong, lock>>
    BY <1>9 DEF Remove, Goto
  <2>2. ConnTypes'
    <3>1. Cardinality(pool') <= Cardinality(pool) /\ Cardinality(pool') \in Nat /\ Cardinality(pool) \in Nat
      BY <1>0, <2>1, PoolIsFinite, FS_Subset, FS_CardinalityType
    <3>2. Cardinality(pool') <= PoolSize
      BY <1>0, <1>3, <3>1 DEF ConnTypes
    <3> QED
      BY <1>0, <1>1, <2>1, <3>2 DEF ConnTypes
  <2>3. CallerTypes'
    BY <1>0, <1>1, <2>1 DEF CallerTypes, CallerPlaces, TcpPlaces
  <2>4. WaiterTypes'
    BY <1>0, <2>1, WaitersKept DEF CallerTypes
  <2>5. CallInv'
    BY <1>0, <1>1, <2>1 DEF CallInv, CallerTypes
  <2> QED
    BY <1>2, <2>2, <2>3, <2>4, <2>5, EngineTypesJoinNext
<1> QED
  BY <1>6, <1>7, <1>8, <1>9

\* ... a call that is cancelled in either mode, ...
LEMMA CancelTypes ==
    ASSUME EngineTypeOK, CallInv, PoolInv, NEW c \in Callers, Cancel(c)
    PROVE  EngineTypeOK' /\ CallInv'
<1> USE DEF server, grpc
<1>0. ClientTypes /\ CallerTypes /\ ConnTypes /\ WaiterTypes
  BY EngineTypesSplit
<1>1. /\ cpc' = [cpc EXCEPT ![c] = "idle"] /\ mine' = [mine EXCEPT ![c] = None]
      /\ attempt' = [attempt EXCEPT ![c] = 1]
      /\ waiter' = [k \in Conns |-> IF waiter[k] = c THEN Nobody ELSE waiter[k]]
      /\ lock' \in {lock, Nobody} /\ in_use' = in_use \ {mine[c]}
      /\ UNCHANGED <<server, call, begun, pool, made, eof, sent, buf, wrong, grpc>>
  BY DEF Cancel, Ends, Goto
<1>2. ClientTypes'
  BY <1>0, <1>1 DEF ClientTypes
<1>3. /\ made \in Nat /\ None \in 0 .. made /\ 1 \in 1 .. MaxRetries
      /\ clients \in Nat /\ None \in 0 .. clients
  BY <1>0, EngineAssumption DEF ConnTypes, ClientTypes, EngineAssumption, None
<1>4. mixed' \subseteq 1 .. made
  <2>1. CASE mode = "tcp" /\ cpc[c] \in {"read", "wait", "close"}
    <3>1. mine[c] \in 1 .. made
      BY <1>0, <1>3, <2>1 DEF PoolInv, CallerTypes, None
    <3> QED
      BY <1>0, <2>1, <3>1 DEF Cancel, ConnTypes
  <2>2. CASE ~(mode = "tcp" /\ cpc[c] \in {"read", "wait", "close"})
    BY <1>0, <2>2 DEF Cancel, ConnTypes
  <2> QED
    BY <2>1, <2>2
<1>5. ConnTypes'
  BY <1>0, <1>1, <1>4 DEF ConnTypes
<1>6. CallerTypes'
  BY <1>0, <1>1, <1>3 DEF CallerTypes, CallerPlaces, TcpPlaces
<1>7. WaiterTypes'
  BY <1>0, <1>1 DEF WaiterTypes, CallerTypes
<1>8. CallInv'
  BY <1>0, <1>1 DEF CallInv, CallerTypes
<1> QED
  BY <1>2, <1>5, <1>6, <1>7, <1>8, EngineTypesJoinNext

\* ... the engine and the shutdown of the pool, ...
LEMMA EndTypes ==
    ASSUME EngineTypeOK, CallInv, shutdown_tcp_pool \/ Serve \/ Toggle
    PROVE  EngineTypeOK' /\ CallInv'
<1> USE DEF grpc
<1>0. ClientTypes /\ CallerTypes /\ ConnTypes /\ WaiterTypes
  BY EngineTypesSplit
<1>1. UNCHANGED <<mode, call, begun, mine, attempt, in_use, made, mixed, wrong, lock, grpc>>
  BY DEF shutdown_tcp_pool, Serve, Toggle, server
<1>2. ClientTypes'
  <2>1. up' = up \/ up' = ~up
    BY DEF shutdown_tcp_pool, Serve, Toggle, server
  <2>2. downs' = downs \/ (downs < EngineFaults /\ downs' = downs + 1)
    BY DEF shutdown_tcp_pool, Serve, Toggle, server
  <2>3. downs' \in 0 .. EngineFaults
    BY <1>0, <2>2, EngineAssumption DEF ClientTypes, EngineAssumption
  <2> QED
    BY <1>0, <1>1, <2>1, <2>3 DEF ClientTypes
<1>3. made \in Nat /\ 1 .. made \subseteq Conns
  BY <1>0, EngineAssumption DEF ConnTypes, Conns, EngineAssumption
<1>4. /\ sent = [k \in Conns |-> sent[k]] /\ buf = [k \in Conns |-> buf[k]]
      /\ waiter = [k \in Conns |-> waiter[k]] /\ cpc = [c \in Callers |-> cpc[c]]
  BY <1>0 DEF CallInv, WaiterTypes, CallerTypes
<1>5. ASSUME NEW K \in SUBSET (1 .. made), End(K), buf' = buf, pool' = {} \/ pool' = pool
      PROVE  EngineTypeOK' /\ CallInv'
  <2>1. /\ eof' = eof \cup K /\ sent' = [k \in Conns |-> IF k \in K THEN <<>> ELSE sent[k]]
        /\ waiter' = [k \in Conns |-> IF k \in K THEN Nobody ELSE waiter[k]]
        /\ cpc' = [c \in Callers |-> IF \E k \in K : waiter[k] = c THEN "read" ELSE cpc[c]]
    BY <1>5 DEF End
  <2>2. ConnTypes'
    <3>1. Cardinality({}) = 0 /\ PoolSize \in Nat
      BY FS_EmptySet, EngineAssumption DEF EngineAssumption
    <3>2. pool' \subseteq 1 .. made /\ Cardinality(pool') <= PoolSize
      <4>1. CASE pool' = {}
        BY <3>1, <4>1
      <4>2. CASE pool' = pool
        BY <1>0, <4>2 DEF ConnTypes
      <4> QED
        BY <1>5, <4>1, <4>2
    <3> QED
      BY <1>0, <1>1, <2>1, <3>2 DEF ConnTypes
  <2>3. CallerTypes'
    BY <1>0, <1>1, <2>1 DEF CallerTypes, CallerPlaces, TcpPlaces
  <2>4. WaiterTypes'
    BY <1>0, <1>1, <1>3, <2>1, WaitersWoken
  <2>5. \A c \in Callers : /\ cpc'[c] # "idle" => cpc[c] # "idle"
                           /\ cpc'[c] = "backoff" => attempt'[c] < MaxRetries
    <3> SUFFICES ASSUME NEW c \in Callers
                 PROVE  /\ cpc'[c] # "idle" => cpc[c] # "idle"
                        /\ cpc'[c] = "backoff" => attempt'[c] < MaxRetries
      OBVIOUS
    <3>1. (\E k \in K : waiter[k] = c) => cpc[c] = "wait"
      BY <1>0, <1>3, EngineAssumption DEF WaiterTypes, EngineAssumption
    <3>2. cpc'[c] = cpc[c] \/ (cpc'[c] = "read" /\ cpc[c] = "wait")
      BY <2>1, <3>1
    <3> QED
      BY <1>1, <3>2 DEF CallInv
  <2>6. /\ \A k \in Conns : sent'[k] \in {sent[k], <<>>}
        /\ sent' = [k \in Conns |-> sent'[k]]
    BY <2>1
  <2>7. CallInv'
    BY <1>0, <1>1, <1>4, <1>5, <2>5, <2>6, SeqsKept
  <2> QED
    BY <1>2, <2>2, <2>3, <2>4, <2>7, EngineTypesJoinNext
<1>6. CASE shutdown_tcp_pool
  BY <1>0, <1>5, <1>6 DEF shutdown_tcp_pool, ConnTypes
<1>7. CASE Toggle /\ up
  BY <1>5, <1>7 DEF Toggle
<1>8. CASE Toggle /\ ~up
  <2>1. UNCHANGED <<eof, sent, waiter, cpc, buf, pool>>
    BY <1>8 DEF Toggle
  <2>2. ConnTypes' /\ CallerTypes' /\ WaiterTypes'
    BY <1>0, <1>1, <2>1 DEF ConnTypes, CallerTypes, WaiterTypes
  <2>3. CallInv'
    BY <1>1, <2>1 DEF CallInv
  <2> QED
    BY <1>2, <2>2, <2>3, EngineTypesJoinNext
<1>9. CASE Serve
  <2>1. PICK k \in Conns : /\ sent[k] # <<>>
                           /\ sent' = [sent EXCEPT ![k] = Tail(@)]
                           /\ buf' = [buf EXCEPT ![k] = Append(@, Head(sent[k]))]
                           /\ waiter' = [waiter EXCEPT ![k] = Nobody] /\ cpc' = Wake(k, cpc)
    BY <1>9 DEF Serve
  <2>2. ConnTypes'
    BY <1>0, <1>1, <1>9 DEF ConnTypes, Serve
  <2>3. \A c \in Callers : cpc'[c] = IF waiter[k] = c THEN "read" ELSE cpc[c]
    BY <1>0, <2>1, EngineAssumption DEF Wake, CallerTypes, WaiterTypes, EngineAssumption
  <2>4. CallerTypes'
    BY <1>0, <1>1, <2>1 DEF Wake, CallerTypes, CallerPlaces, TcpPlaces
  <2>5. WaiterTypes'
    <3>1. waiter' = [j \in Conns |-> IF j \in {k} THEN Nobody ELSE waiter[j]]
      BY <1>0, <2>1 DEF WaiterTypes
    <3> QED
      BY <1>0, <1>1, <2>3, <3>1, WaitersWoken
  <2>6. CallInv'
    <3>1. \A j \in Conns : sent[j] \in Seq(1 .. begun) /\ buf[j] \in Seq(1 .. begun)
      BY DEF CallInv
    <3>2. Head(sent[k]) \in 1 .. begun /\ Tail(sent[k]) \in Seq(1 .. begun)
      BY <2>1, <3>1, HeadTailProperties
    <3>3. Append(buf[k], Head(sent[k])) \in Seq(1 .. begun)
      BY <3>1, <3>2
    <3>4. sent' \in [Conns -> Seq(1 .. begun)]
      BY <1>4, <2>1, <3>1, <3>2 DEF CallInv
    <3>5. buf' \in [Conns -> Seq(1 .. begun)]
      BY <1>4, <2>1, <3>1, <3>3 DEF CallInv
    <3>6. \A c \in Callers : waiter[k] = c => cpc[c] = "wait"
      BY <1>0, EngineAssumption DEF WaiterTypes, EngineAssumption
    <3>7. \A c \in Callers : cpc'[c] # "idle" => cpc[c] # "idle"
      BY <2>3, <3>6
    <3>8. \A c \in Callers : cpc'[c] = "backoff" => cpc[c] = "backoff"
      BY <2>3
    <3> QED
      BY <1>1, <3>4, <3>5, <3>7, <3>8 DEF CallInv
  <2> QED
    BY <1>2, <2>2, <2>4, <2>5, <2>6, EngineTypesJoinNext
<1> QED
  BY <1>6, <1>7, <1>8, <1>9

\* ... and the gRPC client.
LEMMA GrpcTypes ==
    ASSUME EngineTypeOK, CallInv,
           \/ \E c \in Callers : get_grpc_client(c) \/ connect(c) \/ _call_with_retry(c)
           \/ close_grpc_client
    PROVE  EngineTypeOK' /\ CallInv'
<1> USE DEF server, tcp, caller, grpc
<1>0. ClientTypes /\ CallerTypes /\ ConnTypes /\ WaiterTypes
  BY EngineTypesSplit
<1>1. mode = "grpc" /\ UNCHANGED <<server, call, begun, tcp>>
  BY DEF get_grpc_client, connect, _call_with_retry, close_grpc_client
<1>2. clients \in Nat /\ MaxClients \in Nat /\ MaxRetries \in Nat \ {0}
  BY <1>0, EngineAssumption DEF ClientTypes, EngineAssumption
<1>3. ASSUME NEW c \in Callers, cpc[c] # "wait", cpc[c] # "idle",
             cpc' = [cpc EXCEPT ![c] = cpc'[c]], cpc'[c] \in CallerPlaces,
             cpc'[c] = "backoff" => attempt'[c] < MaxRetries,
             mine' = [mine EXCEPT ![c] = mine'[c]], mine'[c] \in 0 .. clients', clients' \in {clients, clients + 1},
             attempt' = [attempt EXCEPT ![c] = attempt'[c]], attempt'[c] \in 1 .. MaxRetries,
             lock' \in {lock, c, Nobody}, ClientTypes'
      PROVE  EngineTypeOK' /\ CallInv'
  <2>1. ConnTypes'
    BY <1>0, <1>1, <1>3 DEF ConnTypes
  <2>2. CallerTypes'
    <3>1. mine' \in [Callers -> 0 .. clients']
      BY <1>0, <1>1, <1>2, <1>3 DEF CallerTypes
    <3> QED
      BY <1>0, <1>1, <1>3, <3>1 DEF CallerTypes
  <2>3. WaiterTypes'
    BY <1>0, <1>1, <1>3, WaitersKept DEF CallerTypes
  <2>4. CallInv'
    BY <1>0, <1>1, <1>3 DEF CallInv, CallerTypes
  <2> QED
    BY <1>3, <2>1, <2>2, <2>3, <2>4, EngineTypesJoinNext
<1>4. CASE close_grpc_client
  <2>1. UNCHANGED <<cpc, mine, attempt, lock, clients>>
    BY <1>4 DEF close_grpc_client
  <2>2. ClientTypes'
    <3>1. connected' \in [Clients -> BOOLEAN] /\ stub' \in [Clients -> BOOLEAN]
      BY <1>0, <1>4 DEF close_grpc_client, ClientTypes
    <3>2. client' \in {client, None} /\ closing' \in {client, closing, None}
      BY <1>4 DEF close_grpc_client
    <3>3. client' \in 0 .. clients /\ closing' \in 0 .. clients
      BY <1>0, <1>2, <3>2 DEF ClientTypes, None
    <3> QED
      BY <1>0, <1>1, <2>1, <3>1, <3>3 DEF ClientTypes
  <2>3. CallerTypes' /\ ConnTypes' /\ WaiterTypes' /\ CallInv'
    BY <1>0, <1>1, <2>1 DEF CallerTypes, ConnTypes, WaiterTypes, CallInv
  <2> QED
    BY <2>2, <2>3, EngineTypesJoinNext
<1>5. ASSUME NEW c \in Callers, get_grpc_client(c) PROVE EngineTypeOK' /\ CallInv'
  <2> DEFINE place == cpc'[c]
  <2>1. /\ cpc[c] \in {"get", "connect"} /\ UNCHANGED <<attempt, closing>>
        /\ lock' \in {lock, c, Nobody} /\ clients' \in {clients, clients + 1}
        /\ \E p \in {"attempt", "connect", "subprocess"} : cpc' = [cpc EXCEPT ![c] = p]
        /\ \E l \in {client, clients + 1, None, mine[c]} : mine' = [mine EXCEPT ![c] = l]
    <3>1. mine = [mine EXCEPT ![c] = mine[c]]
      BY <1>0 DEF CallerTypes
    <3> QED
      BY <1>5, <3>1 DEF get_grpc_client, Goto
  <2>2. ClientTypes' /\ mine'[c] \in 0 .. clients'
    <3>1. connected' \in [Clients -> BOOLEAN] /\ stub' \in [Clients -> BOOLEAN]
      BY <1>0, <1>5 DEF get_grpc_client, ClientTypes
    <3>2. clients' \in 0 .. MaxClients /\ clients <= clients'
      BY <1>0, <1>2, <1>5 DEF get_grpc_client, ClientTypes
    <3>3. client' \in {client, mine[c]} /\ client \in 0 .. clients /\ mine[c] \in 0 .. clients
      BY <1>0, <1>1, <1>5 DEF get_grpc_client, ClientTypes, CallerTypes
    <3>4. mine'[c] \in {client, mine[c], None} \/ (mine'[c] = clients + 1 /\ clients' = clients + 1)
      BY <1>0, <1>5 DEF get_grpc_client, CallerTypes
    <3>5. client' \in 0 .. clients' /\ mine'[c] \in 0 .. clients' /\ closing' \in 0 .. clients'
      BY <1>0, <1>2, <2>1, <3>2, <3>3, <3>4 DEF ClientTypes, None
    <3> QED
      BY <1>0, <1>1, <3>1, <3>2, <3>5 DEF ClientTypes
  <2>3. /\ cpc' = [cpc EXCEPT ![c] = cpc'[c]] /\ cpc'[c] \in {"attempt", "connect", "subprocess"}
        /\ mine' = [mine EXCEPT ![c] = mine'[c]]
        /\ attempt' = [attempt EXCEPT ![c] = attempt'[c]] /\ attempt'[c] \in 1 .. MaxRetries
    BY <1>0, <2>1 DEF CallerTypes
  <2> QED
    BY <1>3, <2>1, <2>2, <2>3 DEF CallerPlaces, TcpPlaces
<1>6. ASSUME NEW c \in Callers, connect(c) PROVE EngineTypeOK' /\ CallInv'
  <2>1. /\ cpc[c] \in {"attempt", "reconnect"} /\ UNCHANGED <<lock, client, clients, closing>>
        /\ \E p \in {"reconnect", "rpc", "idle"} : cpc' = [cpc EXCEPT ![c] = p]
        /\ \E l \in {None, mine[c]} : mine' = [mine EXCEPT ![c] = l]
        /\ \E n \in {1, attempt[c]} : attempt' = [attempt EXCEPT ![c] = n]
    <3>1. mine = [mine EXCEPT ![c] = mine[c]] /\ attempt = [attempt EXCEPT ![c] = attempt[c]]
      BY <1>0 DEF CallerTypes
    <3> QED
      BY <1>6, <3>1 DEF connect, Goto, Ends
  <2>2. ClientTypes'
    BY <1>0, <1>1, <1>6 DEF connect, ClientTypes
  <2>3. /\ cpc' = [cpc EXCEPT ![c] = cpc'[c]] /\ cpc'[c] \in {"reconnect", "rpc", "idle"}
        /\ mine' = [mine EXCEPT ![c] = mine'[c]] /\ mine'[c] \in 0 .. clients'
        /\ attempt' = [attempt EXCEPT ![c] = attempt'[c]] /\ attempt'[c] \in 1 .. MaxRetries
    BY <1>0, <1>1, <1>2, <2>1 DEF CallerTypes, None
  <2> QED
    BY <1>3, <2>1, <2>2, <2>3 DEF CallerPlaces, TcpPlaces
<1>7. ASSUME NEW c \in Callers, _call_with_retry(c) PROVE EngineTypeOK' /\ CallInv'
  <2>1. /\ cpc[c] \in {"attempt", "rpc", "backoff"} /\ UNCHANGED <<lock, client, stub, clients, closing>>
        /\ \E p \in {"rpc", "idle", "attempt", "backoff"} :
              cpc' = [cpc EXCEPT ![c] = p] /\ (p = "backoff" => attempt' = attempt /\ attempt[c] < MaxRetries)
        /\ \E l \in {None, mine[c]} : mine' = [mine EXCEPT ![c] = l]
        /\ \E n \in {1, attempt[c]} \cup (IF cpc[c] = "backoff" THEN {attempt[c] + 1} ELSE {}) :
              attempt' = [attempt EXCEPT ![c] = n]
    <3>1. mine = [mine EXCEPT ![c] = mine[c]] /\ attempt = [attempt EXCEPT ![c] = attempt[c]]
      BY <1>0 DEF CallerTypes
    <3> QED
      BY <1>7, <3>1 DEF _call_with_retry, Goto, Ends, Again
  <2>2. ClientTypes'
    BY <1>0, <1>1, <1>7 DEF _call_with_retry, ClientTypes
  <2>3. /\ cpc' = [cpc EXCEPT ![c] = cpc'[c]] /\ cpc'[c] \in {"rpc", "idle", "attempt", "backoff"}
        /\ cpc'[c] = "backoff" => attempt' = attempt /\ attempt[c] < MaxRetries
        /\ mine' = [mine EXCEPT ![c] = mine'[c]] /\ mine'[c] \in 0 .. clients'
        /\ attempt' = [attempt EXCEPT ![c] = attempt'[c]]
    BY <1>0, <1>1, <1>2, <2>1 DEF CallerTypes, None
  <2>4. attempt'[c] \in 1 .. MaxRetries
    <3>1. attempt[c] \in 1 .. MaxRetries /\ (cpc[c] = "backoff" => attempt[c] < MaxRetries)
      BY <1>0 DEF CallerTypes, CallInv
    <3>2. attempt'[c] \in {1, attempt[c]} \/ (cpc[c] = "backoff" /\ attempt'[c] = attempt[c] + 1)
      BY <1>0, <2>1 DEF CallerTypes
    <3> QED
      BY <1>2, <3>1, <3>2
  <2> QED
    BY <1>3, <2>1, <2>2, <2>3, <2>4 DEF CallerPlaces, TcpPlaces
<1> QED
  BY <1>4, <1>5, <1>6, <1>7

\* A connection on which nothing happens but that it ends, that a caller waits for
\* it or gives it up, or that it leaves the pool, remains sound.
LEMMA SoundKept ==
    ASSUME NEW k, Sound(k), buf'[k] = buf[k], sent'[k] \in {sent[k], <<>>},
           \A c \in Callers : mine'[c] = k => mine[c] = k,
           \A c \in Callers : mine[c] = k => mine'[c] = k,
           \A c \in Callers : mine[c] = k =>
              /\ call'[c] = call[c]
              /\ \/ cpc'[c] = cpc[c]
                 \/ cpc[c] \in {"read", "wait"} /\ cpc'[c] \in {"read", "wait", "close"}
                 \/ cpc'[c] = "subprocess" /\ k \notin pool',
           (\E c \in Callers : mine[c] = k) /\ k \in in_use => k \in in_use',
           k \in pool' => k \in pool
    PROVE  Sound(k)'
<1>1. \A c, d \in Callers : mine'[c] = k /\ mine'[d] = k => c = d
  BY DEF Sound
<1>2. \A c \in Callers : Owed(c, k) /\ call'[c] = call[c] => Owed(c, k)'
  BY DEF Owed, Clear
<1>3. ASSUME NEW c \in Callers, mine'[c] = k
      PROVE  /\ k \in in_use'
             /\ cpc'[c] \in {"read", "wait"} => Owed(c, k)'
             /\ cpc'[c] = "subprocess" => k \notin pool'
  <2>1. mine[c] = k /\ call'[c] = call[c]
    BY <1>3
  <2> QED
    BY <1>2, <2>1 DEF Sound
<1>4. k \in pool' /\ (\A c \in Callers : mine'[c] # k) => Clear(k)'
  BY DEF Sound, Clear
<1> QED
  BY <1>1, <1>3, <1>4 DEF Sound

\* Its user lets it go: the reply has been read, or it is out of the pool.
LEMMA SoundReleased ==
    ASSUME NEW k, Sound(k), NEW c \in Callers, mine[c] = k, k # None,
           CallerTypes, mine' = [mine EXCEPT ![c] = None], k \notin pool' \/ Clear(k)'
    PROVE  Sound(k)'
<1>1. \A d \in Callers : mine'[d] # k
  BY DEF Sound, CallerTypes
<1> QED
  BY <1>1 DEF Sound

\* Its new user writes a command.
LEMMA SoundSent ==
    ASSUME NEW k \in Conns, NEW c \in Callers, Send(c, k), CallerTypes, CallInv,
           Clear(k), UNCHANGED <<buf, call>>, \A d \in Callers : mine[d] # k
    PROVE  Sound(k)'
<1>1. \A d \in Callers : mine'[d] = k <=> d = c
  BY DEF Send, CallerTypes
<1>2. k \in in_use' /\ cpc'[c] = "read"
  BY DEF Send, Goto, CallerTypes
<1>3. sent'[k] = <<>> \/ sent'[k] = Append(<<>>, call[c])
  BY DEF Send, Clear, CallInv
<1>4. Owed(c, k)'
  BY <1>3 DEF Owed, Clear
<1> QED
  BY <1>1, <1>2, <1>4 DEF Sound

\* A reply arrives: its user waits for it, or the connection is not in the pool.
LEMMA SoundServed ==
    ASSUME NEW k \in Conns, Sound(k), UNCHANGED <<mine, call, pool, in_use>>, sent[k] # <<>>,
           sent'[k] = Tail(sent[k]), buf'[k] = Append(buf[k], Head(sent[k])),
           \A c \in Callers : cpc'[c] = cpc[c] \/ (cpc[c] = "wait" /\ cpc'[c] = "read")
    PROVE  Sound(k)'
<1>1. ASSUME NEW c \in Callers, Owed(c, k) PROVE Owed(c, k)'
  <2>1. sent[k] = <<call[c]>> /\ buf[k] = <<>>
    BY <1>1 DEF Owed, Clear
  <2>2. sent'[k] = <<>> /\ buf'[k] = <<call[c]>>
    BY <2>1
  <2> QED
    BY <2>2 DEF Owed
<1>2. ~(k \in pool /\ \A c \in Callers : mine[c] # k)
  BY DEF Sound, Clear
<1> QED
  BY <1>1, <1>2 DEF Sound

\* No step leaves the mode or makes a mixed connection a clean one, and a reply
\* is only read in Receive.
LEMMA ModeAndMixed ==
    ASSUME EngineNext
    PROVE  /\ mode' = mode /\ mixed \subseteq mixed'
           /\ (\A c \in Callers : ~Receive(c)) => wrong' = wrong
<1> USE DEF server, caller, tcp, grpc, Goto
<1> DEFINE Frame(P) == mode' = mode /\ mixed \subseteq mixed' /\ (P \/ wrong' = wrong)
<1>1. ASSUME NEW c \in Callers, BeginCall(c) \/ execute_command(c) PROVE Frame(FALSE)
  BY <1>1 DEF BeginCall, execute_command
<1>2. ASSUME NEW c \in Callers, _get_connection(c) \/ Connect(c) PROVE Frame(FALSE)
  BY <1>2 DEF _get_connection, Connect
<1>3. ASSUME NEW c \in Callers, Receive(c) PROVE Frame(TRUE)
  BY <1>3 DEF Receive
<1>4. ASSUME NEW c \in Callers, Wait(c) \/ Fail(c) \/ Remove(c) PROVE Frame(FALSE)
  BY <1>4 DEF Wait, Fail, Remove
<1>5. ASSUME NEW c \in Callers, get_grpc_client(c) \/ connect(c) PROVE Frame(FALSE)
  BY <1>5 DEF get_grpc_client, connect
<1>6. ASSUME NEW c \in Callers, _call_with_retry(c) PROVE Frame(FALSE)
  BY <1>6 DEF _call_with_retry
<1>7. ASSUME NEW c \in Callers, Cancel(c) PROVE Frame(FALSE)
  BY <1>7 DEF Cancel, Ends
<1>8. CASE shutdown_tcp_pool \/ close_grpc_client
  BY <1>8 DEF shutdown_tcp_pool, close_grpc_client
<1>9. CASE Serve \/ Toggle
  BY <1>9 DEF Serve, Toggle
<1> QED
  BY <1>1, <1>2, <1>3, <1>4, <1>5, <1>6, <1>7, <1>8, <1>9
  DEF EngineNext, CallStep, execute_command_tcp

\* The steps that pass a caller from place to place in the mode of the pool.
LEMMA PoolStep ==
    ASSUME EngineTypeOK, CallInv, PoolInv, EngineNext
    PROVE  PoolInv'
<1> USE DEF server, caller, tcp, grpc, Goto
<1>0. /\ ClientTypes /\ CallerTypes /\ ConnTypes /\ WaiterTypes /\ mode' = mode
      /\ made \in Nat /\ MaxConns \in Nat /\ 1 .. made \subseteq Conns
  <2>1. mode' = mode
    BY ModeAndMixed
  <2> QED
    BY <2>1, EngineTypesSplit, EngineAssumption DEF ConnTypes, Conns, EngineAssumption
<1> SUFFICES ASSUME mode = "tcp" PROVE PoolInv'
  BY <1>0 DEF PoolInv
<1>1. \A c \in Callers : /\ cpc[c] \in TcpPlaces
                         /\ cpc[c] \in {"idle", "get", "connect"} => mine[c] = None
                         /\ cpc[c] \in {"read", "wait", "close"} => mine[c] # None
                         /\ cpc[c] = "connect" => lock = c /\ made < MaxConns /\ HasRoom
  BY DEF PoolInv
<1>2. \A k \in Conns : k > made => sent[k] = <<>> /\ buf[k] = <<>>
  BY DEF PoolInv
<1>3. \A k \in Conns : sent[k] \in Seq(1 .. begun) /\ buf[k] \in Seq(1 .. begun)
  BY DEF CallInv
\* A caller moves, and does not connect; whoever else does keeps the lock.
<1>4. ASSUME NEW c \in Callers, NEW place \in TcpPlaces \ {"connect"},
             \A d \in Callers \ {c} : cpc'[d] = cpc[d] /\ mine'[d] = mine[d], cpc'[c] = place,
             place \in {"idle", "get"} => mine'[c] = None,
             place \in {"read", "wait", "close"} => mine'[c] # None,
             lock' = lock \/ lock = c \/ lock = Nobody, made' = made \/ lock = c, made \in 0 .. made',
             pool' \subseteq pool \/ lock = c,
             \A k \in Conns : k > made' => sent'[k] = <<>> /\ buf'[k] = <<>>
      PROVE  PoolInv'
  <2>1. ASSUME NEW d \in Callers, cpc'[d] = "connect" PROVE lock' = d /\ made' < MaxConns /\ HasRoom'
    <3>1. d # c /\ cpc[d] = "connect"
      BY <1>4, <2>1
    <3>2. lock = d /\ lock # c /\ lock # Nobody /\ made < MaxConns /\ HasRoom
      BY <1>1, <3>1, EngineAssumption DEF EngineAssumption
    <3>3. lock' = d /\ made' = made /\ pool' \subseteq pool
      BY <1>4, <3>2
    <3>4. Cardinality(pool') \in Nat /\ Cardinality(pool') <= Cardinality(pool)
      BY <1>0, <3>3, PoolIsFinite, FS_Subset, FS_CardinalityType
    <3>5. Cardinality(pool) \in Nat /\ PoolSize \in Nat
      BY <1>0, PoolIsFinite, EngineAssumption DEF EngineAssumption
    <3> QED
      BY <3>2, <3>3, <3>4, <3>5 DEF HasRoom
  <2>2. ASSUME NEW d \in Callers
        PROVE  /\ cpc'[d] \in TcpPlaces
               /\ cpc'[d] \in {"idle", "get", "connect"} => mine'[d] = None
               /\ cpc'[d] \in {"read", "wait", "close"} => mine'[d] # None
    BY <1>1, <1>4 DEF TcpPlaces
  <2> QED
    BY <1>4, <2>1, <2>2 DEF PoolInv
\* The waiters of some connections are woken, and nobody else moves.
<1>5. ASSUME \A c \in Callers : cpc'[c] = cpc[c] \/ (cpc[c] = "wait" /\ cpc'[c] = "read"),
             UNCHANGED <<mine, lock, made>>, pool' \subseteq pool, pool = pool' \/ lock = Nobody,
             \A k \in Conns : k > made => sent'[k] = <<>> /\ buf'[k] = <<>>
      PROVE  PoolInv'
  <2>1. ASSUME NEW d \in Callers, cpc'[d] = "connect" PROVE lock' = d /\ made' < MaxConns /\ HasRoom'
    <3>1. lock = d /\ made < MaxConns /\ HasRoom /\ lock # Nobody
      BY <1>1, <1>5, <2>1, EngineAssumption DEF EngineAssumption
    <3> QED
      BY <1>5, <3>1 DEF HasRoom
  <2>2. ASSUME NEW d \in Callers
        PROVE  /\ cpc'[d] \in TcpPlaces
               /\ cpc'[d] \in {"idle", "get", "connect"} => mine'[d] = None
               /\ cpc'[d] \in {"read", "wait", "close"} => mine'[d] # None
    BY <1>1, <1>5 DEF TcpPlaces
  <2> QED
    BY <1>5, <2>1, <2>2 DEF PoolInv
<1>6. ASSUME NEW c \in Callers, NEW k \in Conns, Send(c, k), made' \in Nat, k <= made'
      PROVE  /\ \A d \in Callers \ {c} : cpc'[d] = cpc[d] /\ mine'[d] = mine[d]
             /\ cpc'[c] = "read" /\ mine'[c] # None
             /\ \A j \in Conns : j > made' => sent'[j] = sent[j]
  <2>1. k # None /\ k \in Nat /\ \A j \in Conns : j \in Nat
    BY <1>0 DEF Conns, None
  <2>2. /\ mine' = [mine EXCEPT ![c] = k] /\ cpc' = [cpc EXCEPT ![c] = "read"]
        /\ \A j \in Conns \ {k} : sent'[j] = sent[j]
    BY <1>6 DEF Send, CallInv
  <2>3. /\ \A d \in Callers \ {c} : cpc'[d] = cpc[d] /\ mine'[d] = mine[d]
        /\ cpc'[c] = "read" /\ mine'[c] # None
    BY <1>0, <2>1, <2>2 DEF CallerTypes
  <2>4. ASSUME NEW j \in Conns, j > made' PROVE j # k
    BY <1>6, <2>1, <2>4
  <2> QED
    BY <2>2, <2>3, <2>4
<1>7. \A c \in Callers : cpc[c] \in {"read", "wait", "close"} => mine[c] \in Conns /\ mine[c] <= made
  BY <1>0, <1>1 DEF CallerTypes, None
<1>8. ASSUME NEW c \in Callers, BeginCall(c) \/ execute_command(c) PROVE PoolInv'
  <2>1. \E place \in {"get", "idle"} : cpc' = [cpc EXCEPT ![c] = place]
    BY <1>8 DEF BeginCall, execute_command
  <2>2. /\ UNCHANGED <<lock, made, pool, sent, buf>> /\ \A d \in Callers \ {c} : mine'[d] = mine[d]
        /\ mine'[c] = None
    BY <1>0, <1>1, <1>8 DEF BeginCall, execute_command, CallerTypes
  <2> QED
    BY <1>0, <1>2, <1>4, <2>1, <2>2 DEF CallerTypes, TcpPlaces
<1>9. ASSUME NEW c \in Callers, _get_connection(c) PROVE PoolInv'
  <2>1. cpc[c] = "get" /\ lock = Nobody /\ UNCHANGED <<pool, made, buf>> /\ mine[c] = None
    BY <1>1, <1>9 DEF _get_connection
  <2>2. ASSUME NEW k \in pool, Send(c, k), lock' = lock PROVE PoolInv'
    <3>1. k \in Conns /\ k <= made
      BY <1>0, <2>2 DEF ConnTypes
    <3>2. /\ \A d \in Callers \ {c} : cpc'[d] = cpc[d] /\ mine'[d] = mine[d]
          /\ cpc'[c] = "read" /\ mine'[c] # None
          /\ \A j \in Conns : j > made' => sent'[j] = sent[j]
      BY <1>0, <1>6, <2>1, <2>2, <3>1
    <3>3. \A j \in Conns : j > made' => sent'[j] = <<>> /\ buf'[j] = <<>>
      BY <1>2, <2>1, <3>2
    <3>4. made \in 0 .. made' /\ "read" \in TcpPlaces \ {"connect"}
      BY <1>0, <2>1 DEF TcpPlaces
    <3> QED
      BY <1>4, <2>1, <2>2, <3>2, <3>3, <3>4
  <2>3. CASE cpc' = [cpc EXCEPT ![c] = "subprocess"] /\ UNCHANGED <<mine, sent, lock>>
    <3>1. /\ \A d \in Callers \ {c} : cpc'[d] = cpc[d] /\ mine'[d] = mine[d]
          /\ cpc'[c] = "subprocess" /\ "subprocess" \in TcpPlaces \ {"connect"}
          /\ made \in 0 .. made'
      BY <1>0, <2>1, <2>3 DEF CallerTypes, TcpPlaces
    <3>2. \A j \in Conns : j > made' => sent'[j] = <<>> /\ buf'[j] = <<>>
      BY <1>2, <2>1, <2>3
    <3> QED
      BY <1>4, <2>1, <2>3, <3>1, <3>2
  <2>4. CASE /\ HasRoom /\ made < MaxConns /\ lock' = c /\ cpc' = [cpc EXCEPT ![c] = "connect"]
             /\ UNCHANGED <<mine, sent>>
    <3>1. \A d \in Callers : cpc[d] # "connect"
      BY <1>1, <2>1, EngineAssumption DEF EngineAssumption
    <3>2. \A d \in Callers : cpc'[d] = IF d = c THEN "connect" ELSE cpc[d]
      BY <1>0, <2>4 DEF CallerTypes
    <3>3. HasRoom'
      BY <2>1, <2>4 DEF HasRoom
    <3>4. \A d \in Callers : cpc'[d] \in TcpPlaces
      BY <1>1, <3>2 DEF TcpPlaces
    <3> QED
      BY <1>1, <1>2, <2>1, <2>4, <3>1, <3>2, <3>3, <3>4 DEF PoolInv
  <2> DEFINE idle == {k \in pool \ in_use : Healthy(k)}
             healthy == {k \in pool : Healthy(k)}
  <2>5. idle \in SUBSET pool /\ healthy \in SUBSET pool /\ pool \subseteq Nat
    BY <1>0 DEF ConnTypes
  <2>6. /\ idle # {} => Min(idle) \in pool
        /\ healthy # {} => Min(healthy) \in pool
    BY <2>5, MinIsMember
  <2> HIDE DEF idle, healthy
  <2> QED
    BY <1>9, <2>2, <2>3, <2>4, <2>6 DEF _get_connection, idle, healthy
<1>10. ASSUME NEW c \in Callers, Connect(c) PROVE PoolInv'
  <2>1. cpc[c] = "connect" /\ lock = c /\ lock' = Nobody /\ buf' = buf /\ mine[c] = None
    BY <1>1, <1>10 DEF Connect
  <2>2. CASE up
    <3>1. made' = made + 1 /\ Send(c, made + 1) /\ made + 1 \in Conns
      BY <1>0, <1>1, <1>10, <2>1, <2>2 DEF Connect, Conns
    <3>2. \A k \in Conns : k > made' => sent'[k] = <<>> /\ buf'[k] = <<>>
      BY <1>0, <1>2, <1>6, <2>1, <3>1 DEF Conns
    <3>3. made \in 0 .. made'
      BY <1>0, <3>1
    <3>4. /\ \A d \in Callers \ {c} : cpc'[d] = cpc[d] /\ mine'[d] = mine[d]
          /\ cpc'[c] = "read" /\ mine'[c] # None
      BY <1>0, <1>6, <3>1
    <3> QED
      BY <1>4, <2>1, <3>2, <3>3, <3>4 DEF TcpPlaces
  <2>3. CASE ~up
    <3>1. /\ cpc' = [cpc EXCEPT ![c] = "subprocess"] /\ UNCHANGED <<made, pool, mine, sent>>
      BY <1>10, <2>3 DEF Connect
    <3> QED
      BY <1>0, <1>2, <1>4, <2>1, <3>1 DEF CallerTypes, TcpPlaces
  <2> QED
    BY <2>2, <2>3
<1>11. ASSUME NEW c \in Callers, Receive(c) \/ Wait(c) \/ Remove(c) PROVE PoolInv'
  <2>1. /\ cpc[c] \in {"read", "close"} /\ UNCHANGED <<made, sent, lock>> /\ pool' \subseteq pool
        /\ \E place \in {"idle", "wait", "subprocess"} : cpc' = [cpc EXCEPT ![c] = place]
    BY <1>11 DEF Receive, Wait, Remove
  <2>2. /\ \A d \in Callers \ {c} : mine'[d] = mine[d]
        /\ cpc'[c] = "idle" => mine'[c] = None
        /\ cpc'[c] = "wait" => mine'[c] # None
    BY <1>0, <1>1, <1>11 DEF Receive, Wait, Remove, CallerTypes
  <2>3. \A k \in Conns : k > made' => sent'[k] = <<>> /\ buf'[k] = <<>>
    <3>1. buf' = buf \/ (cpc[c] = "read" /\ buf' = [buf EXCEPT ![mine[c]] = Tail(@)])
      BY <1>11 DEF Receive, Wait, Remove
    <3>2. \A k \in Conns : k > made => buf'[k] = buf[k]
      BY <1>0, <1>7, <3>1 DEF CallInv, Conns
    <3> QED
      BY <1>2, <2>1, <3>2
  <2>4. PICK place \in {"idle", "wait", "subprocess"} : cpc' = [cpc EXCEPT ![c] = place]
    BY <2>1
  <2>5. /\ cpc'[c] = place /\ place \in TcpPlaces \ {"connect"} /\ made \in 0 .. made'
        /\ \A d \in Callers \ {c} : cpc'[d] = cpc[d]
    BY <1>0, <2>1, <2>4 DEF CallerTypes, TcpPlaces
  <2>6. /\ place \in {"idle", "get"} => mine'[c] = None
        /\ place \in {"read", "wait", "close"} => mine'[c] # None
    BY <2>2, <2>4, <2>5
  <2>7. lock' = lock /\ made' = made /\ pool' \subseteq pool
    BY <2>1
  <2>8. \A d \in Callers \ {c} : cpc'[d] = cpc[d] /\ mine'[d] = mine[d]
    BY <2>2, <2>5
  <2>9. /\ lock' = lock \/ lock = c \/ lock = Nobody
        /\ made' = made \/ lock = c
        /\ pool' \subseteq pool \/ lock = c
    BY <2>7
  <2> QED
    BY <1>4, <2>3, <2>5, <2>6, <2>8, <2>9
<1>12. ASSUME NEW c \in Callers, Cancel(c) PROVE PoolInv'
  <2>1. /\ cpc' = [cpc EXCEPT ![c] = "idle"] /\ mine' = [mine EXCEPT ![c] = None]
        /\ lock' = (IF lock = c THEN Nobody ELSE lock) /\ UNCHANGED <<pool, made, sent, buf>>
    BY <1>12 DEF Cancel, Ends
  <2>2. /\ \A d \in Callers \ {c} : cpc'[d] = cpc[d] /\ mine'[d] = mine[d]
        /\ cpc'[c] = "idle" /\ mine'[c] = None
    BY <1>0, <2>1 DEF CallerTypes
  <2>3. /\ lock' = lock \/ lock = c
        /\ made' = made /\ made \in 0 .. made' /\ pool' \subseteq pool
        /\ \A k \in Conns : k > made' => sent'[k] = <<>> /\ buf'[k] = <<>>
    BY <1>0, <1>2, <2>1
  <2> QED
    BY <1>4, <2>2, <2>3 DEF TcpPlaces
<1>13. ASSUME NEW c \in Callers, Fail(c) PROVE PoolInv'
  <2>1. /\ cpc[c] \in {"read", "wait"} /\ cpc' = [Wake(mine[c], cpc) EXCEPT ![c] = "close"]
        /\ sent' = [sent EXCEPT ![mine[c]] = <<>>]
        /\ UNCHANGED <<mine, pool, buf, lock, made>>
    BY <1>13 DEF Fail, MayFail
  <2>2. \A d \in Callers : waiter[mine[c]] = d => cpc[d] = "wait"
    BY <1>0, <1>7, <2>1, EngineAssumption DEF WaiterTypes, EngineAssumption
  <2>3. \A d \in Callers : \/ cpc'[d] = cpc[d]
                           \/ cpc[d] \in {"read", "wait"} /\ cpc'[d] \in {"read", "close"}
    BY <1>0, <2>1, <2>2 DEF Wake, CallerTypes
  <2>4. \A k \in Conns : k > made' => sent'[k] = <<>> /\ buf'[k] = <<>>
    BY <1>2, <2>1 DEF CallInv
  <2>5. \A d \in Callers : /\ cpc'[d] \in TcpPlaces
                           /\ cpc'[d] \in {"idle", "get", "connect"} => cpc'[d] = cpc[d]
                           /\ cpc'[d] \in {"read", "wait", "close"} => cpc[d] \in {"read", "wait", "close"}
    BY <1>1, <2>3 DEF TcpPlaces
  <2> QED
    BY <1>1, <2>1, <2>4, <2>5 DEF PoolInv, HasRoom
<1>14. CASE shutdown_tcp_pool \/ (Toggle /\ up)
  <2>1. PICK K \in SUBSET Conns : End(K)
    BY <1>0, <1>14 DEF shutdown_tcp_pool, Toggle, ConnTypes
  <2>2. \A c \in Callers : cpc'[c] = cpc[c] \/ (cpc[c] = "wait" /\ cpc'[c] = "read")
    BY <1>0, <2>1, EngineAssumption DEF End, WaiterTypes, CallerTypes, EngineAssumption
  <2>3. \A k \in Conns : sent'[k] \in {sent[k], <<>>}
    BY <2>1 DEF End
  <2>4. UNCHANGED <<mine, lock, made, buf>> /\ pool' \subseteq pool /\ (pool = pool' \/ lock = Nobody)
    BY <1>14 DEF shutdown_tcp_pool, Toggle
  <2> QED
    BY <1>2, <1>5, <2>2, <2>3, <2>4
<1>15. CASE Toggle /\ ~up
  <2>1. UNCHANGED <<cpc, mine, lock, made, pool, sent, buf>>
    BY <1>15 DEF Toggle
  <2> QED
    BY <1>2, <1>5, <2>1
<1>16. CASE Serve
  <2>1. PICK k \in Conns : /\ sent[k] # <<>> /\ sent' = [sent EXCEPT ![k] = Tail(@)]
                           /\ buf' = [buf EXCEPT ![k] = Append(@, Head(sent[k]))]
                           /\ cpc' = Wake(k, cpc)
                           /\ UNCHANGED <<mine, lock, made, pool>>
    BY <1>16 DEF Serve
  <2>2. \A c \in Callers : cpc'[c] = cpc[c] \/ (cpc[c] = "wait" /\ cpc'[c] = "read")
    BY <1>0, <2>1, EngineAssumption DEF Wake, WaiterTypes, CallerTypes, EngineAssumption
  <2>3. ~(k > made)
    BY <1>2, <2>1
  <2>4. \A j \in Conns : j > made => sent'[j] = <<>> /\ buf'[j] = <<>>
    BY <1>2, <2>1, <2>3 DEF CallInv
  <2> QED
    BY <1>5, <2>1, <2>2, <2>4
<1>17. \A c \in Callers : ~(get_grpc_client(c) \/ connect(c) \/ _call_with_retry(c))
  BY DEF get_grpc_client, connect, _call_with_retry
<1>18. ~close_grpc_client
  BY DEF close_grpc_client
<1> QED
  BY <1>8, <1>9, <1>10, <1>11, <1>12, <1>13, <1>14, <1>15, <1>16, <1>17, <1>18
  DEF EngineNext, CallStep, execute_command_tcp

\* Each step keeps the connections sound that it does not mix, ...
LEMMA ReplyStep ==
    ASSUME EngineTypeOK, CallInv, PoolInv, ReplyInv, EngineNext
    PROVE  ReplyInv'
<1> USE DEF server, caller, tcp, grpc, Goto
<1>0. /\ ClientTypes /\ CallerTypes /\ ConnTypes /\ WaiterTypes
      /\ made \in Nat /\ MaxConns \in Nat /\ mode' = mode /\ mixed \subseteq mixed'
  <2>1. mode' = mode /\ mixed \subseteq mixed'
    BY ModeAndMixed
  <2> QED
    BY <2>1, EngineTypesSplit, EngineAssumption DEF ConnTypes, EngineAssumption
<1> SUFFICES ASSUME mode = "tcp", NEW k \in Conns, k \notin mixed' PROVE Sound(k)'
  BY <1>0 DEF ReplyInv
<1>1. Sound(k) /\ k # None /\ k \in Nat
  BY <1>0 DEF ReplyInv, Conns, None
<1>2. \A c \in Callers : cpc[c] \in {"idle", "get", "connect"} => mine[c] = None
  BY DEF PoolInv
<1>3. \A c \in Callers : cpc[c] \in {"read", "wait", "close"} => mine[c] \in Conns
  BY <1>0 DEF PoolInv, CallerTypes, ConnTypes, Conns, None
\* A caller moves that does not use the connection, before or after.
<1>4. ASSUME NEW c \in Callers, mine[c] # k, mine'[c] # k,
             \A d \in Callers \ {c} : mine'[d] = mine[d] /\ cpc'[d] = cpc[d] /\ call'[d] = call[d],
             buf'[k] = buf[k], sent'[k] \in {sent[k], <<>>}, k \in in_use => k \in in_use',
             k \in pool' => k \in pool
      PROVE  Sound(k)'
  <2>1. \A d \in Callers : mine[d] = k => mine'[d] = k /\ call'[d] = call[d] /\ cpc'[d] = cpc[d]
    BY <1>4
  <2>2. \A d \in Callers : mine'[d] = k => mine[d] = k
    BY <1>4
  <2> QED
    BY <1>1, <1>4, <2>1, <2>2, SoundKept
\* Nobody changes connections, and those who are woken or fail go on.
<1>5. ASSUME UNCHANGED <<mine, call, in_use>>, buf'[k] = buf[k], sent'[k] \in {sent[k], <<>>},
             pool' \subseteq pool,
             \A d \in Callers : \/ cpc'[d] = cpc[d]
                                \/ cpc[d] \in {"read", "wait"} /\ cpc'[d] \in {"read", "wait", "close"}
      PROVE  Sound(k)'
  BY <1>1, <1>5, SoundKept
<1>6. ASSUME NEW c \in Callers, NEW m \in Conns, Send(c, m), mine[c] = None, UNCHANGED <<buf, call>>,
             pool' \subseteq pool \cup {m}, m # k
      PROVE  Sound(k)'
  <2>1. /\ mine'[c] = m /\ \A d \in Callers \ {c} : mine'[d] = mine[d] /\ cpc'[d] = cpc[d]
        /\ sent'[k] = sent[k] /\ in_use' = in_use \cup {m}
    BY <1>0, <1>6 DEF Send, CallerTypes, CallInv
  <2> QED
    BY <1>1, <1>4, <1>6, <2>1
<1>7. ASSUME NEW c \in Callers, BeginCall(c) PROVE Sound(k)'
  <2>1. /\ UNCHANGED <<mine, in_use, sent, buf, pool>> /\ mine[c] = None
        /\ \A d \in Callers \ {c} : cpc'[d] = cpc[d] /\ call'[d] = call[d]
    BY <1>0, <1>2, <1>7 DEF BeginCall, CallerTypes
  <2> QED
    BY <1>1, <1>4, <2>1
<1>8. ASSUME NEW c \in Callers, execute_command(c) PROVE Sound(k)'
  <2>1. /\ cpc[c] = "subprocess" /\ mine' = [mine EXCEPT ![c] = None] /\ in_use' = in_use \ {mine[c]}
        /\ cpc' = [cpc EXCEPT ![c] = "idle"] /\ UNCHANGED <<call, pool, sent, buf>>
    BY <1>8 DEF execute_command
  <2>2. CASE mine[c] = k
    BY <1>0, <1>1, <2>1, <2>2, SoundReleased DEF Sound
  <2>3. CASE mine[c] # k
    <3>1. mine'[c] # k /\ \A d \in Callers \ {c} : mine'[d] = mine[d] /\ cpc'[d] = cpc[d]
      BY <1>0, <1>1, <2>1 DEF CallerTypes
    <3> QED
      BY <1>4, <2>1, <2>3, <3>1
  <2> QED
    BY <2>2, <2>3
<1>9. ASSUME NEW c \in Callers, _get_connection(c) PROVE Sound(k)'
  <2>1. cpc[c] = "get" /\ mine[c] = None /\ UNCHANGED <<pool, buf, call>>
    BY <1>2, <1>9 DEF _get_connection
  <2>2. ASSUME NEW m \in pool \ in_use, Send(c, m) PROVE Sound(k)'
    <3>1. m \in Conns
      BY <1>0, <2>2 DEF ConnTypes, Conns
    <3>2. CASE m = k
      <4>1. (\A d \in Callers : mine[d] # k) /\ Clear(k)
        BY <1>1, <2>2, <3>2 DEF Sound
      <4> QED
        BY <1>0, <2>1, <2>2, <3>2, <4>1, SoundSent
    <3> QED
      BY <1>6, <2>1, <2>2, <3>1, <3>2
  <2>3. ASSUME NEW m \in pool, Send(c, m), mixed' = mixed \cup {m} PROVE Sound(k)'
    <3>1. m \in Conns /\ m # k
      BY <1>0, <2>3 DEF ConnTypes, Conns
    <3> QED
      BY <1>6, <2>1, <2>3, <3>1
  <2>4. ASSUME UNCHANGED <<mine, in_use, sent>>, NEW place, cpc' = [cpc EXCEPT ![c] = place]
        PROVE  Sound(k)'
    <3>1. \A d \in Callers \ {c} : cpc'[d] = cpc[d]
      BY <1>0, <2>4 DEF CallerTypes
    <3> QED
      BY <1>1, <1>4, <2>1, <2>4, <3>1
  <2> DEFINE idle == {m \in pool \ in_use : Healthy(m)}
             healthy == {m \in pool : Healthy(m)}
  <2>5. idle \in SUBSET pool /\ healthy \in SUBSET pool /\ pool \subseteq Nat /\ idle \cap in_use = {}
    BY <1>0 DEF ConnTypes
  <2>6. /\ idle # {} => Min(idle) \in pool \ in_use
        /\ healthy # {} => Min(healthy) \in pool
    BY <2>5, MinIsMember
  <2> HIDE DEF idle, healthy
  <2> QED
    BY <1>9, <2>2, <2>3, <2>4, <2>6 DEF _get_connection, idle, healthy
<1>10. ASSUME NEW c \in Callers, Connect(c) PROVE Sound(k)'
  <2>1. cpc[c] = "connect" /\ mine[c] = None /\ UNCHANGED <<buf, call>>
    BY <1>2, <1>10 DEF Connect
  <2>2. CASE up
    <3>1. Send(c, made + 1) /\ pool' = pool \cup {made + 1} /\ made + 1 \in Conns
      BY <1>0, <1>10, <2>2 DEF Connect, Conns, PoolInv
    <3>2. CASE made + 1 = k
      <4>1. Clear(k)
        BY <1>0, <1>1, <3>2 DEF PoolInv, Clear
      <4>2. \A d \in Callers : mine[d] # k
        BY <1>0, <3>2 DEF CallerTypes
      <4> QED
        BY <1>0, <2>1, <3>1, <3>2, <4>1, <4>2, SoundSent
    <3> QED
      BY <1>6, <2>1, <3>1, <3>2
  <2>3. CASE ~up
    <3>1. UNCHANGED <<mine, in_use, sent, pool>> /\ cpc' = [cpc EXCEPT ![c] = "subprocess"]
      BY <1>10, <2>3 DEF Connect
    <3>2. \A d \in Callers \ {c} : cpc'[d] = cpc[d]
      BY <1>0, <3>1 DEF CallerTypes
    <3> QED
      BY <1>1, <1>4, <2>1, <3>1, <3>2
  <2> QED
    BY <2>2, <2>3
<1>11. ASSUME NEW c \in Callers, Receive(c) PROVE Sound(k)'
  <2>1. /\ cpc[c] = "read" /\ buf[mine[c]] # <<>> /\ buf' = [buf EXCEPT ![mine[c]] = Tail(@)]
        /\ in_use' = in_use \ {mine[c]} /\ mine' = [mine EXCEPT ![c] = None]
        /\ cpc' = [cpc EXCEPT ![c] = "idle"] /\ UNCHANGED <<call, pool, sent>>
    BY <1>11 DEF Receive
  <2>2. CASE mine[c] = k
    <3>1. sent[k] = <<>> /\ buf[k] = <<call[c]>>
      BY <1>1, <2>1, <2>2 DEF Sound, Owed, Clear
    <3>2. Clear(k)'
      BY <1>3, <2>1, <2>2, <3>1 DEF Clear, CallInv
    <3> QED
      BY <1>0, <1>1, <2>1, <2>2, <3>2, SoundReleased
  <2>3. CASE mine[c] # k
    <3>1. /\ mine'[c] # k /\ \A d \in Callers \ {c} : mine'[d] = mine[d] /\ cpc'[d] = cpc[d]
          /\ buf'[k] = buf[k]
      BY <1>0, <1>1, <2>1, <2>3 DEF CallerTypes, CallInv
    <3> QED
      BY <1>4, <2>1, <2>3, <3>1
  <2> QED
    BY <2>2, <2>3
<1>12. ASSUME NEW c \in Callers, Wait(c) PROVE Sound(k)'
  <2>1. /\ cpc[c] = "read" /\ cpc' = [cpc EXCEPT ![c] = "wait"]
        /\ UNCHANGED <<mine, call, in_use, buf, sent, pool>>
    BY <1>12 DEF Wait
  <2>2. \A d \in Callers : cpc'[d] = cpc[d] \/ (cpc[d] = "read" /\ cpc'[d] = "wait")
    BY <1>0, <2>1 DEF CallerTypes
  <2> QED
    BY <1>5, <2>1, <2>2
<1>13. ASSUME NEW c \in Callers, Fail(c) PROVE Sound(k)'
  <2>1. /\ cpc[c] \in {"read", "wait"} /\ cpc' = [Wake(mine[c], cpc) EXCEPT ![c] = "close"]
        /\ sent' = [sent EXCEPT ![mine[c]] = <<>>]
        /\ UNCHANGED <<mine, call, in_use, buf, pool>>
    BY <1>13 DEF Fail, MayFail
  <2>2. \A d \in Callers : waiter[mine[c]] = d => cpc[d] = "wait"
    BY <1>0, <1>3, <2>1, EngineAssumption DEF WaiterTypes, EngineAssumption
  <2>3. \A d \in Callers : \/ cpc'[d] = cpc[d]
                           \/ cpc[d] \in {"read", "wait"} /\ cpc'[d] \in {"read", "close"}
    BY <1>0, <2>1, <2>2 DEF Wake, CallerTypes
  <2>4. sent'[k] \in {sent[k], <<>>}
    BY <2>1 DEF CallInv
  <2> QED
    BY <1>5, <2>1, <2>3, <2>4
<1>14. ASSUME NEW c \in Callers, Remove(c) PROVE Sound(k)'
  <2>1. /\ cpc[c] = "close" /\ cpc' = [cpc EXCEPT ![c] = "subprocess"] /\ pool' = pool \ {mine[c]}
        /\ UNCHANGED <<mine, call, in_use, buf, sent>>
    BY <1>14 DEF Remove
  <2>2. cpc'[c] = "subprocess" /\ \A d \in Callers \ {c} : cpc'[d] = cpc[d]
    BY <1>0, <2>1 DEF CallerTypes
  <2>3. \A d \in Callers : mine[d] = k => cpc'[d] = cpc[d] \/ (cpc'[d] = "subprocess" /\ k \notin pool')
    BY <2>1, <2>2
  <2> QED
    BY <1>1, <2>1, <2>3, SoundKept
<1>15. ASSUME NEW c \in Callers, Cancel(c) PROVE Sound(k)'
  <2>1. /\ cpc[c] # "idle" /\ cpc[c] \in TcpPlaces
        /\ mixed' = IF cpc[c] \in {"read", "wait", "close"} THEN mixed \cup {mine[c]} ELSE mixed
        /\ in_use' = in_use \ {mine[c]} /\ mine' = [mine EXCEPT ![c] = None]
        /\ cpc' = [cpc EXCEPT ![c] = "idle"] /\ UNCHANGED <<call, pool, sent, buf>>
    BY <1>15 DEF Cancel, Ends, PoolInv
  <2>2. CASE mine[c] = k
    <3>1. cpc[c] = "subprocess"
      BY <1>1, <1>2, <2>1, <2>2 DEF TcpPlaces
    <3> QED
      BY <1>0, <1>1, <2>1, <2>2, <3>1, SoundReleased DEF Sound
  <2>3. CASE mine[c] # k
    <3>1. mine'[c] # k /\ \A d \in Callers \ {c} : mine'[d] = mine[d] /\ cpc'[d] = cpc[d]
      BY <1>0, <1>1, <2>1 DEF CallerTypes
    <3> QED
      BY <1>4, <2>1, <2>3, <3>1
  <2> QED
    BY <2>2, <2>3
<1>16. CASE shutdown_tcp_pool \/ (Toggle /\ up)
  <2>1. PICK K \in SUBSET Conns : End(K)
    BY <1>0, <1>16 DEF shutdown_tcp_pool, Toggle, ConnTypes, Conns
  <2>2. \A c \in Callers : cpc'[c] = cpc[c] \/ (cpc[c] = "wait" /\ cpc'[c] = "read")
    BY <1>0, <2>1, EngineAssumption DEF End, WaiterTypes, CallerTypes, EngineAssumption
  <2>3. sent'[k] \in {sent[k], <<>>}
    BY <2>1 DEF End
  <2>4. UNCHANGED <<mine, call, in_use, buf>> /\ pool' \subseteq pool
    BY <1>16 DEF shutdown_tcp_pool, Toggle
  <2> QED
    BY <1>5, <2>2, <2>3, <2>4
<1>17. CASE Toggle /\ ~up
  <2>1. UNCHANGED <<cpc, mine, call, in_use, pool, sent, buf>>
    BY <1>17 DEF Toggle
  <2> QED
    BY <1>5, <2>1
<1>18. CASE Serve
  <2>1. PICK m \in Conns : /\ sent[m] # <<>> /\ sent' = [sent EXCEPT ![m] = Tail(@)]
                           /\ buf' = [buf EXCEPT ![m] = Append(@, Head(sent[m]))]
                           /\ cpc' = Wake(m, cpc)
                           /\ UNCHANGED <<mine, call, in_use, pool>>
    BY <1>18 DEF Serve
  <2>2. \A c \in Callers : cpc'[c] = cpc[c] \/ (cpc[c] = "wait" /\ cpc'[c] = "read")
    BY <1>0, <2>1, EngineAssumption DEF Wake, WaiterTypes, CallerTypes, EngineAssumption
  <2>3. CASE m = k
    <3>1. sent'[k] = Tail(sent[k]) /\ buf'[k] = Append(buf[k], Head(sent[k]))
      BY <2>1, <2>3 DEF CallInv
    <3> QED
      BY <1>1, <2>1, <2>2, <2>3, <3>1, SoundServed
  <2>4. CASE m # k
    <3>1. sent'[k] = sent[k] /\ buf'[k] = buf[k]
      BY <2>1, <2>4 DEF CallInv
    <3> QED
      BY <1>5, <2>1, <2>2, <3>1
  <2> QED
    BY <2>3, <2>4
<1>19. \A c \in Callers : ~(get_grpc_client(c) \/ connect(c) \/ _call_with_retry(c))
  BY DEF get_grpc_client, connect, _call_with_retry
<1>20. ~close_grpc_client
  BY DEF close_grpc_client
<1> QED
  BY <1>7, <1>8, <1>9, <1>10, <1>11, <1>12, <1>13, <1>14, <1>15, <1>16, <1>17, <1>18, <1>19, <1>20
  DEF EngineNext, CallStep, execute_command_tcp

\* ... and a reply that is read on a sound connection is the caller's own.
LEMMA RightStep ==
    ASSUME EngineTypeOK, CallInv, PoolInv, ReplyInv, RightReply, EngineNext
    PROVE  RightReply'
<1> USE DEF server, caller, tcp, grpc
<1>0. ClientTypes /\ CallerTypes /\ ConnTypes /\ WaiterTypes
  BY EngineTypesSplit
<1>1. mixed \subseteq mixed'
  BY ModeAndMixed
<1>2. ASSUME NEW c \in Callers, Receive(c) PROVE wrong' \subseteq mixed
  <2>1. /\ mode = "tcp" /\ cpc[c] = "read" /\ buf[mine[c]] # <<>>
        /\ wrong' = IF Head(buf[mine[c]]) = call[c] THEN wrong ELSE wrong \cup {mine[c]}
    BY <1>2 DEF Receive
  <2>2. mine[c] \in Conns
    BY <1>0, <2>1, EngineAssumption DEF PoolInv, CallerTypes, ConnTypes, Conns, None, EngineAssumption
  <2>3. CASE mine[c] \notin mixed
    <3>1. buf[mine[c]] = <<call[c]>>
      BY <2>1, <2>2, <2>3 DEF ReplyInv, Sound, Owed, Clear
    <3>2. Head(buf[mine[c]]) = call[c]
      BY <3>1
    <3> QED
      BY <2>1, <3>2 DEF RightReply
  <2> QED
    BY <2>1, <2>3 DEF RightReply
<1>3. CASE \E c \in Callers : Receive(c)
  BY <1>1, <1>2, <1>3 DEF RightReply
<1>4. CASE ~\E c \in Callers : Receive(c)
  <2>1. wrong' = wrong
    BY <1>4, ModeAndMixed
  <2> QED
    BY <1>1, <2>1 DEF RightReply
<1> QED
  BY <1>3, <1>4

\* The invariant of the engine's clients, which the other paths leave alone.
LEMMA EngineStarts == Init => EngineInv
<1> SUFFICES ASSUME EngineInit PROVE EngineInv
  BY DEF Init
<1>1. /\ {MaxCalls, MaxConns, MaxClients, EngineFaults, MaxRetries, PoolSize} \subseteq Nat
      /\ MaxRetries # 0
  BY EngineAssumption DEF EngineAssumption
<1>2. ClientTypes /\ CallerTypes
  BY <1>1 DEF EngineInit, ClientTypes, CallerTypes, CallerPlaces, TcpPlaces, None
<1>3. ConnTypes
  BY <1>1, FS_EmptySet DEF EngineInit, ConnTypes
<1>4. WaiterTypes
  BY DEF EngineInit, WaiterTypes
<1>5. CallInv
  <2>1. sent = [k \in Conns |-> <<>>] /\ buf = [k \in Conns |-> <<>>] /\ <<>> \in Seq(1 .. begun)
    BY DEF EngineInit
  <2>2. \A c \in Callers : cpc[c] = "idle"
    BY DEF EngineInit
  <2> QED
    BY <2>1, <2>2 DEF CallInv
<1>6. PoolInv /\ ReplyInv /\ RightReply
  <2>1. \A c \in Callers : cpc[c] = "idle" /\ mine[c] = None
    BY DEF EngineInit
  <2>2. \A k \in Conns : sent[k] = <<>> /\ buf[k] = <<>> /\ k # None
    BY <1>1 DEF EngineInit, Conns, None
  <2>3. \A k \in Conns : Sound(k)
    BY <2>1, <2>2 DEF Sound, Clear
  <2>4. wrong = {}
    BY DEF EngineInit
  <2> QED
    BY <2>1, <2>2, <2>3, <2>4 DEF PoolInv, ReplyInv, RightReply, TcpPlaces
<1> QED
  BY <1>2, <1>3, <1>4, <1>5, <1>6, EngineTypesJoin DEF EngineInv

LEMMA EngineFrame ==
    ASSUME EngineInv, UNCHANGED engineVars
    PROVE  EngineInv'
<1>1. UNCHANGED <<mode, up, downs, cpc, call, begun, mine, attempt, pool, in_use, made, eof, sent, buf,
                  waiter, mixed, wrong, lock, client, connected, stub, clients, closing>>
  BY DEF engineVars, server, caller, tcp, grpc
<1>2. EngineTypeOK' /\ CallInv'
  BY <1>1 DEF EngineInv, EngineTypeOK, CallInv
<1>3. PoolInv' /\ RightReply'
  BY <1>1 DEF EngineInv, PoolInv, RightReply, HasRoom
<1>4. ReplyInv'
  BY <1>1 DEF EngineInv, ReplyInv, Sound, Owed, Clear
<1> QED
  BY <1>2, <1>3, <1>4 DEF EngineInv

LEMMA EngineStepKeeps ==
    ASSUME EngineInv, EngineNext
    PROVE  EngineInv'
<1>1. EngineTypeOK' /\ CallInv'
  BY BeginTypes, GetTypes, ConnectTypes, UseTypes, CancelTypes, EndTypes, GrpcTypes
  DEF EngineInv, EngineNext, CallStep, execute_command_tcp
<1> QED
  BY <1>1, PoolStep, ReplyStep, RightStep DEF EngineInv

LEMMA EngineInvStep ==
    ASSUME EngineInv, [Next]_requestVars
    PROVE  EngineInv'
<1>1. CASE EngineStep(EngineNext)
  BY <1>1, EngineStepKeeps DEF EngineStep
<1>2. CASE \/ TrafficStep(TrafficNext) \/ UNCHANGED requestVars
           \/ SocketStep(follows = "live" /\ LiveNext) \/ SocketStep(follows = "analysis" /\ AnalysisNext)
  <2>1. UNCHANGED engineVars
    BY <1>2 DEF TrafficStep, SocketStep, requestVars
  <2> QED
    BY <2>1, EngineFrame
<1> QED
  BY <1>1, <1>2 DEF Next

\* A call gets another one's reply only on a connection that was shared with a full
\* pool or released by a cancelled call: whatever the size of the pool and the
\* number of callers, of calls, of timeouts and of the engine's restarts.
THEOREM RepliesMatch == Spec => []RightReply
<1>1. EngineInv => RightReply
  BY DEF EngineInv
<1> QED
  BY <1>1, EngineStarts, EngineInvStep, PTL DEF Spec

-----------------------------------------------------------------------------
(* The types of the three paths together                                   *)

\* What the types of the requests rest on: a request that is checked has its stamp,
\* and the log's invariant, without which the counts have no bound.
StampTypes == /\ now \in 1 .. MaxTime /\ stamp \in [Requests -> 0 .. now] /\ blind \in BOOLEAN
              /\ window \subseteq 1 .. now /\ admitted \subseteq 1 .. now
              /\ \A r \in Requests : rpc[r] = "check" => stamp[r] \in 1 .. now
TrafficInv == TrafficTypeOK /\ StampTypes /\ LogTypes /\ LogInv

LEMMA TrafficStarts == Init => TrafficInv
<1> SUFFICES ASSUME Init PROVE TrafficInv
  OBVIOUS
<1>1. TrafficInit /\ 1 \in 1 .. MaxTime /\ TrafficFaults \in Nat
  BY TrafficAssumption DEF Init, TrafficAssumption
<1>2. \A r \in Requests : rpc[r] = "new"
  BY <1>1 DEF TrafficInit
<1>3. /\ now = 1 /\ failures = 0 /\ stamp = [r \in Requests |-> 0] /\ window = {} /\ admitted = {}
      /\ 0 \in 0 .. now /\ now \in 1 .. MaxTime /\ failures \in 0 .. TrafficFaults
      /\ 0 \in 0 .. 2
  BY <1>1 DEF TrafficInit
<1>4. stamp \in [Requests -> 0 .. now] /\ blind \in BOOLEAN
  BY <1>1, <1>3 DEF TrafficInit
<1>5. StampTypes
  BY <1>2, <1>3, <1>4 DEF StampTypes
<1>6. stored \in [Requests -> 0 .. 2]
  BY <1>1, <1>3 DEF TrafficInit
<1>7. rpc \in [Requests -> {"new", "check", "route", "refused", "done"}] /\ stopping \in BOOLEAN
  BY <1>1 DEF TrafficInit
<1>8. buffer = {} /\ batch = {} /\ flush = "none" /\ lost = {}
  BY <1>1 DEF TrafficInit
<1>9. TrafficTypeOK
  BY <1>3, <1>4, <1>6, <1>7, <1>8 DEF TrafficTypeOK
<1> QED
  BY <1>5, <1>9, LogInit DEF TrafficInv

LEMMA StampStep ==
    ASSUME StampTypes, LogTypes, TrafficNext
    PROVE  StampTypes'
<1>0. /\ MaxTime \in Nat /\ now \in Nat /\ now \in 1 .. now /\ 1 .. now \subseteq 0 .. now
      /\ rpc \in [Requests -> {"new", "check", "route", "refused", "done"}]
  BY TrafficAssumption DEF TrafficAssumption, StampTypes, LogTypes
<1>1. ASSUME NEW r \in Requests, dispatch(r) PROVE StampTypes'
  <2>1. /\ rpc' = [rpc EXCEPT ![r] = "check"] /\ stamp' = [stamp EXCEPT ![r] = now]
        /\ UNCHANGED <<now, window, admitted, blind>>
    BY <1>1 DEF dispatch, limiter
  <2> QED
    BY <1>0, <2>1 DEF StampTypes
<1>2. ASSUME NEW r \in Requests, _check_rate_limit(r) PROVE StampTypes'
  <2>1. /\ rpc[r] = "check" /\ UNCHANGED <<now, stamp>> /\ stamp[r] \in 1 .. now
        /\ window' \subseteq window \cup {stamp[r]} /\ admitted' \subseteq admitted \cup {stamp[r]}
        /\ blind' \in BOOLEAN
    BY <1>2 DEF _check_rate_limit, StampTypes
  <2>2. \E place \in {"route", "refused"} : rpc' = [rpc EXCEPT ![r] = place]
    BY <1>2 DEF _check_rate_limit
  <2>3. \A q \in Requests : rpc'[q] = "check" => rpc[q] = "check"
    BY <1>0, <2>2
  <2> QED
    BY <2>1, <2>3 DEF StampTypes
<1>3. CASE (\E r \in Requests : log_operation(r)) \/ _flush_batch \/ CancelFlush
  <2>1. UNCHANGED <<now, stamp, window, admitted, blind>>
    BY <1>3 DEF log_operation, _flush_batch, CancelFlush, limiter
  <2>2. \A q \in Requests : rpc'[q] = "check" => rpc[q] = "check"
    BY <1>0, <1>3 DEF log_operation, _flush_batch, CancelFlush
  <2> QED
    BY <2>1, <2>2 DEF StampTypes
<1>4. CASE Clock
  <2>1. now < MaxTime /\ now' = now + 1 /\ UNCHANGED <<rpc, stamp, window, admitted, blind>>
    BY <1>4 DEF Clock, limiter
  <2>2. now' \in 1 .. MaxTime /\ 0 .. now \subseteq 0 .. now' /\ 1 .. now \subseteq 1 .. now'
    BY <1>0, <2>1
  <2> QED
    BY <2>1, <2>2 DEF StampTypes
<1> QED
  BY <1>1, <1>2, <1>3, <1>4 DEF TrafficNext

LEMMA TrafficStepKeeps ==
    ASSUME TrafficInv, TrafficNext, LogTypes', LogInv'
    PROVE  TrafficInv'
<1>0. TrafficFaults \in Nat /\ failures \in Nat /\ TrafficTypeOK /\ batch \subseteq Requests
      /\ buffer \subseteq Requests /\ lost \subseteq Requests
      /\ flush \in {"none", "sleep", "write", "last", "done"} /\ failures \in 0 .. TrafficFaults
  BY TrafficAssumption DEF TrafficAssumption, TrafficInv, TrafficTypeOK
<1>1. StampTypes'
  BY StampStep DEF TrafficInv
<1>2. stored' \in [Requests -> 0 .. 2] /\ (flush' \in {"none", "sleep", "done"} => batch' = {})
  <2>1. stored' \in [Requests -> Nat]
    BY DEF LogTypes
  <2>2. \A r \in Requests : stored'[r] <= 1
    BY <2>1 DEF LogInv
  <2>3. stored' \in [Requests -> 0 .. 2]
    BY <2>1, <2>2
  <2>4. flush' \in {"none", "sleep", "done"} => batch' = {}
    BY DEF LogInv
  <2> QED
    BY <2>3, <2>4
<1>3. failures' \in 0 .. TrafficFaults
  <2>1. failures' = failures \/ Failure
    BY DEF TrafficNext, dispatch, _check_rate_limit, log_operation, _flush_batch, bulk_write_logs,
           CancelFlush, Clock
  <2> QED
    BY <1>0, <2>1 DEF Failure
<1>4. lost' \subseteq Requests
  BY <1>0 DEF TrafficNext, dispatch, _check_rate_limit, log_operation, _flush_batch,
              bulk_write_logs, CancelFlush, Clock, log
<1>5. flush' \in {"none", "sleep", "write", "last", "done"}
  BY <1>0 DEF TrafficNext, dispatch, _check_rate_limit, log_operation, _flush_batch,
              CancelFlush, Clock, log
<1> QED
  BY <1>1, <1>2, <1>3, <1>4, <1>5 DEF TrafficInv, TrafficTypeOK, StampTypes, LogTypes

LEMMA TrafficInvStep ==
    ASSUME TrafficInv, [Next]_requestVars
    PROVE  TrafficInv'
<1>1. LogTypes' /\ LogInv'
  BY LogStep DEF TrafficInv
<1>2. TrafficNext \/ UNCHANGED trafficVars
  BY StepOfTraffic DEF requestVars
<1>3. CASE UNCHANGED trafficVars
  BY <1>3 DEF trafficVars, limiter, log, TrafficInv, TrafficTypeOK, StampTypes, LogTypes, LogInv
<1> QED
  BY <1>1, <1>2, <1>3, TrafficStepKeeps

\* The sockets' types are inductive as they stand.
LEMMA FeedStarts == Init => FeedTypeOK
BY SocketAssumption DEF Init, FeedInit, FeedTypeOK, SocketAssumption, Sockets

Spots == {"new", "confirm", "receive", "reply", "bye", "running", "execute", "answer", "ended"}

\* A handler moves on, and subscribes its socket or discards it.
LEMMA FeedMoves ==
    ASSUME FeedTypeOK, NEW s \in Sockets, NEW place \in Spots \ {"new"},
           spot' = [spot EXCEPT ![s] = place],
           subscribers' \subseteq subscribers \/ (s \in Live /\ subscribers' = subscribers \cup {s}),
           UNCHANGED <<online, round, visited, visiting, dead>>,
           task' = task \/ (task \in {"none", "done"} /\ task' = "ready")
    PROVE  FeedTypeOK'
<1>1. spot \in [Sockets -> Spots] /\ spot' \in [Sockets -> Spots] /\ Live \subseteq Sockets
  BY DEF FeedTypeOK, Spots, Sockets
<1>2. \A l \in Sockets : spot'[l] = IF l = s THEN place ELSE spot[l]
  BY <1>1
<1>3. subscribers' \subseteq {l \in Live : spot'[l] # "new"}
  BY <1>1, <1>2 DEF FeedTypeOK
<1> QED
  BY <1>1, <1>3 DEF FeedTypeOK, Spots

LEMMA HandlersMove ==
    ASSUME FeedTypeOK, NEW s \in Sockets,
           Accept(s) \/ Confirm(s) \/ Message(s) \/ Disconnected(s) \/ Reply(s)
    PROVE  FeedTypeOK'
<1> USE DEF GoOn, Finish, broadcast
<1>1. PICK place \in Spots \ {"new"} : spot' = [spot EXCEPT ![s] = place]
  BY DEF Accept, Confirm, Message, Disconnected, Reply, Spots
<1>2. /\ subscribers' \subseteq subscribers \/ (s \in Live /\ subscribers' = subscribers \cup {s})
      /\ UNCHANGED <<online, round, visited, visiting, dead>>
      /\ task' = task \/ (task \in {"none", "done"} /\ task' = "ready")
  BY DEF Accept, Confirm, Message, Disconnected, Reply
<1> QED
  BY <1>1, <1>2, FeedMoves

LEMMA BroadcastKeeps ==
    ASSUME FeedTypeOK, _broadcast_loop
    PROVE  FeedTypeOK'
<1>0. NoSocket \notin Live
  BY SocketAssumption DEF SocketAssumption
<1>1. CASE Round
  <2>1. PICK s \in subscribers : visiting' = s /\ visited' = {s}
    BY <1>1 DEF Round
  <2>2. s \in Live /\ s # NoSocket
    BY <1>0 DEF FeedTypeOK
  <2> QED
    BY <1>1, <2>1, <2>2 DEF Round, FeedTypeOK
<1>2. CASE Sent
  <2>1. PICK failed \in {dead, dead \cup {visiting}} :
           /\ task = "sending"
           /\ \/ Leaves("done") /\ UNCHANGED subscribers
              \/ /\ \E s \in subscribers \ visited : Visit(s)
                 /\ dead' = failed /\ UNCHANGED <<task, round, subscribers>>
              \/ Leaves("ready") /\ Discard(failed)
           /\ UNCHANGED <<online, spot>>
    BY <1>2 DEF Sent
  <2>2. CASE Leaves("done") \/ Leaves("ready")
    <3>1. task' \in {"ready", "done"} /\ visiting' = NoSocket /\ round' = {} /\ visited' = {} /\ dead' = {}
      BY <2>2 DEF Leaves
    <3>2. subscribers' \subseteq subscribers
      BY <2>1, <2>2 DEF Leaves, Discard
    <3> QED
      BY <2>1, <3>1, <3>2 DEF FeedTypeOK
  <2>3. CASE /\ \E s \in subscribers \ visited : Visit(s)
             /\ dead' = failed /\ UNCHANGED <<task, round, subscribers>>
    <3>1. PICK s \in subscribers : visiting' = s /\ visited' = visited \cup {s}
      BY <2>3 DEF Visit
    <3>2. s \in Live /\ s # NoSocket /\ visiting \in visited
      BY <1>0, <2>1 DEF FeedTypeOK
    <3> QED
      BY <2>1, <2>3, <3>1, <3>2 DEF FeedTypeOK
  <2> QED
    BY <2>1, <2>2, <2>3
<1> QED
  BY <1>1, <1>2 DEF _broadcast_loop

LEMMA FeedStep ==
    ASSUME FeedTypeOK, [Next]_requestVars
    PROVE  FeedTypeOK'
<1>1. CASE LiveNext \/ AnalysisNext
  <2>1. ASSUME NEW s \in Sockets, Leave(s) PROVE FeedTypeOK'
    BY <2>1 DEF Leave, broadcast, FeedTypeOK
  <2> QED
    BY <1>1, <2>1, HandlersMove, BroadcastKeeps
    DEF LiveNext, AnalysisNext, ws_live_handler, ws_analysis_handler, Sockets
<1>2. CASE UNCHANGED feedVars
  BY <1>2 DEF feedVars, broadcast, FeedTypeOK
<1> QED
  BY <1>1, <1>2 DEF Next, EngineStep, TrafficStep, SocketStep, requestVars

\* The state of all the paths is of its type in every behaviour, whatever the
\* numbers of callers, connections, requests, sockets and faults: a connection has
\* at most one waiter, which waits for it, the pool never outgrows its size, no
\* document is stored more than twice, and the broadcast visits somebody exactly
\* while it is sending.
THEOREM TypeCorrect == Spec => []TypeOK
<1>1. Init => EngineInv /\ TrafficInv /\ FeedTypeOK /\ follows \in Paths
  BY EngineStarts, TrafficStarts, FeedStarts DEF Init
<1>2. EngineInv /\ TrafficInv /\ FeedTypeOK /\ follows \in Paths /\ [Next]_requestVars
        => (EngineInv /\ TrafficInv /\ FeedTypeOK /\ follows \in Paths)'
  <2>1. [Next]_requestVars => UNCHANGED follows
    BY DEF Next, EngineStep, TrafficStep, SocketStep, requestVars
  <2> QED
    BY <2>1, EngineInvStep, TrafficInvStep, FeedStep
<1>3. EngineInv /\ TrafficInv /\ FeedTypeOK /\ follows \in Paths => TypeOK
  BY DEF TypeOK, EngineInv, TrafficInv
<1> QED
  BY <1>1, <1>2, <1>3, PTL DEF Spec
=============================================================================
