------------------------------ MODULE Requests ------------------------------
(***************************************************************************)
(* What a request passes in the middleware besides the caches, the         *)
(* sessions and the stores: the engine's clients (EngineClient), the rate  *)
(* limiter and the operation log (Traffic), or a WebSocket of either kind  *)
(* (LiveFeed).  They share nothing, so a behaviour follows one of them.    *)
(***************************************************************************)
EXTENDS EngineClient, Traffic, LiveFeed

VARIABLE follows

requestVars == <<engineVars, trafficVars, feedVars, follows>>

Paths == {"engine", "traffic", "live", "analysis"}

TypeOK == EngineTypeOK /\ TrafficTypeOK /\ FeedTypeOK /\ follows \in Paths

Init == /\ EngineInit /\ TrafficInit /\ FeedInit /\ follows \in Paths
        /\ follows # "engine" => mode = "tcp" /\ up

EngineStep(A) == follows = "engine" /\ A /\ UNCHANGED <<trafficVars, feedVars, follows>>
TrafficStep(A) == follows = "traffic" /\ A /\ UNCHANGED <<engineVars, feedVars, follows>>
SocketStep(A) == A /\ UNCHANGED <<engineVars, trafficVars, follows>>

Next == \/ EngineStep(EngineNext) \/ TrafficStep(TrafficNext)
        \/ SocketStep(follows = "live" /\ LiveNext)
        \/ SocketStep(follows = "analysis" /\ AnalysisNext)

\* The event loop runs every coroutine, and each await of a call has a timeout.
\* Clients of the feed need not send anything, nor go away.
Spec == /\ Init /\ [][Next]_requestVars
        /\ \A c \in Callers : WF_requestVars(EngineStep(CallStep(c)))
        /\ \A s \in Live : WF_requestVars(SocketStep(Confirm(s) \/ Disconnected(s) \/ Reply(s)))
        /\ WF_requestVars(SocketStep(_broadcast_loop))
=============================================================================
