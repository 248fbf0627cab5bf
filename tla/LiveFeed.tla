------------------------------ MODULE LiveFeed ------------------------------
(***************************************************************************)
(* The WebSockets of the middleware: the live feed (live_data_ws.py) with  *)
(* its set of subscribers and the task that sends an event to each of them *)
(* every few seconds, and the analysis (analysis_ws.py), which runs a      *)
(* command of the engine per message.  One handler per socket; a step runs *)
(* from one await to the next, and every send is an await.  A send to a    *)
(* client that has gone may raise or pass unnoticed.                       *)
(***************************************************************************)
EXTENDS Naturals, FiniteSets

CONSTANTS Live, Analysis,   \* sockets of the two kinds; each connects once
          NoSocket

ASSUME SocketAssumption == Live \cap Analysis = {} /\ NoSocket \notin Live /\ IsFiniteSet(Live)

Sockets == Live \cup Analysis

VARIABLES online,        \* sockets whose client is there
          spot,          \* where the handler of each socket is
          subscribers,   \* _active_subscribers
          task,          \* _broadcast_task
          round,         \* the subscribers when its iteration began
          visited,       \* those it has sent to, or is sending to
          visiting,      \* the one that it is sending to
          dead           \* its local list

broadcast == <<task, round, visited, visiting, dead>>
feedVars == <<online, spot, subscribers, broadcast>>

FeedTypeOK ==
    /\ online \subseteq Sockets
    /\ spot \in [Sockets -> {"new", "confirm", "receive", "reply", "bye", "running", "execute",
                             "answer", "ended"}]
    /\ subscribers \subseteq {s \in Live : spot[s] # "new"}
    /\ task \in {"none", "ready", "sending", "done"}
    /\ round \subseteq Live /\ visited \subseteq Live /\ dead \subseteq visited
    /\ task # "sending" => round = {} /\ visited = {}
    /\ visiting \in visited \cup {NoSocket} /\ (task = "sending") = (visiting # NoSocket)

FeedInit == /\ online = Sockets /\ spot = [s \in Sockets |-> "new"] /\ subscribers = {}
            /\ task = "none" /\ round = {} /\ visited = {} /\ visiting = NoSocket /\ dead = {}

GoOn(s, place) == spot' = [spot EXCEPT ![s] = place]

\* The handler ends, and finally discards the socket.
Finish(s) == GoOn(s, "ended") /\ subscribers' = subscribers \ {s}

-----------------------------------------------------------------------------
(* The handlers                                                            *)

\* The token is refused, or the socket accepted; the live feed subscribes it
\* and starts the task if there is none or it has ended.
Accept(s) ==
    /\ spot[s] = "new"
    /\ \/ GoOn(s, "ended") /\ UNCHANGED <<subscribers, task>>
       \/ s \in Analysis /\ GoOn(s, "receive") /\ UNCHANGED <<subscribers, task>>
       \/ /\ s \in Live /\ GoOn(s, "confirm") /\ subscribers' = subscribers \cup {s}
          /\ task' = IF task \in {"none", "done"} THEN "ready" ELSE task
    /\ UNCHANGED <<online, round, visited, visiting, dead>>

\* The confirmation is outside the try block: if it raises, the socket stays
\* among the subscribers.
Confirm(s) == /\ spot[s] = "confirm"
              /\ GoOn(s, "receive") \/ (s \notin online /\ GoOn(s, "ended"))
              /\ UNCHANGED <<online, subscribers, broadcast>>

\* receive_json: a message of either protocol, or one that is no JSON.
Message(s) ==
    /\ spot[s] = "receive" /\ s \in online
    /\ \/ /\ \E next \in {"reply"} \cup IF s \in Live THEN {"bye"} ELSE {"running"} : GoOn(s, next)
          /\ UNCHANGED subscribers
       \/ Finish(s)
    /\ UNCHANGED <<online, broadcast>>

Disconnected(s) == /\ spot[s] = "receive" /\ s \notin online /\ Finish(s)
                   /\ UNCHANGED <<online, broadcast>>

\* An answer is sent; the command of an analysis runs between two of them, and
\* is not interrupted when its client goes.
Reply(s) ==
    /\ \/ spot[s] \in {"reply", "answer"} /\ GoOn(s, "receive") /\ UNCHANGED subscribers
       \/ spot[s] = "running" /\ GoOn(s, "execute") /\ UNCHANGED subscribers
       \/ spot[s] = "execute" /\ GoOn(s, "answer") /\ UNCHANGED subscribers
       \/ spot[s] = "bye" /\ Finish(s)
       \/ spot[s] \in {"reply", "answer", "running"} /\ s \notin online /\ Finish(s)
    /\ UNCHANGED <<online, broadcast>>

ws_live_handler(s) == s \in Live /\ (Accept(s) \/ Confirm(s) \/ Message(s) \/ Disconnected(s) \/ Reply(s))
ws_analysis_handler(s) == s \in Analysis /\ (Accept(s) \/ Message(s) \/ Disconnected(s) \/ Reply(s))

\* The client goes away.
Leave(s) == /\ s \in online /\ spot[s] \notin {"new", "ended"} /\ online' = online \ {s}
            /\ UNCHANGED <<spot, subscribers, broadcast>>

-----------------------------------------------------------------------------
(* The task                                                                *)

Visit(s) == visiting' = s /\ visited' = visited \cup {s}
Leaves(next) == /\ task' = next /\ visiting' = NoSocket
                /\ round' = {} /\ visited' = {} /\ dead' = {}

\* After its sleep the task iterates over the set itself.
Round == /\ task = "ready" /\ subscribers # {}
         /\ task' = "sending" /\ round' = subscribers /\ dead' = {}
         /\ \E s \in subscribers : visiting' = s /\ visited' = {s}
         /\ UNCHANGED <<online, spot, subscribers>>

\* Mutant: sockets that could not be sent to stay.
DiscardNone(S) == UNCHANGED subscribers

\* Those that raised are discarded when the iteration is over.
Discard(S) == subscribers' = subscribers \ S

\* The send has ended.  A set whose size is not what it was ends the task with a
\* RuntimeError; one that was changed and has its old size goes on, and what was
\* added may be met or not.
Sent ==
    \E failed \in {dead, dead \cup {visiting}} :
        LET rest == subscribers \ visited
            resized == Cardinality(subscribers) # Cardinality(round)
        IN
        /\ task = "sending"
        /\ IF failed = dead THEN spot[visiting] # "ended"
           ELSE visiting \notin online \/ spot[visiting] = "ended"
        /\ \/ resized /\ Leaves("done") /\ UNCHANGED subscribers
           \/ /\ ~resized /\ (\E s \in rest : Visit(s)) /\ dead' = failed
              /\ UNCHANGED <<task, round, subscribers>>
           \/ ~resized /\ rest \cap round = {} /\ Leaves("ready") /\ Discard(failed)
        /\ UNCHANGED <<online, spot>>

_broadcast_loop == Round \/ Sent

LiveNext == (\E s \in Live : ws_live_handler(s) \/ Leave(s)) \/ _broadcast_loop
AnalysisNext == \E s \in Analysis : ws_analysis_handler(s) \/ Leave(s)

-----------------------------------------------------------------------------
(* Properties                                                              *)

\* Whoever subscribes is sent events or is removed: as long as the task has not
\* ended, every subscriber is sent to while its client is there, and leaves the
\* set once it has gone, also if its confirmation failed.  (That the task ends
\* when the set changes its size under it is the exception.)
FeedServes ==
    \A s \in Live : (s \in subscribers) ~> \/ s \notin subscribers \/ task = "done"
                                           \/ visiting = s /\ s \in online
=============================================================================
