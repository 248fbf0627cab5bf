------------------------------- MODULE PubSub -------------------------------
(***************************************************************************)
(* RedisPubSub (services/pubsub.py) over the Redis client of Stores: the   *)
(* lifecycle of a client with one channel and the task that listens to it, *)
(* which is the caller Listener.  start, stop, subscribe and unsubscribe   *)
(* hold one asyncio.Lock, also while they wait for a cancelled task.       *)
(***************************************************************************)
EXTENDS Stores

CONSTANTS Listener,      \* the caller that is the listening task
          MaxInbox       \* bound on the messages on their way to it

ASSUME ListenerAssumption == Listener \in Callers /\ MaxInbox \in Nat

VARIABLES running,      \* _running and _started, which change together
          subscribed,   \* the channel is in _subscriptions
          waiter,       \* who holds the lock for a cancelled task: stop, unsubscribe
          task,         \* where the task is
          inbox         \* messages in its connection

pubsub == <<running, subscribed, waiter, task, inbox>>
allvars == <<vars, pubsub>>

PubSubTypeOK == /\ running \in BOOLEAN /\ subscribed \in BOOLEAN
                /\ waiter \in {"nobody", "stop", "unsubscribe"}
                /\ task \in {"none", "get", "subscribe", "live", "handler", "backoff"}
                /\ inbox \in 0 .. MaxInbox

PubSubInit == /\ Init /\ running = FALSE /\ subscribed = FALSE
              /\ waiter = "nobody" /\ task = "none" /\ inbox = 0

Local == /\ store = "redis"
         /\ UNCHANGED <<server, globals, open, made, lost, phase, doomed, raced>>
NoCall == UNCHANGED call

-----------------------------------------------------------------------------
(* The lifecycle                                                           *)

start == /\ Local /\ waiter = "nobody" /\ ~running /\ phase = "running"
         /\ running' = TRUE /\ NoCall /\ UNCHANGED <<subscribed, waiter, task, inbox>>

\* A task is made only for a channel that has none.
subscribe == /\ Local /\ waiter = "nobody" /\ running /\ ~subscribed
             /\ subscribed' = TRUE /\ task' = "get"
             /\ pc' = Set(pc, Listener, "get") /\ op' = Set(op, Listener, "warm")
             /\ UNCHANGED <<mine, got, tries, running, waiter, inbox>>

\* Mutant: the lock is not held while the cancelled task ends.
stop_nowait == /\ Local /\ waiter = "nobody" /\ running
               /\ running' = FALSE /\ subscribed' = FALSE
               /\ NoCall /\ UNCHANGED <<waiter, task, inbox>>

\* stop: no more running, then each task is cancelled and awaited.
stop == /\ Local /\ waiter = "nobody" /\ running
        /\ running' = FALSE /\ waiter' = "stop"
        /\ NoCall /\ UNCHANGED <<subscribed, task, inbox>>

\* unsubscribe: the entry is taken out before its task is cancelled.
unsubscribe == /\ Local /\ waiter = "nobody" /\ subscribed
               /\ subscribed' = FALSE /\ waiter' = "unsubscribe"
               /\ NoCall /\ UNCHANGED <<running, task, inbox>>

\* The task has ended: stop forgets the subscriptions; the lock is released.
TaskAwaited == /\ Local /\ waiter # "nobody" /\ task = "none"
               /\ subscribed' = (subscribed /\ waiter # "stop")
               /\ waiter' = "nobody"
               /\ NoCall /\ UNCHANGED <<running, task, inbox>>

\* CancelledError at any await of the task.  It passes the handlers of
\* get_redis_async, which leave the untested client where it is.
Cancelled == /\ Local /\ waiter # "nobody" /\ task # "none"
             /\ task' = "none" /\ inbox' = 0
             /\ pc' = Set(pc, Listener, "idle") /\ mine' = Set(mine, Listener, None)
             /\ UNCHANGED <<op, got, tries, running, subscribed, waiter>>

-----------------------------------------------------------------------------
(* The task: _listen_loop                                                  *)

\* It asks for the client; without one it sleeps and asks again.
ListenerGets == /\ task = "get" /\ Get(Listener)
                /\ task' = IF pc'[Listener] # "idle" THEN "get"
                           ELSE IF handle' = None THEN "backoff" ELSE "subscribe"
                /\ UNCHANGED <<running, subscribed, waiter, inbox>>

\* SUBSCRIBE is answered, or raises.
ListenerSubscribes == /\ Local /\ task = "subscribe"
                      /\ task' = IF up THEN "live" ELSE "backoff"
                      /\ NoCall /\ UNCHANGED <<running, subscribed, waiter, inbox>>

\* A message is handled (its errors are logged), or the connection is lost and
\* what was in it too.
ListenerReads ==
    /\ Local /\ NoCall /\ UNCHANGED <<running, subscribed, waiter>>
    /\ \/ task = "live" /\ up /\ inbox > 0 /\ task' = "handler" /\ inbox' = inbox - 1
       \/ task = "handler" /\ task' = "live" /\ UNCHANGED inbox
       \/ task = "live" /\ ~up /\ task' = "backoff" /\ inbox' = 0

\* The sleep of at most 60 seconds ends; the loop goes on while running.
ListenerRetries == /\ Local /\ task = "backoff"
                   /\ task' = IF running THEN "get" ELSE "none"
                   /\ pc' = Set(pc, Listener, IF running THEN "get" ELSE "idle")
                   /\ UNCHANGED <<op, mine, got, tries, running, subscribed, waiter, inbox>>

\* Mutant: a lost connection ends the loop.
_listen_loop_once ==
    \/ ListenerGets \/ ListenerSubscribes \/ ListenerReads
    \/ /\ Local /\ task = "backoff" /\ task' = "none"
       /\ NoCall /\ UNCHANGED <<running, subscribed, waiter, inbox>>

_listen_loop == ListenerGets \/ ListenerSubscribes \/ ListenerReads \/ ListenerRetries

\* A message published by any worker reaches a connection that is subscribed.
publish == /\ Local /\ up /\ inbox < MaxInbox /\ task \in {"live", "handler"}
           /\ inbox' = inbox + 1
           /\ NoCall /\ UNCHANGED <<running, subscribed, waiter, task>>

-----------------------------------------------------------------------------
\* With a store other than Redis the listener is a caller like the rest.
Others == \/ \E c \in Callers : /\ c # Listener \/ store # "redis"
                              /\ (_warmup_services(c) \/ Request(c) \/ Get(c) \/ Use(c))
          \/ Close \/ Toggle

PubSubNext == \/ Others /\ UNCHANGED pubsub
              \/ start \/ subscribe \/ stop \/ unsubscribe \/ TaskAwaited \/ Cancelled
              \/ _listen_loop \/ publish

PubSubFairness ==
    /\ \A c \in Callers : LET Apart == c # Listener \/ store # "redis" IN
                          /\ WF_allvars(Apart /\ Get(c) /\ UNCHANGED pubsub)
                          /\ WF_allvars(Apart /\ Use(c) /\ UNCHANGED pubsub)
    /\ WF_allvars(Closed /\ UNCHANGED <<server, made, lost, call, pubsub>>)
    /\ WF_allvars(_listen_loop) /\ WF_allvars(Cancelled) /\ WF_allvars(TaskAwaited)

PubSubSpec == PubSubInit /\ [][PubSubNext]_allvars /\ PubSubFairness

-----------------------------------------------------------------------------
(* Properties                                                              *)

\* Every subscribed channel has its task and every task its channel, except
\* while a call holds the lock for a cancelled task: no handler runs for a
\* channel that was given up, and none is lost while its channel is listed.
OneListener == waiter = "nobody" => /\ subscribed = (task # "none")
                                    /\ subscribed => running

\* The promised reconnection, as far as it goes: a channel that stays
\* subscribed while Redis stays up is listened to in the end, if no attempt to
\* make the Redis client ever failed.
ListenerReconnects == <>[](up /\ subscribed) => []<>(task = "live" \/ failed \/ made = MaxClients)

=============================================================================
