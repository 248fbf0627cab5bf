---------------------------- MODULE TaskService ----------------------------
(***************************************************************************)
(* What a thread pool promises its callers, with no lock and no thread:    *)
(* tasks are started in the order in which they were accepted, each at     *)
(* most once, and finished at most once, a closing pool refuses new work   *)
(* except what was already under way, and a graceful close returns only    *)
(* when every task it owes has finished.                                   *)
(***************************************************************************)
EXTENDS Naturals, Sequences

CONSTANT Tasks

VARIABLES status,   \* status[t]: how far the task has got
          line,     \* the accepted tasks that have not started, first come first
          phase,    \* "open", "closing" or "closed"
          owed      \* tasks a graceful close must see finished

vars == <<status, line, phase, owed>>

Status == {"new", "submitting", "refused", "queued", "running", "done", "dropped"}
Accepted == {"queued", "running", "done"}

TypeOK == /\ status \in [Tasks -> Status]
          /\ line \in Seq(Tasks)
          /\ phase \in {"open", "closing", "closed"}
          /\ owed \in SUBSET Tasks

Init == /\ status = [t \in Tasks |-> "new"]
        /\ line = <<>>
        /\ phase = "open"
        /\ owed = {}

Move(t, from, to) == /\ status[t] = from
                     /\ status' = [status EXCEPT ![t] = to]
                     /\ UNCHANGED <<phase, owed>>

Offer(t) == phase = "open" /\ Move(t, "new", "submitting") /\ UNCHANGED line
Refuse(t) == (Move(t, "new", "refused") \/ Move(t, "submitting", "refused")) /\ UNCHANGED line
Accept(t) == Move(t, "submitting", "queued") /\ line' = Append(line, t)
Finish(t) == Move(t, "running", "done") /\ UNCHANGED line

\* The first in line starts.
Start(t) == /\ phase # "closed" /\ line # <<>> /\ t = Head(line)
            /\ Move(t, "queued", "running") /\ line' = Tail(line)

\* A graceful close owes every task accepted so far, an immediate one owes none.
StartClose == /\ phase = "open"
              /\ phase' = "closing"
              /\ owed' \in {{}, {t \in Tasks : status[t] \in Accepted}}
              /\ UNCHANGED <<status, line>>

\* Only a close that owes nothing may drop tasks, and only tasks not yet started.
Drop == /\ phase = "closing"
        /\ owed = {}
        /\ status' = [t \in Tasks |-> IF status[t] = "queued" THEN "dropped" ELSE status[t]]
        /\ line' = <<>>
        /\ UNCHANGED <<phase, owed>>

FinishClose == /\ phase = "closing"
               /\ \A t \in Tasks : status[t] # "running"
               /\ \A t \in owed : status[t] = "done"
               /\ phase' = "closed"
               /\ UNCHANGED <<status, line, owed>>

Next == \/ \E t \in Tasks : \/ Offer(t) \/ Refuse(t) \/ Accept(t)
                            \/ Start(t) \/ Finish(t)
        \/ StartClose \/ Drop \/ FinishClose

Spec == Init /\ [][Next]_vars
=============================================================================
