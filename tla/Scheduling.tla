----------------------------- MODULE Scheduling -----------------------------
(***************************************************************************)
(* What the task scheduler of Leosac promises to the threads that use it   *)
(* (core/Scheduler.hpp, core/tasks/Task.hpp), without saying how:          *)
(*                                                                         *)
(*   - a task that is enqueued is run once, MAIN tasks one at a time and   *)
(*     in the order they were enqueued, POOL tasks whenever they like;     *)
(*   - when the body of a task ends, its status callback may enqueue one   *)
(*     further task, and only then does the task become complete;          *)
(*   - a thread that waits for a task goes on once the task is complete.   *)
(*                                                                         *)
(* TaskScheduler implements this specification with a queue, a counter, a  *)
(* mutex and a condition variable per task.  ConfigSync builds on it.      *)
(***************************************************************************)
EXTENDS Naturals, Sequences, Tasks

VARIABLES
    queue,   \* MAIN tasks that wait for the main thread, oldest first
    stage,   \* how far each task is
    success, \* the status of a task whose body has ended
    waiting  \* the task each client waits for, or None

vars == <<queue, stage, success, waiting>>

Stage == {"new", "queued", "running", "ended", "complete"}

TypeOK ==
    /\ queue \in Seq(Task)
    /\ stage \in [Task -> Stage]
    /\ success \in [Task -> BOOLEAN]
    /\ waiting \in [Client -> Task \cup {None}]

Init ==
    /\ queue = <<>>
    /\ stage = [t \in Task |-> "new"]
    /\ success = [t \in Task |-> FALSE]
    /\ waiting = [c \in Client |-> None]

\* The queue once t has been enqueued: only MAIN tasks go through it.
Enqueued(t) ==
    IF t \in Task /\ Target[t] = "MAIN" THEN Append(queue, t) ELSE queue

\* No task is running on the main thread.
MainIdle ==
    \A t \in Task : Target[t] = "MAIN" => stage[t] \notin {"running", "ended"}

\* Client c enqueues t and, if `block`, waits for it.
Submit(c, t, block) ==
    /\ waiting[c] = None
    /\ stage[t] = "new"
    /\ stage' = [stage EXCEPT ![t] = "queued"]
    /\ queue' = Enqueued(t)
    /\ waiting' = IF block THEN [waiting EXCEPT ![c] = t] ELSE waiting
    /\ UNCHANGED success

\* The thread t is meant for starts it.
Begin(t) ==
    /\ stage[t] = "queued"
    /\ \/ /\ Target[t] = "POOL"
          /\ queue' = queue
       \/ /\ Target[t] = "MAIN"
          /\ MainIdle
          /\ queue # <<>> /\ t = Head(queue)
          /\ queue' = Tail(queue)
    /\ stage' = [stage EXCEPT ![t] = "running"]
    /\ UNCHANGED <<success, waiting>>

\* The body of t ends with status ok and its callback is run.
Finish(t, ok) ==
    /\ stage[t] = "running"
    /\ success' = [success EXCEPT ![t] = ok]
    /\ stage' = [u \in Task |-> IF u = t THEN "ended"
                                ELSE IF u = Successor(t, ok) THEN "queued"
                                ELSE stage[u]]
    /\ queue' = Enqueued(Successor(t, ok))
    /\ UNCHANGED waiting

\* t is complete: from now on is_complete() is true.
Complete(t) ==
    /\ stage[t] = "ended"
    /\ stage' = [stage EXCEPT ![t] = "complete"]
    /\ UNCHANGED <<queue, success, waiting>>

\* The wait() of client c returns.
Return(c) ==
    /\ waiting[c] \in Task
    /\ stage[waiting[c]] = "complete"
    /\ waiting' = [waiting EXCEPT ![c] = None]
    /\ UNCHANGED <<queue, stage, success>>

Next ==
    \/ \E c \in Client, t \in Root, block \in BOOLEAN : Submit(c, t, block)
    \/ \E t \in Task : Begin(t) \/ Complete(t)
    \/ \E t \in Task, ok \in BOOLEAN : Finish(t, ok)
    \/ \E c \in Client : Return(c)

Spec == Init /\ [][Next]_vars
=============================================================================
