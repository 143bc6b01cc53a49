------------------------------- MODULE Tasks --------------------------------
(***************************************************************************)
(* The tasks of a run of Leosac and how they are chained: the constants    *)
(* that the scheduler's promise (Scheduling) and its implementation        *)
(* (TaskScheduler) share.  A task is a Task object of core/tasks; the only *)
(* thing a status callback does in the code base, as far as the scheduler  *)
(* is concerned, is to enqueue one further task.                           *)
(***************************************************************************)

CONSTANTS
    Task,      \* the task objects of a run of the program
    None,      \* no task (an empty callback, a thread that waits for nothing)
               \* and no client (a mutex nobody holds)
    Client,    \* the threads that enqueue tasks (modules, poll handlers)
    Target,    \* the thread a task is enqueued for
    OnSuccess, \* the task that the on_success_ callback of a task enqueues
    OnFailure  \* the task that the on_failure_ callback of a task enqueues

ASSUME TaskAssumption == None \notin Task \cup Client

ASSUME TargetAssumption == Target \in [Task -> {"MAIN", "POOL"}]

\* The tasks that the callbacks of t may enqueue.
Callbacks(t) == {OnSuccess[t], OnFailure[t]} \ {None}

\* A task handed to a callback is a fresh object that nobody else enqueues.
ASSUME CallbackAssumption ==
    /\ OnSuccess \in [Task -> Task \cup {None}]
    /\ OnFailure \in [Task -> Task \cup {None}]
    /\ \A t, u \in Task : \A k \in Callbacks(t) :
          k # t /\ (k \in Callbacks(u) => u = t)

\* The tasks that a client enqueues itself.
Root == {t \in Task : \A u \in Task : t \notin Callbacks(u)}

\* The task that the callback of t enqueues when t ends with status ok.
Successor(t, ok) == IF ok THEN OnSuccess[t] ELSE OnFailure[t]
=============================================================================
