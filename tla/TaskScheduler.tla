---------------------------- MODULE TaskScheduler ---------------------------
(***************************************************************************)
(* core/Scheduler.cpp and core/tasks/Task.cpp, step by step.               *)
(*                                                                         *)
(* The main thread alternates between its reactor and Scheduler::update(), *)
(* which reads the length of the queue once and then pops and runs that    *)
(* many tasks.  A POOL task has a detached thread of its own.  Clients     *)
(* (module threads, handlers) enqueue tasks at any time and may block in   *)
(* Task::wait(), whose mutex and condition variable are modelled with the  *)
(* steps another thread can come between.                                  *)
(***************************************************************************)
EXTENDS Naturals, Sequences, Tasks

VARIABLES
    queue,     \* queues_[MAIN]
    run,       \* the local `run` of update(): tasks this call still has to run
    current,   \* the task the main thread has popped and runs, or None
    batch,     \* history: the tasks that were queued when update() last read size()
    stage,     \* where Task::run is for each task
    success,   \* success_
    eptr,      \* TRUE when eptr_ holds the exception of do_run()
    complete,  \* complete_
    mutex,     \* the client that holds the task's mutex_, or None
    pc,        \* where each client is in Task::wait()
    waiting    \* the task each client waits for, or None

taskVars == <<stage, success, eptr, complete>>
mainVars == <<queue, run, current, batch>>
waitVars == <<mutex, pc, waiting>>
vars == <<mainVars, taskVars, waitVars>>

\* "queued": in the queue, or its thread is started; "callback": do_run() has
\* ended; "store": callbacks done, complete_ not stored yet; "notify": before
\* notify_all().
Stage == {"new", "queued", "do_run", "callback", "store", "notify", "done"}

\* "lock": calls wait(); "check": evaluates the predicate with the mutex held;
\* "sleep": the predicate was false; "asleep": blocked on cv_, mutex released;
\* "woken": must take the mutex again.
Pc == {"idle", "lock", "check", "sleep", "asleep", "woken"}

TypeOK ==
    /\ queue \in Seq(Task)
    /\ run \in Nat
    /\ current \in Task \cup {None}
    /\ batch \subseteq Task
    /\ stage \in [Task -> Stage]
    /\ success \in [Task -> BOOLEAN]
    /\ eptr \in [Task -> BOOLEAN]
    /\ complete \in [Task -> BOOLEAN]
    /\ mutex \in [Task -> Client \cup {None}]
    /\ pc \in [Client -> Pc]
    /\ waiting \in [Client -> Task \cup {None}]

Init ==
    /\ queue = <<>>
    /\ run = 0
    /\ current = None
    /\ batch = {}
    /\ stage = [t \in Task |-> "new"]
    /\ success = [t \in Task |-> FALSE]
    /\ eptr = [t \in Task |-> FALSE]
    /\ complete = [t \in Task |-> FALSE]
    /\ mutex = [t \in Task |-> None]
    /\ pc = [c \in Client |-> "idle"]
    /\ waiting = [c \in Client |-> None]

-----------------------------------------------------------------------------
(* Scheduler *)
\* Mutant of Enqueued: every task goes through the queue, even a null one.
EnqueuedAlways(t) == Append(queue, t)

\* The queue after enqueue(t): only MAIN tasks go through it, the thread of a
\* POOL task is started at once.
Enqueued(t) ==
    IF t \in Task /\ Target[t] = "MAIN" THEN Append(queue, t) ELSE queue

\* Client c calls enqueue(t), and then wait() on it if `block`.
Submit(c, t, block) ==
    /\ pc[c] = "idle"
    /\ stage[t] = "new"
    /\ stage' = [stage EXCEPT ![t] = "queued"]
    /\ queue' = Enqueued(t)
    /\ \/ /\ block
          /\ pc' = [pc EXCEPT ![c] = "lock"]
          /\ waiting' = [waiting EXCEPT ![c] = t]
       \/ /\ ~block
          /\ UNCHANGED <<pc, waiting>>
    /\ UNCHANGED <<run, current, batch, success, eptr, complete, mutex>>
\* Mutant of UpdateStart: one task is left behind.
UpdateStartShort ==
    /\ run = 0
    /\ run' = IF queue = <<>> THEN 0 ELSE Len(queue) - 1
    /\ batch' = {queue[i] : i \in DOMAIN queue}
    /\ UNCHANGED <<queue, current, taskVars, waitVars>>

\* update() reads the number of tasks it is going to run.
UpdateStart ==
    /\ run = 0
    /\ run' = Len(queue)
    /\ batch' = {queue[i] : i \in DOMAIN queue}
    /\ UNCHANGED <<queue, current, taskVars, waitVars>>
\* Mutant of UpdatePop: front() without pop().
UpdatePopKeepsFront ==
    /\ run > 0
    /\ current = None
    /\ current' = Head(queue)
    /\ stage' = [stage EXCEPT ![Head(queue)] = "do_run"]
    /\ UNCHANGED <<queue, run, batch, success, eptr, complete, waitVars>>

\* Mutant of UpdatePop: the queue is a stack.
UpdatePopNewest ==
    /\ run > 0
    /\ current = None
    /\ current' = queue[Len(queue)]
    /\ queue' = SubSeq(queue, 1, Len(queue) - 1)
    /\ stage' = [stage EXCEPT ![queue[Len(queue)]] = "do_run"]
    /\ UNCHANGED <<run, batch, success, eptr, complete, waitVars>>

\* update() pops a task and enters its run().
UpdatePop ==
    /\ run > 0
    /\ current = None
    /\ current' = Head(queue)
    /\ queue' = Tail(queue)
    /\ stage' = [stage EXCEPT ![Head(queue)] = "do_run"]
    /\ UNCHANGED <<run, batch, success, eptr, complete, waitVars>>
\* Mutant of UpdateTaskDone: `run--` is missing.
UpdateTaskDoneKeepsRun ==
    /\ current \in Task
    /\ stage[current] = "done"
    /\ current' = None
    /\ UNCHANGED <<queue, run, batch, taskVars, waitVars>>

\* Mutant of UpdateTaskDone: the loop is `while (!queue.empty())`.
UpdateTaskDoneRereads ==
    /\ current \in Task
    /\ stage[current] = "done"
    /\ current' = None
    /\ run' = Len(queue)
    /\ UNCHANGED <<queue, batch, taskVars, waitVars>>

\* run() has returned to update().
UpdateTaskDone ==
    /\ current \in Task
    /\ stage[current] = "done"
    /\ current' = None
    /\ run' = run - 1
    /\ UNCHANGED <<queue, batch, taskVars, waitVars>>

\* The detached thread of a POOL task enters run().
PoolStart(t) ==
    /\ Target[t] = "POOL"
    /\ stage[t] = "queued"
    /\ stage' = [stage EXCEPT ![t] = "do_run"]
    /\ UNCHANGED <<mainVars, success, eptr, complete, waitVars>>

-----------------------------------------------------------------------------
(* Task::run *)
\* Mutant of DoRun: complete_ is stored before the callbacks are called.
DoRunCompletes(t, outcome) ==
    /\ stage[t] = "do_run"
    /\ success' = [success EXCEPT ![t] = (outcome = "true")]
    /\ eptr' = [eptr EXCEPT ![t] = (outcome = "throw")]
    /\ complete' = [complete EXCEPT ![t] = TRUE]
    /\ stage' = [stage EXCEPT ![t] = "callback"]
    /\ UNCHANGED <<mainVars, waitVars>>

\* do_run() returns true or false, or throws; success_ keeps its initial value
\* when it throws.
DoRun(t, outcome) ==
    /\ stage[t] = "do_run"
    /\ success' = [success EXCEPT ![t] = (outcome = "true")]
    /\ eptr' = [eptr EXCEPT ![t] = (outcome = "throw")]
    /\ stage' = [stage EXCEPT ![t] = "callback"]
    /\ UNCHANGED <<mainVars, complete, waitVars>>

\* on_success_() or on_failure_() enqueues the next task, if there is one.
\* on_completion_ is never set, and the callbacks are emptied afterwards.
Callback(t) ==
    /\ stage[t] = "callback"
    /\ stage' = [u \in Task |-> IF u = t THEN "store"
                                ELSE IF u = Successor(t, success[t]) THEN "queued"
                                ELSE stage[u]]
    /\ queue' = Enqueued(Successor(t, success[t]))
    /\ UNCHANGED <<run, current, batch, success, eptr, complete, waitVars>>
\* Mutant of StoreComplete: complete_ is atomic, so the mutex is left out.
StoreCompleteUnlocked(t) ==
    /\ stage[t] = "store"
    /\ complete' = [complete EXCEPT ![t] = TRUE]
    /\ stage' = [stage EXCEPT ![t] = "notify"]
    /\ UNCHANGED <<mainVars, success, eptr, waitVars>>

\* complete_ is stored with mutex_ held.
StoreComplete(t) ==
    /\ stage[t] = "store"
    /\ mutex[t] = None
    /\ complete' = [complete EXCEPT ![t] = TRUE]
    /\ stage' = [stage EXCEPT ![t] = "notify"]
    /\ UNCHANGED <<mainVars, success, eptr, waitVars>>
\* Mutant of NotifyAll: the call is missing.
NotifyNobody(t) ==
    /\ stage[t] = "notify"
    /\ stage' = [stage EXCEPT ![t] = "done"]
    /\ UNCHANGED <<mainVars, success, eptr, complete, waitVars>>

\* cv_.notify_all(): whoever is blocked on cv_ wakes up.
NotifyAll(t) ==
    /\ stage[t] = "notify"
    /\ stage' = [stage EXCEPT ![t] = "done"]
    /\ pc' = [c \in Client |-> IF pc[c] = "asleep" /\ waiting[c] = t
                               THEN "woken" ELSE pc[c]]
    /\ UNCHANGED <<mainVars, success, eptr, complete, mutex, waiting>>

-----------------------------------------------------------------------------
(* Task::wait *)

\* wait() takes the mutex, the first time or after a wake-up.
WaitLock(c) ==
    /\ pc[c] \in {"lock", "woken"}
    /\ mutex[waiting[c]] = None
    /\ mutex' = [mutex EXCEPT ![waiting[c]] = c]
    /\ pc' = [pc EXCEPT ![c] = "check"]
    /\ UNCHANGED <<mainVars, taskVars, waiting>>

\* The predicate of cv_.wait() is false: the client is going to block.
WaitCheck(c) ==
    /\ pc[c] = "check"
    /\ ~complete[waiting[c]]
    /\ pc' = [pc EXCEPT ![c] = "sleep"]
    /\ UNCHANGED <<mainVars, taskVars, mutex, waiting>>

\* The predicate is true: the mutex is released and wait() returns.
WaitReturn(c) ==
    /\ pc[c] = "check"
    /\ complete[waiting[c]]
    /\ mutex' = [mutex EXCEPT ![waiting[c]] = None]
    /\ pc' = [pc EXCEPT ![c] = "idle"]
    /\ waiting' = [waiting EXCEPT ![c] = None]
    /\ UNCHANGED <<mainVars, taskVars>>

\* The condition variable releases the mutex and blocks, in one step.
WaitSleep(c) ==
    /\ pc[c] = "sleep"
    /\ mutex' = [mutex EXCEPT ![waiting[c]] = None]
    /\ pc' = [pc EXCEPT ![c] = "asleep"]
    /\ UNCHANGED <<mainVars, taskVars, waiting>>

\* A condition variable may wake a thread up for no reason.
SpuriousWakeup(c) ==
    /\ pc[c] = "asleep"
    /\ pc' = [pc EXCEPT ![c] = "woken"]
    /\ UNCHANGED <<mainVars, taskVars, mutex, waiting>>

-----------------------------------------------------------------------------
Outcome == {"true", "false", "throw"}

RunStep(t) ==
    \/ PoolStart(t)
    \/ \E outcome \in Outcome : DoRun(t, outcome)
    \/ Callback(t)
    \/ StoreComplete(t)
    \/ NotifyAll(t)

WaitStep(c) == WaitLock(c) \/ WaitCheck(c) \/ WaitReturn(c) \/ WaitSleep(c)

Next ==
    \/ \E c \in Client, t \in Root, block \in BOOLEAN : Submit(c, t, block)
    \/ UpdateStart \/ UpdatePop \/ UpdateTaskDone
    \/ \E t \in Task : RunStep(t)
    \/ \E c \in Client : WaitStep(c) \/ SpuriousWakeup(c)

\* The main loop goes on for ever and threads make progress.  do_run() ends.
\* Spurious wake-ups may make a client take and release the mutex again and
\* again; whoever wants the mutex then gets it some time.
Fairness ==
    /\ WF_vars(UpdateStart) /\ WF_vars(UpdatePop) /\ WF_vars(UpdateTaskDone)
    /\ \A t \in Task : WF_vars(RunStep(t)) /\ SF_vars(StoreComplete(t))
    /\ \A c \in Client : WF_vars(WaitStep(c)) /\ SF_vars(WaitLock(c))

Spec == Init /\ [][Next]_vars

FairSpec == Spec /\ Fairness
-----------------------------------------------------------------------------
(* Properties *)

\* update() reads size() under the lock, releases the lock, and then calls
\* front() and pop() that many times without looking again: the queue is never
\* empty when it does, whoever enqueues in between.
UpdateFindsTasks ==
    run <= Len(queue) + (IF current = None THEN 0 ELSE 1)

\* No task is lost or queued twice: the queue holds each MAIN task that has been
\* enqueued and not started yet, once.
QueueHoldsPending ==
    /\ {queue[i] : i \in DOMAIN queue} =
          {t \in Task : Target[t] = "MAIN" /\ stage[t] = "queued"}
    /\ \A i, j \in DOMAIN queue : queue[i] = queue[j] => i = j

\* A call of update() runs only tasks that were in the queue when it started, so
\* tasks that enqueue further tasks cannot keep the main thread from its reactor.
UpdateIsBounded == current \in batch \cup {None}

\* No wake-up is lost: a client is never blocked on the condition variable of a
\* task whose notify_all() is over.
NoLostWakeup ==
    \A c \in Client : pc[c] = "asleep" => stage[waiting[c]] # "done"

\* Who sees a task complete also sees what its callback did: the next task of the
\* chain has been enqueued.
CompleteAfterCallback ==
    \A t \in Task : LET next == Successor(t, success[t])
                   IN  complete[t] /\ next # None => stage[next] # "new"

\* Every task that is enqueued is run to its end.
EnqueuedCompletes ==
    \A t \in Task : stage[t] = "queued" ~> stage[t] = "done"

\* Every call of wait() returns.
WaitReturns == \A c \in Client : pc[c] = "lock" ~> pc[c] = "idle"

-----------------------------------------------------------------------------
(* Refinement of Scheduling *)

AbstractStage ==
    [t \in Task |-> CASE stage[t] \in {"do_run", "callback"} -> "running"
                      [] stage[t] = "store"                -> "ended"
                      [] stage[t] \in {"notify", "done"}   -> "complete"
                      [] OTHER                             -> stage[t]]

AbstractSuccess ==
    [t \in Task |-> stage[t] \in {"store", "notify", "done"} /\ success[t]]

Promise == INSTANCE Scheduling WITH
    stage <- AbstractStage, success <- AbstractSuccess

\* The queue, the counter, the mutexes and the condition variables implement the
\* promise of Scheduling: tasks run once, MAIN tasks one by one in the order they
\* were enqueued, and wait() returns only when the task is complete.
KeepsPromise == Promise!Spec
=============================================================================
