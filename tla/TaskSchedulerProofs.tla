------------------------- MODULE TaskSchedulerProofs ------------------------
(***************************************************************************)
(* Proofs about TaskScheduler, for every set of tasks and clients and      *)
(* every way of chaining tasks with callbacks.                             *)
(***************************************************************************)
EXTENDS TaskScheduler, TLAPS

Running == {"do_run", "callback", "store", "notify"}

\* 1 while the main thread is inside Task::run, 0 otherwise.
Popped == IF current = None THEN 0 ELSE 1

\* update() is the only consumer of the queue and never runs two tasks at once.
MainInv ==
    /\ run <= Len(queue) + Popped
    /\ current # None =>
          run > 0 /\ Target[current] = "MAIN" /\ stage[current] \in Running \cup {"done"}
    /\ \A t \in Task : Target[t] = "MAIN" /\ stage[t] \in Running => t = current

QueueInv ==
    /\ \A i \in 1..Len(queue) : Target[queue[i]] = "MAIN" /\ stage[queue[i]] = "queued"
    /\ \A t \in Task : Target[t] = "MAIN" /\ stage[t] = "queued" =>
          \E i \in 1..Len(queue) : queue[i] = t
    /\ \A i, j \in 1..Len(queue) : queue[i] = queue[j] => i = j

BatchInv ==
    /\ current \in batch \cup {None}
    /\ \A i \in 1..Len(queue) : i <= run - Popped => queue[i] \in batch

\* The tasks a callback may enqueue are untouched until the callback is called.
CallbackInv ==
    \A t \in Task :
        /\ stage[t] \in {"new", "queued", "do_run", "callback"} =>
              \A k \in Callbacks(t) : stage[k] = "new"
        /\ stage[t] \in {"store", "notify", "done"} =>
              (Successor(t, success[t]) # None => stage[Successor(t, success[t])] # "new")

CompleteInv == \A t \in Task : complete[t] <=> stage[t] \in {"notify", "done"}

\* A client holds the mutex of the task it waits for exactly in "check" and
\* "sleep", and in "sleep" the task cannot become complete behind its back.
WaitInv ==
    \A c \in Client :
        /\ pc[c] = "idle" <=> waiting[c] = None
        /\ pc[c] \in {"check", "sleep"} => mutex[waiting[c]] = c
        /\ \A t \in Task : mutex[t] = c => waiting[c] = t /\ pc[c] \in {"check", "sleep"}
        /\ pc[c] = "sleep" => ~complete[waiting[c]]
        /\ pc[c] = "asleep" => stage[waiting[c]] # "done"

IInv ==
    TypeOK /\ MainInv /\ QueueInv /\ BatchInv /\ CallbackInv /\ CompleteInv /\ WaitInv

-----------------------------------------------------------------------------
(* Sequences *)

\* What push() does to a queue.
LEMMA AppendFacts ==
    ASSUME NEW S, NEW q \in Seq(S), NEW x \in S
    PROVE  /\ Append(q, x) \in Seq(S)
           /\ Len(Append(q, x)) = Len(q) + 1
           /\ \A i \in 1..Len(q) : Append(q, x)[i] = q[i]
           /\ Append(q, x)[Len(q) + 1] = x
  OBVIOUS

\* What front() and pop() do to a queue that is not empty.
LEMMA TailFacts ==
    ASSUME NEW S, NEW q \in Seq(S), Len(q) > 0
    PROVE  /\ Head(q) \in S /\ Head(q) = q[1]
           /\ Tail(q) \in Seq(S)
           /\ Len(Tail(q)) = Len(q) - 1
           /\ \A i \in 1..Len(q) - 1 : Tail(q)[i] = q[i + 1]
  OBVIOUS

\* Callbacks enqueue tasks.
LEMMA CallbackFacts == \A t \in Task : Callbacks(t) \subseteq Task
  <1>1. \A t \in Task : OnSuccess[t] \in Task \cup {None} /\ OnFailure[t] \in Task \cup {None}
    BY CallbackAssumption
  <1>. QED BY <1>1 DEF Callbacks

\* Successors are tasks of the chain.
LEMMA SuccessorFacts ==
    ASSUME NEW t \in Task, NEW ok \in BOOLEAN
    PROVE  /\ Successor(t, ok) \in Task \cup {None}
           /\ Successor(t, ok) # None => Successor(t, ok) \in Callbacks(t)
           /\ Successor(t, ok) # t
  BY TaskAssumption, CallbackAssumption DEF Successor, Callbacks

\* enqueue(t) for a new task t keeps the queue in order and does not disturb the
\* update() in progress.
LEMMA EnqueueKeepsQueue ==
    ASSUME TypeOK, QueueInv, MainInv, BatchInv, stage' \in [Task -> Stage],
           NEW t \in Task \cup {None},
           t \in Task => stage[t] = "new" /\ stage'[t] = "queued",
           \A u \in Task : u # t => (stage'[u] = "queued" <=> stage[u] = "queued"),
           queue' = Enqueued(t), run' = run, current' = current, batch' = batch
    PROVE  /\ queue' \in Seq(Task)
           /\ QueueInv'
           /\ run' <= Len(queue') + Popped'
           /\ BatchInv'
  <1>. USE TaskAssumption, TargetAssumption
  <1>1. CASE t \in Task /\ Target[t] = "MAIN"
    <2>1. queue' = Append(queue, t)
      BY <1>1 DEF Enqueued
    <2>2. /\ queue' \in Seq(Task)
          /\ Len(queue') = Len(queue) + 1
          /\ \A i \in 1..Len(queue) : queue'[i] = queue[i]
          /\ queue'[Len(queue) + 1] = t
      BY <1>1, <2>1, AppendFacts DEF TypeOK
    <2>3. \A i \in 1..Len(queue) : queue[i] \in Task /\ queue[i] # t
      BY <1>1 DEF TypeOK, QueueInv
    <2>4. QueueInv'
      <3>0. \A i \in 1..Len(queue') : i \in 1..Len(queue) \/ i = Len(queue) + 1
        BY <2>2 DEF TypeOK
      <3>1. ASSUME NEW i \in 1..Len(queue')
            PROVE  Target[queue'[i]] = "MAIN" /\ stage'[queue'[i]] = "queued"
        <4>1. CASE i \in 1..Len(queue)
          BY <4>1, <2>2, <2>3 DEF QueueInv
        <4>2. CASE i = Len(queue) + 1
          BY <4>2, <1>1, <2>2
        <4>. QED BY <3>0, <4>1, <4>2
      <3>2. ASSUME NEW u \in Task, Target[u] = "MAIN", stage'[u] = "queued"
            PROVE  \E i \in 1..Len(queue') : queue'[i] = u
        <4>1. CASE u = t
          BY <4>1, <2>2 DEF TypeOK
        <4>2. CASE u # t
          <5>1. PICK i \in 1..Len(queue) : queue[i] = u
            BY <3>2, <4>2 DEF QueueInv
          <5>. QED BY <5>1, <2>2 DEF TypeOK
        <4>. QED BY <4>1, <4>2
      <3>3. \A i, j \in 1..Len(queue') : queue'[i] = queue'[j] => i = j
        BY <1>1, <2>2, <2>3 DEF QueueInv, TypeOK
      <3>. QED BY <3>1, <3>2, <3>3 DEF QueueInv
    <2>5. run' <= Len(queue') + Popped'
      BY <2>2 DEF MainInv, Popped, TypeOK
    <2>6. BatchInv'
      <3>1. \A i \in 1..Len(queue') : i <= run - Popped => i \in 1..Len(queue)
        BY <2>2 DEF MainInv, Popped, TypeOK
      <3>. QED BY <2>2, <3>1 DEF BatchInv, Popped
    <2>. QED BY <2>2, <2>4, <2>5, <2>6
  <1>2. CASE ~(t \in Task /\ Target[t] = "MAIN")
    <2>1. queue' = queue
      BY <1>2 DEF Enqueued
    <2>2. \A i \in 1..Len(queue) : queue[i] \in Task /\ queue[i] # t
      BY <1>2 DEF TypeOK, QueueInv
    <2>3. QueueInv'
      BY <1>2, <2>1, <2>2 DEF QueueInv
    <2>. QED BY <2>1, <2>3 DEF TypeOK, MainInv, BatchInv, Popped
  <1>. QED BY <1>1, <1>2

-----------------------------------------------------------------------------
(* The steps of the main thread *)

\* The initial state satisfies the invariant.
LEMMA InitIInv == Init => IInv
  <1>. SUFFICES ASSUME Init PROVE IInv
    OBVIOUS
  <1>. USE TaskAssumption DEF Init
  <1>1. TypeOK
    BY DEF TypeOK, Stage, Pc
  <1>2. MainInv /\ QueueInv /\ BatchInv
    BY DEF MainInv, QueueInv, BatchInv, Popped, Running
  <1>3. CallbackInv
    BY CallbackFacts DEF CallbackInv
  <1>4. CompleteInv /\ WaitInv
    BY DEF CompleteInv, WaitInv
  <1>. QED BY <1>1, <1>2, <1>3, <1>4 DEF IInv

\* A client that enqueues a task, and perhaps calls wait(), keeps the invariant.
LEMMA SubmitIInv ==
    ASSUME IInv, NEW c \in Client, NEW t \in Root, NEW block \in BOOLEAN,
           Submit(c, t, block)
    PROVE  IInv'
  <1>. USE TaskAssumption DEF IInv
  <1>0. t \in Task /\ (\A u \in Task : t \notin Callbacks(u))
    BY DEF Root
  <1>1. stage' \in [Task -> Stage] /\ stage[t] = "new" /\ stage'[t] = "queued"
        /\ \A u \in Task : u # t => stage'[u] = stage[u]
    BY <1>0 DEF Submit, TypeOK, Stage
  <1>2. queue' \in Seq(Task) /\ QueueInv' /\ run' <= Len(queue') + Popped' /\ BatchInv'
    BY <1>0, <1>1, EnqueueKeepsQueue DEF Submit
  <1>3. TypeOK'
    BY <1>0, <1>1, <1>2 DEF Submit, TypeOK, Pc
  <1>4. MainInv'
    BY <1>0, <1>1, <1>2 DEF Submit, MainInv, TypeOK, Running
  <1>5. CallbackInv'
    <2>. SUFFICES ASSUME NEW u \in Task
                  PROVE  /\ stage'[u] \in {"new", "queued", "do_run", "callback"} =>
                              \A k \in Callbacks(u) : stage'[k] = "new"
                         /\ stage'[u] \in {"store", "notify", "done"} =>
                              (Successor(u, success'[u]) # None =>
                                 stage'[Successor(u, success'[u])] # "new")
      BY DEF CallbackInv
    <2>1. Callbacks(u) \subseteq Task \ {t}
      BY <1>0, CallbackFacts
    <2>2. success' = success /\ success[u] \in BOOLEAN
      BY DEF Submit, TypeOK
    <2>. QED BY <1>0, <1>1, <2>1, <2>2, SuccessorFacts DEF CallbackInv
  <1>6. CompleteInv'
    BY <1>0, <1>1 DEF Submit, CompleteInv
  <1>7. WaitInv'
    BY <1>0, <1>1 DEF Submit, WaitInv, TypeOK, CompleteInv
  <1>. QED BY <1>2, <1>3, <1>4, <1>5, <1>6, <1>7

\* Reading the length of the queue starts a batch of the tasks in it.
LEMMA UpdateStartIInv ==
    ASSUME IInv, UpdateStart
    PROVE  IInv'
  <1>. USE DEF IInv, UpdateStart, taskVars, waitVars
  <1>1. TypeOK'
    BY DEF TypeOK
  <1>2. MainInv'
    BY DEF TypeOK, MainInv, Popped
  <1>3. BatchInv'
    BY DEF TypeOK, MainInv, BatchInv
  <1>4. QueueInv' /\ CallbackInv' /\ CompleteInv' /\ WaitInv'
    BY DEF QueueInv, CallbackInv, CompleteInv, WaitInv
  <1>. QED BY <1>1, <1>2, <1>3, <1>4

\* The queue is not empty when update() pops, and the task it pops was queued.
LEMMA UpdatePopIInv ==
    ASSUME IInv, UpdatePop
    PROVE  IInv'
  <1>. USE TaskAssumption DEF IInv
  <1>1. Len(queue) > 0 /\ Popped = 0
    BY DEF UpdatePop, MainInv, Popped, TypeOK
  <1>. DEFINE h == Head(queue)
  <1>2. /\ h \in Task /\ h = queue[1] /\ Tail(queue) \in Seq(Task)
        /\ Len(Tail(queue)) = Len(queue) - 1
        /\ \A i \in 1..Len(queue) - 1 : Tail(queue)[i] = queue[i + 1]
    BY <1>1, TailFacts DEF TypeOK
  <1>3. Target[h] = "MAIN" /\ stage[h] = "queued" /\ h # None
    BY <1>1, <1>2 DEF QueueInv, TypeOK
  <1>4. /\ current' = h /\ queue' = Tail(queue) /\ run' = run /\ batch' = batch
        /\ stage' = [stage EXCEPT ![h] = "do_run"]
        /\ UNCHANGED <<success, eptr, complete, mutex, pc, waiting>>
    BY DEF UpdatePop, waitVars
  <1>. HIDE DEF h
  <1>5. /\ stage'[h] = "do_run"
        /\ \A u \in Task : u # h => stage'[u] = stage[u]
        /\ stage' \in [Task -> Stage]
    BY <1>2, <1>4 DEF TypeOK, Stage
  <1>6. TypeOK'
    BY <1>2, <1>4, <1>5 DEF TypeOK
  <1>7. MainInv'
    BY <1>1, <1>2, <1>3, <1>4, <1>5 DEF MainInv, Popped, TypeOK, Running, UpdatePop
  <1>8. QueueInv'
    <2>1. \A i \in 1..Len(queue') : /\ i + 1 \in 1..Len(queue)
                                    /\ queue'[i] = queue[i + 1]
                                    /\ queue[i + 1] \in Task /\ queue[i + 1] # h
      BY <1>1, <1>2, <1>4 DEF TypeOK, QueueInv
    <2>2. \A i \in 1..Len(queue') : Target[queue'[i]] = "MAIN" /\ stage'[queue'[i]] = "queued"
      BY <1>5, <2>1 DEF QueueInv
    <2>3. ASSUME NEW u \in Task, Target[u] = "MAIN", stage'[u] = "queued"
          PROVE  \E i \in 1..Len(queue') : queue'[i] = u
      <3>1. u # h /\ stage[u] = "queued"
        BY <1>5, <2>3
      <3>2. PICK j \in 1..Len(queue) : queue[j] = u
        BY <2>3, <3>1 DEF QueueInv
      <3>3. j # 1 /\ j - 1 \in 1..Len(queue')
        BY <1>1, <1>2, <1>4, <3>1, <3>2 DEF TypeOK
      <3>4. j - 1 \in 1..Len(queue) - 1 /\ (j - 1) + 1 = j
        BY <3>2, <3>3
      <3>5. queue'[j - 1] = u
        BY <1>2, <1>4, <3>2, <3>4
      <3>. QED BY <3>3, <3>5
    <2>4. \A i, j \in 1..Len(queue') : queue'[i] = queue'[j] => i = j
      BY <2>1 DEF QueueInv
    <2>. QED BY <2>2, <2>3, <2>4 DEF QueueInv
  <1>9. BatchInv'
    <2>1. h \in batch
      BY <1>1, <1>2 DEF BatchInv, TypeOK, UpdatePop
    <2>2. Popped' = 1
      BY <1>3, <1>4 DEF Popped
    <2>. QED BY <1>1, <1>2, <1>4, <2>1, <2>2 DEF BatchInv, TypeOK
  <1>10. CallbackInv'
    <2>1. \A u \in Task : success[u] \in BOOLEAN
      BY DEF TypeOK
    <2>. QED
      BY <1>2, <1>3, <1>4, <1>5, <2>1, CallbackFacts, SuccessorFacts DEF CallbackInv
  <1>11. CompleteInv'
    BY <1>2, <1>3, <1>4, <1>5 DEF CompleteInv
  <1>12. WaitInv'
    BY <1>2, <1>3, <1>4, <1>5 DEF WaitInv, TypeOK
  <1>. QED BY <1>6, <1>7, <1>8, <1>9, <1>10, <1>11, <1>12
\* When run() returns to update(), one task less is left to run.
LEMMA UpdateTaskDoneIInv ==
    ASSUME IInv, UpdateTaskDone
    PROVE  IInv'
  <1>. USE TaskAssumption DEF IInv, UpdateTaskDone, taskVars, waitVars
  <1>1. run > 0 /\ Popped = 1 /\ Popped' = 0
    BY DEF MainInv, Popped
  <1>2. TypeOK'
    BY <1>1 DEF TypeOK
  <1>3. MainInv'
    BY <1>1 DEF MainInv, TypeOK, Running
  <1>4. BatchInv'
    BY <1>1 DEF BatchInv, TypeOK
  <1>5. QueueInv' /\ CallbackInv' /\ CompleteInv' /\ WaitInv'
    BY DEF QueueInv, CallbackInv, CompleteInv, WaitInv
  <1>. QED BY <1>2, <1>3, <1>4, <1>5

-----------------------------------------------------------------------------
(* The steps of Task::run *)

\* The part of the invariant about the queue and update() holds across a step of
\* a task that changes neither the queue nor whether a MAIN task waits in it.
LEMMA RunStepKeepsMain ==
    ASSUME IInv, NEW t \in Task, NEW s \in Running \cup {"done"},
           Target[t] = "MAIN" => stage[t] \in Running,
           stage[t] \in Running \cup {"queued"},
           stage' = [stage EXCEPT ![t] = s], UNCHANGED mainVars
    PROVE  MainInv' /\ QueueInv' /\ BatchInv' /\ stage' \in [Task -> Stage]
  <1>. USE TaskAssumption DEF IInv, mainVars, Running
  <1>1. stage' \in [Task -> Stage] /\ stage'[t] = s
        /\ \A u \in Task : u # t => stage'[u] = stage[u]
    BY DEF TypeOK, Stage
  <1>2. MainInv'
    BY <1>1 DEF MainInv, TypeOK, Popped
  <1>3. QueueInv'
    <2>1. \A i \in 1..Len(queue) : queue[i] \in Task /\ queue[i] # t
      BY DEF QueueInv, TypeOK
    <2>2. \A u \in Task : Target[u] = "MAIN" /\ stage'[u] = "queued" => stage[u] = "queued"
      BY <1>1
    <2>. QED BY <1>1, <2>1, <2>2 DEF QueueInv
  <1>4. BatchInv'
    BY DEF BatchInv, Popped
  <1>. QED BY <1>1, <1>2, <1>3, <1>4

\* The thread of a POOL task enters run().
LEMMA PoolStartIInv ==
    ASSUME IInv, NEW t \in Task, PoolStart(t)
    PROVE  IInv'
  <1>. USE DEF IInv, PoolStart, waitVars
  <1>1. MainInv' /\ QueueInv' /\ BatchInv' /\ stage' \in [Task -> Stage]
    BY RunStepKeepsMain DEF Running
  <1>2. stage'[t] = "do_run" /\ \A u \in Task : u # t => stage'[u] = stage[u]
    BY DEF TypeOK
  <1>3. TypeOK'
    BY <1>1 DEF TypeOK, mainVars
  <1>4. CallbackInv'
    <2>1. \A u \in Task : success[u] \in BOOLEAN
      BY DEF TypeOK
    <2>. QED BY <1>2, <2>1, CallbackFacts, SuccessorFacts DEF CallbackInv
  <1>5. CompleteInv' /\ WaitInv'
    BY <1>2 DEF CompleteInv, WaitInv, TypeOK
  <1>. QED BY <1>1, <1>3, <1>4, <1>5

\* do_run() ends.
LEMMA DoRunIInv ==
    ASSUME IInv, NEW t \in Task, NEW outcome \in Outcome, DoRun(t, outcome)
    PROVE  IInv'
  <1>. USE DEF IInv, DoRun, waitVars
  <1>1. MainInv' /\ QueueInv' /\ BatchInv' /\ stage' \in [Task -> Stage]
    BY RunStepKeepsMain DEF Running
  <1>2. stage'[t] = "callback" /\ \A u \in Task : u # t => stage'[u] = stage[u]
    BY DEF TypeOK
  <1>3. success' \in [Task -> BOOLEAN] /\ eptr' \in [Task -> BOOLEAN]
    BY DEF TypeOK
  <1>4. TypeOK'
    BY <1>1, <1>3 DEF TypeOK, mainVars
  <1>5. CallbackInv'
    <2>1. \A u \in Task : success[u] \in BOOLEAN /\ (u # t => success'[u] = success[u])
      BY DEF TypeOK
    <2>. QED BY <1>2, <2>1, CallbackFacts, SuccessorFacts DEF CallbackInv
  <1>6. CompleteInv' /\ WaitInv'
    BY <1>2 DEF CompleteInv, WaitInv, TypeOK
  <1>. QED BY <1>1, <1>4, <1>5, <1>6

\* The callback enqueues a task that nobody has touched yet.
LEMMA CallbackIInv ==
    ASSUME IInv, NEW t \in Task, Callback(t)
    PROVE  IInv'
  <1>. USE TaskAssumption DEF IInv
  <1>. DEFINE next == Successor(t, success[t])
  <1>0. success[t] \in BOOLEAN
    BY DEF TypeOK
  <1>1. next \in Task \cup {None} /\ next # t /\ (next # None => next \in Callbacks(t))
    BY <1>0, SuccessorFacts
  <1>2. next # None => next \in Task /\ stage[next] = "new"
    BY <1>1, CallbackFacts DEF CallbackInv, Callback
  <1>3. /\ stage[t] = "callback" /\ stage'[t] = "store"
        /\ next \in Task => stage'[next] = "queued"
        /\ \A u \in Task : u # t /\ u # next => stage'[u] = stage[u]
        /\ stage' \in [Task -> Stage]
    BY <1>1 DEF Callback, TypeOK, Stage
  <1>4. /\ queue' = Enqueued(next) /\ run' = run /\ current' = current /\ batch' = batch
        /\ UNCHANGED <<success, eptr, complete, mutex, pc, waiting>>
    BY DEF Callback, waitVars
  <1>. HIDE DEF next
  <1>5. queue' \in Seq(Task) /\ QueueInv' /\ run' <= Len(queue') + Popped' /\ BatchInv'
    BY <1>1, <1>2, <1>3, <1>4, EnqueueKeepsQueue
  <1>6. TypeOK'
    BY <1>3, <1>4, <1>5 DEF TypeOK
  <1>7. MainInv'
    BY <1>1, <1>2, <1>3, <1>4, <1>5 DEF MainInv, TypeOK, Running
  <1>8. CallbackInv'
    <2>. SUFFICES ASSUME NEW u \in Task
                  PROVE  /\ stage'[u] \in {"new", "queued", "do_run", "callback"} =>
                              \A k \in Callbacks(u) : stage'[k] = "new"
                         /\ stage'[u] \in {"store", "notify", "done"} =>
                              (Successor(u, success'[u]) # None =>
                                 stage'[Successor(u, success'[u])] # "new")
      BY DEF CallbackInv
    <2>1. CASE u = t
      BY <1>1, <1>2, <1>3, <1>4, <2>1 DEF next
    <2>2. CASE u # t
      <3>1. \A k \in Callbacks(u) : k \in Task /\ k # next
        BY <1>1, <2>2, CallbackFacts, CallbackAssumption
      <3>2. success[u] \in BOOLEAN /\ success' = success
        BY <1>4 DEF TypeOK
      <3>3. CASE u = next
        <4>1. stage[u] = "new" /\ \A k \in Callbacks(u) : stage[k] = "new"
          BY <1>2, <3>3 DEF CallbackInv
        <4>2. \A k \in Callbacks(u) : k # t
          BY <1>3, <4>1
        <4>. QED BY <1>3, <3>1, <3>3, <4>1, <4>2
      <3>4. CASE u # next
        <4>1. stage'[u] = stage[u]
          BY <1>3, <2>2, <3>4
        <4>2. \A k \in Callbacks(u) : stage'[k] = "new" <=> stage[k] = "new"
          BY <1>3, <3>1
        <4>. QED BY <3>2, <4>1, <4>2, SuccessorFacts DEF CallbackInv
      <3>. QED BY <3>3, <3>4
    <2>. QED BY <2>1, <2>2
  <1>9. CompleteInv' /\ WaitInv'
    BY <1>1, <1>2, <1>3, <1>4 DEF CompleteInv, WaitInv, TypeOK
  <1>. QED BY <1>5, <1>6, <1>7, <1>8, <1>9
\* complete_ is stored while no client is between its check and its sleep.
LEMMA StoreCompleteIInv ==
    ASSUME IInv, NEW t \in Task, StoreComplete(t)
    PROVE  IInv'
  <1>. USE TaskAssumption DEF IInv, StoreComplete, waitVars
  <1>1. MainInv' /\ QueueInv' /\ BatchInv' /\ stage' \in [Task -> Stage]
    BY RunStepKeepsMain DEF Running
  <1>2. stage'[t] = "notify" /\ \A u \in Task : u # t => stage'[u] = stage[u]
    BY DEF TypeOK
  <1>3. /\ complete' \in [Task -> BOOLEAN] /\ complete'[t] = TRUE
        /\ \A u \in Task : u # t => complete'[u] = complete[u]
    BY DEF TypeOK
  <1>4. TypeOK'
    BY <1>1, <1>3 DEF TypeOK, mainVars
  <1>5. CallbackInv'
    <2>1. \A u \in Task : success[u] \in BOOLEAN
      BY DEF TypeOK
    <2>. QED BY <1>2, <2>1, CallbackFacts, SuccessorFacts DEF CallbackInv
  <1>6. CompleteInv'
    BY <1>2, <1>3 DEF CompleteInv
  <1>7. WaitInv'
    <2>1. \A c \in Client : pc[c] = "sleep" => waiting[c] # t
      BY DEF WaitInv
    <2>. QED BY <1>2, <1>3, <2>1 DEF WaitInv, TypeOK
  <1>. QED BY <1>1, <1>4, <1>5, <1>6, <1>7

\* notify_all() leaves nobody asleep on the task.
LEMMA NotifyAllIInv ==
    ASSUME IInv, NEW t \in Task, NotifyAll(t)
    PROVE  IInv'
  <1>. USE TaskAssumption DEF IInv, NotifyAll
  <1>1. MainInv' /\ QueueInv' /\ BatchInv' /\ stage' \in [Task -> Stage]
    BY RunStepKeepsMain DEF Running
  <1>2. stage'[t] = "done" /\ \A u \in Task : u # t => stage'[u] = stage[u]
    BY DEF TypeOK
  <1>3. TypeOK'
    BY <1>1 DEF TypeOK, mainVars, Pc
  <1>4. CallbackInv'
    <2>1. \A u \in Task : success[u] \in BOOLEAN
      BY DEF TypeOK
    <2>. QED BY <1>2, <2>1, CallbackFacts, SuccessorFacts DEF CallbackInv
  <1>5. CompleteInv' /\ WaitInv'
    BY <1>2 DEF CompleteInv, WaitInv, TypeOK
  <1>. QED BY <1>1, <1>3, <1>4, <1>5

-----------------------------------------------------------------------------
(* The steps of Task::wait *)

\* A step of wait() changes only what concerns the client that takes it.
LEMMA WaitIInv ==
    ASSUME IInv, NEW c \in Client, WaitStep(c) \/ SpuriousWakeup(c)
    PROVE  IInv'
  <1>. USE TaskAssumption DEF IInv, mainVars, taskVars
  <1>1. UNCHANGED <<mainVars, taskVars>>
    BY DEF WaitStep, WaitLock, WaitCheck, WaitReturn, WaitSleep, SpuriousWakeup
  <1>2. MainInv' /\ QueueInv' /\ BatchInv' /\ CallbackInv' /\ CompleteInv'
    BY <1>1 DEF MainInv, QueueInv, BatchInv, CallbackInv, CompleteInv, Popped
  <1>3. pc[c] # "idle" /\ waiting[c] \in Task
    BY DEF WaitStep, WaitLock, WaitCheck, WaitReturn, WaitSleep, SpuriousWakeup,
           WaitInv, TypeOK
  <1>4. TypeOK'
    BY <1>1, <1>3 DEF WaitStep, WaitLock, WaitCheck, WaitReturn, WaitSleep,
                      SpuriousWakeup, TypeOK, Pc
  <1>5. WaitInv'
    <2>1. CASE WaitLock(c)
      BY <1>1, <1>3, <2>1 DEF WaitLock, WaitInv, TypeOK
    <2>2. CASE WaitCheck(c)
      BY <1>1, <1>3, <2>2 DEF WaitCheck, WaitInv, TypeOK
    <2>3. CASE WaitReturn(c)
      BY <1>1, <1>3, <2>3 DEF WaitReturn, WaitInv, TypeOK
    <2>4. CASE WaitSleep(c)
      BY <1>1, <1>3, <2>4 DEF WaitSleep, WaitInv, TypeOK, CompleteInv
    <2>5. CASE SpuriousWakeup(c)
      BY <1>1, <1>3, <2>5 DEF SpuriousWakeup, WaitInv, TypeOK
    <2>. QED BY <2>1, <2>2, <2>3, <2>4, <2>5 DEF WaitStep
  <1>. QED BY <1>2, <1>4, <1>5

-----------------------------------------------------------------------------
(* Invariance *)

\* Every step of the scheduler keeps the invariant.
LEMMA NextIInv == IInv /\ [Next]_vars => IInv'
  <1>. SUFFICES ASSUME IInv, [Next]_vars PROVE IInv'
    OBVIOUS
  <1>1. ASSUME NEW c \in Client, NEW t \in Root, NEW block \in BOOLEAN, Submit(c, t, block)
        PROVE  IInv'
    BY <1>1, SubmitIInv
  <1>2. CASE UpdateStart
    BY <1>2, UpdateStartIInv
  <1>3. CASE UpdatePop
    BY <1>3, UpdatePopIInv
  <1>4. CASE UpdateTaskDone
    BY <1>4, UpdateTaskDoneIInv
  <1>5. ASSUME NEW t \in Task, RunStep(t)
        PROVE  IInv'
    BY <1>5, PoolStartIInv, DoRunIInv, CallbackIInv, StoreCompleteIInv, NotifyAllIInv
    DEF RunStep
  <1>6. ASSUME NEW c \in Client, WaitStep(c) \/ SpuriousWakeup(c)
        PROVE  IInv'
    BY <1>6, WaitIInv
  <1>7. CASE UNCHANGED vars
    BY <1>7 DEF vars, mainVars, taskVars, waitVars, IInv, TypeOK, MainInv, QueueInv,
                BatchInv, CallbackInv, CompleteInv, WaitInv, Popped
  <1>. QED BY <1>1, <1>2, <1>3, <1>4, <1>5, <1>6, <1>7 DEF Next

\* The inductive invariant holds in every reachable state.
THEOREM Invariance == Spec => []IInv
  BY InitIInv, NextIInv, PTL DEF Spec

\* The type invariant of the scheduler.
THEOREM TypeCorrect == Spec => []TypeOK
  <1>1. IInv => TypeOK
    BY DEF IInv
  <1>. QED BY <1>1, Invariance, PTL

\* Scheduler::update() never calls front() or pop() on an empty queue.
THEOREM UpdateSafe == Spec => []UpdateFindsTasks
  <1>1. IInv => UpdateFindsTasks
    BY DEF IInv, MainInv, Popped, UpdateFindsTasks
  <1>. QED BY <1>1, Invariance, PTL

\* Scheduler::enqueue() and update() neither lose a MAIN task nor queue it twice.
THEOREM QueueExact == Spec => []QueueHoldsPending
  <1>1. IInv => QueueHoldsPending
    <2>. SUFFICES ASSUME IInv PROVE QueueHoldsPending
      OBVIOUS
    <2>1. DOMAIN queue = 1..Len(queue) /\ \A i \in 1..Len(queue) : queue[i] \in Task
      BY DEF IInv, TypeOK
    <2>. QED BY <2>1 DEF IInv, QueueInv, QueueHoldsPending
  <1>. QED BY <1>1, Invariance, PTL

\* A call of Scheduler::update() runs only tasks queued before it started.
THEOREM UpdateBounded == Spec => []UpdateIsBounded
  <1>1. IInv => UpdateIsBounded
    BY DEF IInv, BatchInv, UpdateIsBounded
  <1>. QED BY <1>1, Invariance, PTL

\* Task::wait() never misses the notify_all() of Task::run().
THEOREM WakeupsAreKept == Spec => []NoLostWakeup
  <1>1. IInv => NoLostWakeup
    BY DEF IInv, WaitInv, NoLostWakeup
  <1>. QED BY <1>1, Invariance, PTL

\* complete_ is true only after the status callback has enqueued the next task.
THEOREM CallbackFirst == Spec => []CompleteAfterCallback
  <1>1. IInv => CompleteAfterCallback
    BY DEF IInv, CallbackInv, CompleteInv, CompleteAfterCallback
  <1>. QED BY <1>1, Invariance, PTL
-----------------------------------------------------------------------------
(* TaskScheduler implements Scheduling *)

\* The initial states map to initial states.
LEMMA PromiseInit == Init => Promise!Init
  BY DEF Init, Promise!Init, AbstractStage, AbstractSuccess

\* Every step is a step of Scheduling or leaves its variables alone.
LEMMA PromiseNext ==
    IInv /\ IInv' /\ [Next]_vars => [Promise!Next]_Promise!vars
  <1>. SUFFICES ASSUME IInv, IInv', [Next]_vars
                PROVE  Promise!Next \/ UNCHANGED Promise!vars
    OBVIOUS
  <1>. USE TaskAssumption
  <1>0. TypeOK /\ TypeOK'
    BY DEF IInv
  <1>1. ASSUME NEW c \in Client, NEW t \in Root, NEW block \in BOOLEAN, Submit(c, t, block)
        PROVE  Promise!Submit(c, t, block)
    <2>1. t \in Task /\ stage[t] = "new" /\ stage'[t] = "queued" /\ success' = success
          /\ \A u \in Task : u # t => stage'[u] = stage[u]
      BY <1>0, <1>1 DEF Submit, Root, TypeOK
    <2>2. AbstractStage' = [AbstractStage EXCEPT ![t] = "queued"] /\ AbstractStage[t] = "new"
          /\ AbstractSuccess' = AbstractSuccess
      BY <2>1 DEF AbstractStage, AbstractSuccess
    <2>3. waiting[c] = None
      BY <1>1 DEF Submit, IInv, WaitInv
    <2>4. queue' = Promise!Enqueued(t)
      BY <1>1 DEF Submit, Enqueued, Promise!Enqueued
    <2>. QED BY <1>1, <2>2, <2>3, <2>4 DEF Submit, Promise!Submit
  <1>2. CASE UpdateStart \/ UpdateTaskDone
    BY <1>2 DEF UpdateStart, UpdateTaskDone, taskVars, waitVars, Promise!vars,
                AbstractStage, AbstractSuccess
  <1>3. CASE UpdatePop
    <2>1. Len(queue) > 0
      BY <1>0, <1>3 DEF UpdatePop, IInv, MainInv, Popped, TypeOK
    <2>. DEFINE h == Head(queue)
    <2>2. h \in Task /\ h = queue[1] /\ queue # <<>>
      BY <1>0, <2>1, TailFacts DEF TypeOK
    <2>3. Target[h] = "MAIN" /\ stage[h] = "queued"
      BY <1>0, <2>1, <2>2 DEF IInv, QueueInv, TypeOK
    <2>4. \A t \in Task : Target[t] = "MAIN" => stage[t] \notin Running
      BY <1>3 DEF UpdatePop, IInv, MainInv
    <2>5. Promise!MainIdle
      BY <1>0, <2>4 DEF Promise!MainIdle, AbstractStage, Running, TypeOK, Stage
    <2>6. /\ queue' = Tail(queue) /\ success' = success /\ waiting' = waiting
          /\ stage'[h] = "do_run" /\ \A u \in Task : u # h => stage'[u] = stage[u]
      BY <1>0, <1>3, <2>2 DEF UpdatePop, waitVars, TypeOK
    <2>. HIDE DEF h
    <2>7. /\ AbstractStage[h] = "queued"
          /\ AbstractStage' = [AbstractStage EXCEPT ![h] = "running"]
          /\ AbstractSuccess' = AbstractSuccess
      BY <2>2, <2>3, <2>6 DEF AbstractStage, AbstractSuccess
    <2>8. Promise!Begin(h)
      BY <2>2, <2>3, <2>5, <2>6, <2>7 DEF Promise!Begin, h
    <2>. QED BY <2>2, <2>8 DEF Promise!Next
  <1>4. ASSUME NEW t \in Task, RunStep(t)
        PROVE  Promise!Next \/ UNCHANGED Promise!vars
    <2>1. CASE PoolStart(t)
      <3>1. /\ AbstractStage[t] = "queued"
            /\ AbstractStage' = [AbstractStage EXCEPT ![t] = "running"]
            /\ AbstractSuccess' = AbstractSuccess
        BY <1>0, <2>1 DEF PoolStart, AbstractStage, AbstractSuccess, TypeOK
      <3>2. Promise!Begin(t)
        BY <2>1, <3>1 DEF PoolStart, mainVars, waitVars, Promise!Begin
      <3>. QED BY <3>2 DEF Promise!Next
    <2>2. ASSUME NEW outcome \in Outcome, DoRun(t, outcome)
          PROVE  UNCHANGED Promise!vars
      <3>1. AbstractStage' = AbstractStage /\ AbstractSuccess' = AbstractSuccess
        BY <1>0, <2>2 DEF DoRun, AbstractStage, AbstractSuccess, TypeOK
      <3>. QED BY <2>2, <3>1 DEF DoRun, mainVars, waitVars, Promise!vars
    <2>3. CASE Callback(t)
      <3>. DEFINE next == Successor(t, success[t])
      <3>1. success[t] \in BOOLEAN
        BY <1>0 DEF TypeOK
      <3>2. next # t /\ (next # None => next \in Task /\ stage[next] = "new")
        BY <2>3, <3>1, SuccessorFacts, CallbackFacts DEF Callback, IInv, CallbackInv
      <3>3. /\ stage[t] = "callback" /\ stage'[t] = "store"
            /\ next \in Task => stage'[next] = "queued"
            /\ \A u \in Task : u # t /\ u # next => stage'[u] = stage[u]
            /\ queue' = Enqueued(next) /\ success' = success /\ waiting' = waiting
        BY <2>3, <3>2 DEF Callback, waitVars
      <3>4. /\ AbstractStage[t] = "running"
            /\ AbstractStage' = [u \in Task |-> IF u = t THEN "ended"
                                                ELSE IF u = next THEN "queued"
                                                ELSE AbstractStage[u]]
        BY <3>2, <3>3 DEF AbstractStage
      <3>5. AbstractSuccess' = [AbstractSuccess EXCEPT ![t] = success[t]]
        BY <3>2, <3>3, <3>1 DEF AbstractSuccess
      <3>6. Promise!Enqueued(next) = Enqueued(next)
        BY DEF Promise!Enqueued, Enqueued
      <3>7. Promise!Successor(t, success[t]) = next
        BY DEF Promise!Successor, Successor
      <3>. HIDE DEF next
      <3>8. Promise!Finish(t, success[t])
        BY <3>3, <3>4, <3>5, <3>6, <3>7 DEF Promise!Finish
      <3>. QED BY <3>1, <3>8 DEF Promise!Next
    <2>4. CASE StoreComplete(t)
      <3>1. /\ AbstractStage[t] = "ended"
            /\ AbstractStage' = [AbstractStage EXCEPT ![t] = "complete"]
            /\ AbstractSuccess' = AbstractSuccess
        BY <1>0, <2>4 DEF StoreComplete, AbstractStage, AbstractSuccess, TypeOK
      <3>2. Promise!Complete(t)
        BY <2>4, <3>1 DEF StoreComplete, mainVars, waitVars, Promise!Complete
      <3>. QED BY <3>2 DEF Promise!Next
    <2>5. CASE NotifyAll(t)
      <3>1. AbstractStage' = AbstractStage /\ AbstractSuccess' = AbstractSuccess
        BY <1>0, <2>5 DEF NotifyAll, AbstractStage, AbstractSuccess, TypeOK
      <3>. QED BY <2>5, <3>1 DEF NotifyAll, mainVars, Promise!vars
    <2>. QED BY <1>4, <2>1, <2>2, <2>3, <2>4, <2>5 DEF RunStep
  <1>5. ASSUME NEW c \in Client, WaitStep(c) \/ SpuriousWakeup(c)
        PROVE  Promise!Next \/ UNCHANGED Promise!vars
    <2>1. UNCHANGED <<queue, AbstractStage, AbstractSuccess>>
      BY <1>5 DEF WaitStep, WaitLock, WaitCheck, WaitReturn, WaitSleep, SpuriousWakeup,
                  mainVars, taskVars, AbstractStage, AbstractSuccess
    <2>2. CASE WaitReturn(c)
      <3>1. waiting[c] \in Task /\ stage[waiting[c]] \in {"notify", "done"}
        BY <1>0, <2>2 DEF WaitReturn, IInv, WaitInv, CompleteInv, TypeOK
      <3>2. AbstractStage[waiting[c]] = "complete"
        BY <3>1 DEF AbstractStage
      <3>3. Promise!Return(c)
        BY <2>1, <2>2, <3>1, <3>2 DEF WaitReturn, Promise!Return
      <3>. QED BY <3>3 DEF Promise!Next
    <2>3. CASE ~WaitReturn(c)
      BY <1>5, <2>1, <2>3 DEF WaitStep, WaitLock, WaitCheck, WaitSleep, SpuriousWakeup,
                              Promise!vars
    <2>. QED BY <2>2, <2>3
  <1>6. CASE UNCHANGED vars
    BY <1>6 DEF vars, mainVars, taskVars, waitVars, Promise!vars, AbstractStage,
                AbstractSuccess
  <1>7. Promise!Root = Root
    BY DEF Promise!Root, Root, Promise!Callbacks, Callbacks
  <1>. QED BY <1>1, <1>2, <1>3, <1>4, <1>5, <1>6, <1>7 DEF Next, Promise!Next

\* The scheduler's threads, mutexes and condition variables keep the promise of
\* Scheduling, for any tasks and clients.
THEOREM Refinement == Spec => KeepsPromise
  BY PromiseInit, PromiseNext, Invariance, PTL DEF Spec, KeepsPromise, Promise!Spec
=============================================================================
