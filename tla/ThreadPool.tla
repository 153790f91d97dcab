------------------------------ MODULE ThreadPool ------------------------------
(***************************************************************************)
(* The class thread_pool of src/thread_pool.hpp: n threads, a deque of     *)
(* executors under a mutex, one condition variable and an atomic shutdown  *)
(* flag that blocking_shutdown stores WITHOUT taking the mutex.            *)
(*                                                                         *)
(* Every step of a worker that another thread can observe is an action:    *)
(* the read of the flag by the while condition, the lock, the predicate of *)
(* cv.wait, falling asleep, the second read of the flag, the pop, and the  *)
(* end of the executor.  Executors are opaque and do not throw (TaskGroup  *)
(* models what they do and what happens when they throw).                  *)
(***************************************************************************)
EXTENDS Integers, Sequences, FiniteSets, Functions

CONSTANTS Workers,   \* the threads of the pool
          Tasks,     \* the executors that may be submitted
          NoTask,    \* an empty executor
          NoThread   \* owner of an unlocked mutex

ASSUME WorkersAssumption == IsFiniteSet(Workers)
ASSUME NamesAssumption ==
  /\ NoTask \notin Tasks
  /\ NoThread \notin Workers

VARIABLES pc,        \* program counter of each worker
          executor,  \* the local variable executor of each worker
          mutex,     \* owner of the mutex, or NoThread
          tasks,     \* the deque
          shutdown,  \* the atomic flag
          main,      \* where the main thread is: it runs the io loop, then ~thread_pool
          submitted, \* history: tasks pushed, in order
          started,   \* history: tasks popped, in order
          late       \* history: number of tasks popped after shutdown was set

vars == <<pc, executor, mutex, tasks, shutdown, main, submitted, started, late>>

(***************************************************************************)
(* "while": about to read shutdown in the while condition.                 *)
(* "lock": about to (re)acquire the mutex.   "wait": evaluates predicate.  *)
(* "block": predicate was false, still holds the mutex, not yet asleep.    *)
(* "asleep": blocked in cv.wait.   "check": `if (shutdown) break'.         *)
(* "take": about to pop.   "run": in executor().   "exit": thread over.    *)
(***************************************************************************)
Labels == {"while", "lock", "wait", "block", "asleep", "check", "take", "run", "exit"}
HoldsMutex == {"wait", "block", "check", "take"}

\* Workers that will look at the deque before they can sleep again.
Coming == {w \in Workers : pc[w] \in {"while", "lock", "wait", "check", "take"}}
Asleep == {w \in Workers : pc[w] = "asleep"}

Init ==
  /\ pc = [w \in Workers |-> "while"]
  /\ executor = [w \in Workers |-> NoTask]
  /\ mutex = NoThread
  /\ tasks = <<>>
  /\ shutdown = FALSE
  /\ main = "serving"
  /\ submitted = <<>>
  /\ started = <<>>
  /\ late = 0

-----------------------------------------------------------------------------
(* The worker loop, lines 31-40.                                            *)

Goto(w, from, to) ==
  /\ pc[w] = from
  /\ pc' = [pc EXCEPT ![w] = to]

While(w) ==
  /\ Goto(w, "while", IF shutdown THEN "exit" ELSE "lock")
  /\ UNCHANGED <<executor, mutex, tasks, shutdown, main, submitted, started, late>>

LockMutex(w) ==
  /\ mutex = NoThread
  /\ Goto(w, "lock", "wait")
  /\ mutex' = w
  /\ UNCHANGED <<executor, tasks, shutdown, main, submitted, started, late>>

WaitPredicate == tasks # <<>> \/ shutdown

EvalPredicate(w) ==
  /\ Goto(w, "wait", IF WaitPredicate THEN "check" ELSE "block")
  /\ UNCHANGED <<executor, mutex, tasks, shutdown, main, submitted, started, late>>

\* The wait releases the mutex and blocks in one step.
FallAsleep(w) ==
  /\ Goto(w, "block", "asleep")
  /\ mutex' = NoThread
  /\ UNCHANGED <<executor, tasks, shutdown, main, submitted, started, late>>

\* A condition variable may wake without being notified.
SpuriousWakeup(w) ==
  /\ Goto(w, "asleep", "lock")
  /\ UNCHANGED <<executor, mutex, tasks, shutdown, main, submitted, started, late>>

\* break leaves the scope of the unique_lock and so unlocks.
CheckDrainsFirst(w) ==
  LET over == shutdown /\ tasks = <<>>
  IN /\ Goto(w, "check", IF over THEN "exit" ELSE "take")
     /\ mutex' = IF over THEN NoThread ELSE mutex
     /\ UNCHANGED <<executor, tasks, shutdown, main, submitted, started, late>>
CheckShutdown(w) ==
  /\ Goto(w, "check", IF shutdown THEN "exit" ELSE "take")
  /\ mutex' = IF shutdown THEN NoThread ELSE mutex
  /\ UNCHANGED <<executor, tasks, shutdown, main, submitted, started, late>>

TakeNext(t, rest) ==
  /\ tasks' = rest
  /\ mutex' = NoThread
  /\ started' = Append(started, t)
  /\ late' = IF shutdown THEN late + 1 ELSE late
  /\ UNCHANGED <<shutdown, main, submitted>>

TakeNewest(w) ==
  /\ Goto(w, "take", "run")
  /\ executor' = [executor EXCEPT ![w] = tasks[Len(tasks)]]
  /\ TakeNext(tasks[Len(tasks)], SubSeq(tasks, 1, Len(tasks) - 1))
TakePopsFirst(w) ==
  LET t == IF Len(tasks) = 1 THEN NoTask ELSE tasks[2]
  IN /\ Goto(w, "take", "run")
     /\ executor' = [executor EXCEPT ![w] = t]
     /\ TakeNext(t, Tail(tasks))
\* Line 36-38: move the front out, pop it, unlock.
Take(w) ==
  /\ Goto(w, "take", "run")
  /\ executor' = [executor EXCEPT ![w] = Head(tasks)]
  /\ TakeNext(Head(tasks), Tail(tasks))

\* executor() returns and the local variable goes out of scope.
Finish(w) ==
  /\ Goto(w, "run", "while")
  /\ executor' = [executor EXCEPT ![w] = NoTask]
  /\ UNCHANGED <<mutex, tasks, shutdown, main, submitted, started, late>>

-----------------------------------------------------------------------------
(* add_task, lines 45-50, called by the io loop and by running tasks.  The  *)
(* push and the notify happen under the mutex.                              *)

Wake(w) == pc' = [pc EXCEPT ![w] = "lock"]

NotifyNobody == UNCHANGED pc
NotifyOne ==
  IF Asleep = {} THEN UNCHANGED pc ELSE \E w \in Asleep : Wake(w)

AddTask(t) ==
  /\ main = "serving" \/ \E w \in Workers : pc[w] = "run"
  /\ t \notin Range(submitted)
  /\ mutex = NoThread
  /\ tasks' = Append(tasks, t)
  /\ submitted' = Append(submitted, t)
  /\ NotifyOne
  /\ UNCHANGED <<executor, mutex, shutdown, main, started, late>>

-----------------------------------------------------------------------------
(* blocking_shutdown, lines 56-64, called once, by the destructor.          *)

StoreShutdown ==
  /\ main = "serving"
  /\ ~shutdown
  /\ shutdown' = TRUE
  /\ main' = "notify"
  /\ UNCHANGED <<pc, executor, mutex, tasks, submitted, started, late>>

NotifyAll ==
  /\ main = "notify"
  /\ main' = "join"
  /\ pc' = [w \in Workers |-> IF pc[w] = "asleep" THEN "lock" ELSE pc[w]]
  /\ UNCHANGED <<executor, mutex, tasks, shutdown, submitted, started, late>>

\* The joins, one thread after the other, are over when every thread is.
JoinOneThread ==
  /\ main = "join"
  /\ \E w \in Workers : pc[w] = "exit"
  /\ main' = "joined"
  /\ UNCHANGED <<pc, executor, mutex, tasks, shutdown, submitted, started, late>>
JoinAll ==
  /\ main = "join"
  /\ \A w \in Workers : pc[w] = "exit"
  /\ main' = "joined"
  /\ UNCHANGED <<pc, executor, mutex, tasks, shutdown, submitted, started, late>>

-----------------------------------------------------------------------------
WorkerStep(w) ==
  \/ While(w) \/ LockMutex(w) \/ EvalPredicate(w) \/ FallAsleep(w)
  \/ CheckShutdown(w) \/ Take(w) \/ Finish(w)

MainStep == NotifyAll \/ JoinAll

Next ==
  \/ \E w \in Workers : WorkerStep(w) \/ SpuriousWakeup(w)
  \/ \E t \in Tasks : AddTask(t)
  \/ StoreShutdown
  \/ MainStep

Spec == Init /\ [][Next]_vars

(***************************************************************************)
(* A thread that can run does run, and executors return.  Nothing obliges  *)
(* anyone to submit a task, to shut down, or a condition variable to wake  *)
(* up by itself.                                                           *)
(***************************************************************************)
Fairness ==
  /\ \A w \in Workers : WF_vars(WorkerStep(w))
  /\ WF_vars(MainStep)

FairSpec == Spec /\ Fairness

-----------------------------------------------------------------------------
(* Properties.                                                              *)

\* Every variable has its type.
TypeOK ==
  /\ pc \in [Workers -> Labels]
  /\ executor \in [Workers -> Tasks \cup {NoTask}]
  /\ mutex \in Workers \cup {NoThread}
  /\ tasks \in Seq(Tasks)
  /\ shutdown \in BOOLEAN
  /\ main \in {"serving", "notify", "join", "joined"}
  /\ submitted \in Seq(Tasks)
  /\ started \in Seq(Tasks)
  /\ late \in Nat

\* Tasks start in the order of submission, and none is lost or duplicated
\* between add_task and the worker that pops it.
FifoNoLoss == submitted = started \o tasks

\* No wakeup of add_task is lost: while some worker sleeps, there are at
\* least as many workers on their way to the deque as there are tasks in it.
\* (add_task notifies one worker per task, under the mutex.)
NoLostWakeup ==
  ~shutdown /\ Asleep # {} => Len(tasks) <= Cardinality(Coming)

\* "Stop any new tasks from running": after the flag is set at most one more
\* task is started in the whole pool, by the worker that was between its
\* check of the flag and its pop, because that window is under the mutex.
AtMostOneLateStart == late <= 1

\* "wait for all currently running tasks to finish": when blocking_shutdown
\* returns, no executor is running or about to run and the mutex is free.
JoinedQuiescent ==
  main = "joined" =>
    /\ mutex = NoThread
    /\ \A w \in Workers : pc[w] = "exit" /\ executor[w] = NoTask

\* The pool implements its contract.
Contract == INSTANCE PoolContract WITH
  started <- Len(started), job <- executor, open <- main # "joined"
ImplementsContract == Contract!Spec

\* Unless the pool is shut down, every submitted task is eventually started.
EveryTaskStarts ==
  \A t \in Tasks : t \in Range(submitted) ~> t \in Range(started) \/ shutdown

\* "wait for all currently running tasks to finish": a blocking_shutdown that
\* has begun eventually returns.
ShutdownReturns == shutdown ~> main = "joined"
=============================================================================
