--------------------------- MODULE ThreadPoolProofs ---------------------------
(***************************************************************************)
(* Theorems about ThreadPool, for any finite set of workers and any set of *)
(* tasks: the type invariant, first-in first-out without loss, no lost     *)
(* wakeup in add_task, the shutdown guarantees, the implementation of      *)
(* PoolContract, and that threads stand still only when all is started.    *)
(***************************************************************************)
EXTENDS ThreadPool, TLAPS, SequenceTheorems, FiniteSetTheorems

-----------------------------------------------------------------------------
(* The inductive invariant.                                                 *)

\* The owner of the mutex is the one worker inside the critical section.
LockInv == \A w \in Workers : pc[w] \in HoldsMutex <=> mutex = w

\* What a worker learnt about the deque still holds while it has the mutex.
DequeInv ==
  \A w \in Workers :
    /\ pc[w] = "check" => tasks # <<>> \/ shutdown
    /\ pc[w] = "take" => tasks # <<>>
    /\ pc[w] = "block" => tasks = <<>>

\* A worker holds an executor exactly while it runs it.
ExecutorInv == \A w \in Workers : executor[w] # NoTask <=> pc[w] = "run"

\* Only a pop that was already past the flag can be late, and there is one.
LateInv ==
  /\ ~shutdown => late = 0
  /\ late # 0 => late = 1 /\ \A w \in Workers : pc[w] # "take"

ShutdownInv ==
  /\ shutdown <=> main # "serving"
  /\ main = "joined" => \A w \in Workers : pc[w] = "exit"

CoreInv == TypeOK /\ LockInv /\ DequeInv /\ ExecutorInv /\ LateInv /\ ShutdownInv

IInv == CoreInv /\ FifoNoLoss /\ NoLostWakeup

-----------------------------------------------------------------------------
(* Lemmas.                                                                  *)

\* The sets of workers that NoLostWakeup counts are finite.
LEMMA ComingFinite == IsFiniteSet(Coming) /\ Cardinality(Coming) \in Nat
<1>1. Coming \in SUBSET Workers
  BY DEF Coming
<1> QED
  BY <1>1, WorkersAssumption, FS_Subset, FS_CardinalityType

\* Splitting the deque at its front does not change the history.
LEMMA PopKeepsOrder ==
  ASSUME NEW s \in Seq(Tasks), NEW q \in Seq(Tasks), q # <<>>
  PROVE  /\ Head(q) \in Tasks
         /\ Tail(q) \in Seq(Tasks)
         /\ Len(Tail(q)) = Len(q) - 1
         /\ Append(s, Head(q)) \in Seq(Tasks)
         /\ Append(s, Head(q)) \o Tail(q) = s \o q
<1>1. /\ Head(q) \in Tasks /\ Tail(q) \in Seq(Tasks)
      /\ Len(Tail(q)) = Len(q) - 1 /\ Append(s, Head(q)) \in Seq(Tasks)
  BY HeadTailProperties, AppendProperties
<1>2. <<Head(q)>> \in Seq(Tasks)
  BY <1>1
<1>3. Append(s, Head(q)) = s \o <<Head(q)>>
  BY <1>1, AppendIsConcat
<1>4. (s \o <<Head(q)>>) \o Tail(q) = s \o (<<Head(q)>> \o Tail(q))
  BY <1>1, <1>2, ConcatAssociative
<1>5. <<Head(q)>> \o Tail(q) = q
  BY <1>1
<1> QED
  BY <1>1, <1>3, <1>4, <1>5

\* Appending to the deque appends to the history.
LEMMA PushKeepsOrder ==
  ASSUME NEW s \in Seq(Tasks), NEW q \in Seq(Tasks), NEW t \in Tasks
  PROVE  Append(s \o q, t) = s \o Append(q, t)
<1>1. <<t>> \in Seq(Tasks) /\ s \o q \in Seq(Tasks)
  BY ConcatProperties
<1>2. Append(s \o q, t) = (s \o q) \o <<t>> /\ Append(q, t) = q \o <<t>>
  BY <1>1, AppendIsConcat
<1> QED
  BY <1>1, <1>2, ConcatAssociative

-----------------------------------------------------------------------------
(* IInv is inductive: the parts that do not count workers.                  *)

\* The initial state satisfies the inductive invariant.
LEMMA InitIInv == Init => IInv
<1> SUFFICES ASSUME Init PROVE IInv
  OBVIOUS
<1> USE DEF Init
<1>1. TypeOK
  BY EmptySeq DEF TypeOK, Labels
<1>2. LockInv /\ DequeInv /\ ExecutorInv /\ LateInv /\ ShutdownInv
  BY NamesAssumption DEF LockInv, DequeInv, ExecutorInv, LateInv, ShutdownInv, HoldsMutex
<1>3. FifoNoLoss
  BY ConcatEmptySeq, EmptySeq DEF FifoNoLoss
<1>4. NoLostWakeup
  BY DEF NoLostWakeup, Asleep
<1> QED
  BY <1>1, <1>2, <1>3, <1>4 DEF IInv, CoreInv

\* Control, locking, the flag and the types: preserved by every step.
LEMMA CoreStep == CoreInv /\ [Next]_vars => CoreInv'
<1> SUFFICES ASSUME CoreInv, [Next]_vars PROVE CoreInv'
  OBVIOUS
<1> USE NamesAssumption DEF CoreInv, TypeOK, Labels
<1> DEFINE Control == LockInv' /\ DequeInv' /\ ExecutorInv' /\ LateInv' /\ ShutdownInv'
<1>1. ASSUME NEW w \in Workers, While(w) PROVE CoreInv'
  <2>1. TypeOK'
    BY <1>1 DEF While, Goto
  <2>2. Control
    BY <1>1 DEF While, Goto, LockInv, DequeInv, ExecutorInv, LateInv, ShutdownInv, HoldsMutex
  <2> QED
    BY <2>1, <2>2
<1>2. ASSUME NEW w \in Workers, LockMutex(w) PROVE CoreInv'
  <2>1. TypeOK'
    BY <1>2 DEF LockMutex, Goto
  <2>2. Control
    BY <1>2 DEF LockMutex, Goto, LockInv, DequeInv, ExecutorInv, LateInv, ShutdownInv, HoldsMutex
  <2> QED
    BY <2>1, <2>2
<1>3. ASSUME NEW w \in Workers, EvalPredicate(w) PROVE CoreInv'
  <2>1. TypeOK'
    BY <1>3 DEF EvalPredicate, Goto
  <2>2. Control
    BY <1>3 DEF EvalPredicate, WaitPredicate, Goto,
                LockInv, DequeInv, ExecutorInv, LateInv, ShutdownInv, HoldsMutex
  <2> QED
    BY <2>1, <2>2
<1>4. ASSUME NEW w \in Workers, FallAsleep(w) PROVE CoreInv'
  <2>1. TypeOK'
    BY <1>4 DEF FallAsleep, Goto
  <2>2. Control
    BY <1>4 DEF FallAsleep, Goto, LockInv, DequeInv, ExecutorInv, LateInv, ShutdownInv, HoldsMutex
  <2> QED
    BY <2>1, <2>2
<1>5. ASSUME NEW w \in Workers, CheckShutdown(w) PROVE CoreInv'
  <2>1. TypeOK'
    BY <1>5 DEF CheckShutdown, Goto
  <2>2. Control
    BY <1>5 DEF CheckShutdown, Goto, LockInv, DequeInv, ExecutorInv, LateInv, ShutdownInv, HoldsMutex
  <2> QED
    BY <2>1, <2>2
<1>6. ASSUME NEW w \in Workers, Take(w) PROVE CoreInv'
  <2>1. tasks # <<>> /\ mutex = w
    BY <1>6 DEF Take, Goto, DequeInv, LockInv, HoldsMutex
  <2>2. /\ Head(tasks) \in Tasks
        /\ Tail(tasks) \in Seq(Tasks)
        /\ Append(started, Head(tasks)) \in Seq(Tasks)
    BY <2>1, PopKeepsOrder
  <2>3. TypeOK'
    BY <1>6, <2>2 DEF Take, TakeNext, Goto
  <2>4. LockInv' /\ DequeInv' /\ ExecutorInv' /\ ShutdownInv'
    BY <1>6, <2>1, <2>2 DEF Take, TakeNext, Goto, LockInv, DequeInv, ExecutorInv, ShutdownInv, HoldsMutex
  <2>5. LateInv'
    <3>1. \A v \in Workers : pc'[v] # "take"
      BY <1>6, <2>1 DEF Take, Goto, LockInv, HoldsMutex
    <3>2. late = 0
      BY <1>6 DEF Take, Goto, LateInv
    <3> QED
      BY <1>6, <3>1, <3>2 DEF Take, TakeNext, LateInv
  <2> QED
    BY <2>3, <2>4, <2>5
<1>7. ASSUME NEW w \in Workers, Finish(w) PROVE CoreInv'
  <2>1. TypeOK'
    BY <1>7 DEF Finish, Goto
  <2>2. Control
    BY <1>7 DEF Finish, Goto, LockInv, DequeInv, ExecutorInv, LateInv, ShutdownInv, HoldsMutex
  <2> QED
    BY <2>1, <2>2
<1>8. ASSUME NEW w \in Workers, SpuriousWakeup(w) PROVE CoreInv'
  <2>1. TypeOK'
    BY <1>8 DEF SpuriousWakeup, Goto
  <2>2. Control
    BY <1>8 DEF SpuriousWakeup, Goto, LockInv, DequeInv, ExecutorInv, LateInv, ShutdownInv, HoldsMutex
  <2> QED
    BY <2>1, <2>2
<1>9. ASSUME NEW t \in Tasks, AddTask(t) PROVE CoreInv'
  <2>1. /\ Append(tasks, t) \in Seq(Tasks)
        /\ Append(submitted, t) \in Seq(Tasks)
        /\ Append(tasks, t) # <<>>
    BY AppendProperties
  <2>2. \/ pc' = pc
        \/ \E w \in Workers : pc[w] = "asleep" /\ pc' = [pc EXCEPT ![w] = "lock"]
    BY <1>9 DEF AddTask, NotifyOne, Wake, Asleep
  <2>3. TypeOK'
    BY <1>9, <2>1, <2>2 DEF AddTask
  <2>4. \A v \in Workers : pc[v] # "block" /\ ~(main = "joined")
    BY <1>9 DEF AddTask, LockInv, ShutdownInv, HoldsMutex
  <2>5. LockInv' /\ ExecutorInv' /\ LateInv' /\ ShutdownInv'
    BY <1>9, <2>2, <2>4 DEF AddTask, LockInv, ExecutorInv, LateInv, ShutdownInv, HoldsMutex
  <2>6. DequeInv'
    BY <1>9, <2>1, <2>2, <2>4 DEF AddTask, DequeInv
  <2> QED
    BY <2>3, <2>5, <2>6
<1>10. ASSUME StoreShutdown PROVE CoreInv'
  <2>1. TypeOK'
    BY <1>10 DEF StoreShutdown
  <2>2. Control
    BY <1>10 DEF StoreShutdown, LockInv, DequeInv, ExecutorInv, LateInv, ShutdownInv
  <2> QED
    BY <2>1, <2>2
<1>11. ASSUME NotifyAll PROVE CoreInv'
  <2>1. TypeOK'
    BY <1>11 DEF NotifyAll
  <2>2. Control
    BY <1>11 DEF NotifyAll, LockInv, DequeInv, ExecutorInv, LateInv, ShutdownInv, HoldsMutex
  <2> QED
    BY <2>1, <2>2
<1>12. ASSUME JoinAll PROVE CoreInv'
  <2>1. TypeOK'
    BY <1>12 DEF JoinAll
  <2>2. Control
    BY <1>12 DEF JoinAll, LockInv, DequeInv, ExecutorInv, LateInv, ShutdownInv
  <2> QED
    BY <2>1, <2>2
<1>13. CASE UNCHANGED vars
  BY <1>13 DEF vars, LockInv, DequeInv, ExecutorInv, LateInv, ShutdownInv
<1> QED
  BY <1>1, <1>2, <1>3, <1>4, <1>5, <1>6, <1>7, <1>8, <1>9, <1>10, <1>11, <1>12, <1>13
  DEF Next, WorkerStep, MainStep

\* First-in first-out without loss: only a pop and a push touch the history.
LEMMA FifoStep == CoreInv /\ FifoNoLoss /\ [Next]_vars => FifoNoLoss'
<1> SUFFICES ASSUME CoreInv, FifoNoLoss, [Next]_vars PROVE FifoNoLoss'
  OBVIOUS
<1> USE DEF FifoNoLoss
<1>1. ASSUME NEW w \in Workers, Take(w) PROVE FifoNoLoss'
  <2>1. tasks # <<>> /\ tasks \in Seq(Tasks) /\ started \in Seq(Tasks)
    BY <1>1 DEF CoreInv, TypeOK, DequeInv, Take, Goto
  <2>2. Append(started, Head(tasks)) \o Tail(tasks) = started \o tasks
    BY <2>1, PopKeepsOrder
  <2> QED
    BY <1>1, <2>2 DEF Take, TakeNext
<1>2. ASSUME NEW t \in Tasks, AddTask(t) PROVE FifoNoLoss'
  <2>1. Append(started \o tasks, t) = started \o Append(tasks, t)
    BY PushKeepsOrder DEF CoreInv, TypeOK
  <2> QED
    BY <1>2, <2>1 DEF AddTask
<1>3. ASSUME UNCHANGED <<submitted, started, tasks>> PROVE FifoNoLoss'
  BY <1>3
<1> QED
  BY <1>1, <1>2, <1>3
  DEF Next, WorkerStep, MainStep, vars, While, LockMutex, EvalPredicate, FallAsleep,
      SpuriousWakeup, CheckShutdown, Finish, StoreShutdown, NotifyAll, JoinAll

\* One more or one fewer worker on its way to the deque.
LEMMA ComingGrows ==
  ASSUME NEW w \in Workers, w \notin Coming, Coming' = Coming \cup {w}
  PROVE  Cardinality(Coming') = Cardinality(Coming) + 1
BY ComingFinite, FS_AddElement

\* Taking one task out of what is coming makes it one fewer.
LEMMA ComingShrinks ==
  ASSUME NEW w \in Workers, w \in Coming, Coming' = Coming \ {w}
  PROVE  Cardinality(Coming') = Cardinality(Coming) - 1
BY ComingFinite, FS_RemoveElement

\* No wakeup is lost.  A worker leaves Coming in two ways: it finds the deque
\* empty, or it takes one task away.
LEMMA WakeStep == CoreInv /\ NoLostWakeup /\ [Next]_vars => NoLostWakeup'
<1> SUFFICES ASSUME CoreInv, NoLostWakeup, [Next]_vars, (~shutdown /\ Asleep # {})'
             PROVE  (Len(tasks) <= Cardinality(Coming))'
  BY DEF NoLostWakeup
<1> USE DEF CoreInv, TypeOK, Labels
<1>0. Cardinality(Coming) \in Nat /\ Len(tasks) \in Nat /\ Cardinality(Coming') \in Nat
  <2>1. Coming' \in SUBSET Workers
    BY DEF Coming
  <2> QED
    BY <2>1, ComingFinite, WorkersAssumption, FS_Subset, FS_CardinalityType, LenProperties
<1>1. ASSUME NEW w \in Workers, While(w) PROVE (Len(tasks) <= Cardinality(Coming))'
  <2>1. ~shutdown /\ Asleep' = Asleep /\ Coming' = Coming /\ tasks' = tasks
    BY <1>1 DEF While, Goto, Asleep, Coming
  <2> QED
    BY <2>1 DEF NoLostWakeup
<1>2. ASSUME NEW w \in Workers, LockMutex(w) PROVE (Len(tasks) <= Cardinality(Coming))'
  <2>1. ~shutdown /\ Asleep' = Asleep /\ Coming' = Coming /\ tasks' = tasks
    BY <1>2 DEF LockMutex, Goto, Asleep, Coming
  <2> QED
    BY <2>1 DEF NoLostWakeup
<1>3. ASSUME NEW w \in Workers, EvalPredicate(w) PROVE (Len(tasks) <= Cardinality(Coming))'
  <2>1. CASE WaitPredicate
    <3>1. ~shutdown /\ Asleep' = Asleep /\ Coming' = Coming /\ tasks' = tasks
      BY <1>3, <2>1 DEF EvalPredicate, Goto, Asleep, Coming
    <3> QED
      BY <3>1 DEF NoLostWakeup
  <2>2. CASE ~WaitPredicate
    BY <1>0, <1>3, <2>2 DEF EvalPredicate, WaitPredicate
  <2> QED
    BY <2>1, <2>2
<1>4. ASSUME NEW w \in Workers, FallAsleep(w) PROVE (Len(tasks) <= Cardinality(Coming))'
  BY <1>0, <1>4 DEF FallAsleep, Goto, DequeInv
<1>5. ASSUME NEW w \in Workers, CheckShutdown(w) PROVE (Len(tasks) <= Cardinality(Coming))'
  <2>1. ~shutdown /\ Asleep' = Asleep /\ Coming' = Coming /\ tasks' = tasks
    BY <1>5 DEF CheckShutdown, Goto, Asleep, Coming
  <2> QED
    BY <2>1 DEF NoLostWakeup
<1>6. ASSUME NEW w \in Workers, Take(w) PROVE (Len(tasks) <= Cardinality(Coming))'
  <2>1. /\ ~shutdown /\ Asleep' = Asleep /\ tasks # <<>> /\ tasks' = Tail(tasks)
        /\ w \in Coming /\ Coming' = Coming \ {w}
    BY <1>6 DEF Take, TakeNext, Goto, Asleep, Coming, DequeInv
  <2>2. Cardinality(Coming') = Cardinality(Coming) - 1
    BY <2>1, ComingShrinks
  <2>3. Len(tasks') = Len(tasks) - 1
    BY <2>1, PopKeepsOrder
  <2> QED
    BY <1>0, <2>1, <2>2, <2>3 DEF NoLostWakeup
<1>7. ASSUME NEW w \in Workers, Finish(w) PROVE (Len(tasks) <= Cardinality(Coming))'
  <2>1. /\ ~shutdown /\ Asleep' = Asleep /\ tasks' = tasks
        /\ w \notin Coming /\ Coming' = Coming \cup {w}
    BY <1>7 DEF Finish, Goto, Asleep, Coming
  <2>2. Cardinality(Coming') = Cardinality(Coming) + 1
    BY <2>1, ComingGrows
  <2> QED
    BY <1>0, <2>1, <2>2 DEF NoLostWakeup
<1>8. ASSUME NEW w \in Workers, SpuriousWakeup(w) PROVE (Len(tasks) <= Cardinality(Coming))'
  <2>1. /\ ~shutdown /\ Asleep # {} /\ tasks' = tasks
        /\ w \notin Coming /\ Coming' = Coming \cup {w}
    BY <1>8 DEF SpuriousWakeup, Goto, Asleep, Coming
  <2>2. Cardinality(Coming') = Cardinality(Coming) + 1
    BY <2>1, ComingGrows
  <2> QED
    BY <1>0, <2>1, <2>2 DEF NoLostWakeup
<1>9. ASSUME NEW t \in Tasks, AddTask(t) PROVE (Len(tasks) <= Cardinality(Coming))'
  <2>1. ~shutdown /\ Len(tasks') = Len(tasks) + 1
    BY <1>9, AppendProperties DEF AddTask
  <2>2. Asleep # {}
    BY <1>9 DEF AddTask, NotifyOne, Asleep
  <2>3. PICK w \in Asleep : Wake(w)
    BY <1>9, <2>2 DEF AddTask, NotifyOne
  <2>4. w \in Workers /\ w \notin Coming /\ Coming' = Coming \cup {w}
    BY <2>3 DEF Asleep, Wake, Coming
  <2>5. Cardinality(Coming') = Cardinality(Coming) + 1
    BY <2>4, ComingGrows
  <2> QED
    BY <1>0, <2>1, <2>2, <2>5 DEF NoLostWakeup
<1>10. ASSUME StoreShutdown \/ NotifyAll \/ JoinAll PROVE FALSE
  BY <1>10 DEF StoreShutdown, NotifyAll, JoinAll, ShutdownInv
<1>11. CASE UNCHANGED vars
  BY <1>11 DEF vars, Asleep, Coming, NoLostWakeup
<1> QED
  BY <1>1, <1>2, <1>3, <1>4, <1>5, <1>6, <1>7, <1>8, <1>9, <1>10, <1>11
  DEF Next, WorkerStep, MainStep

\* The inductive invariant holds in every reachable state.
THEOREM Invariance == Spec => []IInv
<1>1. IInv /\ [Next]_vars => IInv'
  BY CoreStep, FifoStep, WakeStep DEF IInv
<1> QED
  BY InitIInv, <1>1, PTL DEF Spec

-----------------------------------------------------------------------------
(* The properties.                                                          *)

\* Every variable of the pool keeps its type.
THEOREM TypeCorrect == Spec => []TypeOK
<1>1. IInv => TypeOK
  BY DEF IInv, CoreInv
<1> QED
  BY <1>1, Invariance, PTL

\* add_task and the pops of all the workers together are a FIFO queue: what
\* was submitted is what was started followed by what is queued.
THEOREM Fifo == Spec => []FifoNoLoss
<1>1. IInv => FifoNoLoss
  BY DEF IInv
<1> QED
  BY <1>1, Invariance, PTL

\* The notify_one of add_task is enough: a task never waits in the deque for
\* a worker that sleeps, unless other workers are on their way to take it.
THEOREM WakeupsSuffice == Spec => []NoLostWakeup
<1>1. IInv => NoLostWakeup
  BY DEF IInv
<1> QED
  BY <1>1, Invariance, PTL

\* blocking_shutdown stops new tasks, except one that was already past the
\* check of the flag.
THEOREM OneLateStart == Spec => []AtMostOneLateStart
<1>1. IInv => AtMostOneLateStart
  BY DEF IInv, CoreInv, LateInv, AtMostOneLateStart
<1> QED
  BY <1>1, Invariance, PTL

\* When blocking_shutdown has returned, nothing runs and nobody has the lock.
THEOREM Quiescence == Spec => []JoinedQuiescent
<1>1. IInv => JoinedQuiescent
  <2> SUFFICES ASSUME IInv, main = "joined"
               PROVE  /\ mutex = NoThread
                      /\ \A w \in Workers : pc[w] = "exit" /\ executor[w] = NoTask
    BY DEF JoinedQuiescent
  <2>1. \A w \in Workers : pc[w] = "exit"
    BY DEF IInv, CoreInv, ShutdownInv
  <2>2. mutex \notin Workers
    BY <2>1 DEF IInv, CoreInv, LockInv, HoldsMutex
  <2> QED
    BY <2>1, <2>2 DEF IInv, CoreInv, TypeOK, ExecutorInv
<1> QED
  BY <1>1, Invariance, PTL

-----------------------------------------------------------------------------
(* ThreadPool implements PoolContract.                                      *)

\* The head of the deque is the next task of the submission order.
LEMMA NextInOrder ==
  ASSUME NEW s \in Seq(Tasks), NEW q \in Seq(Tasks), q # <<>>
  PROVE  Len(s) < Len(s \o q) /\ (s \o q)[Len(s) + 1] = Head(q)
<1>1. Len(q) \in Nat /\ Len(q) > 0 /\ Len(s) \in Nat
  BY EmptySeq, LenProperties
<1>2. Len(s \o q) = Len(s) + Len(q)
  BY ConcatProperties
<1>3. (s \o q)[Len(s) + 1] = q[1]
  BY <1>1, ConcatProperties
<1> QED
  BY <1>1, <1>2, <1>3

\* Every step of the pool is a step of the contract or leaves it unchanged.
LEMMA ContractStep == IInv /\ [Next]_vars => [Contract!Next]_(Contract!vars)
<1> SUFFICES ASSUME IInv, [Next]_vars PROVE [Contract!Next]_(Contract!vars)
  OBVIOUS
<1> USE DEF IInv, CoreInv, TypeOK
<1>1. ASSUME NEW w \in Workers, Take(w) PROVE Contract!Start(w)
  <2>1. tasks # <<>> /\ main # "joined" /\ executor[w] = NoTask
    BY <1>1 DEF Take, Goto, DequeInv, ShutdownInv, ExecutorInv
  <2>2. /\ Len(started) < Len(submitted)
        /\ submitted[Len(started) + 1] = Head(tasks)
    BY <2>1, NextInOrder DEF FifoNoLoss
  <2>3. Len(started') = Len(started) + 1
    BY <1>1, <2>1, PopKeepsOrder, AppendProperties DEF Take, TakeNext
  <2> QED
    BY <1>1, <2>1, <2>2, <2>3 DEF Take, TakeNext, Goto, Contract!Start
<1>2. ASSUME NEW w \in Workers, Finish(w) PROVE Contract!Finish(w)
  BY <1>2 DEF Finish, Goto, ExecutorInv, Contract!Finish
<1>3. ASSUME NEW t \in Tasks, AddTask(t) PROVE Contract!Submit(t)
  <2>1. main # "joined"
    BY <1>3 DEF AddTask, ShutdownInv
  <2> QED
    BY <1>3, <2>1 DEF AddTask, Contract!Submit, Range, Contract!Range
<1>4. ASSUME JoinAll PROVE Contract!Close
  BY <1>4 DEF JoinAll, ExecutorInv, Contract!Close
<1>5. ASSUME StoreShutdown \/ NotifyAll PROVE UNCHANGED Contract!vars
  BY <1>5 DEF StoreShutdown, NotifyAll, Contract!vars
<1>6. ASSUME UNCHANGED <<executor, main, submitted, started>>
      PROVE  UNCHANGED Contract!vars
  BY <1>6 DEF Contract!vars
<1> QED
  BY <1>1, <1>2, <1>3, <1>4, <1>5, <1>6
  DEF Next, WorkerStep, MainStep, vars, While, LockMutex, EvalPredicate, FallAsleep,
      SpuriousWakeup, CheckShutdown, Contract!Next

\* Seen through the mapping, the locks, the condition variable and the worker
\* loops disappear: the pool is a FIFO queue served by its workers.
THEOREM Refinement == Spec => ImplementsContract
<1>1. Init => Contract!Init
  BY EmptySeq DEF Init, Contract!Init
<1>2. IInv /\ [Next]_vars => [Contract!Next]_(Contract!vars)
  BY ContractStep
<1> QED
  BY <1>1, <1>2, Invariance, PTL DEF Spec, ImplementsContract, Contract!Spec

-----------------------------------------------------------------------------
(* The pool never blocks itself: what EveryTaskStarts needs of each state,   *)
(* whatever is scheduled.                                                    *)

\* Only the flag ends a thread.
ExitInv == \A w \in Workers : pc[w] = "exit" => shutdown

\* No step ends a thread without it.
LEMMA ExitStep == CoreInv /\ ExitInv /\ [Next]_vars => ExitInv'
<1> SUFFICES ASSUME CoreInv, ExitInv, [Next]_vars PROVE ExitInv'
  OBVIOUS
<1>1. pc \in [Workers -> Labels]
  BY DEF CoreInv, TypeOK
<1>2. shutdown => shutdown'
  BY DEF Next, WorkerStep, MainStep, While, LockMutex, EvalPredicate, FallAsleep, CheckShutdown,
         Take, TakeNext, Finish, SpuriousWakeup, AddTask, StoreShutdown, NotifyAll, JoinAll, vars
<1>3. \A w \in Workers : pc'[w] = "exit" => pc[w] = "exit" \/ shutdown
  <2> SUFFICES ASSUME NEW w \in Workers, pc'[w] = "exit", pc[w] # "exit" PROVE shutdown
    OBVIOUS
  <2>1. ASSUME NEW v \in Workers, WorkerStep(v) \/ SpuriousWakeup(v) PROVE shutdown
    BY <1>1, <2>1 DEF WorkerStep, While, LockMutex, EvalPredicate, FallAsleep, CheckShutdown,
                      Take, Finish, SpuriousWakeup, Goto
  <2>2. ASSUME NEW t \in Tasks, AddTask(t) PROVE shutdown
    BY <1>1, <2>2 DEF AddTask, NotifyOne, Wake
  <2>3. CASE MainStep \/ StoreShutdown \/ UNCHANGED vars
    BY <1>1, <2>3 DEF MainStep, StoreShutdown, NotifyAll, JoinAll, vars
  <2> QED
    BY <2>1, <2>2, <2>3 DEF Next
<1> QED
  BY <1>2, <1>3 DEF ExitInv

\* What a thread can do.
CanStep(w) ==
  \/ pc[w] \in {"while", "wait", "block", "check", "take", "run"}
  \/ pc[w] = "lock" /\ mutex = NoThread

\* When no thread can go on, nobody holds the mutex, and either every task
\* that was submitted has been started and all threads sleep, or the pool is
\* being shut down and whoever has not ended sleeps.
StillOnlyWhenDone ==
  (\A w \in Workers : ~CanStep(w)) =>
    /\ mutex = NoThread
    /\ ~shutdown /\ Workers # {} => Asleep = Workers /\ started = submitted
    /\ shutdown => \A w \in Workers : pc[w] \in {"asleep", "exit"}

\* The part of EveryTaskStarts that needs no fairness.  It also says what can
\* keep blocking_shutdown from returning (see ShutdownReturns): only threads
\* that sleep.
THEOREM NeverStuck == Spec => []StillOnlyWhenDone
<1>1. Init => ExitInv
  BY DEF Init, ExitInv
<1>2. IInv /\ ExitInv => StillOnlyWhenDone
  <2> SUFFICES ASSUME IInv, ExitInv, \A w \in Workers : ~CanStep(w)
               PROVE  /\ mutex = NoThread
                      /\ ~shutdown /\ Workers # {} => Asleep = Workers /\ started = submitted
                      /\ shutdown => \A w \in Workers : pc[w] \in {"asleep", "exit"}
    BY DEF StillOnlyWhenDone
  <2>1. \A w \in Workers : pc[w] \in {"lock", "asleep", "exit"}
    BY DEF IInv, CoreInv, TypeOK, Labels, CanStep
  <2>2. mutex = NoThread
    BY <2>1 DEF IInv, CoreInv, TypeOK, LockInv, HoldsMutex
  <2>3. \A w \in Workers : pc[w] \in {"asleep", "exit"}
    BY <2>1, <2>2 DEF CanStep
  <2>4. ASSUME ~shutdown, Workers # {} PROVE Asleep = Workers /\ started = submitted
    <3>1. Asleep = Workers /\ Asleep # {}
      BY <2>3, <2>4 DEF ExitInv, Asleep
    <3>2. Coming = {}
      BY <2>3 DEF Coming
    <3>3. Len(tasks) <= 0
      BY <2>4, <3>1, <3>2, FS_EmptySet DEF IInv, NoLostWakeup
    <3>4. tasks = <<>>
      BY <3>3, LenProperties, EmptySeq DEF IInv, CoreInv, TypeOK
    <3>5. started \o <<>> = started
      BY ConcatEmptySeq DEF IInv, CoreInv, TypeOK
    <3> QED
      BY <3>1, <3>4, <3>5 DEF IInv, FifoNoLoss
  <2> QED
    BY <2>2, <2>3, <2>4
<1>3. IInv => CoreInv
  BY DEF IInv
<1> QED
  BY <1>1, <1>2, <1>3, ExitStep, Invariance, PTL DEF Spec
=============================================================================
