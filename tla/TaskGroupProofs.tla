--------------------------- MODULE TaskGroupProofs ---------------------------
(***************************************************************************)
(* Theorems about TaskGroup, for any finite sets of workers and tasks, if  *)
(* the counter is wide enough for the tasks: types, the counter is exact,  *)
(* no logic_error is thrown, a finished group is over, one right callback  *)
(* is called, a group at rest has settled, and GroupContract is            *)
(* implemented.                                                            *)
(***************************************************************************)
EXTENDS TaskGroup, TLAPS, SequenceTheorems, FiniteSetTheorems

\* The counter can hold the number of tasks (the code relies on it).
CounterSuffices == Cardinality(Tasks) < Limit

-----------------------------------------------------------------------------
(* The inductive invariant.                                                 *)

\* A task is announced once, submitted once, and executed by one worker.
SubmittedInv ==
  /\ \A i, j \in 1..Len(submitted) : submitted[i] = submitted[j] => i = j
  /\ \A i \in 1..Len(submitted) : submitted[i] \in created

AddingInv ==
  \A a \in Actors : pc[a] \in InAddTask =>
    /\ adding[a] \in created
    /\ \A i \in 1..Len(submitted) : submitted[i] # adding[a]
    /\ \A b \in Actors : pc[b] \in InAddTask /\ adding[b] = adding[a] => a = b

JobInv ==
  /\ \A w \in Workers : job[w] = NoTask <=> pc[w] = "idle"
  /\ \A w \in Workers : job[w] # NoTask => \E i \in 1..started : job[w] = submitted[i]
  /\ \A v, w \in Workers : job[v] = job[w] /\ job[v] # NoTask => v = w

\* The client is never in an executor, and adds the first task and no other.
ClientInv ==
  /\ pc[Client] \in {"idle", "added", "callError", "end"} \cup InAddTask
  /\ pc[Client] \in {"idle"} \cup InAddTask => submitted = <<>>
  /\ \A w \in Workers : pc[w] # "added"

StructInv == SubmittedInv /\ AddingInv /\ JobInv /\ ClientInv

\* The group was given work, all of which is over: nothing can be added.
Over == submitted # <<>> /\ Counted = {}

\* Only one worker ever sees the counter reach 0, and only when all is over.
Reached == {"reached0", "casOk", "callFinish"}
ReachedInv ==
  /\ \A w \in Workers : pc[w] \in Reached => Over
  /\ \A v, w \in Workers : pc[v] \in Reached /\ pc[w] \in Reached => v = w

\* What a worker learnt about the state still holds.
StateInv ==
  /\ state = "Done_OK" => Over /\ \A w \in Workers : pc[w] \notin {"reached0", "casOk"}
  /\ \A a \in Actors :
       /\ pc[a] \in {"skip", "subFirst", "subOther", "callError", "reload"} => state = "Done_Error"
       /\ pc[a] = "callFinish" => state = "Done_OK"
       /\ pc[a] # "terminate"

\* A failure is on its way to the state, or has reached it.
FailureInv ==
  /\ failure /\ state = "Running" => \E w \in Workers : pc[w] = "casError"
  /\ state = "Done_OK" => ~failure
  /\ state = "Done_Error" => failure
  /\ \A w \in Workers : pc[w] = "casError" => failure

\* One thread, at most, has yet to call a callback; none has been called then.
Callers == {"subFirst", "callError", "callFinish"}
CallInv ==
  /\ \A a \in Actors : pc[a] \in Callers => calls = <<>>
  /\ \A a, b \in Actors : pc[a] \in Callers /\ pc[b] \in Callers => a = b
  /\ calls \in {<<>>, <<"finish">>, <<"error">>}
  /\ calls = <<"finish">> => state = "Done_OK"
  /\ calls = <<"error">> => state = "Done_Error"

DecisionInv == ReachedInv /\ StateInv /\ FailureInv /\ CallInv

IInv == TypeOK /\ StructInv /\ PendingAccurate /\ DecisionInv

-----------------------------------------------------------------------------
(* Types and structure.                                                     *)

\* Every step keeps the types.
LEMMA TypeStep == TypeOK /\ AddingInv /\ [Next]_vars => TypeOK'
<1> SUFFICES ASSUME TypeOK, AddingInv, [Next]_vars PROVE TypeOK'
  OBVIOUS
<1> USE GroupAssumption DEF TypeOK, Labels, Holding, InAddTask, States, Actors, Goto
<1>1. ASSUME NEW a \in Actors, NEW t \in Tasks, CallAddTask(a, t) PROVE TypeOK'
  BY <1>1 DEF CallAddTask, pool
<1>2. ASSUME NEW a \in Actors, AddLoad(a) PROVE TypeOK'
  BY <1>2 DEF AddLoad, pool, Return, Throw
<1>3. ASSUME NEW a \in Actors, AddInc(a) PROVE TypeOK'
  BY <1>3 DEF AddInc, pool, history, FetchAdd
<1>4. ASSUME NEW a \in Actors, AddPush(a) PROVE TypeOK'
  <2>1. adding[a] \in Tasks
    BY <1>4 DEF AddPush, AddingInv
  <2>2. submitted' \in Seq(Tasks) /\ Len(submitted') = Len(submitted) + 1
    BY <1>4, <2>1, AppendProperties DEF AddPush, Pool!Submit
  <2> QED
    BY <1>4, <2>2 DEF AddPush, history, Return, Pool!Submit
<1>5. ASSUME NEW w \in Workers, Start(w) PROVE TypeOK'
  BY <1>5 DEF Start, history, Pool!Start
<1>6. ASSUME NEW w \in Workers, LoadState(w) PROVE TypeOK'
  BY <1>6 DEF LoadState, pool, history
<1>7. ASSUME NEW w \in Workers, Skip(w) PROVE TypeOK'
  BY <1>7 DEF Skip, pool, history, FetchSub
<1>8. ASSUME NEW w \in Workers, TaskReturns(w) \/ TaskThrows(w) PROVE TypeOK'
  BY <1>8 DEF TaskReturns, TaskThrows, pool, history
<1>9. ASSUME NEW w \in Workers, CasError(w) PROVE TypeOK'
  BY <1>9 DEF CasError, SetStateIfRunning, pool, history
<1>10. ASSUME NEW w \in Workers, SubError(w) PROVE TypeOK'
  BY <1>10 DEF SubError, FetchSub, pool, history
<1>11. ASSUME NEW w \in Workers, Reload(w) PROVE TypeOK'
  BY <1>11 DEF Reload, pool, history
<1>12. ASSUME NEW w \in Workers, Sub(w) PROVE TypeOK'
  BY <1>12 DEF Sub, FetchSub, pool, history
<1>13. ASSUME NEW w \in Workers, LoadReached0(w) PROVE TypeOK'
  BY <1>13 DEF LoadReached0, pool, history
<1>14. ASSUME NEW w \in Workers, CasOk(w) PROVE TypeOK'
  BY <1>14 DEF CasOk, SetStateIfRunning, pool, history
<1>15. ASSUME NEW w \in Workers, CallFinish(w) PROVE TypeOK'
  BY <1>15 DEF CallFinish, pool
<1>16. ASSUME NEW a \in Actors, CallError(a) PROVE TypeOK'
  BY <1>16 DEF CallError, pool
<1>17. ASSUME NEW w \in Workers, End(w) PROVE TypeOK'
  BY <1>17 DEF End, Pool!Finish, history
<1>18. ASSUME Cancel PROVE TypeOK'
  BY <1>18 DEF Cancel, SetStateIfRunning, pool
<1>19. ASSUME Shutdown PROVE TypeOK'
  BY <1>19 DEF Shutdown, Pool!Close, history
<1>20. ASSUME UNCHANGED vars PROVE TypeOK'
  BY <1>20 DEF vars, pool, history
<1> QED
  BY <1>1, <1>2, <1>3, <1>4, <1>5, <1>6, <1>7, <1>8, <1>9, <1>10, <1>11, <1>12,
     <1>13, <1>14, <1>15, <1>16, <1>17, <1>18, <1>19, <1>20
     DEF Next, WorkerStep, ClientStep, AddTaskStep

\* A step of one thread within an executor or cancel, that adds nothing and
\* leaves the pool alone, keeps the structure.
LEMMA QuietStruct ==
  ASSUME TypeOK, StructInv, NEW a \in Actors,
         pc' = [pc EXCEPT ![a] = pc'[a]],
         pc[a] \notin InAddTask \cup {"idle"},
         pc'[a] \notin InAddTask \cup {"idle", "added"},
         a = Client => pc'[a] \in {"callError", "end"},
         UNCHANGED <<submitted, started, job, adding, created>>
  PROVE  StructInv'
<1> USE GroupAssumption DEF Actors, TypeOK
<1>1. \A b \in Actors : pc'[b] = IF b = a THEN pc'[a] ELSE pc[b]
  OBVIOUS
<1>2. SubmittedInv' /\ JobInv'
  BY <1>1 DEF StructInv, SubmittedInv, JobInv
<1>3. AddingInv'
  BY <1>1 DEF StructInv, AddingInv
<1>4. ClientInv'
  BY <1>1 DEF StructInv, ClientInv
<1> QED
  BY <1>2, <1>3, <1>4 DEF StructInv

\* A task that is added has a name that no add_task was called with.
LEMMA CallAddTaskStruct ==
  ASSUME TypeOK, StructInv, NEW a \in Actors, NEW t \in Tasks, CallAddTask(a, t)
  PROVE  StructInv'
<1> USE GroupAssumption DEF Actors, TypeOK, CallAddTask, pool, Goto
<1>1. /\ pc[a] \in {"idle", "body"} /\ (pc[a] = "idle" <=> a = Client)
      /\ \A b \in Actors : pc'[b] = IF b = a THEN "addLoad" ELSE pc[b]
      /\ \A b \in Actors : adding'[b] = IF b = a THEN t ELSE adding[b]
  OBVIOUS
<1>2. SubmittedInv'
  BY DEF StructInv, SubmittedInv
<1>3. JobInv'
  BY <1>1 DEF StructInv, JobInv
<1>4. AddingInv'
  BY <1>1 DEF StructInv, AddingInv, SubmittedInv, InAddTask
<1>5. ClientInv'
  BY <1>1 DEF StructInv, ClientInv, InAddTask
<1> QED
  BY <1>2, <1>3, <1>4, <1>5 DEF StructInv

\* Neither the load of the state nor the increment disturbs the structure.
LEMMA AddLoadStruct ==
  ASSUME TypeOK, StructInv, StateInv, NEW a \in Actors, AddLoad(a) \/ AddInc(a)
  PROVE  StructInv'
<1> USE GroupAssumption DEF Actors, TypeOK, pool, history
<1>1. state = "Done_OK" => pc[Client] \notin InAddTask
  BY DEF StructInv, ClientInv, StateInv, Over
<1>2. /\ pc[a] \in InAddTask
      /\ \A b \in Actors : b # a => pc'[b] = pc[b] /\ adding'[b] = adding[b]
      /\ \/ pc'[a] \in InAddTask /\ adding'[a] = adding[a]
         \/ pc'[a] = IF a = Client THEN "added" ELSE "body"
         \/ a # Client /\ pc'[a] = "casError"
      /\ UNCHANGED <<submitted, started, job, created>>
  BY <1>1 DEF AddLoad, AddInc, Goto, Return, Throw, States, InAddTask
<1>3. SubmittedInv'
  BY <1>2 DEF StructInv, SubmittedInv
<1>4. JobInv'
  BY <1>2 DEF StructInv, JobInv, InAddTask
<1>5. AddingInv'
  BY <1>2 DEF StructInv, AddingInv, InAddTask
<1>6. ClientInv'
  BY <1>2 DEF StructInv, ClientInv, InAddTask
<1> QED
  BY <1>3, <1>4, <1>5, <1>6 DEF StructInv

\* The push submits a task that was not submitted before.
LEMMA AddPushStruct ==
  ASSUME TypeOK, StructInv, NEW a \in Actors, AddPush(a)
  PROVE  StructInv'
<1> USE GroupAssumption DEF Actors, TypeOK
<1> DEFINE n == Len(submitted) + 1
<1>1. /\ pc[a] = "addPush"
      /\ \A b \in Actors : pc'[b] = IF b = a THEN Return(a) ELSE pc[b]
      /\ \A b \in Actors : b # a => adding'[b] = adding[b]
      /\ UNCHANGED <<started, job, created>>
  BY DEF AddPush, Goto, Pool!Submit, history
<1>2. adding[a] \in created /\ adding[a] \in Tasks
  BY <1>1 DEF StructInv, AddingInv, InAddTask
<1>3. /\ Len(submitted') = n
      /\ \A i \in 1..Len(submitted) : submitted'[i] = submitted[i]
      /\ submitted'[n] = adding[a]
  BY <1>2, AppendProperties DEF AddPush, Pool!Submit
<1>4. \A i \in 1..Len(submitted) : submitted[i] # adding[a]
  BY <1>1 DEF StructInv, AddingInv, InAddTask
<1>5. SubmittedInv'
  BY <1>1, <1>2, <1>3, <1>4 DEF StructInv, SubmittedInv
<1>6. JobInv'
  BY <1>1, <1>3 DEF StructInv, JobInv, Return
<1>7. AddingInv'
  <2> SUFFICES ASSUME NEW b \in Actors, pc'[b] \in InAddTask
               PROVE  /\ adding'[b] \in created
                      /\ \A i \in 1..n : submitted'[i] # adding'[b]
                      /\ \A c \in Actors : pc'[c] \in InAddTask /\ adding'[c] = adding'[b] => b = c
    BY <1>1, <1>3 DEF AddingInv
  <2>1. b # a /\ pc[b] \in InAddTask /\ adding'[b] = adding[b]
    BY <1>1 DEF Return, InAddTask
  <2>2. adding[b] # adding[a] /\ adding[b] \in created
        /\ \A i \in 1..Len(submitted) : submitted[i] # adding[b]
    BY <1>1, <2>1 DEF StructInv, AddingInv, InAddTask
  <2>3. ASSUME NEW i \in 1..n
        PROVE  submitted'[i] # adding'[b]
    <3>1. CASE i = n
      BY <1>3, <2>1, <2>2, <3>1
    <3>2. CASE i # n
      <4>1. i \in 1..Len(submitted)
        BY <3>2
      <4> QED
        BY <1>3, <2>1, <2>2, <4>1
    <3> QED
      BY <3>1, <3>2
  <2>4. \A c \in Actors : pc'[c] \in InAddTask /\ adding'[c] = adding'[b] => b = c
    BY <1>1, <2>1 DEF StructInv, AddingInv, InAddTask, Return
  <2> QED
    BY <2>1, <2>2, <2>3, <2>4
<1>8. a # Client => submitted # <<>>
  BY <1>1 DEF StructInv, JobInv
<1>9. ClientInv'
  BY <1>1, <1>8 DEF StructInv, ClientInv, Return, InAddTask
<1> QED
  BY <1>5, <1>6, <1>7, <1>9 DEF StructInv

\* The worker gets a task that no worker has or had.
LEMMA StartStruct ==
  ASSUME TypeOK, StructInv, NEW w \in Workers, Start(w)
  PROVE  StructInv'
<1> USE GroupAssumption DEF Actors, TypeOK
<1>1. /\ pc[w] = "idle"
      /\ \A b \in Actors : pc'[b] = IF b = w THEN "load" ELSE pc[b]
      /\ started < Len(submitted) /\ started' = started + 1
      /\ \A v \in Workers : job'[v] = IF v = w THEN submitted[started + 1] ELSE job[v]
      /\ UNCHANGED <<submitted, adding, created>>
  BY DEF Start, Goto, Pool!Start, history
<1>2. submitted[started + 1] \in Tasks
  BY <1>1
<1>3. SubmittedInv'
  BY <1>1 DEF StructInv, SubmittedInv
<1>4. AddingInv'
  BY <1>1 DEF StructInv, AddingInv, InAddTask
<1>5. JobInv'
  <2>1. \A v \in Workers : job'[v] = NoTask <=> pc'[v] = "idle"
    BY <1>1, <1>2 DEF StructInv, JobInv
  <2>2. \A v \in Workers : job'[v] # NoTask => \E i \in 1..started' : job'[v] = submitted[i]
    BY <1>1 DEF StructInv, JobInv
  <2>3. \A v \in Workers \ {w} : job[v] # NoTask => job[v] # submitted[started + 1]
    BY <1>1 DEF StructInv, JobInv, SubmittedInv
  <2>4. \A u, v \in Workers : job'[u] = job'[v] /\ job'[u] # NoTask => u = v
    BY <1>1, <1>2, <2>3 DEF StructInv, JobInv
  <2> QED
    BY <1>1, <2>1, <2>2, <2>4 DEF JobInv
<1>6. ClientInv'
  BY <1>1 DEF StructInv, ClientInv
<1> QED
  BY <1>3, <1>4, <1>5, <1>6 DEF StructInv

\* The worker gives its task away.
LEMMA EndStruct ==
  ASSUME TypeOK, StructInv, NEW w \in Workers, End(w)
  PROVE  StructInv'
<1> USE GroupAssumption DEF Actors, TypeOK
<1>1. /\ pc[w] = "end"
      /\ \A b \in Actors : pc'[b] = IF b = w THEN "idle" ELSE pc[b]
      /\ \A v \in Workers : job'[v] = IF v = w THEN NoTask ELSE job[v]
      /\ UNCHANGED <<submitted, started, adding, created>>
  BY DEF End, Goto, Pool!Finish, history
<1>2. SubmittedInv'
  BY <1>1 DEF StructInv, SubmittedInv
<1>3. AddingInv'
  BY <1>1 DEF StructInv, AddingInv, InAddTask
<1>4. JobInv'
  BY <1>1 DEF StructInv, JobInv
<1>5. ClientInv'
  BY <1>1 DEF StructInv, ClientInv
<1> QED
  BY <1>2, <1>3, <1>4, <1>5 DEF StructInv

\* Every step keeps the structure.
LEMMA StructStep == TypeOK /\ StructInv /\ StateInv /\ [Next]_vars => StructInv'
<1> SUFFICES ASSUME TypeOK, StructInv, StateInv, [Next]_vars PROVE StructInv'
  OBVIOUS
<1> DEFINE Quiet(a) ==
      /\ pc' = [pc EXCEPT ![a] = pc'[a]]
      /\ pc[a] \notin InAddTask \cup {"idle"}
      /\ pc'[a] \notin InAddTask \cup {"idle", "added"}
      /\ a = Client => pc'[a] \in {"callError", "end"}
      /\ UNCHANGED <<submitted, started, job, adding, created>>
<1>1. ASSUME NEW w \in Workers,
             \/ LoadState(w) \/ Skip(w) \/ TaskReturns(w) \/ TaskThrows(w)
             \/ CasError(w) \/ SubError(w) \/ Reload(w) \/ Sub(w)
             \/ LoadReached0(w) \/ CasOk(w) \/ CallFinish(w)
      PROVE  Quiet(w)
  BY <1>1, GroupAssumption
     DEF TypeOK, Actors, InAddTask, States, Goto, pool, history, LoadState, Skip,
         TaskReturns, TaskThrows, CasError, SubError, Reload, Sub, LoadReached0,
         CasOk, CallFinish
<1>2. ASSUME NEW a \in Actors, CallError(a) PROVE Quiet(a)
  BY <1>2 DEF TypeOK, InAddTask, Goto, pool, CallError
<1>3. ASSUME Cancel PROVE Quiet(Client)
  BY <1>3 DEF TypeOK, Actors, InAddTask, Goto, pool, Cancel
<1>4. ASSUME NEW a \in Actors, Quiet(a) PROVE StructInv'
  BY <1>4, QuietStruct
<1>5. ASSUME UNCHANGED vars \/ Shutdown PROVE StructInv'
  BY <1>5 DEF vars, pool, history, Shutdown, Pool!Close,
              StructInv, SubmittedInv, AddingInv, JobInv, ClientInv
<1> HIDE DEF Quiet
<1>6. ASSUME NEW w \in Workers, WorkerStep(w) PROVE StructInv'
  BY <1>1, <1>2, <1>4, <1>6, CallAddTaskStruct, AddLoadStruct, AddPushStruct,
     StartStruct, EndStruct DEF WorkerStep, AddTaskStep, Actors
<1>7. ASSUME ClientStep PROVE StructInv'
  BY <1>2, <1>4, <1>7, CallAddTaskStruct, AddLoadStruct, AddPushStruct
     DEF ClientStep, AddTaskStep, Actors
<1> QED
  BY <1>3, <1>4, <1>5, <1>6, <1>7 DEF Next, Actors

-----------------------------------------------------------------------------
(* The counted tasks.                                                       *)

\* The counted tasks are tasks, and finitely many.
LEMMA CountedFinite ==
  ASSUME TypeOK, StructInv
  PROVE  /\ Counted \subseteq Tasks
         /\ IsFiniteSet(Counted)
         /\ Cardinality(Counted) \in Nat
         /\ Cardinality(Counted) <= Cardinality(Tasks)
<1>1. Announced \subseteq Tasks
  BY DEF Announced, TypeOK, StructInv, AddingInv, InAddTask
<1>2. Queued \subseteq Tasks
  BY DEF Queued, TypeOK
<1>3. Executing \subseteq Tasks
  BY DEF Executing, TypeOK, StructInv, JobInv, Holding, InAddTask
<1>4. Counted \subseteq Tasks
  BY <1>1, <1>2, <1>3 DEF Counted
<1> QED
  BY <1>4, GroupAssumption, FS_Subset, FS_CardinalityType

\* What a worker holds is counted.
LEMMA HoldingCounted ==
  ASSUME NEW w \in Workers, pc[w] \in Holding
  PROVE  job[w] \in Counted
BY DEF Counted, Executing

\* A thread that moves within the labels that hold a task, or within the others,
\* and neither announces nor pushes one, leaves the counted tasks alone.
LEMMA CountedKept ==
  ASSUME TypeOK, NEW a \in Actors,
         pc' = [pc EXCEPT ![a] = pc'[a]],
         pc[a] # "addPush", pc'[a] # "addPush",
         a \in Workers => (pc[a] \in Holding <=> pc'[a] \in Holding),
         \A v \in Workers : pc[v] \in Holding => job'[v] = job[v],
         \A b \in Actors : pc[b] = "addPush" => adding'[b] = adding[b],
         UNCHANGED <<submitted, started>>
  PROVE  Announced' = Announced /\ Counted' = Counted
<1>1. \A b \in Actors : pc'[b] = IF b = a THEN pc'[a] ELSE pc[b]
  BY DEF TypeOK
<1>2. Announced' = Announced
  BY <1>1 DEF Announced
<1>3. Queued' = Queued
  BY DEF Queued
<1>4. Executing' = Executing
  BY <1>1 DEF Executing, Actors
<1> QED
  BY <1>2, <1>3, <1>4 DEF Counted

\* A worker that stops holding its task takes it, and no other, from the count.
LEMMA CountedLoses ==
  ASSUME TypeOK, StructInv, NEW w \in Workers,
         pc' = [pc EXCEPT ![w] = pc'[w]],
         pc[w] \in Holding \ InAddTask, pc'[w] \notin Holding,
         UNCHANGED <<submitted, started, job, adding>>
  PROVE  /\ job[w] \in Counted /\ Counted' = Counted \ {job[w]}
         /\ Announced' = Announced
<1> USE DEF TypeOK, Actors
<1>1. \A b \in Actors : pc'[b] = IF b = w THEN pc'[w] ELSE pc[b]
  OBVIOUS
<1>2. job[w] # NoTask /\ \E i \in 1..started : job[w] = submitted[i]
  BY DEF StructInv, JobInv, Holding
<1>3. Announced' = Announced
  BY <1>1 DEF Announced, InAddTask, Holding
<1>4. job[w] \notin Announced
  BY <1>2 DEF Announced, StructInv, AddingInv, InAddTask
<1>5. Queued' = Queued
  BY DEF Queued
<1>6. job[w] \notin Queued
  BY <1>2 DEF Queued, StructInv, SubmittedInv
<1>7. Executing' = Executing \ {job[w]}
  <2>1. \A v \in Workers : v # w => job[v] # job[w]
    BY <1>2 DEF StructInv, JobInv
  <2> QED
    BY <1>1, <2>1 DEF Executing
<1>8. job[w] \in Counted
  BY HoldingCounted
<1> QED
  BY <1>3, <1>4, <1>5, <1>6, <1>7, <1>8 DEF Counted

\* The increment announces a task that was not counted.
LEMMA CountedGains ==
  ASSUME TypeOK, StructInv, NEW a \in Actors, AddInc(a)
  PROVE  adding[a] \notin Counted /\ Counted' = Counted \cup {adding[a]}
<1> USE GroupAssumption DEF TypeOK, Actors
<1>1. /\ pc[a] = "addInc"
      /\ \A b \in Actors : pc'[b] = IF b = a THEN "addPush" ELSE pc[b]
      /\ UNCHANGED <<submitted, started, job, adding>>
  BY DEF AddInc, Goto, pool, history
<1>2. Announced' = Announced \cup {adding[a]}
  BY <1>1 DEF Announced
<1>3. adding[a] \notin Announced
  BY <1>1 DEF Announced, StructInv, AddingInv, InAddTask
<1>4. Queued' = Queued
  BY <1>1 DEF Queued
<1>5. \A i \in 1..Len(submitted) : submitted[i] # adding[a]
  BY <1>1 DEF StructInv, AddingInv, InAddTask
<1>6. adding[a] \notin Queued
  BY <1>5 DEF Queued
<1>7. Executing' = Executing
  BY <1>1 DEF Executing, Holding, InAddTask
<1>8. adding[a] \notin Executing
  BY <1>5 DEF Executing, StructInv, JobInv, Holding, InAddTask
<1> QED
  BY <1>2, <1>3, <1>4, <1>6, <1>7, <1>8 DEF Counted

\* The push queues the task that was announced.
LEMMA CountedPushed ==
  ASSUME TypeOK, StructInv, NEW a \in Actors, AddPush(a)
  PROVE  Counted' = Counted
<1> USE GroupAssumption DEF TypeOK, Actors
<1> DEFINE n == Len(submitted) + 1
<1>1. /\ pc[a] = "addPush"
      /\ \A b \in Actors : pc'[b] = IF b = a THEN Return(a) ELSE pc[b]
      /\ \A b \in Actors : b # a => adding'[b] = adding[b]
      /\ UNCHANGED <<started, job>>
  BY DEF AddPush, Goto, Pool!Submit
<1>2. adding[a] \in Tasks
  BY <1>1 DEF StructInv, AddingInv, InAddTask
<1>3. /\ Len(submitted') = n
      /\ \A i \in 1..Len(submitted) : submitted'[i] = submitted[i]
      /\ submitted'[n] = adding[a]
  BY <1>2, AppendProperties DEF AddPush, Pool!Submit
<1>4. Announced = Announced' \cup {adding[a]}
  BY <1>1 DEF Announced, Return
<1>5. Queued' = Queued \cup {adding[a]}
  <2> DEFINE I == (started + 1)..Len(submitted)
  <2>1. (started' + 1)..Len(submitted') = I \cup {n}
    BY <1>1, <1>3
  <2>2. \A i \in I : submitted'[i] = submitted[i]
    BY <1>3
  <2>3. Queued' = {submitted'[i] : i \in I \cup {n}}
    BY <2>1 DEF Queued
  <2> HIDE DEF I, n
  <2>4. Queued' = {submitted[i] : i \in I} \cup {submitted'[n]}
    BY <2>2, <2>3
  <2> QED
    BY <1>3, <2>4 DEF Queued, I
<1>6. Executing' = Executing
  BY <1>1 DEF Executing, Holding, InAddTask, Return
<1> QED
  BY <1>4, <1>5, <1>6 DEF Counted

\* The worker that starts a task holds what was queued.
LEMMA CountedStarted ==
  ASSUME TypeOK, NEW w \in Workers, Start(w)
  PROVE  Counted' = Counted
<1> USE GroupAssumption DEF TypeOK, Actors
<1> DEFINE t == submitted[started + 1]
<1>1. /\ pc[w] = "idle"
      /\ \A b \in Actors : pc'[b] = IF b = w THEN "load" ELSE pc[b]
      /\ started < Len(submitted) /\ started' = started + 1
      /\ \A v \in Workers : job'[v] = IF v = w THEN t ELSE job[v]
      /\ UNCHANGED <<submitted, adding>>
  BY DEF Start, Goto, Pool!Start, history
<1>2. Announced' = Announced
  BY <1>1 DEF Announced
<1>3. Queued = Queued' \cup {t}
  BY <1>1 DEF Queued
<1>4. Executing' = Executing \cup {t}
  BY <1>1 DEF Executing, Holding, InAddTask
<1> QED
  BY <1>2, <1>3, <1>4 DEF Counted

-----------------------------------------------------------------------------
(* The counter is exact.                                                    *)

\* The cardinality of a finite set without one of its elements.
LEMMA RemoveOne ==
  ASSUME NEW S, IsFiniteSet(S), NEW x \in S
  PROVE  Cardinality(S \ {x}) = Cardinality(S) - 1
BY FS_RemoveElement

\* Every step changes the counter with the counted tasks, and no step wraps it.
LEMMA CountStep ==
  ASSUME CounterSuffices, TypeOK, StructInv, StateInv, PendingAccurate, [Next]_vars
  PROVE  PendingAccurate'
<1> USE GroupAssumption DEF TypeOK, Actors, PendingAccurate, pool, history
<1> DEFINE Kept == Counted' = Counted /\ pending' = pending
<1>1. ASSUME Kept PROVE PendingAccurate'
  BY <1>1
<1>2. \A w \in Workers : pc[w] \in Holding => state # "Done_OK"
  BY HoldingCounted DEF StateInv, Over
<1>3. ASSUME NEW a \in Actors, NEW t \in Tasks, CallAddTask(a, t) PROVE Kept
  BY <1>3, CountedKept DEF CallAddTask, Goto, Holding, InAddTask
<1>4. ASSUME NEW a \in Actors, AddLoad(a) PROVE Kept
  BY <1>4, CountedKept DEF AddLoad, Goto, Holding, InAddTask, Return, Throw, States
<1>5. ASSUME NEW a \in Actors, AddInc(a) PROVE PendingAccurate'
  <2>1. adding[a] \notin Counted /\ Counted' = Counted \cup {adding[a]}
    BY <1>5, CountedGains
  <2>2. adding[a] \in Tasks
    BY <1>5 DEF AddInc, Goto, StructInv, AddingInv, InAddTask
  <2>3. IsFiniteSet(Counted) /\ Counted' \subseteq Tasks /\ Cardinality(Counted) \in Nat
    BY <2>1, <2>2, CountedFinite
  <2>4. Cardinality(Counted') = Cardinality(Counted) + 1
    BY <2>1, <2>3, FS_AddElement
  <2>5. Cardinality(Counted') <= Cardinality(Tasks) /\ Cardinality(Tasks) \in Nat
    BY <2>3, FS_Subset, FS_CardinalityType
  <2> QED
    BY <1>5, <2>3, <2>4, <2>5 DEF AddInc, FetchAdd, CounterSuffices
<1>6. ASSUME NEW a \in Actors, AddPush(a) PROVE Kept
  BY <1>6, CountedPushed DEF AddPush
<1>7. ASSUME NEW w \in Workers, Start(w) PROVE Kept
  BY <1>7, CountedStarted DEF Start
<1>8. ASSUME NEW w \in Workers, Skip(w) \/ SubError(w) \/ Sub(w) PROVE PendingAccurate'
  <2>1. pc[w] \in Holding \ InAddTask /\ pc'[w] \notin Holding
    BY <1>8 DEF Skip, SubError, Sub, Goto, Holding, InAddTask
  <2>2. pc' = [pc EXCEPT ![w] = pc'[w]] /\ UNCHANGED <<submitted, started, job, adding>>
    BY <1>8, <2>1 DEF Skip, SubError, Sub, Goto
  <2>3. job[w] \in Counted /\ Counted' = Counted \ {job[w]}
    BY <2>1, <2>2, CountedLoses
  <2>4. IsFiniteSet(Counted) /\ Cardinality(Counted) \in Nat
    BY CountedFinite
  <2>5. Cardinality(Counted') = Cardinality(Counted) - 1
    BY <2>3, <2>4, RemoveOne
  <2>6. Cardinality(Counted') \in Nat
    BY <2>3, <2>4, FS_RemoveElement, FS_CardinalityType
  <2>7. pending' = IF pending = -Limit THEN Limit - 1 ELSE pending - 1
    BY <1>8 DEF Skip, SubError, Sub, FetchSub
  <2> QED
    BY <2>4, <2>5, <2>6, <2>7
<1>9. ASSUME NEW w \in Workers, LoadState(w) PROVE Kept
  BY <1>2, <1>9, CountedKept DEF LoadState, Goto, Holding, InAddTask, States
<1>10. ASSUME NEW w \in Workers, TaskReturns(w) \/ TaskThrows(w) PROVE Kept
  BY <1>10, CountedKept DEF TaskReturns, TaskThrows, Goto, Holding, InAddTask
<1>11. ASSUME NEW w \in Workers, CasError(w) PROVE Kept
  BY <1>11, CountedKept DEF CasError, Goto, Holding, InAddTask
<1>12. ASSUME NEW w \in Workers, Reload(w) \/ LoadReached0(w) PROVE Kept
  BY <1>12, CountedKept DEF Reload, LoadReached0, Goto, Holding, InAddTask
<1>13. ASSUME NEW w \in Workers, CasOk(w) \/ CallFinish(w) PROVE Kept
  BY <1>13, CountedKept DEF CasOk, CallFinish, Goto, Holding, InAddTask
<1>14. ASSUME NEW a \in Actors, CallError(a) PROVE Kept
  BY <1>14, CountedKept DEF CallError, Goto, Holding, InAddTask
<1>15. ASSUME NEW w \in Workers, End(w) PROVE Kept
  BY <1>15, CountedKept DEF End, Pool!Finish, Goto, Holding, InAddTask
<1>16. ASSUME Cancel PROVE Kept
  BY <1>16, CountedKept DEF Cancel, Goto, Holding, InAddTask
<1>17. ASSUME Shutdown \/ UNCHANGED vars PROVE Kept
  BY <1>17 DEF Shutdown, Pool!Close, vars, Counted, Announced, Queued, Executing
<1> HIDE DEF Kept
<1> QED
  BY <1>1, <1>3, <1>4, <1>5, <1>6, <1>7, <1>8, <1>9, <1>10, <1>11, <1>12, <1>13,
     <1>14, <1>15, <1>16, <1>17 DEF Next, WorkerStep, ClientStep, AddTaskStep

-----------------------------------------------------------------------------
(* A group that is over stays over.                                         *)

AllOver ==
  /\ submitted # <<>> /\ started = Len(submitted)
  /\ \A w \in Workers : pc[w] \notin Holding
  /\ \A a \in Actors : pc[a] \notin InAddTask

\* What it means for the threads and the pool that the group is over.
LEMMA OverMeans ==
  ASSUME TypeOK, StructInv
  PROVE  Over <=> AllOver
<1>1. ASSUME Over PROVE AllOver
  <2>1. \A w \in Workers : pc[w] \notin Holding
    BY <1>1, HoldingCounted DEF Over
  <2>2. \A a \in Actors : pc[a] \notin InAddTask
    BY <1>1, <2>1 DEF Over, Actors, StructInv, ClientInv, Holding
  <2>3. started = Len(submitted)
    <3>1. started < Len(submitted) => submitted[started + 1] \in Queued
      BY DEF Queued, TypeOK
    <3> QED
      BY <1>1, <3>1 DEF Over, Counted, TypeOK
  <2> QED
    BY <1>1, <2>1, <2>2, <2>3 DEF Over, AllOver
<1>2. ASSUME AllOver PROVE Over
  BY <1>2 DEF AllOver, Over, Counted, Announced, Queued, Executing, TypeOK, InAddTask
<1> QED
  BY <1>1, <1>2

\* Nothing can be added to a group that is over.
LEMMA OverStep ==
  ASSUME TypeOK, StructInv, TypeOK', StructInv', Over, [Next]_vars
  PROVE  Over'
<1>1. AllOver
  BY OverMeans
<1> USE <1>1, GroupAssumption DEF TypeOK, Actors, AllOver, Holding, InAddTask, Goto, pool, history
<1>2. \A a \in Actors, t \in Tasks : ~CallAddTask(a, t)
  BY DEF CallAddTask, StructInv, ClientInv
<1>3. \A a \in Actors : ~AddTaskStep(a)
  BY DEF AddTaskStep, AddLoad, AddInc, AddPush
<1>4. \A w \in Workers : ~(Start(w) \/ LoadState(w) \/ Skip(w) \/ TaskReturns(w))
  BY DEF Start, Pool!Start, LoadState, Skip, TaskReturns
<1>5. \A w \in Workers : ~(TaskThrows(w) \/ CasError(w) \/ SubError(w) \/ Sub(w))
  BY DEF TaskThrows, CasError, SubError, Sub
<1>6. ASSUME NEW w \in Workers, Reload(w) \/ LoadReached0(w) PROVE AllOver'
  BY <1>6 DEF Reload, LoadReached0
<1>7. ASSUME NEW w \in Workers, CasOk(w) \/ CallFinish(w) PROVE AllOver'
  BY <1>7 DEF CasOk, CallFinish
<1>8. ASSUME NEW a \in Actors, CallError(a) PROVE AllOver'
  BY <1>8 DEF CallError
<1>9. ASSUME NEW w \in Workers, End(w) PROVE AllOver'
  BY <1>9 DEF End, Pool!Finish
<1>10. ASSUME Cancel PROVE AllOver'
  BY <1>10 DEF Cancel
<1>11. ASSUME Shutdown \/ UNCHANGED vars PROVE AllOver'
  BY <1>11 DEF Shutdown, Pool!Close, vars
<1>12. AllOver'
  BY <1>2, <1>3, <1>4, <1>5, <1>6, <1>7, <1>8, <1>9, <1>10, <1>11
     DEF Next, WorkerStep, ClientStep
<1>13. (TypeOK /\ StructInv => (Over <=> AllOver))'
  BY OverMeans, PTL
<1> QED
  BY <1>12, <1>13

-----------------------------------------------------------------------------
(* The decision and the callbacks.                                          *)

\* The worker that decrements to 0 was the last one.
LEMMA LastOne ==
  ASSUME TypeOK, StructInv, PendingAccurate, NEW w \in Workers, Sub(w)
  PROVE  pending >= 1 /\ (pending = 1 => Over')
<1> USE DEF Sub, Goto
<1>1. job[w] \in Counted /\ IsFiniteSet(Counted) /\ Cardinality(Counted) \in Nat
  BY CountedFinite, HoldingCounted DEF Holding
<1>2. pending # 0
  BY <1>1, FS_EmptySet DEF PendingAccurate
<1>3. ASSUME pending = 1 PROVE Over'
  <2>1. Counted \ {job[w]} = {}
    <3> HIDE DEF Sub, Goto
    <3>0. Cardinality(Counted) = 1
      BY <1>3 DEF PendingAccurate
    <3>1. Cardinality(Counted \ {job[w]}) = 0
      BY <1>1, <3>0, RemoveOne
    <3>2. IsFiniteSet(Counted \ {job[w]})
      BY <1>1, FS_RemoveElement
    <3> QED
      BY <3>1, <3>2, FS_EmptySet
  <2>2. pc' = [pc EXCEPT ![w] = pc'[w]] /\ pc'[w] = "reached0" /\ UNCHANGED <<submitted, started, job, adding>>
    BY <1>3 DEF pool, history, TypeOK, Actors
  <2>3. Counted' = Counted \ {job[w]}
    BY <2>2, CountedLoses DEF Holding, InAddTask
  <2>4. submitted # <<>>
    BY DEF TypeOK, StructInv, JobInv
  <2> QED
    BY <2>1, <2>2, <2>3, <2>4 DEF Over
<1> QED
  BY <1>1, <1>2, <1>3 DEF PendingAccurate

\* The first callback.
LEMMA AppendToEmpty == \A x : Append(<<>>, x) = <<x>>
OBVIOUS

\* Every step keeps what is known of the state and the callbacks.
LEMMA DecisionStep ==
  ASSUME TypeOK, StructInv, PendingAccurate, DecisionInv, [Next]_vars, TypeOK', StructInv'
  PROVE  DecisionInv'
<1>1. \A w \in Workers : pc[w] \in Holding => ~Over
  BY HoldingCounted DEF Over
<1>2. Over => Over'
  BY OverStep
<1>3. pc[Client] \in InAddTask => ~Over
  BY DEF Over, StructInv, ClientInv
<1>4. /\ pc[Client] \in {"idle", "added", "callError", "end"} \cup InAddTask
      /\ \A w \in Workers : pc[w] # "added"
  BY DEF StructInv, ClientInv
<1>5. ASSUME NEW w \in Workers, Sub(w) PROVE pending >= 1 /\ (pending = 1 => Over')
  BY <1>5, LastOne
<1> USE <1>1, <1>2, <1>3, <1>4, GroupAssumption
    DEF TypeOK, Actors, States, Holding, InAddTask, Reached, Callers, DecisionInv,
        ReachedInv, StateInv, FailureInv, CallInv, Goto, pool, history
<1>6. ASSUME NEW a \in Actors, NEW t \in Tasks, CallAddTask(a, t) PROVE DecisionInv'
  BY <1>6 DEF CallAddTask
<1>7. ASSUME NEW a \in Actors, AddLoad(a) PROVE DecisionInv'
  BY <1>7 DEF AddLoad, Return
<1>8. ASSUME NEW a \in Actors, AddInc(a) PROVE DecisionInv'
  BY <1>8 DEF AddInc
<1>9. ASSUME NEW a \in Actors, AddPush(a) PROVE DecisionInv'
  BY <1>9 DEF AddPush, Return, Pool!Submit
<1>10. ASSUME NEW w \in Workers, Start(w) PROVE DecisionInv'
  BY <1>10 DEF Start, Pool!Start
<1>11. ASSUME NEW w \in Workers, LoadState(w) PROVE DecisionInv'
  BY <1>11 DEF LoadState
<1>12. ASSUME NEW w \in Workers, Skip(w) PROVE DecisionInv'
  BY <1>12 DEF Skip
<1>13. ASSUME NEW w \in Workers, TaskReturns(w) PROVE DecisionInv'
  BY <1>13 DEF TaskReturns
<1>14. ASSUME NEW w \in Workers, TaskThrows(w) PROVE DecisionInv'
  BY <1>14 DEF TaskThrows
<1>15. ASSUME NEW w \in Workers, CasError(w) PROVE DecisionInv'
  BY <1>15 DEF CasError, SetStateIfRunning
<1>16. ASSUME NEW w \in Workers, SubError(w) PROVE DecisionInv'
  BY <1>16 DEF SubError
<1>17. ASSUME NEW w \in Workers, Reload(w) PROVE DecisionInv'
  BY <1>17 DEF Reload
<1>18. ASSUME NEW w \in Workers, Sub(w) PROVE DecisionInv'
  <2>1. CASE pending = 1
    <3>1. Over' /\ ~Over
      BY <1>5, <1>18, <2>1 DEF Sub
    <3>2. ReachedInv'
      BY <1>18, <2>1, <3>1 DEF Sub
    <3>3. StateInv' /\ FailureInv'
      BY <1>18, <2>1, <3>1 DEF Sub
    <3>4. CallInv'
      BY <1>18, <2>1 DEF Sub
    <3> QED
      BY <3>2, <3>3, <3>4
  <2>2. CASE pending > 1
    BY <1>18, <2>2 DEF Sub
  <2> QED
    BY <1>5, <1>18, <2>1, <2>2
<1>19. ASSUME NEW w \in Workers, LoadReached0(w) PROVE DecisionInv'
  BY <1>19 DEF LoadReached0
<1>20. ASSUME NEW w \in Workers, CasOk(w) PROVE DecisionInv'
  BY <1>20 DEF CasOk, SetStateIfRunning
<1>21. ASSUME NEW w \in Workers, CallFinish(w) PROVE DecisionInv'
  <2>1. calls = <<>> /\ calls' = Append(calls, "finish")
    BY <1>21 DEF CallFinish
  <2>2. calls' = <<"finish">>
    BY <2>1, AppendToEmpty
  <2> QED
    BY <1>21, <2>1, <2>2 DEF CallFinish
<1>22. ASSUME NEW a \in Actors, CallError(a) PROVE DecisionInv'
  <2>1. calls = <<>> /\ calls' = Append(calls, "error")
    BY <1>22 DEF CallError
  <2>2. calls' = <<"error">>
    BY <2>1, AppendToEmpty
  <2> QED
    BY <1>22, <2>1, <2>2 DEF CallError
<1>23. ASSUME NEW w \in Workers, End(w) PROVE DecisionInv'
  BY <1>23 DEF End, Pool!Finish
<1>24. ASSUME Cancel PROVE DecisionInv'
  BY <1>24 DEF Cancel, SetStateIfRunning
<1>25. ASSUME Shutdown \/ UNCHANGED vars PROVE DecisionInv'
  BY <1>25 DEF Shutdown, Pool!Close, vars
<1> HIDE DEF DecisionInv
<1> QED
  BY <1>6, <1>7, <1>8, <1>9, <1>10, <1>11, <1>12, <1>13, <1>14, <1>15, <1>16, <1>17,
     <1>18, <1>19, <1>20, <1>21, <1>22, <1>23, <1>24, <1>25
     DEF Next, WorkerStep, ClientStep, AddTaskStep

-----------------------------------------------------------------------------
(* IInv is inductive.                                                       *)

\* The initial state satisfies the inductive invariant.
LEMMA InitIInv == Init => IInv
<1> SUFFICES ASSUME Init PROVE IInv
  OBVIOUS
<1> USE GroupAssumption DEF Init, Pool!Init
<1>1. TypeOK
  <2>1. submitted \in Seq(Tasks) /\ started \in 0..Len(submitted) /\ calls \in Seq({"finish", "error"})
    BY EmptySeq
  <2>2. job \in [Workers -> Tasks \cup {NoTask}] /\ adding \in [Actors -> Tasks \cup {NoTask}]
    OBVIOUS
  <2>3. pc \in [Actors -> Labels] /\ state \in States
    BY DEF Labels, States
  <2>4. pending \in -Limit .. Limit - 1
    OBVIOUS
  <2> QED
    BY <2>1, <2>2, <2>3, <2>4 DEF TypeOK
<1>2. StructInv
  BY DEF StructInv, SubmittedInv, AddingInv, JobInv, ClientInv, Actors, InAddTask
<1>3. DecisionInv
  BY DEF DecisionInv, ReachedInv, StateInv, FailureInv, CallInv, Actors, Reached, Callers
<1>4. Counted = {}
  BY DEF Counted, Announced, Queued, Executing, Actors, Holding, InAddTask
<1>5. PendingAccurate
  BY <1>4, FS_EmptySet DEF PendingAccurate
<1> QED
  BY <1>1, <1>2, <1>3, <1>5 DEF IInv

\* Every step keeps it, if the counter is wide enough.
LEMMA NextIInv == CounterSuffices /\ IInv /\ [Next]_vars => IInv'
<1> SUFFICES ASSUME CounterSuffices, IInv, [Next]_vars PROVE IInv'
  OBVIOUS
<1> USE DEF IInv
<1>1. TypeOK'
  BY TypeStep DEF StructInv
<1>2. StructInv'
  BY StructStep DEF DecisionInv
<1>3. PendingAccurate'
  BY CountStep DEF DecisionInv
<1>4. DecisionInv'
  BY <1>1, <1>2, DecisionStep
<1> QED
  BY <1>1, <1>2, <1>3, <1>4

\* The inductive invariant holds throughout, if the counter is wide enough.
THEOREM Invariance == CounterSuffices => (Spec => []IInv)
<1>1. Init => IInv
  BY InitIInv
<1>2. CounterSuffices /\ IInv /\ [Next]_vars => IInv'
  BY NextIInv
<1> SUFFICES ASSUME CounterSuffices PROVE Spec => []IInv
  OBVIOUS
<1> QED
  BY <1>1, <1>2, PTL DEF Spec

-----------------------------------------------------------------------------
(* The theorems.                                                            *)

\* Every variable keeps its type.
THEOREM TypeCorrect == CounterSuffices => (Spec => []TypeOK)
BY Invariance, PTL DEF IInv

\* "the number of pending tasks should be kept accurate": pending_tasks equals
\* the number of tasks that are announced, queued or being executed after every
\* single instruction.
THEOREM Accurate == CounterSuffices => (Spec => []PendingAccurate)
BY Invariance, PTL DEF IInv

\* "this is our bug and should never happen": no logic_error is thrown.
THEOREM NoBug == CounterSuffices => (Spec => []NoLogicError)
<1>1. IInv => NoLogicError
  <2> SUFFICES ASSUME IInv, NEW a \in Actors, pc[a] = "addLoad" PROVE state # "Done_OK"
    BY DEF IInv, DecisionInv, StateInv, NoLogicError
  <2>1. a # Client => ~Over
    BY HoldingCounted DEF Actors, Over, Holding, InAddTask
  <2>2. a = Client => ~Over
    BY DEF Over, IInv, StructInv, ClientInv, InAddTask
  <2> QED
    BY <2>1, <2>2 DEF IInv, DecisionInv, StateInv
<1> QED
  BY <1>1, Invariance, PTL

\* When the group is Done_OK, all its tasks are over and none is being added.
THEOREM Finished == CounterSuffices => (Spec => []FinishedMeansOver)
<1>1. IInv => FinishedMeansOver
  BY OverMeans DEF IInv, DecisionInv, StateInv, FinishedMeansOver, Over, AllOver
<1> QED
  BY <1>1, Invariance, PTL

\* At most one callback is called, and it is the right one.
THEOREM RightCallback == CounterSuffices => (Spec => []OneRightCallback)
<1>1. IInv => OneRightCallback
  <2> SUFFICES ASSUME IInv PROVE OneRightCallback
    OBVIOUS
  <2> USE DEF IInv, DecisionInv, FailureInv, CallInv, OneRightCallback, Range
  <2>1. CASE calls = <<>>
    BY <2>1
  <2>2. CASE calls = <<"finish">>
    BY <2>2
  <2>3. CASE calls = <<"error">>
    BY <2>3
  <2> QED
    BY <2>1, <2>2, <2>3
<1> QED
  BY <1>1, Invariance, PTL

-----------------------------------------------------------------------------
(* The group settles.                                                       *)

\* Until the first task is in the deque the client is about to put it there, and
\* the group runs.  After that a group that is decided has called its callback or
\* has a thread that will, and one that is over but not decided has a worker
\* that will decide it.
RestInv ==
  /\ pc[Client] \in {"idle"} \cup InAddTask <=> submitted = <<>>
  /\ submitted = <<>> => state = "Running"
  /\ state # "Running" /\ calls = <<>> => \E a \in Actors : pc[a] \in Callers
  /\ state = "Running" /\ Over => \E w \in Workers : pc[w] \in {"reached0", "casOk"}

\* As long as no task is in the deque no worker does anything.
LEMMA Untouched ==
  ASSUME IInv, submitted = <<>>
  PROVE  \A w \in Workers : pc[w] = "idle"
BY DEF IInv, TypeOK, StructInv, JobInv

\* A group is over only after one of the three decrements.
LEMMA OverByDecrement ==
  ASSUME IInv, IInv', [Next]_vars, Over', ~Over
  PROVE  \E w \in Workers : Skip(w) \/ SubError(w) \/ Sub(w)
<1> SUFFICES ASSUME ~\E w \in Workers : Skip(w) \/ SubError(w) \/ Sub(w) PROVE FALSE
  OBVIOUS
<1>1. AllOver' /\ ~AllOver
  <2>1. (TypeOK /\ StructInv => (Over <=> AllOver))'
    BY OverMeans, PTL
  <2> QED
    BY <2>1, OverMeans DEF IInv
<1>2. \A w \in Workers : pc[w] \in Holding => state # "Done_OK"
  BY HoldingCounted DEF IInv, DecisionInv, StateInv, Over
<1> USE <1>1, <1>2, GroupAssumption
    DEF IInv, TypeOK, StructInv, ClientInv, Actors, AllOver, Holding, InAddTask, Goto, States, pool,
        history
<1>3. ASSUME NEW a \in Actors, NEW t \in Tasks, CallAddTask(a, t) PROVE FALSE
  BY <1>3 DEF CallAddTask
<1>4. ASSUME NEW a \in Actors, AddLoad(a) PROVE FALSE
  <2>1. CASE a = Client
    <3>1. submitted = <<>>
      BY <1>4, <2>1 DEF AddLoad
    <3> QED
      BY <1>4, <3>1 DEF AddLoad
  <2>2. CASE a # Client
    BY <1>4, <2>2 DEF AddLoad, Return, Throw
  <2> QED
    BY <2>1, <2>2
<1>5. ASSUME NEW a \in Actors, AddInc(a) PROVE FALSE
  BY <1>5 DEF AddInc
<1>6. ASSUME NEW a \in Actors, AddPush(a) PROVE FALSE
  <2>1. adding[a] \in Tasks
    BY <1>6 DEF AddPush, AddingInv
  <2>2. Len(submitted') = Len(submitted) + 1 /\ started' = started
    BY <1>6, <2>1, AppendProperties DEF AddPush, Pool!Submit
  <2> QED
    BY <2>2
<1>7. ASSUME NEW w \in Workers, Start(w) PROVE FALSE
  BY <1>7 DEF Start, Pool!Start
<1>8. ASSUME NEW w \in Workers, LoadState(w) PROVE FALSE
  BY <1>8 DEF LoadState
<1>9. ASSUME NEW w \in Workers, TaskReturns(w) \/ TaskThrows(w) \/ CasError(w) PROVE FALSE
  BY <1>9 DEF TaskReturns, TaskThrows, CasError
<1>10. ASSUME NEW w \in Workers, Reload(w) \/ LoadReached0(w) \/ CasOk(w) \/ CallFinish(w)
       PROVE  FALSE
  BY <1>10 DEF Reload, LoadReached0, CasOk, CallFinish
<1>11. ASSUME NEW a \in Actors, CallError(a) PROVE FALSE
  BY <1>11 DEF CallError
<1>12. ASSUME NEW w \in Workers, End(w) PROVE FALSE
  BY <1>12 DEF End, Pool!Finish
<1>13. ASSUME Cancel PROVE FALSE
  BY <1>13 DEF Cancel
<1>14. ASSUME Shutdown \/ UNCHANGED vars PROVE FALSE
  BY <1>14 DEF Shutdown, Pool!Close, vars
<1> QED
  BY <1>3, <1>4, <1>5, <1>6, <1>7, <1>8, <1>9, <1>10, <1>11, <1>12, <1>13, <1>14
    DEF Next, WorkerStep, ClientStep, AddTaskStep

\* Somebody is to decide a group that is over.
LEMMA DeciderStep ==
  ASSUME IInv, IInv', RestInv, [Next]_vars, state' = "Running", Over'
  PROVE  \E w \in Workers : pc'[w] \in {"reached0", "casOk"}
<1> USE GroupAssumption DEF IInv, TypeOK, Actors, Goto, States, pool, history
<1>1. CASE ~Over
  <2>1. PICK w \in Workers : Skip(w) \/ SubError(w) \/ Sub(w)
    BY <1>1, OverByDecrement
  <2>2. state = "Running"
    BY <2>1 DEF Skip, SubError, Sub
  <2>3. Sub(w)
    BY <2>1, <2>2 DEF Skip, SubError, DecisionInv, StateInv
  <2>4. pending = 1
    <3>1. pending >= 1
      BY <2>3, LastOne
    <3>2. pending > 1 => pending' # 0
      BY <2>3 DEF Sub, FetchSub
    <3>3. pending' = 0
      <4>1. Counted' = {} /\ pending' = Cardinality(Counted')
        BY DEF Over, PendingAccurate
      <4> QED
        BY <4>1, FS_EmptySet
    <3> QED
      BY <3>1, <3>2, <3>3
  <2> QED
    BY <2>3, <2>4 DEF Sub
<1>2. CASE Over
  <2>1. state = "Running"
    <3>1. state # "Running" => state' = state
      BY DEF Next, WorkerStep, ClientStep, AddTaskStep, CallAddTask, AddLoad, AddInc, AddPush,
             Start, LoadState, Skip, TaskReturns, TaskThrows, CasError, SubError, Reload,
             CallError, Sub, LoadReached0, CasOk, CallFinish, End, Cancel, Shutdown,
             SetStateIfRunning, vars
    <3> QED
      BY <3>1
  <2>2. PICK w \in Workers : pc[w] \in {"reached0", "casOk"}
    BY <1>2, <2>1 DEF RestInv
  <2>3. ~CasOk(w)
    BY <2>1 DEF CasOk, SetStateIfRunning
  <2>4. LoadReached0(w) => pc'[w] = "casOk"
    BY <2>1 DEF LoadReached0
  <2>5. pc'[w] = pc[w] \/ LoadReached0(w) \/ CasOk(w)
    BY <2>2 DEF Next, WorkerStep, ClientStep, AddTaskStep, CallAddTask, AddLoad, AddInc, AddPush,
             Start, LoadState, Skip, TaskReturns, TaskThrows, CasError, SubError, Reload,
             CallError, Sub, LoadReached0, CasOk, CallFinish, End, Cancel, Shutdown, vars
  <2> QED
    BY <2>2, <2>3, <2>4, <2>5
<1> QED
  BY <1>1, <1>2

\* Somebody is to call the callback of a group that is decided.
LEMMA CallerStep ==
  ASSUME IInv, IInv', RestInv, [Next]_vars, state' # "Running", calls' = <<>>
  PROVE  \E a \in Actors : pc'[a] \in Callers
<1> USE GroupAssumption DEF IInv, TypeOK, Actors, Callers, Goto, States, pool, history
<1>1. \A a \in Actors : ~CallError(a) /\ ~CallFinish(a)
  <2>1. \A c \in Seq({"finish", "error"}) : \A x \in {"finish", "error"} : Append(c, x) # <<>>
    BY AppendProperties
  <2> QED
    BY <2>1 DEF CallError, CallFinish
<1>2. calls = <<>>
  BY <1>1 DEF Next, WorkerStep, ClientStep, AddTaskStep, CallAddTask, AddLoad, AddInc, AddPush,
             Start, LoadState, Skip, TaskReturns, TaskThrows, CasError, SubError, Reload,
             Sub, LoadReached0, CasOk, End, Cancel, Shutdown, vars
<1>3. CASE state = "Running"
  <2>1. (\E w \in Workers : CasError(w) \/ CasOk(w)) \/ Cancel
    BY <1>3 DEF Next, WorkerStep, ClientStep, AddTaskStep, CallAddTask, AddLoad, AddInc, AddPush,
             Start, LoadState, Skip, TaskReturns, TaskThrows, SubError, Reload,
             CallError, Sub, LoadReached0, CallFinish, End, Shutdown, vars
  <2>2. ASSUME NEW w \in Workers, CasError(w) \/ CasOk(w) PROVE pc'[w] \in Callers
    BY <1>3, <2>2 DEF CasError, CasOk
  <2>3. Cancel => pc'[Client] \in Callers
    BY <1>3 DEF Cancel
  <2> QED
    BY <2>1, <2>2, <2>3
<1>4. CASE state # "Running"
  <2>1. PICK a \in Actors : pc[a] \in Callers
    BY <1>2, <1>4 DEF RestInv
  <2>2. pc'[a] = pc[a] \/ SubError(a)
    BY <1>1, <2>1 DEF Next, WorkerStep, ClientStep, AddTaskStep, CallAddTask, AddLoad, AddInc, AddPush,
             Start, LoadState, Skip, TaskReturns, TaskThrows, CasError, SubError, Reload,
             Sub, LoadReached0, CasOk, End, Cancel, Shutdown, vars
  <2>3. SubError(a) => pc'[a] = "callError"
    BY <2>1 DEF SubError
  <2> QED
    BY <2>1, <2>2, <2>3
<1> QED
  BY <1>3, <1>4

\* Every step keeps it.
LEMMA RestStep == IInv /\ IInv' /\ RestInv /\ [Next]_vars => RestInv'
<1> SUFFICES ASSUME IInv, IInv', RestInv, [Next]_vars PROVE RestInv'
  OBVIOUS
<1> DEFINE FirstTask == /\ pc[Client] \in {"idle"} \cup InAddTask <=> submitted = <<>>
                        /\ submitted = <<>> => state = "Running"
<1>1. FirstTask'
  <2> USE GroupAssumption
      DEF IInv, RestInv, TypeOK, Actors, InAddTask, Goto, States, pool, history
  <2>1. submitted = <<>> => \A w \in Workers : pc[w] = "idle"
    BY Untouched
  <2>2. ASSUME NEW a \in Actors, NEW t \in Tasks, CallAddTask(a, t) PROVE FirstTask'
    BY <2>1, <2>2 DEF CallAddTask
  <2>3. ASSUME NEW a \in Actors, AddLoad(a) PROVE FirstTask'
    BY <2>1, <2>3 DEF AddLoad, Return, Throw
  <2>4. ASSUME NEW a \in Actors, AddInc(a) PROVE FirstTask'
    BY <2>1, <2>4 DEF AddInc
  <2>5. ASSUME NEW a \in Actors, AddPush(a) PROVE FirstTask'
    <3>1. adding[a] \in Tasks
      BY <2>5 DEF AddPush, StructInv, AddingInv
    <3>2. submitted' # <<>>
      BY <2>5, <3>1, AppendProperties DEF AddPush, Pool!Submit
    <3> QED
      BY <2>1, <2>5, <3>2, GroupAssumption DEF AddPush, Return, StructInv, ClientInv
  <2>6. ASSUME NEW w \in Workers, WorkerStep(w), ~AddTaskStep(w), \A t \in Tasks : ~CallAddTask(w, t)
        PROVE  FirstTask'
    <3>1. submitted # <<>>
      <4>1. Start(w) => submitted # <<>>
        BY DEF Start, Pool!Start
      <4> QED
        BY <2>1, <2>6, <4>1 DEF WorkerStep, LoadState, Skip, TaskReturns, TaskThrows, CasError,
          SubError, Reload, CallError, Sub, LoadReached0, CasOk, CallFinish, End
    <3>2. UNCHANGED submitted /\ pc'[Client] = pc[Client]
      BY <2>6 DEF WorkerStep, LoadState, Skip, TaskReturns, TaskThrows, CasError, SubError,
          Reload, CallError, Sub, LoadReached0, CasOk, CallFinish, End, Pool!Finish, Start,
          Pool!Start
    <3> QED
      BY <3>1, <3>2
  <2>7. ASSUME CallError(Client) \/ Cancel PROVE FirstTask'
    BY <2>7 DEF CallError, Cancel
  <2>8. ASSUME Shutdown \/ UNCHANGED vars PROVE FirstTask'
    BY <2>8 DEF Shutdown, Pool!Close, vars
  <2> QED
    BY <2>2, <2>3, <2>4, <2>5, <2>6, <2>7, <2>8 DEF Next, WorkerStep, ClientStep, AddTaskStep
<1>2. state' # "Running" /\ calls' = <<>> => \E a \in Actors : pc'[a] \in Callers
  BY CallerStep
<1>3. state' = "Running" /\ Over' => \E w \in Workers : pc'[w] \in {"reached0", "casOk"}
  BY DeciderStep
<1> QED
  BY <1>1, <1>2, <1>3 DEF RestInv

\* Nobody is in the group: workers are idle, the deque is empty, and the client has
\* added its task.
AtRest ==
  /\ \A w \in Workers : pc[w] = "idle"
  /\ started = Len(submitted)
  /\ pc[Client] \in {"added", "end"}

\* The safety part of Settles: when nobody is in the group any more its callback
\* has been called and the counter is 0, also after an error or cancel.  A group
\* that has not settled has a thread in it, or a task that waits for one.
SettledAtRest == AtRest => Len(calls) = 1 /\ pending = 0
THEOREM Settled == CounterSuffices => (Spec => []SettledAtRest)
<1>1. Init => RestInv
  <2>1. Init => submitted = <<>> /\ state = "Running" /\ pc[Client] = "idle"
    BY DEF Init, Pool!Init, Actors
  <2> QED
    BY <2>1 DEF RestInv, Over
<1>2. ASSUME IInv, RestInv, AtRest PROVE Len(calls) = 1 /\ pending = 0
  <2>1. submitted # <<>>
    BY <1>2 DEF RestInv, AtRest, InAddTask
  <2>2. AllOver
    BY <1>2, <2>1 DEF AllOver, AtRest, Holding, InAddTask, Actors
  <2>3. Over
    BY <1>2, <2>2, OverMeans DEF IInv
  <2>4. pending = 0
    BY <1>2, <2>3, FS_EmptySet DEF Over, IInv, PendingAccurate
  <2>5. state # "Running"
    BY <1>2, <2>3 DEF RestInv, AtRest
  <2>6. calls # <<>>
    BY <1>2, <2>5 DEF RestInv, AtRest, Callers, Actors
  <2>7. Len(calls) = 1
    <3>1. calls = <<"finish">> \/ calls = <<"error">>
      BY <1>2, <2>6 DEF IInv, DecisionInv, CallInv
    <3> QED
      BY <3>1
  <2> QED
    BY <2>4, <2>7
<1>3. IInv /\ RestInv => SettledAtRest
  BY <1>2 DEF SettledAtRest
<1>4. RestInv /\ IInv /\ IInv' /\ [Next]_vars => RestInv'
  BY RestStep
<1> QED
  BY <1>1, <1>3, <1>4, Invariance, PTL DEF Spec
-----------------------------------------------------------------------------
(* The refinement.                                                          *)

Accepted == Range(submitted) \cup Announced

\* A counted task was accepted.
LEMMA CountedAccepted ==
  ASSUME TypeOK, StructInv
  PROVE  Counted \subseteq Accepted
<1>1. Queued \subseteq Range(submitted)
  BY DEF Queued, Range, TypeOK
<1>2. Executing \subseteq Range(submitted)
  <2> SUFFICES ASSUME NEW w \in Workers, pc[w] \in Holding
               PROVE  job[w] \in Range(submitted)
    BY DEF Executing
  <2>1. PICK i \in 1..started : job[w] = submitted[i]
    BY DEF StructInv, JobInv, Holding, InAddTask
  <2> QED
    BY <2>1 DEF Range, TypeOK
<1> QED
  BY <1>1, <1>2 DEF Counted, Accepted

\* A step that changes neither the counted tasks nor what decides the group.
LEMMA Stutter ==
  ASSUME Counted' = Counted, Accepted' = Accepted, state' = state, calls' = calls
  PROVE  UNCHANGED Contract!vars
BY DEF Contract!vars, Accepted

\* The increment is where the contract accepts a task.
LEMMA IncAccepts ==
  ASSUME TypeOK, StructInv, StateInv, NEW a \in Actors, AddInc(a)
  PROVE  Contract!Accept(adding[a])
<1> USE GroupAssumption
<1>1. /\ pc[a] = "addInc"
      /\ UNCHANGED <<submitted, job, adding, state, calls>>
  BY DEF AddInc, Goto, pool, history
<1>2. adding[a] \notin Counted /\ Counted' = Counted \cup {adding[a]}
  BY CountedGains
<1>3. Announced' = Announced \cup {adding[a]} /\ adding[a] \notin Announced
  BY <1>1 DEF AddInc, Goto, TypeOK, Announced, StructInv, AddingInv, InAddTask
<1>4. adding[a] \notin Range(submitted)
  BY <1>1 DEF StructInv, AddingInv, InAddTask, Range, TypeOK
<1>5. Accepted' = Accepted \cup {adding[a]} /\ adding[a] \notin Accepted
  BY <1>1, <1>3, <1>4 DEF Accepted, Range
<1>6. Counted \subseteq Accepted
  BY CountedAccepted
<1>7. CASE a = Client
  <2>1. submitted = <<>>
    BY <1>1, <1>7 DEF StructInv, ClientInv, InAddTask
  <2>2. \A w \in Workers : pc[w] = "idle"
    BY <2>1 DEF TypeOK, StructInv, JobInv
  <2>3. Accepted = {} /\ state # "Done_OK"
    BY <1>1, <1>7, <2>1, <2>2 DEF Accepted, Announced, Range, Actors, StateInv, Over
  <2> QED
    BY <1>1, <1>2, <1>5, <1>6, <2>3 DEF Contract!Accept, Accepted
<1>8. CASE a # Client
  <2>1. job[a] \in Counted
    BY <1>1, <1>8, HoldingCounted DEF Actors, Holding, InAddTask
  <2>2. state # "Done_OK"
    BY <2>1 DEF StateInv, Over
  <2> QED
    BY <1>1, <1>2, <1>5, <1>6, <2>1, <2>2 DEF Contract!Accept, Accepted
<1> QED
  BY <1>7, <1>8

\* The push is invisible.
LEMMA PushKeepsAccepted ==
  ASSUME TypeOK, StructInv, NEW a \in Actors, AddPush(a)
  PROVE  Accepted' = Accepted
<1> USE GroupAssumption
<1>1. /\ pc[a] = "addPush"
      /\ \A b \in Actors : pc'[b] = IF b = a THEN Return(a) ELSE pc[b]
      /\ \A b \in Actors : b # a => adding'[b] = adding[b]
  BY DEF AddPush, Goto, TypeOK
<1>2. adding[a] \in Tasks
  BY <1>1 DEF StructInv, AddingInv, InAddTask, TypeOK
<1>3. Announced = Announced' \cup {adding[a]}
  BY <1>1 DEF Announced, Return
<1>4. /\ Len(submitted') = Len(submitted) + 1
      /\ \A i \in 1..Len(submitted) : submitted'[i] = submitted[i]
      /\ submitted'[Len(submitted) + 1] = adding[a]
      /\ submitted' \in Seq(Tasks)
  BY <1>2, AppendProperties DEF AddPush, Pool!Submit, TypeOK
<1>5. Range(submitted') = Range(submitted) \cup {adding[a]}
  <2>1. DOMAIN submitted' = DOMAIN submitted \cup {Len(submitted) + 1}
    BY <1>4 DEF TypeOK
  <2>2. \A i \in DOMAIN submitted : submitted'[i] = submitted[i]
    BY <1>4 DEF TypeOK
  <2> QED
    BY <1>4, <2>1, <2>2 DEF Range
<1> QED
  BY <1>3, <1>5 DEF Accepted, Range

\* The decrement is where the contract completes a task.
LEMMA LosesCompletes ==
  ASSUME TypeOK, StructInv, NEW w \in Workers, Skip(w) \/ SubError(w) \/ Sub(w)
  PROVE  Contract!Complete(job[w])
<1> USE GroupAssumption DEF Actors
<1>1. pc[w] \in Holding \ InAddTask /\ pc'[w] \notin Holding
  BY DEF Skip, SubError, Sub, Goto, Holding, InAddTask, TypeOK
<1>2. /\ pc' = [pc EXCEPT ![w] = pc'[w]]
      /\ UNCHANGED <<submitted, started, job, adding, state, calls>>
  BY <1>1 DEF Skip, SubError, Sub, Goto, TypeOK, pool, history
<1>3. job[w] \in Counted /\ Counted' = Counted \ {job[w]} /\ Announced' = Announced
  BY <1>1, <1>2, CountedLoses
<1>4. Accepted' = Accepted /\ job[w] \in Accepted
  BY <1>2, <1>3, CountedAccepted DEF Accepted, Range
<1> QED
  BY <1>2, <1>3, <1>4 DEF Contract!Complete, Accepted

\* Every step of the group is a step of the contract or leaves it unchanged.
LEMMA ContractStep == IInv /\ [Next]_vars => [Contract!Next]_(Contract!vars)
<1> SUFFICES ASSUME IInv, [Next]_vars PROVE [Contract!Next]_(Contract!vars)
  OBVIOUS
<1> USE GroupAssumption DEF IInv, TypeOK, Actors, pool, history
<1> DEFINE Same == /\ Counted' = Counted /\ Announced' = Announced
                   /\ UNCHANGED submitted
           Kept == Same /\ UNCHANGED <<state, calls>>
           Step == [Contract!Next]_(Contract!vars)
<1>1. ASSUME Same PROVE Accepted' = Accepted
  BY <1>1 DEF Accepted, Range
<1>2. ASSUME Kept PROVE Step
  BY <1>1, <1>2, Stutter
<1>3. \A w \in Workers : pc[w] \in Holding => state # "Done_OK"
  BY HoldingCounted DEF DecisionInv, StateInv, Over
<1>4. ASSUME NEW a \in Actors, NEW t \in Tasks, CallAddTask(a, t) PROVE Kept
  BY <1>4, CountedKept DEF CallAddTask, Goto, Holding, InAddTask
<1>5. ASSUME NEW a \in Actors, AddLoad(a) PROVE Kept
  BY <1>5, CountedKept DEF AddLoad, Goto, Holding, InAddTask, Return, Throw, States
<1>6. ASSUME NEW a \in Actors, AddInc(a) PROVE Step
  <2>1. adding[a] \in Tasks
    BY <1>6 DEF AddInc, Goto, StructInv, AddingInv, InAddTask
  <2> QED
    BY <1>6, <2>1, IncAccepts DEF DecisionInv, Contract!Next
<1>7. ASSUME NEW a \in Actors, AddPush(a) PROVE Step
  BY <1>7, PushKeepsAccepted, CountedPushed, Stutter DEF AddPush
<1>8. ASSUME NEW w \in Workers, Start(w) PROVE Step
  <2>1. Announced' = Announced
    BY <1>8 DEF Start, Goto, Pool!Start, Announced
  <2> QED
    BY <1>2, <1>8, <2>1, CountedStarted DEF Start, Pool!Start
<1>9. ASSUME NEW w \in Workers, Skip(w) \/ SubError(w) \/ Sub(w) PROVE Step
  <2>1. job[w] \in Tasks
    BY <1>9 DEF StructInv, JobInv, Skip, SubError, Sub, Goto
  <2> QED
    BY <1>9, <2>1, LosesCompletes DEF Contract!Next
<1>10. ASSUME NEW w \in Workers, LoadState(w) PROVE Kept
  BY <1>3, <1>10, CountedKept DEF LoadState, Goto, Holding, InAddTask, States
<1>11. ASSUME NEW w \in Workers, TaskReturns(w) \/ TaskThrows(w) PROVE Kept
  BY <1>11, CountedKept DEF TaskReturns, TaskThrows, Goto, Holding, InAddTask
<1>12. ASSUME NEW w \in Workers, Reload(w) \/ LoadReached0(w) PROVE Kept
  BY <1>12, CountedKept DEF Reload, LoadReached0, Goto, Holding, InAddTask
<1>13. ASSUME NEW w \in Workers, End(w) PROVE Kept
  BY <1>13, CountedKept DEF End, Pool!Finish, Goto, Holding, InAddTask
<1>14. ASSUME Shutdown \/ UNCHANGED vars PROVE Kept
  BY <1>14 DEF Shutdown, Pool!Close, vars, Counted, Announced, Queued, Executing
<1>15. ASSUME Same, SetStateIfRunning("Done_Error"), UNCHANGED calls PROVE Step
  BY <1>1, <1>15, Stutter DEF SetStateIfRunning, Accepted, Contract!Fail, Contract!Next
<1>16. ASSUME NEW w \in Workers, CasError(w) PROVE Step
  <2>1. Same
    BY <1>16, CountedKept DEF CasError, Goto, Holding, InAddTask
  <2> QED
    BY <1>15, <1>16, <2>1 DEF CasError
<1>17. ASSUME Cancel PROVE Step
  <2>1. Same
    BY <1>17, CountedKept DEF Cancel, Goto, Holding, InAddTask
  <2> QED
    BY <1>15, <1>17, <2>1 DEF Cancel
<1>18. ASSUME NEW w \in Workers, CasOk(w) PROVE Step
  <2>1. Same
    BY <1>18, CountedKept DEF CasOk, Goto, Holding, InAddTask
  <2>2. Over
    BY <1>18 DEF CasOk, Goto, DecisionInv, ReachedInv, Reached
  <2>3. submitted[1] \in Range(submitted)
    BY <2>2 DEF Over, Range
  <2>4. Accepted # {} /\ Accepted \ Counted = Accepted
    BY <2>2, <2>3 DEF Accepted, Over
  <2>5. CASE state = "Running"
    BY <1>1, <1>18, <2>1, <2>4, <2>5
       DEF CasOk, SetStateIfRunning, Accepted, Contract!Succeed, Contract!Next
  <2>6. CASE state # "Running"
    BY <1>2, <1>18, <2>1, <2>6 DEF CasOk, SetStateIfRunning
  <2> QED
    BY <2>5, <2>6
<1>19. ASSUME Same, state # "Running", calls = <<>>, calls' # <<>>, UNCHANGED state PROVE Step
  BY <1>1, <1>19 DEF Accepted, Contract!Call, Contract!Next
<1>20. ASSUME NEW w \in Workers, CallFinish(w) PROVE Step
  <2>1. Same
    BY <1>20, CountedKept DEF CallFinish, Goto, Holding, InAddTask
  <2>2. calls = <<>> /\ state # "Running"
    BY <1>20 DEF CallFinish, Goto, DecisionInv, StateInv, CallInv, Callers
  <2>3. calls' # <<>> /\ UNCHANGED state
    BY <1>20, <2>2, AppendToEmpty DEF CallFinish
  <2> QED
    BY <1>19, <2>1, <2>2, <2>3
<1>21. ASSUME NEW a \in Actors, CallError(a) PROVE Step
  <2>1. Same
    BY <1>21, CountedKept DEF CallError, Goto, Holding, InAddTask
  <2>2. calls = <<>> /\ state # "Running"
    BY <1>21 DEF CallError, Goto, DecisionInv, StateInv, CallInv, Callers
  <2>3. calls' # <<>> /\ UNCHANGED state
    BY <1>21, <2>2, AppendToEmpty DEF CallError
  <2> QED
    BY <1>19, <2>1, <2>2, <2>3
<1> HIDE DEF Same, Kept, Step
<1>22. Step
  BY <1>2, <1>4, <1>5, <1>6, <1>7, <1>8, <1>9, <1>10, <1>11, <1>12, <1>13, <1>14,
     <1>16, <1>17, <1>18, <1>20, <1>21 DEF Next, WorkerStep, ClientStep, AddTaskStep
<1> QED
  BY <1>22 DEF Step

\* Seen through the mapping, the counter, the compare-and-swaps and the pool
\* disappear: the group implements GroupContract.
THEOREM Refinement == CounterSuffices => (Spec => ImplementsContract)
<1>1. Init => Contract!Init
  BY GroupAssumption
     DEF Init, Pool!Init, Contract!Init, Range, Counted, Announced, Queued, Executing,
         Actors, Holding, InAddTask
<1>2. IInv /\ [Next]_vars => [Contract!Next]_(Contract!vars)
  BY ContractStep
<1> QED
  BY <1>1, <1>2, Invariance, PTL DEF Spec, ImplementsContract, Contract!Spec

=============================================================================
