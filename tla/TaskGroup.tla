------------------------------ MODULE TaskGroup ------------------------------
(***************************************************************************)
(* The class task_group of src/thread_pool.hpp: a set of tasks run by the  *)
(* pool, a state and a counter of pending tasks, both atomic and updated   *)
(* by separate instructions, and two callbacks.                            *)
(*                                                                         *)
(* Every atomic instruction is an action.  The pool is its contract, which *)
(* ThreadPool implements.  The group is used as the program uses it: one   *)
(* client thread adds one task and may cancel later, and all other tasks   *)
(* are added by tasks of the group (image_processor::run, check_existence, *)
(* load_image, resize).  A task adds what it likes, then returns or        *)
(* throws.  The callbacks are opaque and do not throw (see Processing).    *)
(***************************************************************************)
EXTENDS Integers, Sequences, FiniteSets, Functions

CONSTANTS Workers,  \* the threads of the pool
          Client,   \* the thread that calls image_processor::run
          Tasks,    \* the tasks that may be added
          NoTask,
          Limit     \* pending_tasks holds -Limit .. Limit - 1

ASSUME GroupAssumption ==
  /\ NoTask \notin Tasks
  /\ Client \notin Workers
  /\ IsFiniteSet(Tasks) /\ IsFiniteSet(Workers)
  /\ Limit \in Nat \ {0}

VARIABLES submitted, started, job, open,  \* the pool
          state,    \* the atomic State
          pending,  \* the atomic pending_tasks
          pc,       \* what each thread is about to execute
          adding,   \* the argument of the add_task each thread is in
          created,  \* tasks some add_task was called with
          failure,  \* history: a task threw or cancel took effect
          calls     \* history: the callbacks called, in order

pool == <<submitted, started, job, open>>
history == <<created, failure, calls>>
vars == <<pool, state, pending, pc, adding, history>>

Pool == INSTANCE PoolContract

Actors == Workers \cup {Client}

(***************************************************************************)
(* A thread is named by what it executes next.  "idle": not in the group.  *)
(* add_task: "addLoad", "addInc", "addPush".  The executor: "load", then   *)
(* "skip" (the group errored) or "body"; after a throw "casError", then    *)
(* "subFirst" or "subOther", then "callError" or "reload"; after a return  *)
(* "sub", "reached0", "casOk", "callFinish"; "end" destroys the closure.   *)
(* "terminate": an exception left a thread function.                       *)
(***************************************************************************)
InAddTask == {"addLoad", "addInc", "addPush"}
\* A worker with one of these labels has a task that still counts as pending.
Holding == InAddTask \cup
  {"load", "skip", "body", "casError", "subFirst", "subOther", "sub"}
Labels == Holding \cup
  {"idle", "callError", "reload", "reached0", "casOk", "callFinish", "end",
   "added", "terminate"}
States == {"Running", "Done_OK", "Done_Error"}

Init ==
  /\ Pool!Init
  /\ state = "Running"
  /\ pending = 0
  /\ pc = [a \in Actors |-> "idle"]
  /\ adding = [a \in Actors |-> NoTask]
  /\ created = {}
  /\ failure = FALSE
  /\ calls = <<>>

-----------------------------------------------------------------------------
(* The atomic instructions.                                                 *)

Goto(a, from, to) ==
  /\ pc[a] = from
  /\ pc' = [pc EXCEPT ![a] = to]

\* fetch_add(1) and fetch_sub(1) of a two's complement counter.
FetchAdd == pending' = IF pending = Limit - 1 THEN -Limit ELSE pending + 1
FetchSub == pending' = IF pending = -Limit THEN Limit - 1 ELSE pending - 1

\* Leaves the state alone unless it is Running.
SetAlways(new) == state' = new
SetStateIfRunning(new) == state' = IF state = "Running" THEN new ELSE state

-----------------------------------------------------------------------------
(* add_task, lines 152-168, in the client or in a task.                     *)

CallAddTask(a, t) ==
  /\ \/ a = Client /\ open /\ Goto(a, "idle", "addLoad")
     \/ a # Client /\ Goto(a, "body", "addLoad")
  /\ t \notin created
  /\ created' = created \cup {t}
  /\ adding' = [adding EXCEPT ![a] = t]
  /\ UNCHANGED <<pool, state, pending, failure, calls>>

\* Where a thread continues when add_task returns, and when it throws.
Return(a) == IF a = Client THEN "added" ELSE "body"
Throw(a) == IF a = Client THEN "terminate" ELSE "casError"

AddLoad(a) ==
  /\ Goto(a, "addLoad", CASE state = "Running"    -> "addInc"
                          [] state = "Done_Error" -> Return(a)
                          [] state = "Done_OK"    -> Throw(a))
  /\ adding' = IF state = "Running" THEN adding ELSE [adding EXCEPT ![a] = NoTask]
  /\ failure' = (failure \/ state = "Done_OK")
  /\ UNCHANGED <<pool, state, pending, created, calls>>

AddIncForgotten(a) ==
  /\ Goto(a, "addInc", "addPush")
  /\ UNCHANGED <<pool, state, pending, adding, history>>
AddInc(a) ==
  /\ Goto(a, "addInc", "addPush")
  /\ FetchAdd
  /\ UNCHANGED <<pool, state, adding, history>>

\* The task is pushed when it has been counted: a worker that takes it at once
\* finds it pending.
AddPush(a) ==
  /\ Goto(a, "addPush", Return(a))
  /\ Pool!Submit(adding[a])
  /\ adding' = [adding EXCEPT ![a] = NoTask]
  /\ UNCHANGED <<state, pending, history>>

-----------------------------------------------------------------------------
(* The executor given to the pool, lines 168-232.                           *)

Start(w) ==
  /\ Goto(w, "idle", "load")
  /\ Pool!Start(w)
  /\ UNCHANGED <<state, pending, adding, history>>

\* In a finished group: logic_error, outside of the try block.  (The counter
\* is decremented before the throw, which nothing can see.)
LoadState(w) ==
  /\ Goto(w, "load", CASE state = "Running"    -> "body"
                       [] state = "Done_Error" -> "skip"
                       [] state = "Done_OK"    -> "terminate")
  /\ UNCHANGED <<pool, state, pending, adding, history>>

\* The group errored: the task counts as over and is not run.
SkipForgetsSub(w) ==
  /\ Goto(w, "skip", "end")
  /\ UNCHANGED <<pool, state, pending, adding, history>>
Skip(w) ==
  /\ Goto(w, "skip", "end")
  /\ FetchSub
  /\ UNCHANGED <<pool, state, adding, history>>

TaskReturns(w) ==
  /\ Goto(w, "body", "sub")
  /\ UNCHANGED <<pool, state, pending, adding, history>>

TaskThrows(w) ==
  /\ Goto(w, "body", "casError")
  /\ failure' = TRUE
  /\ UNCHANGED <<pool, state, pending, adding, created, calls>>

CasErrorAlwaysFirst(w) ==
  /\ Goto(w, "casError", "subFirst")
  /\ SetStateIfRunning("Done_Error")
  /\ UNCHANGED <<pool, pending, adding, history>>
CasError(w) ==
  /\ Goto(w, "casError", IF state = "Running" THEN "subFirst" ELSE "subOther")
  /\ SetStateIfRunning("Done_Error")
  /\ UNCHANGED <<pool, pending, adding, history>>

SubError(w) ==
  /\ Goto(w, "subFirst", "callError") \/ Goto(w, "subOther", "reload")
  /\ FetchSub
  /\ UNCHANGED <<pool, state, adding, history>>

\* Not the first error: logic_error if the group had finished.
Reload(w) ==
  /\ Goto(w, "reload", IF state = "Done_OK" THEN "terminate" ELSE "end")
  /\ UNCHANGED <<pool, state, pending, adding, history>>

\* old_value of the fetch_sub decides whether this was the last task.
SubEverySeesLast(w) ==
  /\ Goto(w, "sub", "reached0")
  /\ FetchSub
  /\ UNCHANGED <<pool, state, adding, history>>
Sub(w) ==
  /\ Goto(w, "sub", CASE pending = 1 -> "reached0"
                      [] pending > 1 -> "end"
                      [] pending < 1 -> "terminate")
  /\ FetchSub
  /\ UNCHANGED <<pool, state, adding, history>>

LoadReached0(w) ==
  /\ Goto(w, "reached0", IF state = "Done_OK" THEN "terminate" ELSE "casOk")
  /\ UNCHANGED <<pool, state, pending, adding, history>>

CasOkIsAStore(w) ==
  /\ Goto(w, "casOk", "callFinish")
  /\ SetAlways("Done_OK")
  /\ UNCHANGED <<pool, pending, adding, history>>
CasOk(w) ==
  /\ Goto(w, "casOk", IF state = "Running" THEN "callFinish" ELSE "end")
  /\ SetStateIfRunning("Done_OK")
  /\ UNCHANGED <<pool, pending, adding, history>>

CallFinish(w) ==
  /\ Goto(w, "callFinish", "end")
  /\ calls' = Append(calls, "finish")
  /\ UNCHANGED <<pool, state, pending, adding, created, failure>>

\* on_error, called by the executor or by cancel.
CallErrorForgotten(a) ==
  /\ Goto(a, "callError", "end")
  /\ UNCHANGED <<pool, state, pending, adding, history>>
CallError(a) ==
  /\ Goto(a, "callError", "end")
  /\ calls' = Append(calls, "error")
  /\ UNCHANGED <<pool, state, pending, adding, created, failure>>

\* The executor has returned and is destroyed.
End(w) ==
  /\ Goto(w, "end", "idle")
  /\ Pool!Finish(w)
  /\ UNCHANGED <<state, pending, adding, history>>

-----------------------------------------------------------------------------
(* cancel, lines 143-149.                                                   *)

Cancel ==
  /\ open
  /\ Goto(Client, "added", IF state = "Running" THEN "callError" ELSE "end")
  /\ SetStateIfRunning("Done_Error")
  /\ failure' = (failure \/ state = "Running")
  /\ UNCHANGED <<pool, pending, adding, created, calls>>

\* The client thread leaves its io loop and destroys the pool: nothing that is
\* still queued will run.
Shutdown ==
  /\ pc[Client] \in {"idle", "added", "end"}
  /\ Pool!Close
  /\ UNCHANGED <<state, pending, pc, adding, history>>

-----------------------------------------------------------------------------
AddTaskStep(a) == AddLoad(a) \/ AddInc(a) \/ AddPush(a)

WorkerStep(w) ==
  \/ \E t \in Tasks : CallAddTask(w, t)
  \/ AddTaskStep(w)
  \/ Start(w) \/ LoadState(w) \/ Skip(w)
  \/ TaskReturns(w) \/ TaskThrows(w)
  \/ CasError(w) \/ SubError(w) \/ Reload(w) \/ CallError(w)
  \/ Sub(w) \/ LoadReached0(w) \/ CasOk(w) \/ CallFinish(w)
  \/ End(w)

ClientStep ==
  \/ \E t \in Tasks : CallAddTask(Client, t)
  \/ AddTaskStep(Client)
  \/ CallError(Client)

Next == (\E w \in Workers : WorkerStep(w)) \/ ClientStep \/ Cancel \/ Shutdown

Spec == Init /\ [][Next]_vars

(***************************************************************************)
(* Threads run and tasks end: a task adds finitely many others (Tasks is   *)
(* finite) and then returns or throws.  Nothing obliges anyone to cancel   *)
(* or to shut down.                                                        *)
(***************************************************************************)
FairSpec == Spec /\ WF_vars(ClientStep) /\ \A w \in Workers : WF_vars(WorkerStep(w))

-----------------------------------------------------------------------------
(* Properties.                                                              *)

\* Every variable has its type.
TypeOK ==
  /\ submitted \in Seq(Tasks)
  /\ started \in 0..Len(submitted)
  /\ job \in [Workers -> Tasks \cup {NoTask}]
  /\ open \in BOOLEAN
  /\ state \in States
  /\ pending \in -Limit .. Limit - 1
  /\ pc \in [Actors -> Labels]
  /\ adding \in [Actors -> Tasks \cup {NoTask}]
  /\ created \in SUBSET Tasks
  /\ failure \in BOOLEAN
  /\ calls \in Seq({"finish", "error"})

\* The tasks the counter should count: announced by an add_task that has not
\* pushed them yet, queued in the pool, or in an executor that has not yet
\* decremented.
Announced == {adding[a] : a \in {b \in Actors : pc[b] = "addPush"}}
Queued == {submitted[i] : i \in (started + 1) .. Len(submitted)}
Executing == {job[w] : w \in {v \in Workers : pc[v] \in Holding}}
Counted == Announced \cup Queued \cup Executing

\* "the number of pending tasks should be kept accurate": in every state,
\* also after an error, although state and counter change separately.
PendingAccurate == pending = Cardinality(Counted)

\* "this is our bug and should never happen": none of the five logic_errors
\* is ever thrown (by a worker they would end the process).
NoLogicError ==
  /\ \A a \in Actors : pc[a] # "terminate"
  /\ \A a \in Actors : pc[a] = "addLoad" => state # "Done_OK"

\* When the group is Done_OK all its tasks are over and none is being added;
\* the owner may use the results without synchronisation.
FinishedMeansOver ==
  state = "Done_OK" =>
    /\ Counted = {}
    /\ \A a \in Actors : pc[a] \notin InAddTask

\* At most one callback is called, it is the one of the state, and on_finish
\* is called only if no task threw and cancel had no effect.
OneRightCallback ==
  /\ Len(calls) <= 1
  /\ Range(calls) \subseteq IF failure THEN {"error"} ELSE {"finish"}
  /\ calls # <<>> => state = IF failure THEN "Done_Error" ELSE "Done_OK"

\* The group implements its contract.
Contract == INSTANCE GroupContract WITH
  accepted <- Range(submitted) \cup Announced,
  over <- (Range(submitted) \cup Announced) \ Counted,
  outcome <- state,
  called <- calls # <<>>
ImplementsContract == Contract!Spec

\* Unless the pool is shut down, a group calls a callback, and the counter
\* "eventually reaches 0" and stays there, also after an error.
Settles == <>[](open => Len(calls) = 1 /\ pending = 0)
=============================================================================
