----------------------------- MODULE PoolContract -----------------------------
(***************************************************************************)
(* What a thread pool promises its users, without locks, condition         *)
(* variables or worker loops: tasks start in the order in which they were  *)
(* submitted, each at most once, at most one per worker at a time; once    *)
(* blocking_shutdown has returned nothing runs and nothing will.           *)
(* ThreadPool implements this specification.                               *)
(***************************************************************************)
EXTENDS Naturals, Sequences, Functions

CONSTANTS Workers, Tasks, NoTask

VARIABLES submitted,  \* every task ever submitted, in submission order
          started,    \* how many of them have been handed to a worker
          job,        \* the task each worker is executing, or NoTask
          open        \* FALSE once blocking_shutdown has returned

vars == <<submitted, started, job, open>>

Init ==
  /\ submitted = <<>>
  /\ started = 0
  /\ job = [w \in Workers |-> NoTask]
  /\ open = TRUE

Submit(t) ==
  /\ open
  /\ t \notin Range(submitted)
  /\ submitted' = Append(submitted, t)
  /\ UNCHANGED <<started, job, open>>

Start(w) ==
  /\ open
  /\ job[w] = NoTask
  /\ started < Len(submitted)
  /\ started' = started + 1
  /\ job' = [job EXCEPT ![w] = submitted[started + 1]]
  /\ UNCHANGED <<submitted, open>>

Finish(w) ==
  /\ job[w] # NoTask
  /\ job' = [job EXCEPT ![w] = NoTask]
  /\ UNCHANGED <<submitted, started, open>>

Close ==
  /\ open
  /\ \A w \in Workers : job[w] = NoTask
  /\ open' = FALSE
  /\ UNCHANGED <<submitted, started, job>>

Next ==
  \/ \E t \in Tasks : Submit(t)
  \/ \E w \in Workers : Start(w) \/ Finish(w)
  \/ Close

Spec == Init /\ [][Next]_vars
=============================================================================
