---------------------------- MODULE GroupContract ----------------------------
(***************************************************************************)
(* What a task group promises its owner, without counters, compare-and-    *)
(* swaps or a pool: a group that was given work accepts more only while    *)
(* some of it is unfinished, succeeds only when all of it is over, decides *)
(* once, and then calls exactly one callback.  TaskGroup implements it.    *)
(***************************************************************************)
EXTENDS FiniteSets

CONSTANT Tasks

VARIABLES accepted,  \* tasks the group took
          over,      \* those that returned, threw or were skipped
          outcome,   \* "Running", "Done_OK" or "Done_Error"
          called     \* whether the callback for the outcome was called

vars == <<accepted, over, outcome, called>>

Init ==
  /\ accepted = {}
  /\ over = {}
  /\ outcome = "Running"
  /\ called = FALSE

Accept(t) ==
  /\ outcome # "Done_OK"
  /\ t \notin accepted
  /\ accepted = {} \/ over # accepted
  /\ accepted' = accepted \cup {t}
  /\ UNCHANGED <<over, outcome, called>>

Complete(t) ==
  /\ t \in accepted \ over
  /\ over' = over \cup {t}
  /\ UNCHANGED <<accepted, outcome, called>>

Succeed ==
  /\ outcome = "Running"
  /\ accepted # {} /\ over = accepted
  /\ outcome' = "Done_OK"
  /\ UNCHANGED <<accepted, over, called>>

Fail ==
  /\ outcome = "Running"
  /\ outcome' = "Done_Error"
  /\ UNCHANGED <<accepted, over, called>>

Call ==
  /\ outcome # "Running"
  /\ ~called
  /\ called' = TRUE
  /\ UNCHANGED <<accepted, over, outcome>>

Next ==
  \/ \E t \in Tasks : Accept(t) \/ Complete(t)
  \/ Succeed
  \/ Fail
  \/ Call

Spec == Init /\ [][Next]_vars
=============================================================================
