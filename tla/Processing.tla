------------------------------ MODULE Processing ------------------------------
(***************************************************************************)
(* The class image_processor of src/image_processing.hpp: one instance for *)
(* each upload, sharing a thread pool, the storage and the map             *)
(* currently_processing that is to keep two uploads of the same bytes from *)
(* being processed twice.                                                  *)
(*                                                                         *)
(* The pool is a FIFO queue and the task group its contract: an executor   *)
(* that ends decides in the same step whether the group is over, and then  *)
(* runs finalize in the same thread (ThreadPool and TaskGroup show why     *)
(* that is sound).  A hash, and the bytes it stands for, is an image.  A   *)
(* notifier is named by the processor that put it into the map.            *)
(***************************************************************************)
EXTENDS Naturals, Sequences, FiniteSets, Functions

CONSTANTS Workers,  \* the threads of the pool
          Procs,    \* the uploads
          Images,
          Sizes,    \* get_sizes(width), in the order of the set
          Formats,  \* get_formats(original format)
          MayThrow, \* whether tasks may throw for reasons of their own
          None      \* no processor, image, size, format, folder or answer

ASSUME ProcessingAssumption ==
  /\ IsFiniteSet(Workers) /\ IsFiniteSet(Procs)
  /\ Sizes \in Seq(Range(Sizes)) /\ Formats \in Seq(Range(Formats))
  /\ None \notin Procs \cup Images \cup Range(Sizes) \cup Range(Formats)
                    \cup {"ok", "error"}
  /\ MayThrow \in BOOLEAN

VARIABLES queue,       \* the deque of the pool
          job, pc,     \* the task of each worker and what it executes next
          image,       \* the image each processor was run with
          group,       \* the State of each processor's task group
          notifier,    \* processing_done_notifier
          processing,  \* the map currently_processing
          done,        \* notifiers whose value is false
          staged,      \* temp_folder: the files of each staged folder, or None
          stored,      \* data_dir: the files of each committed folder, or None
          answer,      \* what ready_hook was called with
          broken,      \* history: images of which a task failed
          crashed      \* the process has died

vars == <<queue, job, pc, image, group, notifier, processing, done,
          staged, stored, answer, broken, crashed>>

\* A file is named by size and format, the original by None.
File == (Range(Sizes) \X Range(Formats)) \cup {<<None, None>>}

ASSUME FolderAssumption == \A folder \in SUBSET File : folder # None

Task(p, kind, s, f) == [proc |-> p, kind |-> kind, size |-> s, format |-> f]
NoTask == Task(None, "none", None, None)
Tasks == [proc : Procs, kind : {"check", "load", "resize", "save"},
          size : Range(Sizes) \cup {None}, format : Range(Formats) \cup {None}]

(***************************************************************************)
(* What a worker executes next.  check_existence: "check", "claim", then   *)
(* "wait" and "recheck", or "again".  load_image: "load", "decode".  Then  *)
(* "resize", "save".  "return": the task's function is over.  finalize:    *)
(* "commit", "erase", "notify", "hook".  "end": the closure is destroyed.  *)
(***************************************************************************)
InBody == {"check", "claim", "wait", "recheck", "again", "load", "decode",
           "resize", "save", "return"}
InFinalize == {"commit", "erase", "notify", "hook"}
Labels == InBody \cup InFinalize \cup {"idle", "end"}

Init ==
  /\ queue = <<>>
  /\ job = [w \in Workers |-> NoTask]
  /\ pc = [w \in Workers |-> "idle"]
  /\ image = [p \in Procs |-> None]
  /\ group = [p \in Procs |-> "Running"]
  /\ notifier = [p \in Procs |-> None]
  /\ processing = [i \in Images |-> None]
  /\ done = {}
  /\ staged = [p \in Procs |-> None]
  /\ stored = [i \in Images |-> None]
  /\ answer = [p \in Procs |-> None]
  /\ broken = {}
  /\ crashed = FALSE

-----------------------------------------------------------------------------
Proc(w) == job[w].proc
ImageOf(w) == image[Proc(w)]

Goto(w, from, to) ==
  /\ ~crashed
  /\ pc[w] = from
  /\ pc' = [pc EXCEPT ![w] = to]

\* Tasks of p that are queued or that other workers than w execute.
Queued(p) == \E k \in DOMAIN queue : queue[k].proc = p
PendingElsewhere(w, p) ==
  Queued(p) \/ \E v \in Workers \ {w} : Proc(v) = p /\ pc[v] \in InBody
ReferredElsewhere(w, p) ==
  Queued(p) \/ \E v \in Workers \ {w} : Proc(v) = p

\* Where finalize begins, for a processor that holds a notifier or does not.
FinalizeOk(p) == IF notifier[p] = None THEN "hook" ELSE "commit"
FinalizeError(p) == IF notifier[p] = None THEN "hook" ELSE "erase"

\* run, lines 360-374, called by the io thread.
Run(p, i) ==
  /\ ~crashed
  /\ image[p] = None
  /\ image' = [image EXCEPT ![p] = i]
  /\ queue' = Append(queue, Task(p, "check", None, None))
  /\ UNCHANGED <<job, pc, group, notifier, processing, done, staged, stored,
                 answer, broken, crashed>>

\* A worker takes the oldest task, which is not run if its group is over.
Start(w) ==
  /\ queue # <<>>
  /\ Goto(w, "idle", IF group[Head(queue).proc] = "Running"
                     THEN Head(queue).kind ELSE "end")
  /\ queue' = Tail(queue)
  /\ job' = [job EXCEPT ![w] = Head(queue)]
  /\ UNCHANGED <<image, group, notifier, processing, done, staged, stored,
                 answer, broken, crashed>>

\* The task's function throws: the first error decides the group.
Throw(w, from) ==
  LET p == Proc(w)
  IN /\ Goto(w, from, IF group[p] = "Running" THEN FinalizeError(p) ELSE "end")
     /\ group' = [group EXCEPT ![p] = "Done_Error"]
     /\ UNCHANGED <<queue, job, image, notifier, processing, done, staged,
                    stored, answer, crashed>>

Fail(w) ==
  /\ MayThrow
  /\ \E l \in {"check", "recheck", "again", "load", "decode", "resize", "save"} : Throw(w, l)
  /\ broken' = broken \cup {ImageOf(w)}

\* The task's function returns: the last one to do so finishes the group.
ReturnTooEarly(w) ==
  LET p == Proc(w)
      finishes == group[p] = "Running" /\ ~Queued(p)
  IN /\ Goto(w, "return", IF finishes THEN FinalizeOk(p) ELSE "end")
     /\ group' = IF finishes THEN [group EXCEPT ![p] = "Done_OK"] ELSE group
     /\ UNCHANGED <<queue, job, image, notifier, processing, done, staged,
                    stored, answer, broken, crashed>>
Return(w) ==
  LET p == Proc(w)
      finishes == group[p] = "Running" /\ ~PendingElsewhere(w, p)
  IN /\ Goto(w, "return", IF finishes THEN FinalizeOk(p) ELSE "end")
     /\ group' = IF finishes THEN [group EXCEPT ![p] = "Done_OK"] ELSE group
     /\ UNCHANGED <<queue, job, image, notifier, processing, done, staged,
                    stored, answer, broken, crashed>>

\* The closure goes away; the last one takes the processor and a staged folder
\* that was not committed with it.
EndKeeps(w) ==
  /\ Goto(w, "end", "idle")
  /\ job' = [job EXCEPT ![w] = NoTask]
  /\ UNCHANGED <<queue, image, group, notifier, processing, done, staged,
                 stored, answer, broken, crashed>>
End(w) ==
  LET p == Proc(w)
  IN /\ Goto(w, "end", "idle")
     /\ job' = [job EXCEPT ![w] = NoTask]
     /\ staged' = IF ReferredElsewhere(w, p) THEN staged
                  ELSE [staged EXCEPT ![p] = None]
     /\ UNCHANGED <<queue, image, group, notifier, processing, done, stored,
                    answer, broken, crashed>>

-----------------------------------------------------------------------------
(* check_existence, lines 278-321.                                          *)

Check(w) ==
  /\ Goto(w, "check", IF stored[ImageOf(w)] # None THEN "return" ELSE "claim")
  /\ UNCHANGED <<queue, job, image, group, notifier, processing, done, staged,
                 stored, answer, broken, crashed>>

\* emplace keeps the entry that is there, under the mutex.
ClaimOverwrites(w) ==
  LET p == Proc(w)
      i == ImageOf(w)
  IN /\ Goto(w, "claim", "again")
     /\ processing' = [processing EXCEPT ![i] = p]
     /\ notifier' = [notifier EXCEPT ![p] = processing'[i]]
     /\ UNCHANGED <<queue, job, image, group, done, staged, stored, answer,
                    broken, crashed>>
Claim(w) ==
  LET p == Proc(w)
      i == ImageOf(w)
      mine == processing[i] = None
  IN /\ Goto(w, "claim", IF mine THEN "again" ELSE "wait")
     /\ processing' = IF mine THEN [processing EXCEPT ![i] = p] ELSE processing
     /\ notifier' = [notifier EXCEPT ![p] = processing'[i]]
     /\ UNCHANGED <<queue, job, image, group, done, staged, stored, answer,
                    broken, crashed>>

\* Blocks the thread of the pool.
Wait(w) ==
  /\ Goto(w, "wait", "recheck")
  /\ notifier[Proc(w)] \in done
  /\ UNCHANGED <<queue, job, image, group, notifier, processing, done, staged,
                 stored, answer, broken, crashed>>

RecheckFinds(w) ==
  /\ Goto(w, "recheck", "return")
  /\ stored[ImageOf(w)] # None
  /\ UNCHANGED <<queue, job, image, group, notifier, processing, done, staged,
                 stored, answer, broken, crashed>>

RecheckThrows(w) ==
  /\ Throw(w, "recheck")
  /\ stored[ImageOf(w)] = None
  /\ UNCHANGED broken

\* The owner looks once more, and then this image is new.
Again(w) ==
  /\ Goto(w, "again", "return")
  /\ queue' = IF stored[ImageOf(w)] # None THEN queue
              ELSE Append(queue, Task(Proc(w), "load", None, None))
  /\ UNCHANGED <<job, image, group, notifier, processing, done, staged, stored,
                 answer, broken, crashed>>

-----------------------------------------------------------------------------
(* load_image, resize and save_to_format, lines 127-220.  The tasks a task  *)
(* adds are pushed at once: its own is pending until the last one is.       *)

\* The folder is created, and the original written to it.
Load(w) ==
  LET p == Proc(w)
  IN /\ Goto(w, "load", "decode")
     /\ staged' = [staged EXCEPT ![p] = {<<None, None>>}]
     /\ UNCHANGED <<queue, job, image, group, notifier, processing, done,
                    stored, answer, broken, crashed>>

Decode(w) ==
  /\ Goto(w, "decode", "return")
  /\ queue' = queue \o [k \in DOMAIN Sizes |-> Task(Proc(w), "resize", Sizes[k], None)]
  /\ UNCHANGED <<job, image, group, notifier, processing, done, staged, stored,
                 answer, broken, crashed>>

ResizeWrongFormat(w) ==
  /\ Goto(w, "resize", "return")
  /\ queue' = queue \o
       [k \in DOMAIN Formats |-> Task(Proc(w), "save", job[w].size, Formats[1])]
  /\ UNCHANGED <<job, image, group, notifier, processing, done, staged, stored,
                 answer, broken, crashed>>
Resize(w) ==
  /\ Goto(w, "resize", "return")
  /\ queue' = queue \o
       [k \in DOMAIN Formats |-> Task(Proc(w), "save", job[w].size, Formats[k])]
  /\ UNCHANGED <<job, image, group, notifier, processing, done, staged, stored,
                 answer, broken, crashed>>

Save(w) ==
  /\ Goto(w, "save", "return")
  /\ staged' = [staged EXCEPT ![Proc(w)] = @ \cup {<<job[w].size, job[w].format>>}]
  /\ UNCHANGED <<queue, job, image, group, notifier, processing, done, stored,
                 answer, broken, crashed>>

-----------------------------------------------------------------------------
(* finalize, lines 107-125, called by the thread that decided the group.    *)

\* commit_staged_folder works on a folder that was staged, and the rename on a
\* name that is not taken.
CanCommit(w) == staged[Proc(w)] # None /\ stored[ImageOf(w)] = None

Commit(w) ==
  LET p == Proc(w)
  IN /\ Goto(w, "commit", "erase")
     /\ CanCommit(w)
     /\ stored' = [stored EXCEPT ![image[p]] = staged[p]]
     /\ staged' = [staged EXCEPT ![p] = None]
     /\ UNCHANGED <<queue, job, image, group, notifier, processing, done,
                    answer, broken, crashed>>

\* A null temp_folder, or an exception that leaves the thread function: of a
\* rename to a name that is taken, or one that fails for another reason.
CommitCrashes(w) ==
  /\ Goto(w, "commit", "commit")
  /\ ~CanCommit(w) \/ MayThrow
  /\ crashed' = TRUE
  /\ UNCHANGED <<queue, job, image, group, notifier, processing, done, staged,
                 stored, answer, broken>>

EraseOnSuccess(w) ==
  /\ Goto(w, "erase", "notify")
  /\ processing' = IF group[Proc(w)] = "Done_OK"
                   THEN [processing EXCEPT ![ImageOf(w)] = None] ELSE processing
  /\ UNCHANGED <<queue, job, image, group, notifier, done, staged, stored,
                 answer, broken, crashed>>
Erase(w) ==
  /\ Goto(w, "erase", "notify")
  /\ processing' = [processing EXCEPT ![ImageOf(w)] = None]
  /\ UNCHANGED <<queue, job, image, group, notifier, done, staged, stored,
                 answer, broken, crashed>>

NotifyForgotten(w) ==
  /\ Goto(w, "notify", "hook")
  /\ UNCHANGED <<queue, job, image, group, notifier, processing, done, staged,
                 stored, answer, broken, crashed>>
Notify(w) ==
  /\ Goto(w, "notify", "hook")
  /\ done' = done \cup {notifier[Proc(w)]}
  /\ UNCHANGED <<queue, job, image, group, notifier, processing, staged, stored,
                 answer, broken, crashed>>

Hook(w) ==
  LET p == Proc(w)
  IN /\ Goto(w, "hook", "end")
     /\ answer' = [answer EXCEPT ![p] = IF group[p] = "Done_OK" THEN "ok" ELSE "error"]
     /\ UNCHANGED <<queue, job, image, group, notifier, processing, done,
                    staged, stored, broken, crashed>>

-----------------------------------------------------------------------------
BodyStep(w) ==
  \/ Check(w) \/ Claim(w) \/ Wait(w) \/ RecheckFinds(w) \/ RecheckThrows(w)
  \/ Again(w) \/ Load(w) \/ Decode(w) \/ Resize(w) \/ Save(w)

FinalizeStep(w) ==
  Commit(w) \/ CommitCrashes(w) \/ Erase(w) \/ Notify(w) \/ Hook(w)

WorkerStep(w) == Start(w) \/ BodyStep(w) \/ Return(w) \/ FinalizeStep(w) \/ End(w)

Next ==
  \/ \E p \in Procs, i \in Images : Run(p, i)
  \/ \E w \in Workers : WorkerStep(w) \/ Fail(w)

Spec == Init /\ [][Next]_vars

\* Threads run.  Nobody has to upload, and nothing has to fail.
FairSpec == Spec /\ \A w \in Workers : WF_vars(WorkerStep(w))

-----------------------------------------------------------------------------
(* Properties.                                                              *)

\* The processor that put the entry of a hash into the map has yet to erase
\* it: no entry is left for later uploads of the image to wait for in vain.
EntryHasOwner ==
  \A i \in Images : processing[i] # None =>
    LET p == processing[i]
    IN /\ image[p] = i
       /\ p \notin done
       /\ \/ Queued(p)
          \/ \E w \in Workers : Proc(w) = p /\ pc[w] \in InBody \cup {"commit", "erase"}

\* load_image runs "after we've determined that this image is new, and any
\* necessary synchronization was set up": two processors whose groups are
\* running process the same image at the same time only if a processing of it
\* has failed before.  Then they may: a waiter of the one that failed erases
\* the entry of its successor.
Owners(i) ==
  {p \in Procs : /\ image[p] = i /\ notifier[p] = p /\ group[p] = "Running"
                 /\ Queued(p) \/ \E w \in Workers : Proc(w) = p /\ pc[w] \in InBody}
OneOwner == \A i \in Images \ broken : Cardinality(Owners(i)) <= 1

\* "This will be called with an object returned by create_staged_folder": a
\* processor that is about to commit has a staged folder.
CommitsWhatWasStaged ==
  \A w \in Workers : pc[w] = "commit" => staged[Proc(w)] # None

\* "The image processing code never attempts to create a file or folder with
\* the same name twice".
NoFileTwice ==
  [][\A w \in Workers :
       pc[w] = "save" /\ pc'[w] = "return" =>
         <<job[w].size, job[w].format>> \notin staged[Proc(w)]]_vars

\* The processing of uploads implements its contract, in which a folder counts
\* when all its files are there: "so either all files become immediately
\* available, or none of them do".
Contract == INSTANCE UploadContract WITH
  uploads <- {<<p, image[p]>> : p \in {q \in Procs : image[q] # None}},
  stored <- {i \in Images : stored[i] = File},
  answers <- {<<p, answer[p]>> : p \in {q \in Procs : answer[q] # None}}
ImplementsContract == Contract!Spec

\* Every processor that is run calls its hook, unless the process dies or all
\* workers wait for processors whose tasks are queued: nobody waits for one
\* that is over.
EveryWorkerWaits ==
  \A w \in Workers :
    /\ pc[w] = "wait"
    /\ LET p == notifier[Proc(w)] IN p \notin done /\ Queued(p)
HookCalledOrBlocked ==
  \A p \in Procs : image[p] # None ~> answer[p] # None \/ crashed \/ EveryWorkerWaits

\* "You should implement a destructor that cleans up the temporary folder": a
\* staged folder is committed or removed, however the tasks of its processor
\* end, unless the process dies or all workers wait for queued tasks.
TempEmptied ==
  \A p \in Procs : staged[p] # None ~> staged[p] = None \/ crashed \/ EveryWorkerWaits

\* "When everything is done, ready_hook is called": every processor that is
\* run calls it, unless the process dies.
EveryHookCalled ==
  \A p \in Procs : image[p] # None ~> answer[p] # None \/ crashed
=============================================================================
