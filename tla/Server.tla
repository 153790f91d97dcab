-------------------------------- MODULE Server --------------------------------
(***************************************************************************)
(* The life of the process: main of src/main.cpp builds the parts that     *)
(* server_state hands to everyone, serves until a signal or an exception,  *)
(* and takes the parts down, while threads of the pool may still run tasks *)
(* that use them.                                                          *)
(*                                                                         *)
(* The pool is its contract, and how its threads are told to stop is that  *)
(* of ThreadPool.  A task is an upload and a stage of it; the              *)
(* stages follow each other, each added by the one before.  Processing     *)
(* shows the tasks in full; here it matters which part a step uses and     *)
(* whether the part is there.  Using a part that is gone is undefined: the *)
(* model notes the part and goes on.                                       *)
(***************************************************************************)
EXTENDS Naturals, Sequences, FiniteSets, Functions

CONSTANTS Workers, Uploads, Images, NoTask, None

Stages == {"check", "load", "save"}
Tasks == Uploads \X Stages

ASSUME ServerAssumption ==
  /\ IsFiniteSet(Workers) /\ IsFiniteSet(Uploads)
  /\ NoTask \notin Tasks /\ None \notin Uploads \cup Images

VARIABLES main,      \* what the main thread, which is the io thread, is about;
                     \* "killed": the process died before it came to the end
          built,     \* the parts that exist
          failed,    \* an exception is on its way to the end of main
          submitted, started, job, open,  \* the pool, see PoolContract
          shutdown, notified,  \* the steps of its blocking_shutdown
          late,      \* no worker is left that has read the flag before it was set
          asleep,    \* the worker that has slept through notify_all
          pc,        \* what each worker executes next
          image,     \* the image of each upload
          owner,     \* currently_processing
          notifier,  \* the upload whose notifier each one holds
          done,      \* uploads whose notifier is false
          staged,    \* uploads with a folder in temp_dir
          stored,    \* images in data_dir
          connected, \* uploads whose connection exists
          missed     \* history: parts that were used when they were gone

pool == <<submitted, started, job, open>>
flags == <<shutdown, notified, late, asleep>>
work == <<pc, image, owner, notifier, done, staged, stored>>
vars == <<main, built, failed, submitted, started, job, open, shutdown, notified, late,
          asleep, pc, image, owner, notifier, done, staged, stored, connected, missed>>

Pool == INSTANCE PoolContract

(***************************************************************************)
(* config: with the storage.  map: currently_processing and its mutex.     *)
(* image: libvips and the magic cookie.  io: the io context and all that   *)
(* was made with it.                                                       *)
(***************************************************************************)
Order == <<"config", "pool", "map", "image", "io">>
Parts == Range(Order)

Init ==
  /\ main = "building"
  /\ built = {}
  /\ failed = FALSE
  /\ Pool!Init
  /\ shutdown = FALSE /\ notified = FALSE /\ late = FALSE /\ asleep = {}
  /\ pc = [w \in Workers |-> "idle"]
  /\ image = [u \in Uploads |-> None]
  /\ owner = [i \in Images |-> None]
  /\ notifier = [u \in Uploads |-> None]
  /\ done = {} /\ staged = {} /\ stored = {} /\ connected = {} /\ missed = {}

-----------------------------------------------------------------------------
(* The main thread.                                                         *)

Build ==
  /\ main = "building"
  /\ built' = built \cup {Order[Cardinality(built) + 1]}
  /\ main' = IF built' = Parts THEN "serving" ELSE "building"
  /\ UNCHANGED <<failed, pool, flags, work, connected, missed>>

\* No such file, no directory, no threads, no database, no such address, port
\* in use.  If the pool has got some of its threads and no more, they are
\* destroyed unjoined, which ends the process.
BuildFails ==
  /\ main = "building"
  /\ main' \in {"ending"} \cup (IF built = {"config"} THEN {"killed"} ELSE {})
  /\ failed' = TRUE
  /\ UNCHANGED <<built, pool, flags, work, connected, missed>>

\* process_upload_request and image_processor::run.
Upload(u, i) ==
  /\ main = "serving"
  /\ image[u] = None
  /\ image' = [image EXCEPT ![u] = i]
  /\ connected' = connected \cup {u}
  /\ Pool!Submit(<<u, "check">>)
  /\ UNCHANGED <<main, built, failed, flags, pc, owner, notifier, done, staged, stored, missed>>

\* The loop ends: a signal, or a handler that throws.
Stop ==
  /\ main = "serving"
  /\ main' = "ending"
  /\ failed' \in BOOLEAN
  /\ UNCHANGED <<built, pool, flags, work, connected, missed>>

\* destroy_image_processing comes first and only without an exception; then
\* the local variables of main, the last one first.
DownByReference == <<"image", "io", "config", "map", "pool">>
Down == <<"image", "io", "map", "pool", "config">>
LastOf(parts, p) ==
  /\ main = "ending" /\ p \in parts
  /\ \A k \in DOMAIN Down : Down[k] \in parts => \E j \in 1..k : Down[j] = p
Falls(p) == LastOf(built \ (IF failed THEN {"image"} ELSE {}), p)

\* With the io context go the handlers in it, and their connections.
Destroy(p) ==
  /\ p # "pool" /\ Falls(p)
  /\ built' = built \ {p}
  /\ connected' = IF p = "io" THEN {} ELSE connected
  /\ UNCHANGED <<main, failed, pool, flags, work, missed>>

StoreShutdown ==
  /\ Falls("pool") /\ ~shutdown
  /\ shutdown' = TRUE
  /\ UNCHANGED <<main, built, failed, pool, notified, late, asleep, work, connected, missed>>

(***************************************************************************)
(* The flag is not set under the mutex.  A worker may hold it that has     *)
(* found no task and no flag, and go to sleep when everybody is notified   *)
(* (PoolShutdownHangs).  Then nobody adds or takes a task in between.      *)
(***************************************************************************)
NotifyAll ==
  /\ Falls("pool") /\ shutdown /\ ~notified
  /\ notified' = TRUE
  /\ \/ UNCHANGED <<late, asleep>>
     \/ /\ ~late /\ started = Len(submitted)
        /\ \E w \in Workers : job[w] = NoTask /\ asleep' = {w}
        /\ late' = TRUE
  /\ UNCHANGED <<main, built, failed, pool, shutdown, work, connected, missed>>

\* The threads are joined, which takes that they all wake.  Then the tasks
\* left in the deque are destroyed, and with them their processors, which take
\* their staged folders along.
JoinDrains ==
  /\ Falls("pool") /\ notified
  /\ started = Len(submitted)
  /\ asleep = {}
  /\ Pool!Close
  /\ staged' = staged \ {submitted[k][1] : k \in started + 1..Len(submitted)}
  /\ built' = built \ {"pool"}
  /\ UNCHANGED <<main, failed, flags, pc, image, owner, notifier, done, stored, connected, missed>>
JoinLeaks ==
  /\ Falls("pool") /\ notified
  /\ asleep = {}
  /\ Pool!Close
  /\ built' = built \ {"pool"}
  /\ UNCHANGED <<main, failed, flags, work, connected, missed>>
Join ==
  /\ Falls("pool") /\ notified
  /\ asleep = {}
  /\ Pool!Close
  /\ staged' = staged \ {submitted[k][1] : k \in started + 1..Len(submitted)}
  /\ built' = built \ {"pool"}
  /\ UNCHANGED <<main, failed, flags, pc, image, owner, notifier, done, stored, connected, missed>>

Exit ==
  /\ main = "ending"
  /\ \A p \in Parts : ~Falls(p)
  /\ main' = "exited"
  /\ UNCHANGED <<built, failed, pool, flags, work, connected, missed>>

-----------------------------------------------------------------------------
(* The workers.                                                             *)

Goto(w, from, to) ==
  /\ main \notin {"exited", "killed"}
  /\ pc[w] = from
  /\ pc' = [pc EXCEPT ![w] = to]

Uses(parts) == missed' = missed \cup (parts \ built)
UploadOf(w) == job[w][1]
ImageOf(w) == image[UploadOf(w)]

\* One worker at most takes a task after the flag is set (LateStarts of
\* ThreadPool).
Start(w) ==
  /\ ~late /\ started < Len(submitted)
  /\ late' = shutdown
  /\ Goto(w, "idle", submitted[started + 1][2])
  /\ Pool!Start(w)
  /\ UNCHANGED <<main, built, failed, shutdown, notified, asleep, image, owner,
                 notifier, done, staged, stored, connected, missed>>

\* "wait" returns without having been notified.
SpuriousWakeup(w) ==
  /\ main = "ending" /\ w \in asleep
  /\ asleep' = asleep \ {w}
  /\ UNCHANGED <<main, built, failed, pool, shutdown, notified, late, work,
                 connected, missed>>

\* add_task, which wakes one who sleeps.
Submit(t) ==
  /\ Pool!Submit(t)
  /\ asleep' = {}

\* check_existence: the image is stored, or not yet.
Check(w) ==
  /\ Goto(w, "check", IF ImageOf(w) \in stored THEN "hook" ELSE "claim")
  /\ Uses({"config"})
  /\ UNCHANGED <<main, built, failed, pool, flags, image, owner, notifier, done,
                 staged, stored, connected>>

\* Who finds no entry for the image makes one.
Claim(w) ==
  LET i == ImageOf(w)
  IN /\ Goto(w, "claim", IF owner[i] = None THEN "again" ELSE "wait")
     /\ owner' = IF owner[i] = None THEN [owner EXCEPT ![i] = UploadOf(w)] ELSE owner
     /\ notifier' = [notifier EXCEPT ![UploadOf(w)] = owner'[i]]
     /\ Uses({"map"})
     /\ UNCHANGED <<main, built, failed, pool, flags, image, done, staged, stored,
                    connected>>

\* It is the owner, of an image that is new.
Again(w) ==
  /\ Goto(w, "again", "end")
  /\ ImageOf(w) \notin stored
  /\ Submit(<<UploadOf(w), "load">>)
  /\ Uses({"config", "pool"})
  /\ UNCHANGED <<main, built, failed, shutdown, notified, late, image, owner,
                 notifier, done, staged, stored, connected>>

\* A waiter goes on when its image is done, and an owner may find it stored.
\* Both have a notifier and no temp_folder, and finalize dies of that
\* (WaiterCommits): the whole process does.
Die(w) ==
  /\ \/ Goto(w, "wait", "end") /\ notifier[UploadOf(w)] \in done
     \/ Goto(w, "again", "end") /\ ImageOf(w) \in stored
  /\ main' = "killed"
  /\ Uses({"config"})
  /\ UNCHANGED <<built, failed, pool, flags, image, owner, notifier, done, staged,
                 stored, connected>>

\* load_image, with resize.
Load(w) ==
  /\ Goto(w, "load", "end")
  /\ staged' = staged \cup {UploadOf(w)}
  /\ Submit(<<UploadOf(w), "save">>)
  /\ Uses({"config", "image", "pool"})
  /\ UNCHANGED <<main, built, failed, shutdown, notified, late, image, owner,
                 notifier, done, stored, connected>>

Save(w) ==
  /\ Goto(w, "save", "finalize")
  /\ Uses({"config", "image"})
  /\ UNCHANGED <<main, built, failed, pool, flags, image, owner, notifier, done,
                 staged, stored, connected>>

\* finalize of the owner: commit, erase, notify.
Finalize(w) ==
  /\ Goto(w, "finalize", "hook")
  /\ stored' = stored \cup {ImageOf(w)}
  /\ staged' = staged \ {UploadOf(w)}
  /\ owner' = [owner EXCEPT ![ImageOf(w)] = None]
  /\ done' = done \cup {UploadOf(w)}
  /\ Uses({"config", "map"})
  /\ UNCHANGED <<main, built, failed, pool, flags, image, notifier, connected>>

\* The ready hook locks its weak_ptr, and answers on the socket of what it got.
Hook(w) ==
  /\ Goto(w, "hook", IF UploadOf(w) \in connected THEN "respond" ELSE "end")
  /\ UNCHANGED <<main, built, failed, pool, flags, image, owner, notifier, done,
                 staged, stored, connected, missed>>

Respond(w) ==
  /\ Goto(w, "respond", "end")
  /\ Uses({"io"})
  /\ UNCHANGED <<main, built, failed, pool, flags, image, owner, notifier, done,
                 staged, stored, connected>>

Finish(w) ==
  /\ Goto(w, "end", "idle")
  /\ Pool!Finish(w)
  /\ UNCHANGED <<main, built, failed, flags, image, owner, notifier, done, staged,
                 stored, connected, missed>>

-----------------------------------------------------------------------------
MainStep ==
  \/ Build \/ BuildFails
  \/ (\E p \in Parts : Destroy(p)) \/ StoreShutdown \/ NotifyAll \/ Join \/ Exit

WorkerStep(w) ==
  \/ Start(w) \/ Check(w) \/ Claim(w) \/ Again(w) \/ Die(w)
  \/ Load(w) \/ Save(w) \/ Finalize(w) \/ Hook(w) \/ Respond(w) \/ Finish(w)

Next ==
  \/ MainStep \/ Stop
  \/ \E u \in Uploads, i \in Images : Upload(u, i)
  \/ \E w \in Workers : WorkerStep(w) \/ SpuriousWakeup(w)

Spec == Init /\ [][Next]_vars

\* Threads run.  Nobody has to upload, no signal has to come, and who sleeps
\* need not wake.
FairSpec == Spec /\ WF_vars(MainStep) /\ \A w \in Workers : WF_vars(WorkerStep(w))

-----------------------------------------------------------------------------
(* Properties.                                                              *)

\* What a task may miss: never the configuration with the storage, and never
\* the pool, which joins its threads, since both are declared before the
\* others.  The map, the libraries and the io context, but only after a start
\* that succeeded, and not the libraries when an exception ended the service.
MissedOnlyAtTheEnd ==
  /\ missed \cap {"config", "pool"} = {}
  /\ missed # {} => main \in {"ending", "exited", "killed"} /\ \E u \in Uploads : image[u] # None
  /\ "image" \in missed => ~failed

\* "This leaves some tasks enqueued, which will never be run": a process that
\* comes to its end leaves no staged folder in temp_dir, of no upload, however
\* far it was.
TempEmptyAtExit == main = "exited" => staged = {}

\* "wait for all currently running tasks to finish": what ends comes to its end
\* or dies, but for two cases.  A duplicate upload waits for one whose tasks
\* were left in the deque; or a worker has slept through notify_all.
Orphaned(w) ==
  /\ pc[w] = "wait" /\ notifier[UploadOf(w)] \notin done /\ shutdown
  /\ \A v \in Workers \ {w} : pc[v] \in {"idle", "wait"}
ExitsUnlessStuck ==
  <>[](main = "ending" => asleep # {} \/ \E w \in Workers : Orphaned(w))
=============================================================================
