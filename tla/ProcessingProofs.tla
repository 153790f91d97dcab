-------------------------- MODULE ProcessingProofs --------------------------
(***************************************************************************)
(* Proofs about Processing: an entry of the map has an owner that will     *)
(* erase it, an image is processed by one upload at a time as long as      *)
(* nothing throws, no upload is forgotten, no file is written twice if no  *)
(* size and no format is configured twice, and the processors implement    *)
(* UploadContract.                                                         *)
(*                                                                         *)
(* The invariant says, for every processor, where it is: a check task that *)
(* is alone, tasks that make the files that are not staged yet, a worker   *)
(* that finalizes, an answer.                                              *)
(***************************************************************************)
EXTENDS Processing, SequenceTheorems, FiniteSetTheorems, TLAPS

-----------------------------------------------------------------------------
(* The invariant.                                                           *)

\* The tasks that wait, wherever they stand in the deque.
Waiting == {queue[k] : k \in DOMAIN queue}

\* Every variable has its type.
TypeOK ==
  /\ queue \in Seq(Tasks)
  /\ job \in [Workers -> Tasks \cup {NoTask}]
  /\ pc \in [Workers -> Labels]
  /\ image \in [Procs -> Images \cup {None}]
  /\ group \in [Procs -> {"Running", "Done_OK", "Done_Error"}]
  /\ notifier \in [Procs -> Procs \cup {None}]
  /\ processing \in [Images -> Procs \cup {None}]
  /\ done \in SUBSET Procs
  /\ staged \in [Procs -> (SUBSET File) \cup {None}]
  /\ stored \in [Images -> (SUBSET File) \cup {None}]
  /\ answer \in [Procs -> {"ok", "error", None}]
  /\ broken \in SUBSET Images
  /\ crashed \in BOOLEAN

\* Where a worker is in the check task, and in the tasks after it.
InCheck == {"check", "claim", "wait", "recheck", "again"}
InOwn == {"load", "decode", "resize", "save"}

\* A task to resize has a size, a task to save also a format.
Shape(t) ==
  /\ t.kind \in {"resize", "save"} => t.size \in Range(Sizes)
  /\ t.kind = "save" => t.format \in Range(Formats)

\* A task is of a processor that was run, and a worker is where its task
\* takes it.
JobInv ==
  /\ \A t \in Waiting : image[t.proc] # None /\ Shape(t)
  /\ \A w \in Workers :
       IF pc[w] = "idle" THEN job[w] = NoTask
       ELSE /\ job[w] \in Tasks
            /\ image[job[w].proc] # None /\ Shape(job[w])
            /\ pc[w] \in InCheck => job[w].kind = "check"
            /\ pc[w] \in {"load", "decode"} => job[w].kind = "load"
            /\ pc[w] = "resize" => job[w].kind = "resize"
            /\ pc[w] = "save" => job[w].kind = "save"

\* Nothing has happened to a processor that was not run.
FreshInv ==
  \A p \in Procs : image[p] = None =>
    notifier[p] = None /\ answer[p] = None /\ staged[p] = None /\ group[p] = "Running"

\* A check task is the only one of its processor that waits.
OneCheck ==
  \A k, l \in DOMAIN queue : k # l /\ queue[k].kind = "check" => queue[l].proc # queue[k].proc

\* It is also the only one in existence: its group is running, nothing is
\* staged, and the notifier is the one that the check has found so far.
CheckInv ==
  /\ \A t \in Waiting : t.kind = "check" =>
       /\ group[t.proc] = "Running" /\ notifier[t.proc] = None /\ staged[t.proc] = None
       /\ \A w \in Workers : job[w].proc # t.proc
  /\ \A w \in Workers : pc[w] \in InCheck =>
       LET p == job[w].proc
       IN /\ group[p] = "Running" /\ staged[p] = None
          /\ \A t \in Waiting : t.proc # p
          /\ \A v \in Workers : v # w => job[v].proc # p
          /\ pc[w] \in {"check", "claim"} => notifier[p] = None
          /\ pc[w] \in {"wait", "recheck"} => notifier[p] \notin {None, p}
          /\ pc[w] = "again" => notifier[p] = p

\* The other tasks are those of a processor that entered itself in the map.
OwnInv ==
  /\ \A t \in Waiting : t.kind # "check" => notifier[t.proc] = t.proc
  /\ \A w \in Workers : pc[w] \in InOwn => notifier[job[w].proc] = job[w].proc

\* A group that ended well has no task left, and none in its body.
OverInv ==
  \A p \in Procs : group[p] = "Done_OK" =>
    /\ \A t \in Waiting : t.proc # p
    /\ \A w \in Workers : job[w].proc = p => pc[w] \notin InBody

\* A running group has a task that waits, or that is in its body: one that
\* will end, throw, or be the last to return.
PendingInv ==
  \A p \in Procs : group[p] = "Running" /\ image[p] # None =>
    \/ \E t \in Waiting : t.proc = p
    \/ \E w \in Workers : job[w].proc = p /\ pc[w] \in InBody

\* A group that failed has an image with which something threw.
BrokenInv == \A p \in Procs : group[p] = "Done_Error" => image[p] \in broken

\* At most one worker finalizes a processor: once its group has been decided,
\* and before it is answered.
FinalInv ==
  \A w \in Workers : pc[w] \in InFinalize =>
    LET p == job[w].proc
    IN /\ group[p] # "Running" /\ answer[p] = None
       /\ \A v \in Workers : v # w /\ job[v].proc = p => pc[v] \notin InFinalize
       /\ pc[w] = "commit" => group[p] = "Done_OK"
       /\ pc[w] # "hook" => notifier[p] # None

\* Only a group that was decided is answered.
AnswerInv ==
  \A p \in Procs : answer[p] # None => group[p] # "Running"

\* A notifier is that of a processor with the same image; who is past waiting
\* for another has seen it done.
NotifierInv ==
  \A p \in Procs : notifier[p] # None =>
    LET q == notifier[p]
    IN /\ notifier[q] = q /\ image[q] = image[p]
       /\ q # p => \A w \in Workers : job[w].proc = p /\ pc[w] # "wait" => q \in done

\* An entry of the map is of a processor that is running, or whose worker is
\* about to erase it.
EntryInv ==
  \A i \in Images : processing[i] # None =>
    LET p == processing[i]
    IN /\ image[p] = i /\ notifier[p] = p /\ p \notin done
       /\ \/ group[p] = "Running"
          \/ \E w \in Workers : job[w].proc = p /\ pc[w] \in {"commit", "erase"}

\* A notifier is triggered by its own processor, after the commit if that
\* went well.
DoneInv ==
  \A q \in done :
    /\ notifier[q] = q /\ group[q] # "Running"
    /\ group[q] = "Done_OK" => stored[image[q]] # None

\* What is triggered, or answered, as a success was committed.
OkInv ==
  \A w \in Workers :
    LET p == job[w].proc
    IN /\ pc[w] \in {"erase", "notify", "hook"} /\ group[p] = "Done_OK" => stored[image[p]] # None
       /\ pc[w] = "return" /\ notifier[p] = None => stored[image[p]] # None
       /\ pc[w] = "erase" /\ group[p] = "Done_OK" => notifier[p] = p

\* A task of this kind is still to come, or being executed.
Ahead(p, kind, s, f) ==
  \/ \E t \in Waiting : t.proc = p /\ t.kind = kind /\ t.size = s /\ t.format = f
  \/ \E w \in Workers : /\ job[w].proc = p /\ pc[w] = kind
                        /\ job[w].size = s /\ job[w].format = f

\* The files of a processor that has not failed are staged, or still to come.
FilesOf(p) ==
  staged[p] # None =>
    /\ notifier[p] = p
    /\ <<None, None>> \in staged[p]
    /\ group[p] # "Done_Error" =>
         \/ \E w \in Workers : job[w].proc = p /\ pc[w] = "decode"
         \/ \A s \in Range(Sizes), f \in Range(Formats) :
              <<s, f>> \in staged[p] \/ Ahead(p, "resize", s, None) \/ Ahead(p, "save", s, f)
FilesInv == \A p \in Procs : FilesOf(p)

\* There is a folder to write to.
StagedInv ==
  /\ \A t \in Waiting : t.kind \in {"resize", "save"} => staged[t.proc] # None
  /\ \A w \in Workers : pc[w] \in {"decode", "resize", "save"} => staged[job[w].proc] # None

\* What is stored is complete.
StoredInv == \A i \in Images : stored[i] # None => stored[i] = File

\* An owner is in the map until it is erased, as long as nothing threw with
\* its image.
OwnerInv ==
  \A p \in Procs :
    /\ notifier[p] = p /\ image[p] \notin broken
    /\ group[p] = "Running" \/ \E w \in Workers : job[w].proc = p /\ pc[w] \in {"commit", "erase"}
    => processing[image[p]] = p

\* The inductive invariant.
IInv ==
  /\ TypeOK /\ JobInv /\ FreshInv /\ OneCheck /\ CheckInv /\ OwnInv /\ OverInv
  /\ PendingInv /\ BrokenInv /\ FinalInv /\ AnswerInv /\ NotifierInv /\ EntryInv
  /\ DoneInv /\ OkInv /\ FilesInv /\ StagedInv /\ StoredInv /\ OwnerInv

-----------------------------------------------------------------------------
(* The deque as a set of tasks.                                             *)

\* Queued speaks of positions.
LEMMA QueuedWaits == \A p \in Procs : Queued(p) <=> \E t \in Waiting : t.proc = p
BY DEF Queued, Waiting

\* They are tasks.
LEMMA WaitingTasks == TypeOK => Waiting \subseteq Tasks
BY ElementOfSeq DEF TypeOK, Waiting

\* A task is taken from the front.
LEMMA HeadTaken ==
  ASSUME TypeOK, OneCheck, queue # <<>>, queue' = Tail(queue)
  PROVE  /\ Head(queue) \in Tasks /\ queue' \in Seq(Tasks)
         /\ Head(queue) \in Waiting /\ Waiting' \subseteq Waiting
         /\ Waiting \subseteq Waiting' \cup {Head(queue)}
         /\ \A t \in Waiting' : "check" \in {Head(queue).kind, t.kind} => t.proc # Head(queue).proc
         /\ OneCheck'
<1>1. queue \in Seq(Tasks)
  BY DEF TypeOK
<1>2. /\ Len(queue) \in Nat \ {0} /\ DOMAIN queue = 1..Len(queue)
      /\ Head(queue) = queue[1] /\ Head(queue) \in Tasks
      /\ queue' \in Seq(Tasks)
      /\ DOMAIN queue' = 1..Len(queue) - 1
      /\ \A k \in 1..Len(queue) - 1 : queue'[k] = queue[k + 1]
  BY <1>1, HeadTailProperties, EmptySeq, LenProperties
<1>3. Head(queue) \in Waiting /\ Waiting' \subseteq Waiting
  BY <1>2 DEF Waiting
<1>4. Waiting \subseteq Waiting' \cup {Head(queue)}
  <2> SUFFICES ASSUME NEW k \in 1..Len(queue), k # 1 PROVE queue[k] \in Waiting'
    BY <1>2 DEF Waiting
  <2>1. k - 1 \in 1..Len(queue) - 1 /\ queue'[k - 1] = queue[k]
    BY <1>2
  <2> QED
    BY <1>2, <2>1 DEF Waiting
<1>5. \A t \in Waiting' : "check" \in {Head(queue).kind, t.kind} => t.proc # Head(queue).proc
  BY <1>2 DEF Waiting, OneCheck
<1>6. OneCheck'
  BY <1>2 DEF OneCheck
<1> QED
  BY <1>2, <1>3, <1>4, <1>5, <1>6

\* Tasks of one processor are added at the back: they are no check tasks, or
\* there is one of them and nothing else of that processor waits.
LEMMA TasksAdded ==
  ASSUME TypeOK, OneCheck, NEW p \in Procs, NEW s \in Seq(Tasks), queue' = queue \o s,
         \A k \in DOMAIN s : s[k].proc = p,
         \A t \in Waiting : t.proc = p => t.kind # "check",
         \/ \A k \in DOMAIN s : s[k].kind # "check"
         \/ Len(s) = 1 /\ \A t \in Waiting : t.proc # p
  PROVE  /\ queue' \in Seq(Tasks)
         /\ Waiting' = Waiting \cup {s[k] : k \in DOMAIN s}
         /\ OneCheck'
<1>1. queue \in Seq(Tasks)
  BY DEF TypeOK
<1> DEFINE n == Len(queue)
<1>2. /\ n \in Nat /\ Len(s) \in Nat
      /\ DOMAIN queue = 1..n /\ DOMAIN s = 1..Len(s)
      /\ queue' \in Seq(Tasks) /\ DOMAIN queue' = 1..n + Len(s)
      /\ \A k \in 1..n : queue'[k] = queue[k]
      /\ \A k \in 1..Len(s) : queue'[n + k] = s[k]
  BY <1>1, ConcatProperties, LenProperties
<1>3. \A k \in n + 1..n + Len(s) : k - n \in 1..Len(s) /\ queue'[k] = s[k - n]
  <2> SUFFICES ASSUME NEW k \in n + 1..n + Len(s) PROVE k - n \in 1..Len(s) /\ queue'[k] = s[k - n]
    OBVIOUS
  <2>1. k - n \in 1..Len(s) /\ n + (k - n) = k
    BY <1>2
  <2> QED
    BY <1>2, <2>1
<1>4. \A k \in 1..n + Len(s) : k \in 1..n \/ k \in n + 1..n + Len(s)
  BY <1>2
<1>5. Waiting' = Waiting \cup {s[k] : k \in DOMAIN s}
  <2>1. Waiting' \subseteq Waiting \cup {s[k] : k \in DOMAIN s}
    BY <1>2, <1>3, <1>4 DEF Waiting
  <2>2. Waiting \subseteq Waiting'
    <3> SUFFICES ASSUME NEW k \in 1..n PROVE queue[k] \in Waiting'
      BY <1>2 DEF Waiting
    <3>1. k \in 1..n + Len(s) /\ queue'[k] = queue[k]
      BY <1>2
    <3> QED
      BY <1>2, <3>1 DEF Waiting
  <2>3. {s[k] : k \in DOMAIN s} \subseteq Waiting'
    <3> SUFFICES ASSUME NEW k \in 1..Len(s) PROVE s[k] \in Waiting'
      BY <1>2
    <3>1. n + k \in 1..n + Len(s) /\ queue'[n + k] = s[k]
      BY <1>2
    <3> QED
      BY <1>2, <3>1 DEF Waiting
  <2> QED
    BY <2>1, <2>2, <2>3
<1>6. OneCheck'
  <2> SUFFICES ASSUME NEW k \in 1..n + Len(s), NEW l \in 1..n + Len(s), k # l,
                      queue'[k].kind = "check"
               PROVE  queue'[l].proc # queue'[k].proc
    BY <1>2 DEF OneCheck
  <2>1. CASE k \in 1..n /\ l \in 1..n
    <3>1. queue'[k] = queue[k] /\ queue'[l] = queue[l]
      BY <2>1, <1>2
    <3>2. k \in DOMAIN queue /\ l \in DOMAIN queue
      BY <2>1, <1>2
    <3> QED
      BY <3>1, <3>2, <1>2 DEF OneCheck
  <2>2. CASE k \in 1..n /\ l \in n + 1..n + Len(s)
    <3>1. queue[k] \in Waiting
      BY <2>2, <1>2 DEF Waiting
    <3>2. queue'[k] = queue[k]
      BY <2>2, <1>2
    <3>3. queue'[l].proc = p
      BY <2>2, <1>2, <1>3
    <3> QED
      BY <3>1, <3>2, <3>3
  <2>3. CASE k \in n + 1..n + Len(s) /\ l \in 1..n
    <3>1. queue[l] \in Waiting /\ queue'[l] = queue[l] /\ queue'[k].proc = p
      BY <2>3, <1>2, <1>3 DEF Waiting
    <3>2. \A t \in Waiting : t.proc # p
      BY <2>3, <1>2, <1>3
    <3> QED
      BY <3>1, <3>2
  <2>4. CASE k \in n + 1..n + Len(s) /\ l \in n + 1..n + Len(s)
    <3>1. k - n \in 1..Len(s) /\ l - n \in 1..Len(s) /\ queue'[k] = s[k - n]
      BY <2>4, <1>3
    <3>2. k - n # l - n
      BY <1>2
    <3>3. ASSUME Len(s) = 1 PROVE k - n = 1 /\ l - n = 1
      BY <3>1, <3>3
    <3> QED
      BY <3>1, <3>2, <3>3, <1>2
  <2> QED
    BY <1>4, <2>1, <2>2, <2>3, <2>4
<1> QED
  BY <1>2, <1>5, <1>6

\* A single task is added.
LEMMA TaskAdded ==
  ASSUME TypeOK, OneCheck, NEW t \in Tasks, queue' = Append(queue, t),
         \A u \in Waiting : u.proc # t.proc
  PROVE  /\ queue' \in Seq(Tasks)
         /\ Waiting' = Waiting \cup {t}
         /\ OneCheck'
<1> DEFINE s == <<t>>
<1>1. s \in Seq(Tasks) /\ Len(s) = 1 /\ DOMAIN s = {1} /\ s[1] = t /\ t.proc \in Procs
  BY DEF Tasks
<1>2. queue' = queue \o s
  BY AppendIsConcat DEF TypeOK
<1>3. {s[k] : k \in DOMAIN s} = {t}
  BY <1>1
<1> HIDE DEF s
<1> QED
  BY <1>1, <1>2, <1>3, TasksAdded

-----------------------------------------------------------------------------
(* Workers.                                                                 *)

\* A worker that is not idle has a task of a processor that was run.
LEMMA WorkerFacts ==
  ASSUME IInv, NEW w \in Workers, pc[w] # "idle"
  PROVE  /\ job[w] \in Tasks /\ job[w].proc \in Procs /\ image[job[w].proc] \in Images
         /\ job[w].kind \in {"check", "load", "resize", "save"}
BY DEF IInv, JobInv, TypeOK, Tasks

\* And only such a one.
LEMMA IdleFacts ==
  ASSUME IInv, NEW w \in Workers, NEW p \in Procs, job[w].proc = p
  PROVE  pc[w] # "idle"
BY ProcessingAssumption DEF IInv, JobInv, TypeOK, NoTask, Task

\* What is staged and what is to come make up all files of a processor, after
\* a step that makes none of them, or after which it has failed.
LEMMA FilesKept ==
  ASSUME NEW q \in Procs, FilesOf(q),
         \A v \in Workers : job[v].proc = q /\ pc[v] \in {"decode", "resize", "save"} =>
           (pc'[v] = pc[v] /\ job'[v] = job[v]) \/ group'[q] = "Done_Error",
         \A t \in Waiting : t.proc = q => t \in Waiting',
         staged'[q] \in {staged[q], None},
         notifier[q] = q => notifier'[q] = q,
         group[q] = "Done_Error" => group'[q] = "Done_Error"
  PROVE  FilesOf(q)'
<1> SUFFICES ASSUME staged'[q] # None, group'[q] # "Done_Error"
             PROVE  \/ \E v \in Workers : job'[v].proc = q /\ pc'[v] = "decode"
                    \/ \A s \in Range(Sizes), f \in Range(Formats) :
                         <<s, f>> \in staged'[q] \/ Ahead(q, "resize", s, None)'
                         \/ Ahead(q, "save", s, f)'
  BY DEF FilesOf
<1>1. \A kind \in {"resize", "save"} : \A s, f : Ahead(q, kind, s, f) => Ahead(q, kind, s, f)'
  BY DEF Ahead
<1> QED
  BY <1>1 DEF FilesOf

\* A processor whose group is running has a task to come or in execution, after
\* a step of a worker that stays in its task, or decides the group.
LEMMA PendingKept ==
  ASSUME TypeOK, PendingInv, NEW w \in Workers,
         \A v \in Workers \ {w} : pc'[v] = pc[v] /\ job'[v] = job[v],
         \/ pc[w] \notin InBody
         \/ pc'[w] \in InBody /\ job'[w] = job[w]
         \/ group'[job[w].proc] # "Running",
         Waiting \subseteq Waiting', image' = image,
         \A q \in Procs : group'[q] = "Running" => group[q] = "Running"
  PROVE  PendingInv'
<1> SUFFICES ASSUME NEW p \in Procs, group'[p] = "Running", image[p] # None
             PROVE  \/ \E t \in Waiting' : t.proc = p
                    \/ \E v \in Workers : job'[v].proc = p /\ pc'[v] \in InBody
  BY DEF PendingInv
<1>1. CASE \E t \in Waiting : t.proc = p
  BY <1>1
<1>2. CASE \E v \in Workers : job[v].proc = p /\ pc[v] \in InBody
  BY <1>2
<1> QED
  BY <1>1, <1>2 DEF PendingInv

-----------------------------------------------------------------------------
(* Every action keeps the invariant.                                        *)

\* An upload of an image submits its check task.
LEMMA RunStep ==
  ASSUME IInv, NEW p \in Procs, NEW i \in Images, Run(p, i)
  PROVE  IInv'
<1> DEFINE t == Task(p, "check", None, None)
<1>1. \A u \in Waiting : u.proc # p
  BY DEF Run, IInv, JobInv
<1>2. t \in Tasks /\ t.proc = p /\ t.kind = "check" /\ Shape(t)
  BY DEF Task, Tasks, Shape
<1>3. queue' \in Seq(Tasks) /\ Waiting' = Waiting \cup {t} /\ OneCheck'
  <2> HIDE DEF t
  <2> QED
    BY <1>1, <1>2, TaskAdded DEF Run, IInv, t
<1>4. \A w \in Workers : job[w].proc # p
  BY ProcessingAssumption DEF Run, IInv, JobInv, TypeOK, NoTask, Task
<1> HIDE DEF t
<1>5. group[p] = "Running" /\ notifier[p] = None /\ staged[p] = None /\ image[p] = None
  BY DEF Run, IInv, FreshInv
<1>6. TypeOK'
  BY <1>3 DEF TypeOK, IInv, Run
<1>7. JobInv'
  BY <1>2, <1>3, ProcessingAssumption DEF JobInv, TypeOK, IInv, Run
<1>8. FreshInv'
  BY DEF FreshInv, IInv, Run
<1>9. OneCheck'
  BY <1>3 DEF OneCheck
<1>10. CheckInv'
  BY <1>2, <1>3, <1>4, <1>5 DEF CheckInv, IInv, Run
<1>11. OwnInv'
  BY <1>2, <1>3 DEF OwnInv, IInv, Run
<1>12. OverInv'
  BY <1>2, <1>3, <1>5 DEF OverInv, IInv, Run
<1>13. PendingInv'
  BY <1>2, <1>3 DEF PendingInv, IInv, Run
<1>14. BrokenInv'
  BY <1>5 DEF BrokenInv, IInv, Run
<1>15. FinalInv'
  BY DEF FinalInv, IInv, Run
<1>16. AnswerInv'
  BY DEF AnswerInv, IInv, Run
<1>17. NotifierInv'
  BY <1>5 DEF NotifierInv, IInv, Run
<1>18. EntryInv'
  BY ProcessingAssumption DEF EntryInv, IInv, Run
<1>19. DoneInv'
  BY <1>5 DEF DoneInv, IInv, Run
<1>20. OkInv'
  BY <1>4 DEF OkInv, IInv, Run
<1>21. FilesInv'
  <2>1. ASSUME NEW q \in Procs PROVE FilesOf(q)'
    BY <1>3, FilesKept DEF Run, IInv, FilesInv
  <2> QED
    BY <2>1 DEF FilesInv
<1>22. StagedInv'
  BY <1>2, <1>3 DEF StagedInv, IInv, Run
<1>23. StoredInv'
  BY DEF StoredInv, IInv, Run
<1>24. OwnerInv'
  BY <1>5, ProcessingAssumption DEF OwnerInv, IInv, Run
<1> QED
  BY <1>6, <1>7, <1>8, <1>9, <1>10, <1>11, <1>12, <1>13, <1>14, <1>15, <1>16, <1>17, <1>18,
     <1>19, <1>20, <1>21, <1>22, <1>23, <1>24
    DEF IInv

\* A worker takes the first task, unless its group has failed.
LEMMA StartStep ==
  ASSUME IInv, NEW w \in Workers, Start(w)
  PROVE  IInv'
<1> DEFINE t == Head(queue)
<1>1. /\ t \in Tasks /\ queue' \in Seq(Tasks) /\ OneCheck'
      /\ t \in Waiting /\ Waiting' \subseteq Waiting
      /\ Waiting \subseteq Waiting' \cup {t}
      /\ \A u \in Waiting' : "check" \in {t.kind, u.kind} => u.proc # t.proc
  BY HeadTaken DEF Start, IInv
<1>2. /\ t.proc \in Procs /\ t.kind \in {"check", "load", "resize", "save"}
      /\ image[t.proc] \in Images /\ Shape(t)
  BY <1>1 DEF Tasks, IInv, JobInv, TypeOK
<1>3. /\ pc[w] = "idle" /\ job[w] = NoTask /\ job[w].proc = None
      /\ job' = [job EXCEPT ![w] = t]
      /\ pc' = [pc EXCEPT ![w] = IF group[t.proc] = "Running" THEN t.kind ELSE "end"]
  BY DEF Start, Goto, IInv, JobInv, NoTask, Task
<1>4. UNCHANGED <<image, group, notifier, processing, done, staged, stored,
                  answer, broken, crashed>>
  BY DEF Start
<1> HIDE DEF t
<1>5. TypeOK'
  BY <1>1, <1>2, <1>3, <1>4 DEF TypeOK, Labels, InBody, IInv
<1>6. JobInv'
  BY <1>1, <1>2, <1>3, <1>4 DEF JobInv, InCheck, TypeOK, IInv
<1>7. FreshInv'
  BY <1>4 DEF FreshInv, IInv
<1>8. OneCheck'
  BY <1>1 DEF OneCheck
<1>9. CheckInv'
  BY <1>1, <1>2, <1>3, <1>4 DEF CheckInv, InCheck, TypeOK, IInv
<1>10. OwnInv'
  BY <1>1, <1>3, <1>4 DEF OwnInv, InOwn, TypeOK, IInv
<1>11. OverInv'
  BY <1>1, <1>3, <1>4, ProcessingAssumption DEF OverInv, IInv
<1>12. PendingInv'
  <2> SUFFICES ASSUME NEW p \in Procs, group[p] = "Running", image[p] # None
               PROVE  \/ \E u \in Waiting' : u.proc = p
                      \/ \E v \in Workers : job'[v].proc = p /\ pc'[v] \in InBody
    BY <1>4 DEF PendingInv
  <2>1. CASE t.proc = p
    BY <1>2, <1>3, <2>1 DEF IInv, TypeOK, InBody
  <2>2. CASE \E u \in Waiting : u.proc = p /\ u # t
    BY <1>1, <2>2
  <2>3. CASE \E v \in Workers : job[v].proc = p /\ pc[v] \in InBody
    BY <1>3, <2>3 DEF InBody
  <2> QED
    BY <2>1, <2>2, <2>3 DEF IInv, PendingInv
<1>13. BrokenInv'
  BY <1>4 DEF BrokenInv, IInv
<1>14. FinalInv'
  BY <1>2, <1>3, <1>4 DEF FinalInv, InFinalize, IInv
<1>15. AnswerInv'
  BY <1>4 DEF AnswerInv, IInv
<1>16. NotifierInv'
  BY <1>1, <1>3, <1>4 DEF NotifierInv, CheckInv, OwnInv, IInv
<1>17. EntryInv'
  BY <1>3, <1>4 DEF EntryInv, IInv
<1>18. DoneInv'
  BY <1>4 DEF DoneInv, IInv
<1>19. OkInv'
  BY <1>2, <1>3, <1>4 DEF OkInv, IInv
<1>20. FilesInv'
  <2>1. ASSUME NEW q \in Procs, q # t.proc PROVE FilesOf(q)'
    BY <1>1, <1>3, <1>4, <2>1, FilesKept DEF IInv, FilesInv, TypeOK
  <2>2. ASSUME NEW q \in Procs, q = t.proc PROVE FilesOf(q)'
    <3>1. CASE group[t.proc] = "Running"
      <4>1. pc'[w] = t.kind /\ job'[w] = t
        BY <2>2, <1>3, <3>1 DEF IInv, TypeOK
      <4>2. \A v \in Workers : job[v].proc = t.proc => pc'[v] = pc[v] /\ job'[v] = job[v]
        BY <2>2, <1>2, <1>3, ProcessingAssumption DEF IInv, TypeOK
      <4>3. \A kind \in {"resize", "save"} : \A s, f :
              Ahead(q, kind, s, f) => Ahead(q, kind, s, f)'
        BY <2>2, <1>1, <4>1, <4>2 DEF Ahead
      <4> QED
        BY <2>2, <1>2, <1>4, <4>2, <4>3 DEF IInv, FilesInv, FilesOf
    <3>2. CASE group[t.proc] # "Running"
      <4>1. group[t.proc] = "Done_Error"
        BY <2>2, <1>1, <1>2, <3>2 DEF IInv, TypeOK, OverInv
      <4> QED
        BY <2>2, <1>2, <1>4, <4>1 DEF IInv, FilesInv, FilesOf
    <3> QED
      BY <3>1, <3>2
  <2> QED
    BY <2>1, <2>2 DEF FilesInv
<1>21. StagedInv'
  BY <1>1, <1>2, <1>3, <1>4 DEF StagedInv, TypeOK, IInv
<1>22. StoredInv'
  BY <1>4 DEF StoredInv, IInv
<1>23. OwnerInv'
  BY <1>3, <1>4, ProcessingAssumption DEF OwnerInv, IInv
<1> QED
  BY <1>5, <1>6, <1>7, <1>8, <1>9, <1>10, <1>11, <1>12, <1>13, <1>14, <1>15, <1>16, <1>17,
     <1>18, <1>19, <1>20, <1>21, <1>22, <1>23
    DEF IInv

\* The check finds the image stored, or goes on to the map.
LEMMA CheckStep ==
  ASSUME IInv, NEW w \in Workers, Check(w)
  PROVE  IInv'
<1> DEFINE p == job[w].proc
<1>1. /\ pc[w] # "idle" /\ p \in Procs /\ image[p] \in Images /\ job[w].kind # "none"
      /\ Waiting' = Waiting
  BY WorkerFacts DEF Check, Goto, Waiting
<1>2. \A v \in Workers : \A q \in Procs : job[v].proc = q => pc[v] # "idle"
  BY IdleFacts
<1>3. TypeOK'
  BY DEF TypeOK, Labels, InBody, IInv, Check, Goto
<1>4. JobInv'
  BY <1>1 DEF JobInv, InCheck, IInv, Check, Goto
<1>5. FreshInv'
  BY DEF FreshInv, IInv, Check
<1>6. OneCheck'
  BY DEF OneCheck, IInv, Check
<1>7. CheckInv'
  BY <1>1 DEF CheckInv, InCheck, IInv, Check, Goto
<1>8. OwnInv'
  BY <1>1 DEF OwnInv, InOwn, IInv, Check, Goto
<1>9. OverInv'
  BY <1>1 DEF OverInv, InCheck, CheckInv, IInv, Check, Goto
<1>10. PendingInv'
  BY <1>1, PendingKept DEF IInv, InBody, Check, Goto
<1>11. BrokenInv'
  BY DEF BrokenInv, IInv, Check
<1>12. FinalInv'
  BY DEF FinalInv, InFinalize, IInv, Check, Goto
<1>13. AnswerInv'
  BY DEF AnswerInv, IInv, Check
<1>14. NotifierInv'
  BY DEF NotifierInv, IInv, Check, Goto
<1>15. EntryInv'
  BY DEF EntryInv, IInv, Check, Goto
<1>16. DoneInv'
  BY DEF DoneInv, IInv, Check
<1>17. OkInv'
  BY DEF OkInv, IInv, Check, Goto, Proc, ImageOf
<1>18. FilesInv'
  BY <1>1, <1>2, FilesKept, ProcessingAssumption
    DEF IInv, TypeOK, FilesInv, Check, Goto, Proc, ImageOf
<1>19. StagedInv'
  BY <1>1 DEF StagedInv, IInv, Check, Goto
<1>20. StoredInv'
  BY DEF StoredInv, IInv, Check
<1>21. OwnerInv'
  BY DEF OwnerInv, IInv, Check, Goto
<1> QED
  BY <1>3, <1>4, <1>5, <1>6, <1>7, <1>8, <1>9, <1>10, <1>11, <1>12, <1>13, <1>14, <1>15, <1>16,
     <1>17, <1>18, <1>19, <1>20, <1>21
    DEF IInv

\* The map has an entry, or gets that of the processor.
LEMMA ClaimStep ==
  ASSUME IInv, NEW w \in Workers, Claim(w)
  PROVE  IInv'
<1> DEFINE p == job[w].proc
<1>1. /\ pc[w] # "idle" /\ p \in Procs /\ image[p] \in Images /\ job[w].kind # "none"
      /\ Waiting' = Waiting
  BY WorkerFacts DEF Claim, Goto, Waiting
<1>2. notifier[p] = None /\ \A q \in Procs \ {p} : notifier'[q] = notifier[q]
  BY <1>1 DEF Claim, Goto, Proc, IInv, TypeOK, CheckInv, InCheck
<1>3. \A v \in Workers : \A q \in Procs : job[v].proc = q => pc[v] # "idle"
  BY IdleFacts
<1>4. TypeOK'
  BY <1>1 DEF TypeOK, Labels, InBody, IInv, Claim, Goto, Proc, ImageOf
<1>5. JobInv'
  BY <1>1 DEF JobInv, InCheck, IInv, Claim, Goto
<1>6. FreshInv'
  BY <1>1, <1>2, ProcessingAssumption DEF FreshInv, IInv, Claim
<1>7. OneCheck'
  BY DEF OneCheck, IInv, Claim
<1>8. CheckInv'
  BY <1>1 DEF CheckInv, InCheck, TypeOK, IInv, Claim, Goto, Proc, ImageOf, EntryInv
<1>9. OwnInv'
  BY <1>1, <1>2, ProcessingAssumption DEF OwnInv, InOwn, IInv, Claim, Goto, Proc
<1>10. OverInv'
  BY <1>1 DEF OverInv, InCheck, CheckInv, IInv, Claim, Goto
<1>11. PendingInv'
  BY <1>1, PendingKept DEF IInv, InBody, Claim, Goto
<1>12. BrokenInv'
  BY DEF BrokenInv, IInv, Claim
<1>13. FinalInv'
  BY <1>2 DEF FinalInv, InFinalize, IInv, Claim, Goto, Proc
<1>14. AnswerInv'
  BY DEF AnswerInv, IInv, Claim
<1>15. NotifierInv'
  BY <1>1, <1>2
    DEF NotifierInv, TypeOK, CheckInv, InCheck, InOwn, EntryInv, FreshInv, IInv, Claim, Goto,
        ImageOf
<1>16. EntryInv'
  <2>1. /\ group[p] = "Running" /\ p \notin done /\ ImageOf(w) = image[p]
        /\ UNCHANGED <<job, image, group, done>>
    <3>1. ImageOf(w) = image[p] /\ UNCHANGED <<job, image, group, done>>
      BY DEF Claim, ImageOf, Proc
    <3>2. group[p] = "Running"
      BY <1>1 DEF IInv, CheckInv, InCheck, Claim, Goto
    <3>3. p \notin done
      BY <3>2 DEF IInv, DoneInv
    <3> QED
      BY <3>1, <3>2, <3>3
  <2>2. \A v \in Workers : pc[v] \in {"commit", "erase"} => pc'[v] = pc[v]
    BY DEF IInv, TypeOK, Claim, Goto
  <2>3. /\ processing[image[p]] = None =>
             /\ processing' = [processing EXCEPT ![image[p]] = p]
             /\ notifier'[p] = p
        /\ processing[image[p]] # None => processing' = processing
    BY <1>1, <2>1 DEF IInv, TypeOK, Claim, Proc
  <2> SUFFICES ASSUME NEW i \in Images, processing'[i] # None
               PROVE  LET q == processing'[i]
                      IN /\ image[q] = i /\ notifier'[q] = q /\ q \notin done
                         /\ \/ group[q] = "Running"
                            \/ \E v \in Workers : /\ job[v].proc = q
                                                  /\ pc'[v] \in {"commit", "erase"}
    BY <2>1 DEF EntryInv
  <2>4. CASE processing[i] = None
    BY <1>1, <2>1, <2>3, <2>4, ProcessingAssumption DEF IInv, TypeOK
  <2>5. CASE processing[i] # None
    <3>1. processing'[i] = processing[i] /\ processing[i] \in Procs
      BY <2>3, <2>5 DEF IInv, TypeOK
    <3>2. /\ image[processing[i]] = i /\ notifier[processing[i]] = processing[i]
          /\ processing[i] \notin done
          /\ \/ group[processing[i]] = "Running"
             \/ \E v \in Workers : /\ job[v].proc = processing[i]
                                   /\ pc[v] \in {"commit", "erase"}
      BY <2>5 DEF IInv, EntryInv
    <3>3. processing[i] # p /\ notifier'[processing[i]] = processing[i]
      BY <1>2, <3>1, <3>2, ProcessingAssumption
    <3> QED
      BY <2>2, <3>1, <3>2, <3>3
  <2> QED
    BY <2>4, <2>5
<1>17. DoneInv'
  BY <1>1, <1>2, ProcessingAssumption DEF DoneInv, IInv, Claim, Proc
<1>18. OkInv'
  BY <1>1, <1>2, ProcessingAssumption DEF OkInv, IInv, Claim, Goto, Proc
<1>19. FilesInv'
  BY <1>1, <1>2, <1>3, FilesKept, ProcessingAssumption
    DEF IInv, TypeOK, FilesInv, Claim, Goto, Proc, ImageOf
<1>20. StagedInv'
  BY <1>1 DEF StagedInv, IInv, Claim, Goto
<1>21. StoredInv'
  BY DEF StoredInv, IInv, Claim
<1>22. OwnerInv'
  BY ProcessingAssumption DEF OwnerInv, IInv, Claim, Goto, ImageOf
<1> QED
  BY <1>4, <1>5, <1>6, <1>7, <1>8, <1>9, <1>10, <1>11, <1>12, <1>13, <1>14, <1>15, <1>16,
     <1>17, <1>18, <1>19, <1>20, <1>21, <1>22
    DEF IInv

\* A waiting task goes on when the notifier was triggered.
LEMMA WaitStep ==
  ASSUME IInv, NEW w \in Workers, Wait(w)
  PROVE  IInv'
<1> DEFINE p == job[w].proc
<1>1. /\ pc[w] # "idle" /\ p \in Procs /\ image[p] \in Images /\ job[w].kind # "none"
      /\ Waiting' = Waiting
  BY WorkerFacts DEF Wait, Goto, Waiting
<1>2. \A v \in Workers : \A q \in Procs : job[v].proc = q => pc[v] # "idle"
  BY IdleFacts
<1>3. TypeOK'
  BY DEF TypeOK, Labels, InBody, IInv, Wait, Goto
<1>4. JobInv'
  BY <1>1 DEF JobInv, InCheck, IInv, Wait, Goto
<1>5. FreshInv'
  BY DEF FreshInv, IInv, Wait
<1>6. OneCheck'
  BY DEF OneCheck, IInv, Wait
<1>7. CheckInv'
  BY <1>1 DEF CheckInv, InCheck, IInv, Wait, Goto
<1>8. OwnInv'
  BY <1>1 DEF OwnInv, InOwn, IInv, Wait, Goto
<1>9. OverInv'
  BY <1>1 DEF OverInv, InCheck, CheckInv, IInv, Wait, Goto
<1>10. PendingInv'
  BY <1>1, PendingKept DEF IInv, InBody, Wait, Goto
<1>11. BrokenInv'
  BY DEF BrokenInv, IInv, Wait
<1>12. FinalInv'
  BY DEF FinalInv, InFinalize, IInv, Wait, Goto
<1>13. AnswerInv'
  BY DEF AnswerInv, IInv, Wait
<1>14. NotifierInv'
  BY DEF NotifierInv, IInv, Wait, Goto, Proc
<1>15. EntryInv'
  BY DEF EntryInv, IInv, Wait, Goto
<1>16. DoneInv'
  BY DEF DoneInv, IInv, Wait
<1>17. OkInv'
  BY DEF OkInv, IInv, Wait, Goto
<1>18. FilesInv'
  BY <1>1, <1>2, FilesKept, ProcessingAssumption
    DEF IInv, TypeOK, FilesInv, Wait, Goto, Proc, ImageOf
<1>19. StagedInv'
  BY <1>1 DEF StagedInv, IInv, Wait, Goto
<1>20. StoredInv'
  BY DEF StoredInv, IInv, Wait
<1>21. OwnerInv'
  BY DEF OwnerInv, IInv, Wait, Goto
<1> QED
  BY <1>3, <1>4, <1>5, <1>6, <1>7, <1>8, <1>9, <1>10, <1>11, <1>12, <1>13, <1>14, <1>15, <1>16,
     <1>17, <1>18, <1>19, <1>20, <1>21
    DEF IInv

\* After the wait the image is there.
LEMMA RecheckFindsStep ==
  ASSUME IInv, NEW w \in Workers, RecheckFinds(w)
  PROVE  IInv'
<1> DEFINE p == job[w].proc
<1>1. /\ pc[w] # "idle" /\ p \in Procs /\ image[p] \in Images /\ job[w].kind # "none"
      /\ Waiting' = Waiting
  BY WorkerFacts DEF RecheckFinds, Goto, Waiting
<1>2. \A v \in Workers : \A q \in Procs : job[v].proc = q => pc[v] # "idle"
  BY IdleFacts
<1>3. TypeOK'
  BY DEF TypeOK, Labels, InBody, IInv, RecheckFinds, Goto
<1>4. JobInv'
  BY <1>1 DEF JobInv, InCheck, IInv, RecheckFinds, Goto
<1>5. FreshInv'
  BY DEF FreshInv, IInv, RecheckFinds
<1>6. OneCheck'
  BY DEF OneCheck, IInv, RecheckFinds
<1>7. CheckInv'
  BY <1>1 DEF CheckInv, InCheck, IInv, RecheckFinds, Goto
<1>8. OwnInv'
  BY <1>1 DEF OwnInv, InOwn, IInv, RecheckFinds, Goto
<1>9. OverInv'
  BY <1>1 DEF OverInv, InCheck, CheckInv, IInv, RecheckFinds, Goto
<1>10. PendingInv'
  BY <1>1, PendingKept DEF IInv, InBody, RecheckFinds, Goto
<1>11. BrokenInv'
  BY DEF BrokenInv, IInv, RecheckFinds
<1>12. FinalInv'
  BY DEF FinalInv, InFinalize, IInv, RecheckFinds, Goto
<1>13. AnswerInv'
  BY DEF AnswerInv, IInv, RecheckFinds
<1>14. NotifierInv'
  BY DEF NotifierInv, IInv, RecheckFinds, Goto
<1>15. EntryInv'
  BY DEF EntryInv, IInv, RecheckFinds, Goto
<1>16. DoneInv'
  BY DEF DoneInv, IInv, RecheckFinds
<1>17. OkInv'
  BY DEF OkInv, IInv, RecheckFinds, Goto, Proc, ImageOf
<1>18. FilesInv'
  BY <1>1, <1>2, FilesKept, ProcessingAssumption
    DEF IInv, TypeOK, FilesInv, RecheckFinds, Goto, Proc, ImageOf
<1>19. StagedInv'
  BY <1>1 DEF StagedInv, IInv, RecheckFinds, Goto
<1>20. StoredInv'
  BY DEF StoredInv, IInv, RecheckFinds
<1>21. OwnerInv'
  BY DEF OwnerInv, IInv, RecheckFinds, Goto
<1> QED
  BY <1>3, <1>4, <1>5, <1>6, <1>7, <1>8, <1>9, <1>10, <1>11, <1>12, <1>13, <1>14, <1>15, <1>16,
     <1>17, <1>18, <1>19, <1>20, <1>21
    DEF IInv

\* The owner looks again, and goes on to load the image.
LEMMA AgainStep ==
  ASSUME IInv, NEW w \in Workers, Again(w)
  PROVE  IInv'
<1> DEFINE p == job[w].proc
<1>1. pc[w] # "idle" /\ job[w] \in Tasks /\ p \in Procs /\ image[p] \in Images
  BY WorkerFacts DEF Again, Goto
<1> DEFINE t == Task(p, "load", None, None)
<1>2. t \in Tasks /\ t.proc = p /\ t.kind = "load" /\ Shape(t)
  BY <1>1 DEF Task, Tasks, Shape
<1>3. \A u \in Waiting : u.proc # p
  BY DEF Again, Goto, IInv, CheckInv, InCheck
<1>4. /\ queue' \in Seq(Tasks) /\ OneCheck'
      /\ Waiting' = IF stored[image[p]] # None THEN Waiting ELSE Waiting \cup {t}
  <2>1. CASE stored[image[p]] # None
    <3>1. queue' = queue
      BY <2>1 DEF Again, Proc, ImageOf
    <3> QED
      BY <2>1, <3>1 DEF IInv, TypeOK, Waiting, OneCheck
  <2>2. CASE stored[image[p]] = None
    <3>1. queue' = Append(queue, t)
      BY <2>2 DEF Again, Proc, ImageOf
    <3> HIDE DEF t
    <3> QED
      BY <1>2, <1>3, <2>2, <3>1, TaskAdded DEF IInv
  <2> QED
    BY <2>1, <2>2
<1> HIDE DEF t
<1>5. \A v \in Workers : \A q \in Procs : job[v].proc = q => pc[v] # "idle"
  BY IdleFacts
<1>6. TypeOK'
  BY <1>4 DEF TypeOK, Labels, InBody, IInv, Again, Goto
<1>7. JobInv'
  BY <1>2, <1>4 DEF JobInv, InCheck, IInv, Again, Goto
<1>8. FreshInv'
  BY DEF FreshInv, IInv, Again
<1>9. OneCheck'
  BY <1>4 DEF OneCheck
<1>10. CheckInv'
  BY <1>2, <1>4 DEF CheckInv, InCheck, TypeOK, IInv, Again, Goto
<1>11. OwnInv'
  BY <1>2, <1>4 DEF OwnInv, CheckInv, InCheck, IInv, Again, Goto
<1>12. OverInv'
  BY <1>2, <1>4 DEF OverInv, InCheck, CheckInv, IInv, Again, Goto
<1>13. PendingInv'
  BY <1>4, PendingKept DEF IInv, InBody, Again, Goto
<1>14. BrokenInv'
  BY DEF BrokenInv, IInv, Again
<1>15. FinalInv'
  BY DEF FinalInv, InFinalize, IInv, Again, Goto
<1>16. AnswerInv'
  BY DEF AnswerInv, IInv, Again
<1>17. NotifierInv'
  BY DEF NotifierInv, IInv, Again, Goto
<1>18. EntryInv'
  BY DEF EntryInv, IInv, Again, Goto
<1>19. DoneInv'
  BY DEF DoneInv, IInv, Again
<1>20. OkInv'
  BY <1>1, ProcessingAssumption DEF OkInv, CheckInv, InCheck, IInv, Again, Goto
<1>21. FilesInv'
  BY <1>1, <1>2, <1>3, <1>4, <1>5, FilesKept, ProcessingAssumption
    DEF IInv, TypeOK, FilesInv, Again, Goto, Proc, ImageOf
<1>22. StagedInv'
  BY <1>2, <1>4 DEF StagedInv, IInv, Again, Goto
<1>23. StoredInv'
  BY DEF StoredInv, IInv, Again
<1>24. OwnerInv'
  BY DEF OwnerInv, IInv, Again, Goto
<1> QED
  BY <1>6, <1>7, <1>8, <1>9, <1>10, <1>11, <1>12, <1>13, <1>14, <1>15, <1>16, <1>17, <1>18,
     <1>19, <1>20, <1>21, <1>22, <1>23, <1>24
    DEF IInv

\* The load task stages the original.
LEMMA LoadStep ==
  ASSUME IInv, NEW w \in Workers, Load(w)
  PROVE  IInv'
<1> DEFINE p == job[w].proc
<1>1. /\ pc[w] # "idle" /\ p \in Procs /\ image[p] \in Images /\ job[w].kind # "none"
      /\ Waiting' = Waiting
  BY WorkerFacts DEF Load, Goto, Waiting
<1>2. TypeOK'
  BY <1>1 DEF TypeOK, Labels, InBody, IInv, Load, Goto, Proc, File
<1>3. JobInv'
  BY <1>1 DEF JobInv, InCheck, IInv, Load, Goto
<1>4. FreshInv'
  BY <1>1, ProcessingAssumption DEF FreshInv, IInv, Load, Proc
<1>5. OneCheck'
  BY DEF OneCheck, IInv, Load
<1>6. CheckInv'
  BY <1>1 DEF CheckInv, InCheck, IInv, Load, Goto, Proc
<1>7. OwnInv'
  BY <1>1 DEF OwnInv, InOwn, IInv, Load, Goto
<1>8. OverInv'
  BY <1>1 DEF OverInv, InBody, IInv, Load, Goto
<1>9. PendingInv'
  BY <1>1, PendingKept DEF IInv, InBody, Load, Goto
<1>10. BrokenInv'
  BY DEF BrokenInv, IInv, Load
<1>11. FinalInv'
  BY DEF FinalInv, InFinalize, IInv, Load, Goto
<1>12. AnswerInv'
  BY DEF AnswerInv, IInv, Load
<1>13. NotifierInv'
  BY DEF NotifierInv, IInv, Load, Goto
<1>14. EntryInv'
  BY DEF EntryInv, IInv, Load, Goto
<1>15. DoneInv'
  BY DEF DoneInv, IInv, Load
<1>16. OkInv'
  BY DEF OkInv, IInv, Load, Goto
<1>17. FilesInv'
  <2>1. ASSUME NEW q \in Procs, q # p PROVE FilesOf(q)'
    BY <1>1, <2>1, FilesKept DEF Load, Goto, Proc, IInv, FilesInv, TypeOK
  <2>2. ASSUME NEW q \in Procs, q = p PROVE FilesOf(q)'
    <3>1. pc'[w] = "decode" /\ job'[w] = job[w] /\ staged'[p] = {<<None, None>>} /\ notifier'[p] = p
      BY <2>2, <1>1 DEF Load, Goto, Proc, IInv, TypeOK, OwnInv, InOwn
    <3> QED
      BY <2>2, <3>1 DEF FilesOf
  <2> QED
    BY <2>1, <2>2 DEF FilesInv
<1>18. StagedInv'
  BY <1>1, FolderAssumption DEF StagedInv, TypeOK, IInv, Load, Goto, Proc, File
<1>19. StoredInv'
  BY DEF StoredInv, IInv, Load
<1>20. OwnerInv'
  BY DEF OwnerInv, IInv, Load, Goto
<1> QED
  BY <1>2, <1>3, <1>4, <1>5, <1>6, <1>7, <1>8, <1>9, <1>10, <1>11, <1>12, <1>13, <1>14, <1>15,
     <1>16, <1>17, <1>18, <1>19, <1>20
    DEF IInv

\* It submits the resize tasks.
LEMMA DecodeStep ==
  ASSUME IInv, NEW w \in Workers, Decode(w)
  PROVE  IInv'
<1> DEFINE p == job[w].proc
<1>1. pc[w] # "idle" /\ job[w] \in Tasks /\ p \in Procs /\ image[p] \in Images
  BY WorkerFacts DEF Decode, Goto
<1> DEFINE s == [k \in DOMAIN Sizes |-> Task(p, "resize", Sizes[k], None)]
<1>2. /\ s \in Seq(Tasks)
      /\ \A k \in DOMAIN s : /\ s[k].proc = p /\ s[k].kind = "resize" /\ s[k].format = None
                             /\ s[k].size = Sizes[k] /\ Sizes[k] \in Range(Sizes)
      /\ DOMAIN s = DOMAIN Sizes
  <2>1. DOMAIN Sizes = 1..Len(Sizes) /\ Len(Sizes) \in Nat
    BY LenProperties, ProcessingAssumption
  <2>2. \A k \in DOMAIN Sizes : Sizes[k] \in Range(Sizes)
    BY DEF Range
  <2> QED
    BY <1>1, <2>1, <2>2 DEF Task, Tasks
<1>3. \A u \in Waiting : u.proc = p => u.kind # "check"
  BY DEF Decode, Goto, IInv, CheckInv, InCheck
<1>4. queue' \in Seq(Tasks) /\ Waiting' = Waiting \cup {s[k] : k \in DOMAIN s} /\ OneCheck'
  <2>1. queue' = queue \o s
    BY DEF Decode, Proc
  <2> HIDE DEF s
  <2> QED
    BY <1>1, <1>2, <1>3, <2>1, TasksAdded DEF IInv
<1> HIDE DEF s
<1>5. /\ Waiting \subseteq Waiting'
      /\ \A t \in Waiting' : \/ t \in Waiting
                             \/ t.proc = p /\ t.kind = "resize" /\ t.size \in Range(Sizes)
      /\ \A z \in Range(Sizes) : \E t \in Waiting' :
           t.proc = p /\ t.kind = "resize" /\ t.size = z /\ t.format = None
  BY <1>2, <1>4 DEF Range
<1>6. \A v \in Workers : \A q \in Procs : job[v].proc = q => pc[v] # "idle"
  BY IdleFacts
<1>7. TypeOK'
  BY <1>4 DEF TypeOK, Labels, InBody, IInv, Decode, Goto
<1>8. JobInv'
  BY <1>1, <1>5 DEF JobInv, Shape, InCheck, IInv, Decode, Goto
<1>9. FreshInv'
  BY DEF FreshInv, IInv, Decode
<1>10. OneCheck'
  BY <1>1, <1>2, <1>3, <1>4, <1>5, <1>6, ProcessingAssumption
    DEF OneCheck, IInv, Decode, Goto, Proc, ImageOf
<1>11. CheckInv'
  BY <1>5 DEF CheckInv, InCheck, IInv, Decode, Goto
<1>12. OwnInv'
  BY <1>5 DEF OwnInv, InOwn, IInv, Decode, Goto
<1>13. OverInv'
  BY <1>1, <1>2, <1>5 DEF OverInv, InBody, IInv, Decode, Goto
<1>14. PendingInv'
  BY <1>5, PendingKept DEF IInv, InBody, Decode, Goto
<1>15. BrokenInv'
  BY DEF BrokenInv, IInv, Decode
<1>16. FinalInv'
  BY DEF FinalInv, InFinalize, IInv, Decode, Goto
<1>17. AnswerInv'
  BY DEF AnswerInv, IInv, Decode
<1>18. NotifierInv'
  BY DEF NotifierInv, IInv, Decode, Goto
<1>19. EntryInv'
  BY DEF EntryInv, CheckInv, OkInv, IInv, Decode, Goto
<1>20. DoneInv'
  BY DEF DoneInv, IInv, Decode
<1>21. OkInv'
  BY <1>1, ProcessingAssumption DEF OkInv, OwnInv, InOwn, FinalInv, IInv, Decode, Goto
<1>22. FilesInv'
  <2>1. ASSUME NEW q \in Procs, q # p PROVE FilesOf(q)'
    BY <1>1, <1>5, <2>1, FilesKept DEF Decode, Goto, Proc, IInv, FilesInv, TypeOK
  <2>2. ASSUME NEW q \in Procs, q = p PROVE FilesOf(q)'
    <3>1. \A z \in Range(Sizes) : Ahead(q, "resize", z, None)'
      BY <2>2, <1>5 DEF Ahead
    <3>2. UNCHANGED <<staged, notifier>>
      BY DEF Decode
    <3>3. staged[p] # None
      BY DEF Decode, Goto, IInv, StagedInv
    <3> QED
      BY <2>2, <1>1, <3>1, <3>2, <3>3 DEF IInv, FilesInv, FilesOf
  <2> QED
    BY <2>1, <2>2 DEF FilesInv
<1>23. StagedInv'
  BY <1>1, <1>2, <1>5 DEF StagedInv, IInv, Decode, Goto
<1>24. StoredInv'
  BY DEF StoredInv, IInv, Decode
<1>25. OwnerInv'
  BY DEF OwnerInv, IInv, Decode, Goto
<1> QED
  BY <1>7, <1>8, <1>9, <1>10, <1>11, <1>12, <1>13, <1>14, <1>15, <1>16, <1>17, <1>18, <1>19,
     <1>20, <1>21, <1>22, <1>23, <1>24, <1>25
    DEF IInv

\* A resize task submits its save tasks.
LEMMA ResizeStep ==
  ASSUME IInv, NEW w \in Workers, Resize(w)
  PROVE  IInv'
<1> DEFINE p == job[w].proc
<1>1. pc[w] # "idle" /\ job[w] \in Tasks /\ p \in Procs /\ image[p] \in Images
  BY WorkerFacts DEF Resize, Goto
<1> DEFINE s == [k \in DOMAIN Formats |-> Task(p, "save", job[w].size, Formats[k])]
<1>2. /\ s \in Seq(Tasks)
      /\ \A k \in DOMAIN s : /\ s[k].proc = p /\ s[k].kind = "save" /\ s[k].size = job[w].size
                             /\ s[k].format = Formats[k] /\ Formats[k] \in Range(Formats)
      /\ DOMAIN s = DOMAIN Formats
  <2>1. DOMAIN Formats = 1..Len(Formats) /\ Len(Formats) \in Nat
    BY LenProperties, ProcessingAssumption
  <2>2. \A k \in DOMAIN Formats : Formats[k] \in Range(Formats)
    BY DEF Range
  <2>3. job[w].size \in Range(Sizes) \cup {None}
    BY <1>1 DEF Tasks
  <2> QED
    BY <1>1, <2>1, <2>2, <2>3 DEF Task, Tasks
<1>3. \A u \in Waiting : u.proc = p => u.kind # "check"
  BY DEF Resize, Goto, IInv, CheckInv, InCheck
<1>4. queue' \in Seq(Tasks) /\ Waiting' = Waiting \cup {s[k] : k \in DOMAIN s} /\ OneCheck'
  <2>1. queue' = queue \o s
    BY DEF Resize, Proc
  <2> HIDE DEF s
  <2> QED
    BY <1>1, <1>2, <1>3, <2>1, TasksAdded DEF IInv
<1> HIDE DEF s
<1>5. job[w].size \in Range(Sizes)
  BY DEF Resize, Goto, IInv, JobInv, Shape
<1>6. /\ Waiting \subseteq Waiting'
      /\ \A t \in Waiting' :
           \/ t \in Waiting
           \/ /\ t.proc = p /\ t.kind = "save"
              /\ t.size \in Range(Sizes) /\ t.format \in Range(Formats)
      /\ \A f \in Range(Formats) : \E t \in Waiting' :
           t.proc = p /\ t.kind = "save" /\ t.size = job[w].size /\ t.format = f
  BY <1>2, <1>4, <1>5 DEF Range
<1>7. \A v \in Workers : \A q \in Procs : job[v].proc = q => pc[v] # "idle"
  BY IdleFacts
<1>8. TypeOK'
  BY <1>4 DEF TypeOK, Labels, InBody, IInv, Resize, Goto
<1>9. JobInv'
  BY <1>1, <1>6 DEF JobInv, Shape, InCheck, IInv, Resize, Goto
<1>10. FreshInv'
  BY DEF FreshInv, IInv, Resize
<1>11. OneCheck'
  BY <1>1, <1>2, <1>3, <1>4, <1>5, <1>6, <1>7, ProcessingAssumption
    DEF OneCheck, IInv, Resize, Goto, Proc, ImageOf
<1>12. CheckInv'
  BY <1>2, <1>6 DEF CheckInv, InCheck, IInv, Resize, Goto
<1>13. OwnInv'
  BY <1>1, <1>2, <1>6 DEF OwnInv, InOwn, TypeOK, IInv, Resize, Goto
<1>14. OverInv'
  BY <1>1, <1>2, <1>6 DEF OverInv, InBody, IInv, Resize, Goto
<1>15. PendingInv'
  BY <1>4, PendingKept DEF IInv, InBody, Resize, Goto
<1>16. BrokenInv'
  BY DEF BrokenInv, IInv, Resize
<1>17. FinalInv'
  BY DEF FinalInv, InFinalize, IInv, Resize, Goto
<1>18. AnswerInv'
  BY DEF AnswerInv, IInv, Resize
<1>19. NotifierInv'
  BY DEF NotifierInv, IInv, Resize, Goto
<1>20. EntryInv'
  BY <1>5 DEF EntryInv, FinalInv, IInv, Resize, Goto
<1>21. DoneInv'
  BY DEF DoneInv, IInv, Resize
<1>22. OkInv'
  BY <1>1, <1>2, <1>3, <1>4, <1>5, <1>6, <1>7, ProcessingAssumption
    DEF OkInv, TypeOK, OwnInv, InOwn, CheckInv, InCheck, StoredInv, FilesInv, FinalInv,
        InFinalize, InBody, OverInv, IInv, Resize, Goto, Proc, ImageOf
<1>23. FilesInv'
  <2>1. ASSUME NEW q \in Procs, q # p PROVE FilesOf(q)'
    BY <1>1, <1>6, <2>1, FilesKept DEF Resize, Goto, Proc, IInv, FilesInv, TypeOK
  <2>2. ASSUME NEW q \in Procs, q = p PROVE FilesOf(q)'
    <3> PICK z : z = job[w].size
      OBVIOUS
    <3>1. \A f \in Range(Formats) : Ahead(q, "save", z, f)'
      BY <2>2, <1>6 DEF Ahead
    <3>2. UNCHANGED <<job, group, staged, notifier>> /\ pc[w] = "resize"
          /\ \A v \in Workers \ {w} : pc'[v] = pc[v]
      BY DEF Resize, Goto, IInv, TypeOK
    <3>3. \A y, f : /\ Ahead(q, "save", y, f) => Ahead(q, "save", y, f)'
                    /\ y # z /\ Ahead(q, "resize", y, f) => Ahead(q, "resize", y, f)'
      BY <2>2, <1>6, <3>2 DEF Ahead
    <3>4. \A v \in Workers : pc[v] = "decode" => pc'[v] = "decode"
      BY <3>2
    <3> QED
      BY <2>2, <1>1, <3>1, <3>2, <3>3, <3>4 DEF IInv, FilesInv, FilesOf
  <2> QED
    BY <2>1, <2>2 DEF FilesInv
<1>24. StagedInv'
  BY <1>6 DEF StagedInv, IInv, Resize, Goto
<1>25. StoredInv'
  BY DEF StoredInv, IInv, Resize
<1>26. OwnerInv'
  BY DEF OwnerInv, IInv, Resize, Goto
<1> QED
  BY <1>8, <1>9, <1>10, <1>11, <1>12, <1>13, <1>14, <1>15, <1>16, <1>17, <1>18, <1>19, <1>20,
     <1>21, <1>22, <1>23, <1>24, <1>25, <1>26
    DEF IInv

\* A save task stages its file.
LEMMA SaveStep ==
  ASSUME IInv, NEW w \in Workers, Save(w)
  PROVE  IInv'
<1> DEFINE p == job[w].proc
<1>1. /\ pc[w] # "idle" /\ p \in Procs /\ image[p] \in Images /\ job[w].kind # "none"
      /\ Waiting' = Waiting
  BY WorkerFacts DEF Save, Goto, Waiting
<1>2. <<job[w].size, job[w].format>> \in File
  BY DEF Save, Goto, IInv, JobInv, Shape, File
<1>3. /\ staged[p] \in SUBSET File /\ staged[p] # None
      /\ staged' = [staged EXCEPT ![p] = @ \cup {<<job[w].size, job[w].format>>}]
  BY <1>1 DEF Save, Goto, Proc, IInv, TypeOK, StagedInv
<1>4. staged' \in [Procs -> (SUBSET File) \cup {None}] /\ staged'[p] # None
  <2>1. staged[p] \cup {<<job[w].size, job[w].format>>} \in SUBSET File
    BY <1>2, <1>3
  <2> QED
    BY <1>1, <1>3, <2>1, FolderAssumption DEF IInv, TypeOK
<1>5. TypeOK'
  BY <1>4 DEF TypeOK, Labels, InBody, IInv, Save, Goto
<1>6. JobInv'
  BY <1>1 DEF JobInv, InCheck, IInv, Save, Goto
<1>7. FreshInv'
  BY <1>3 DEF FreshInv, IInv, Save
<1>8. OneCheck'
  BY DEF OneCheck, IInv, Save
<1>9. CheckInv'
  BY <1>1, <1>3 DEF CheckInv, InCheck, IInv, Save, Goto
<1>10. OwnInv'
  BY <1>1 DEF OwnInv, InOwn, IInv, Save, Goto
<1>11. OverInv'
  BY <1>1 DEF OverInv, InBody, IInv, Save, Goto
<1>12. PendingInv'
  BY <1>1, PendingKept DEF IInv, InBody, Save, Goto
<1>13. BrokenInv'
  BY DEF BrokenInv, IInv, Save
<1>14. FinalInv'
  BY DEF FinalInv, InFinalize, IInv, Save, Goto
<1>15. AnswerInv'
  BY DEF AnswerInv, IInv, Save
<1>16. NotifierInv'
  BY DEF NotifierInv, IInv, Save, Goto
<1>17. EntryInv'
  BY DEF EntryInv, IInv, Save, Goto
<1>18. DoneInv'
  BY DEF DoneInv, IInv, Save
<1>19. OkInv'
  BY <1>1, ProcessingAssumption DEF OkInv, OwnInv, InOwn, IInv, Save, Goto
<1>20. FilesInv'
  <2>1. ASSUME NEW q \in Procs, q # p PROVE FilesOf(q)'
    BY <1>1, <2>1, FilesKept DEF Save, Goto, Proc, IInv, FilesInv, TypeOK
  <2>2. ASSUME NEW q \in Procs, q = p PROVE FilesOf(q)'
    <3>1. /\ UNCHANGED <<job, group, notifier>> /\ pc[w] = "save"
          /\ \A v \in Workers \ {w} : pc'[v] = pc[v]
          /\ staged'[p] = staged[p] \cup {<<job[w].size, job[w].format>>} /\ staged[p] # None
      BY <2>2, <1>1 DEF Save, Goto, Proc, IInv, TypeOK, StagedInv
    <3>2. \A z, f : /\ Ahead(q, "resize", z, f) => Ahead(q, "resize", z, f)'
                    /\ Ahead(q, "save", z, f) =>
                         Ahead(q, "save", z, f)' \/ <<z, f>> = <<job[w].size, job[w].format>>
      BY <2>2, <1>1, <3>1 DEF Ahead
    <3>3. \A v \in Workers : pc[v] = "decode" => pc'[v] = "decode"
      BY <3>1
    <3> QED
      BY <2>2, <1>1, <3>1, <3>2, <3>3 DEF IInv, FilesInv, FilesOf
  <2> QED
    BY <2>1, <2>2 DEF FilesInv
<1>21. StagedInv'
  BY <1>1, <1>4 DEF StagedInv, IInv, Save, Goto, Proc
<1>22. StoredInv'
  BY DEF StoredInv, IInv, Save
<1>23. OwnerInv'
  BY DEF OwnerInv, IInv, Save, Goto
<1> QED
  BY <1>5, <1>6, <1>7, <1>8, <1>9, <1>10, <1>11, <1>12, <1>13, <1>14, <1>15, <1>16, <1>17,
     <1>18, <1>19, <1>20, <1>21, <1>22, <1>23
    DEF IInv

\* A task returns; the last one of a running group decides it.
LEMMA ReturnStep ==
  ASSUME IInv, NEW w \in Workers, Return(w)
  PROVE  IInv'
<1> DEFINE p == job[w].proc
<1>1. /\ pc[w] # "idle" /\ p \in Procs /\ image[p] \in Images /\ job[w].kind # "none"
      /\ Waiting' = Waiting
  BY WorkerFacts DEF Return, Goto, Waiting
<1>2. Queued(p) <=> \E t \in Waiting : t.proc = p
  BY <1>1, QueuedWaits
<1>3. \A v \in Workers : \A q \in Procs : job[v].proc = q => pc[v] # "idle"
  BY IdleFacts
<1>4. TypeOK'
  BY <1>1 DEF TypeOK, Labels, InFinalize, IInv, Return, Goto, Proc, FinalizeOk
<1>5. JobInv'
  BY <1>1 DEF JobInv, InCheck, IInv, Return, Goto, FinalizeOk
<1>6. FreshInv'
  BY <1>1, ProcessingAssumption DEF FreshInv, IInv, Return, Proc
<1>7. OneCheck'
  BY DEF OneCheck, IInv, Return
<1>8. CheckInv'
  BY <1>1 DEF CheckInv, InCheck, IInv, Return, Goto, Proc, FinalizeOk
<1>9. OwnInv'
  BY <1>1 DEF OwnInv, InOwn, IInv, Return, Goto, FinalizeOk
<1>10. OverInv'
  BY <1>1, <1>2
    DEF OverInv, InBody, TypeOK, IInv, Return, Goto, Proc, FinalizeOk, PendingElsewhere
<1>11. PendingInv'
  BY <1>1, <1>2 DEF PendingInv, TypeOK, IInv, Return, Goto, Proc, PendingElsewhere
<1>12. BrokenInv'
  BY DEF BrokenInv, IInv, Return
<1>13. FinalInv'
  BY <1>1 DEF FinalInv, InFinalize, TypeOK, AnswerInv, IInv, Return, Goto, Proc, FinalizeOk
<1>14. AnswerInv'
  BY DEF AnswerInv, IInv, Return
<1>15. NotifierInv'
  BY DEF NotifierInv, IInv, Return, Goto
<1>16. EntryInv'
  BY DEF EntryInv, TypeOK, FinalInv, OkInv, IInv, Return, Goto, Proc, FinalizeOk
<1>17. DoneInv'
  BY DEF DoneInv, IInv, Return
<1>18. OkInv'
  BY DEF OkInv, FinalInv, InFinalize, IInv, Return, Goto, Proc, FinalizeOk
<1>19. FilesInv'
  BY <1>1, <1>2, <1>3, FilesKept, ProcessingAssumption
    DEF IInv, TypeOK, FilesInv, Return, Goto, Proc, ImageOf, FinalizeOk, PendingElsewhere
<1>20. StagedInv'
  BY <1>1 DEF StagedInv, IInv, Return, Goto, FinalizeOk
<1>21. StoredInv'
  BY DEF StoredInv, IInv, Return
<1>22. OwnerInv'
  BY DEF OwnerInv, IInv, Return, Goto, Proc
<1> QED
  BY <1>4, <1>5, <1>6, <1>7, <1>8, <1>9, <1>10, <1>11, <1>12, <1>13, <1>14, <1>15, <1>16,
     <1>17, <1>18, <1>19, <1>20, <1>21, <1>22
    DEF IInv

\* A task throws with an image that is, or now becomes, broken.
LEMMA ThrowStep ==
  ASSUME IInv, NEW w \in Workers,
         NEW l \in InCheck \cup InOwn, l \notin {"claim", "wait"}, Throw(w, l),
         broken \subseteq broken', image[job[w].proc] \in broken', broken' \subseteq Images
  PROVE  IInv'
<1> DEFINE p == job[w].proc
<1>1. pc[w] # "idle" /\ job[w] \in Tasks /\ p \in Procs /\ image[p] \in Images
  BY WorkerFacts DEF Throw, Goto, InCheck, InOwn
<1>2. Waiting' = Waiting
  BY DEF Throw, Waiting
<1>3. /\ pc[w] \in (InCheck \cup InOwn) \ {"claim", "wait"}
      /\ pc' = [pc EXCEPT ![w] = IF group[p] # "Running" THEN "end"
                                 ELSE IF notifier[p] = None THEN "hook" ELSE "erase"]
      /\ group' = [group EXCEPT ![p] = "Done_Error"]
      /\ UNCHANGED <<queue, job, image, notifier, processing, done, staged, stored, answer,
                     crashed>>
  BY DEF Throw, Goto, FinalizeError, Proc
<1>4. group[p] = "Running" =>
        answer[p] = None /\ \A v \in Workers : job[v].proc = p => pc[v] \notin InFinalize
  BY <1>1 DEF IInv, FinalInv, AnswerInv
<1>5. group'[p] = "Done_Error" /\ \A q \in Procs \ {p} : group'[q] = group[q]
  BY <1>1, <1>3 DEF IInv, TypeOK
<1>6. group[p] = "Running" /\ notifier[p] # None => pc'[w] = "erase" /\ job'[w] = job[w]
  BY <1>3 DEF IInv, TypeOK
<1>7. TypeOK'
  BY <1>1, <1>3 DEF TypeOK, Labels, InFinalize, IInv
<1>8. JobInv'
  BY <1>1, <1>2, <1>3 DEF JobInv, InCheck, IInv
<1>9. FreshInv'
  BY <1>3, ProcessingAssumption DEF FreshInv, IInv
<1>10. OneCheck'
  BY <1>3 DEF OneCheck, IInv
<1>11. CheckInv'
  BY <1>2, <1>3 DEF CheckInv, InCheck, TypeOK, IInv
<1>12. OwnInv'
  BY <1>2, <1>3 DEF OwnInv, InOwn, IInv
<1>13. OverInv'
  BY <1>2, <1>3, <1>5 DEF OverInv, IInv
<1>14. PendingInv'
  BY <1>2, <1>3, <1>5, PendingKept DEF IInv
<1>15. BrokenInv'
  BY <1>3 DEF BrokenInv, IInv
<1>16. FinalInv'
  <2> SUFFICES ASSUME NEW v \in Workers, pc'[v] \in InFinalize
               PROVE  LET r == job[v].proc
                      IN /\ group'[r] # "Running" /\ answer[r] = None
                         /\ \A u \in Workers : u # v /\ job[u].proc = r => pc'[u] \notin InFinalize
                         /\ pc'[v] = "commit" => group'[r] = "Done_OK"
                         /\ pc'[v] # "hook" => notifier[r] # None
    BY <1>3 DEF FinalInv
  <2>1. CASE v = w
    <3>1. group[p] = "Running" /\ pc'[w] = IF notifier[p] = None THEN "hook" ELSE "erase"
      BY <1>3, <2>1 DEF IInv, TypeOK, InFinalize
    <3> QED
      BY <1>3, <1>4, <1>5, <2>1, <3>1 DEF IInv, TypeOK
  <2>2. CASE v # w
    <3>1. pc'[v] = pc[v] /\ pc[v] \in InFinalize
      BY <1>3, <2>2
    <3>2. group[job[v].proc] # "Running"
      BY <3>1 DEF IInv, FinalInv
    <3>3. job[v].proc = p => pc'[w] = "end"
      BY <1>3, <3>2 DEF IInv, TypeOK
    <3>4. job[v].proc \in Procs
      BY <3>1, WorkerFacts DEF InFinalize
    <3>5. pc[v] = "commit" => job[v].proc # p
      BY <1>1, <1>3 DEF IInv, FinalInv, InFinalize, OverInv, InCheck, InOwn, InBody
    <3>6. \A u \in Workers : u # v /\ job[u].proc = job[v].proc => pc[u] \notin InFinalize
      BY <3>1 DEF IInv, FinalInv
    <3>7. \A u \in Workers : u # v /\ job[u].proc = job[v].proc => pc'[u] \notin InFinalize
      BY <1>3, <3>3, <3>6 DEF InFinalize, IInv, TypeOK
    <3> QED
      BY <1>3, <1>5, <3>1, <3>2, <3>4, <3>5, <3>7 DEF IInv, FinalInv
  <2> QED
    BY <2>1, <2>2
<1>17. AnswerInv'
  BY <1>3 DEF AnswerInv, IInv
<1>18. NotifierInv'
  BY <1>3 DEF NotifierInv, IInv
<1>19. EntryInv'
  <2> SUFFICES ASSUME NEW i \in Images, processing[i] # None
               PROVE  LET q == processing[i]
                      IN /\ image[q] = i /\ notifier[q] = q /\ q \notin done
                         /\ \/ group'[q] = "Running"
                            \/ \E v \in Workers : job[v].proc = q /\ pc'[v] \in {"commit", "erase"}
    BY <1>3 DEF EntryInv
  <2>1. PICK q \in Procs : q = processing[i] /\ image[q] = i /\ notifier[q] = q /\ q \notin done
    BY DEF IInv, EntryInv, TypeOK
  <2>2. CASE group[q] = "Running"
    BY <1>1, <1>3, <1>5, <1>6, <2>1, <2>2, ProcessingAssumption
  <2>3. CASE \E v \in Workers : job[v].proc = q /\ pc[v] \in {"commit", "erase"}
    BY <1>3, <2>1, <2>3 DEF InCheck, InOwn
  <2> QED
    BY <2>1, <2>2, <2>3 DEF IInv, EntryInv
<1>20. DoneInv'
  BY <1>3 DEF DoneInv, IInv
<1>21. OkInv'
  BY <1>3 DEF OkInv, IInv
<1>22. FilesInv'
  BY <1>2, <1>3, <1>5, FilesKept DEF IInv, FilesInv
<1>23. StagedInv'
  BY <1>2, <1>3 DEF StagedInv, IInv
<1>24. StoredInv'
  BY <1>3 DEF StoredInv, IInv
<1>25. OwnerInv'
  BY <1>3 DEF OwnerInv, IInv
<1> QED
  BY <1>7, <1>8, <1>9, <1>10, <1>11, <1>12, <1>13, <1>14, <1>15, <1>16, <1>17, <1>18, <1>19,
     <1>20, <1>21, <1>22, <1>23, <1>24, <1>25
    DEF IInv

\* The staged folder is committed.
LEMMA CommitStep ==
  ASSUME IInv, NEW w \in Workers, Commit(w)
  PROVE  IInv'
<1> DEFINE p == job[w].proc
<1>1. /\ pc[w] # "idle" /\ p \in Procs /\ image[p] \in Images /\ job[w].kind # "none"
      /\ Waiting' = Waiting
  BY WorkerFacts DEF Commit, Goto, Waiting
<1>2. /\ group[p] = "Done_OK"
      /\ \A t \in Waiting : t.proc # p
      /\ \A v \in Workers : job[v].proc = p => pc[v] \notin InBody
  BY <1>1 DEF Commit, Goto, IInv, FinalInv, InFinalize, OverInv
<1>3. staged[p] = File /\ staged[p] # None /\ notifier[p] = p
  <2>1. staged[p] \in SUBSET File /\ staged[p] # None
    BY <1>1 DEF Commit, CanCommit, Proc, IInv, TypeOK
  <2>2. \A s \in Range(Sizes), f \in Range(Formats) : <<s, f>> \in staged[p]
    <3>1. \A v \in Workers : job[v].proc = p => pc[v] \notin {"decode", "resize", "save"}
      BY <1>2 DEF InBody
    <3>2. \A s, f : ~Ahead(p, "resize", s, f) /\ ~Ahead(p, "save", s, f)
      BY <1>2, <3>1 DEF Ahead
    <3> QED
      BY <1>1, <1>2, <2>1, <3>1, <3>2 DEF IInv, FilesInv, FilesOf
  <2>3. <<None, None>> \in staged[p] /\ notifier[p] = p
    BY <1>1, <2>1 DEF IInv, FilesInv, FilesOf
  <2> QED
    BY <2>1, <2>2, <2>3 DEF File
<1>4. \A v \in Workers : \A q \in Procs : job[v].proc = q => pc[v] # "idle"
  BY IdleFacts
<1>5. TypeOK'
  BY <1>1 DEF TypeOK, Labels, InFinalize, IInv, Commit, Goto, Proc
<1>6. JobInv'
  BY <1>1 DEF JobInv, InCheck, IInv, Commit, Goto
<1>7. FreshInv'
  BY DEF FreshInv, IInv, Commit
<1>8. OneCheck'
  BY DEF OneCheck, IInv, Commit
<1>9. CheckInv'
  BY <1>1 DEF CheckInv, InCheck, IInv, Commit, Goto
<1>10. OwnInv'
  BY <1>1, <1>3 DEF OwnInv, IInv, Commit, Goto
<1>11. OverInv'
  BY <1>1 DEF OverInv, InBody, IInv, Commit, Goto
<1>12. PendingInv'
  BY <1>1, <1>2, PendingKept DEF IInv, Commit, Goto
<1>13. BrokenInv'
  BY DEF BrokenInv, IInv, Commit
<1>14. FinalInv'
  BY DEF FinalInv, InFinalize, IInv, Commit, Goto
<1>15. AnswerInv'
  BY DEF AnswerInv, IInv, Commit
<1>16. NotifierInv'
  BY DEF NotifierInv, IInv, Commit, Goto
<1>17. EntryInv'
  BY DEF EntryInv, IInv, Commit, Goto
<1>18. DoneInv'
  BY DEF DoneInv, IInv, Commit, CanCommit
<1>19. OkInv'
  BY <1>1, <1>3 DEF OkInv, TypeOK, IInv, Commit, Goto, Proc
<1>20. FilesInv'
  BY <1>1, <1>2, <1>3, <1>4, FilesKept, ProcessingAssumption
    DEF IInv, TypeOK, FilesInv, Commit, Goto, Proc, ImageOf, CanCommit
<1>21. StagedInv'
  BY <1>1, <1>2 DEF StagedInv, InBody, IInv, Commit, Goto, Proc
<1>22. StoredInv'
  BY <1>3 DEF StoredInv, IInv, Commit, Proc
<1>23. OwnerInv'
  BY DEF OwnerInv, IInv, Commit, Goto
<1> QED
  BY <1>5, <1>6, <1>7, <1>8, <1>9, <1>10, <1>11, <1>12, <1>13, <1>14, <1>15, <1>16, <1>17,
     <1>18, <1>19, <1>20, <1>21, <1>22, <1>23
    DEF IInv

\* The commit throws, and the worker is lost.
LEMMA CommitCrashesStep ==
  ASSUME IInv, NEW w \in Workers, CommitCrashes(w)
  PROVE  IInv'
<1> DEFINE p == job[w].proc
<1>1. /\ pc[w] # "idle" /\ p \in Procs /\ image[p] \in Images /\ job[w].kind # "none"
      /\ Waiting' = Waiting
  BY WorkerFacts DEF CommitCrashes, Goto, Waiting
<1>2. \A v \in Workers : \A q \in Procs : job[v].proc = q => pc[v] # "idle"
  BY IdleFacts
<1>3. TypeOK'
  BY DEF TypeOK, IInv, CommitCrashes, Goto
<1>4. JobInv'
  BY <1>1 DEF JobInv, IInv, CommitCrashes, Goto
<1>5. FreshInv'
  BY DEF FreshInv, IInv, CommitCrashes
<1>6. OneCheck'
  BY DEF OneCheck, IInv, CommitCrashes
<1>7. CheckInv'
  BY <1>1 DEF CheckInv, IInv, CommitCrashes, Goto
<1>8. OwnInv'
  BY <1>1 DEF OwnInv, IInv, CommitCrashes, Goto
<1>9. OverInv'
  BY <1>1 DEF OverInv, IInv, CommitCrashes, Goto
<1>10. PendingInv'
  BY <1>1, <1>2, PendingKept, ProcessingAssumption
    DEF IInv, TypeOK, InBody, InFinalize, CommitCrashes, Goto, Proc, ImageOf
<1>11. BrokenInv'
  BY DEF BrokenInv, IInv, CommitCrashes
<1>12. FinalInv'
  BY DEF FinalInv, IInv, CommitCrashes, Goto
<1>13. AnswerInv'
  BY DEF AnswerInv, IInv, CommitCrashes
<1>14. NotifierInv'
  BY DEF NotifierInv, IInv, CommitCrashes, Goto
<1>15. EntryInv'
  BY DEF EntryInv, IInv, CommitCrashes, Goto
<1>16. DoneInv'
  BY DEF DoneInv, IInv, CommitCrashes
<1>17. OkInv'
  BY DEF OkInv, IInv, CommitCrashes, Goto
<1>18. FilesInv'
  BY <1>1, FilesKept DEF IInv, FilesInv, CommitCrashes, Goto
<1>19. StagedInv'
  BY <1>1 DEF StagedInv, IInv, CommitCrashes, Goto
<1>20. StoredInv'
  BY DEF StoredInv, IInv, CommitCrashes
<1>21. OwnerInv'
  BY DEF OwnerInv, IInv, CommitCrashes, Goto
<1> QED
  BY <1>3, <1>4, <1>5, <1>6, <1>7, <1>8, <1>9, <1>10, <1>11, <1>12, <1>13, <1>14, <1>15, <1>16,
     <1>17, <1>18, <1>19, <1>20, <1>21
    DEF IInv

\* The entry of the map is erased.
LEMMA EraseStep ==
  ASSUME IInv, NEW w \in Workers, Erase(w)
  PROVE  IInv'
<1> DEFINE p == job[w].proc
<1>1. /\ pc[w] # "idle" /\ p \in Procs /\ image[p] \in Images /\ job[w].kind # "none"
      /\ Waiting' = Waiting
  BY WorkerFacts DEF Erase, Goto, Waiting
<1>2. \A v \in Workers : \A q \in Procs : job[v].proc = q => pc[v] # "idle"
  BY IdleFacts
<1>3. TypeOK'
  BY <1>1 DEF TypeOK, Labels, InFinalize, IInv, Erase, Goto, Proc, ImageOf
<1>4. JobInv'
  BY <1>1 DEF JobInv, InCheck, IInv, Erase, Goto
<1>5. FreshInv'
  BY DEF FreshInv, IInv, Erase
<1>6. OneCheck'
  BY DEF OneCheck, IInv, Erase
<1>7. CheckInv'
  BY <1>1 DEF CheckInv, InCheck, IInv, Erase, Goto
<1>8. OwnInv'
  BY <1>1 DEF OwnInv, InOwn, IInv, Erase, Goto
<1>9. OverInv'
  BY <1>1 DEF OverInv, InBody, IInv, Erase, Goto
<1>10. PendingInv'
  BY <1>1, <1>2, PendingKept, ProcessingAssumption
    DEF IInv, TypeOK, InBody, InFinalize, Erase, Goto, Proc, ImageOf
<1>11. BrokenInv'
  BY DEF BrokenInv, IInv, Erase
<1>12. FinalInv'
  BY DEF FinalInv, InFinalize, IInv, Erase, Goto
<1>13. AnswerInv'
  BY DEF AnswerInv, IInv, Erase
<1>14. NotifierInv'
  BY DEF NotifierInv, IInv, Erase, Goto
<1>15. EntryInv'
  BY DEF EntryInv, TypeOK, IInv, Erase, Goto, Proc, ImageOf
<1>16. DoneInv'
  BY DEF DoneInv, IInv, Erase
<1>17. OkInv'
  BY DEF OkInv, IInv, Erase, Goto
<1>18. FilesInv'
  BY <1>1, <1>2, FilesKept, ProcessingAssumption
    DEF IInv, TypeOK, FilesInv, Erase, Goto, Proc, ImageOf
<1>19. StagedInv'
  BY <1>1 DEF StagedInv, IInv, Erase, Goto
<1>20. StoredInv'
  BY DEF StoredInv, IInv, Erase
<1>21. OwnerInv'
  <2> SUFFICES ASSUME NEW q \in Procs, notifier'[q] = q, image'[q] \notin broken',
                      \/ group'[q] = "Running"
                      \/ \E v \in Workers : job'[v].proc = q /\ pc'[v] \in {"commit", "erase"}
               PROVE  processing'[image'[q]] = q
    BY DEF OwnerInv
  <2>1. /\ UNCHANGED <<job, image, group, notifier, broken>>
        /\ pc[w] = "erase" /\ pc'[w] = "notify" /\ \A v \in Workers \ {w} : pc'[v] = pc[v]
        /\ processing' = [processing EXCEPT ![image[p]] = None]
    BY DEF Erase, Goto, Proc, ImageOf, IInv, TypeOK
  <2>2. processing[image[q]] = q
    BY <2>1 DEF IInv, OwnerInv
  <2>3. q # p
    BY <2>1 DEF IInv, FinalInv, InFinalize
  <2>4. image[q] # image[p]
    <3>1. CASE group[p] = "Done_Error"
      BY <1>1, <2>1, <3>1 DEF IInv, BrokenInv
    <3>2. CASE group[p] = "Done_OK"
      <4>1. notifier[p] = p
        BY <2>1, <3>2 DEF IInv, OkInv
      <4> QED
        BY <1>1, <2>1, <2>2, <2>3, <4>1 DEF IInv, OwnerInv
    <3> QED
      BY <1>1, <2>1, <3>1, <3>2 DEF IInv, TypeOK, FinalInv, InFinalize
  <2> QED
    BY <1>1, <2>1, <2>2, <2>4 DEF IInv, TypeOK
<1> QED
  BY <1>3, <1>4, <1>5, <1>6, <1>7, <1>8, <1>9, <1>10, <1>11, <1>12, <1>13, <1>14, <1>15, <1>16,
     <1>17, <1>18, <1>19, <1>20, <1>21
    DEF IInv

\* The notifier is triggered.
LEMMA NotifyStep ==
  ASSUME IInv, NEW w \in Workers, Notify(w)
  PROVE  IInv'
<1> DEFINE p == job[w].proc
<1>1. /\ pc[w] # "idle" /\ p \in Procs /\ image[p] \in Images /\ job[w].kind # "none"
      /\ Waiting' = Waiting
  BY WorkerFacts DEF Notify, Goto, Waiting
<1>2. /\ notifier[p] \in Procs /\ done' = done \cup {notifier[p]}
      /\ notifier[p] = p \/ notifier[p] \in done
  BY <1>1 DEF Notify, Goto, Proc, IInv, TypeOK, FinalInv, InFinalize, NotifierInv
<1>3. \A i \in Images : processing[i] # notifier[p]
  <2>1. \A v \in Workers : job[v].proc = p => pc[v] \notin {"commit", "erase"}
    BY <1>1 DEF Notify, Goto, IInv, FinalInv, InFinalize
  <2>2. group[p] # "Running"
    BY <1>1 DEF Notify, Goto, IInv, FinalInv, InFinalize
  <2> QED
    BY <1>2, <2>1, <2>2, ProcessingAssumption DEF IInv, EntryInv
<1>4. \A v \in Workers : \A q \in Procs : job[v].proc = q => pc[v] # "idle"
  BY IdleFacts
<1>5. TypeOK'
  BY <1>2 DEF TypeOK, Labels, InFinalize, IInv, Notify, Goto
<1>6. JobInv'
  BY <1>1 DEF JobInv, InCheck, IInv, Notify, Goto
<1>7. FreshInv'
  BY DEF FreshInv, IInv, Notify
<1>8. OneCheck'
  BY DEF OneCheck, IInv, Notify
<1>9. CheckInv'
  BY <1>1 DEF CheckInv, InCheck, IInv, Notify, Goto
<1>10. OwnInv'
  BY <1>1 DEF OwnInv, InOwn, IInv, Notify, Goto
<1>11. OverInv'
  BY <1>1 DEF OverInv, InBody, IInv, Notify, Goto
<1>12. PendingInv'
  BY <1>1, <1>2, <1>3, <1>4, PendingKept, ProcessingAssumption
    DEF IInv, TypeOK, InBody, InFinalize, Notify, Goto, Proc, ImageOf
<1>13. BrokenInv'
  BY DEF BrokenInv, IInv, Notify
<1>14. FinalInv'
  BY DEF FinalInv, InFinalize, IInv, Notify, Goto
<1>15. AnswerInv'
  BY DEF AnswerInv, IInv, Notify
<1>16. NotifierInv'
  BY DEF NotifierInv, IInv, Notify, Goto
<1>17. EntryInv'
  BY <1>2, <1>3 DEF EntryInv, IInv, Notify, Goto
<1>18. DoneInv'
  BY <1>2 DEF DoneInv, FinalInv, InFinalize, OkInv, IInv, Notify, Goto
<1>19. OkInv'
  BY DEF OkInv, IInv, Notify, Goto
<1>20. FilesInv'
  BY <1>1, <1>2, <1>3, <1>4, FilesKept, ProcessingAssumption
    DEF IInv, TypeOK, FilesInv, Notify, Goto, Proc, ImageOf
<1>21. StagedInv'
  BY <1>1 DEF StagedInv, IInv, Notify, Goto
<1>22. StoredInv'
  BY DEF StoredInv, IInv, Notify
<1>23. OwnerInv'
  BY DEF OwnerInv, IInv, Notify, Goto
<1> QED
  BY <1>5, <1>6, <1>7, <1>8, <1>9, <1>10, <1>11, <1>12, <1>13, <1>14, <1>15, <1>16, <1>17,
     <1>18, <1>19, <1>20, <1>21, <1>22, <1>23
    DEF IInv

\* The upload is answered.
LEMMA HookStep ==
  ASSUME IInv, NEW w \in Workers, Hook(w)
  PROVE  IInv'
<1> DEFINE p == job[w].proc
<1>1. /\ pc[w] # "idle" /\ p \in Procs /\ image[p] \in Images /\ job[w].kind # "none"
      /\ Waiting' = Waiting
  BY WorkerFacts DEF Hook, Goto, Waiting
<1>2. \A v \in Workers : \A q \in Procs : job[v].proc = q => pc[v] # "idle"
  BY IdleFacts
<1>3. TypeOK'
  BY <1>1 DEF TypeOK, Labels, IInv, Hook, Goto, Proc
<1>4. JobInv'
  BY <1>1 DEF JobInv, InCheck, IInv, Hook, Goto
<1>5. FreshInv'
  BY <1>1, ProcessingAssumption DEF FreshInv, IInv, Hook, Proc
<1>6. OneCheck'
  BY DEF OneCheck, IInv, Hook
<1>7. CheckInv'
  BY <1>1 DEF CheckInv, InCheck, IInv, Hook, Goto
<1>8. OwnInv'
  BY <1>1 DEF OwnInv, InOwn, IInv, Hook, Goto
<1>9. OverInv'
  BY <1>1 DEF OverInv, InBody, IInv, Hook, Goto
<1>10. PendingInv'
  BY <1>1, <1>2, PendingKept, ProcessingAssumption
    DEF IInv, TypeOK, InBody, InFinalize, Hook, Goto, Proc, ImageOf
<1>11. BrokenInv'
  BY DEF BrokenInv, IInv, Hook
<1>12. FinalInv'
  BY DEF FinalInv, InFinalize, TypeOK, IInv, Hook, Goto, Proc
<1>13. AnswerInv'
  BY DEF AnswerInv, FinalInv, InFinalize, IInv, Hook, Goto, Proc
<1>14. NotifierInv'
  BY DEF NotifierInv, IInv, Hook, Goto
<1>15. EntryInv'
  BY <1>1, <1>2, ProcessingAssumption
    DEF EntryInv, TypeOK, FinalInv, OverInv, InFinalize, InBody, NotifierInv, InCheck,
        CheckInv, DoneInv, OkInv, IInv, Hook, Goto, Proc, ImageOf
<1>16. DoneInv'
  BY DEF DoneInv, IInv, Hook
<1>17. OkInv'
  BY DEF OkInv, IInv, Hook, Goto
<1>18. FilesInv'
  BY <1>1, FilesKept DEF IInv, FilesInv, Hook, Goto
<1>19. StagedInv'
  BY <1>1 DEF StagedInv, IInv, Hook, Goto
<1>20. StoredInv'
  BY DEF StoredInv, IInv, Hook
<1>21. OwnerInv'
  BY DEF OwnerInv, IInv, Hook, Goto
<1> QED
  BY <1>3, <1>4, <1>5, <1>6, <1>7, <1>8, <1>9, <1>10, <1>11, <1>12, <1>13, <1>14, <1>15, <1>16,
     <1>17, <1>18, <1>19, <1>20, <1>21
    DEF IInv

\* A worker is done with its task; the folder goes with the last reference.
LEMMA EndStep ==
  ASSUME IInv, NEW w \in Workers, End(w)
  PROVE  IInv'
<1> DEFINE p == job[w].proc
<1>1. /\ pc[w] # "idle" /\ p \in Procs /\ image[p] \in Images /\ job[w].kind # "none"
      /\ Waiting' = Waiting
  BY WorkerFacts DEF End, Goto, Waiting
<1>2. \A q \in Procs : q # p => staged'[q] = staged[q]
  BY <1>1 DEF End, Proc, IInv, TypeOK
<1>3. staged'[p] \in {staged[p], None} /\ (staged' = staged \/ ~\E t \in Waiting : t.proc = p)
  BY <1>1, QueuedWaits DEF End, Proc, ReferredElsewhere, IInv, TypeOK
<1>4. \A v \in Workers : \A q \in Procs : job[v].proc = q => pc[v] # "idle"
  BY IdleFacts
<1>5. TypeOK'
  BY <1>1 DEF TypeOK, Labels, IInv, End, Goto, Proc
<1>6. JobInv'
  BY <1>1 DEF JobInv, TypeOK, IInv, End, Goto
<1>7. FreshInv'
  BY DEF FreshInv, IInv, End
<1>8. OneCheck'
  BY DEF OneCheck, IInv, End
<1>9. CheckInv'
  <2>1. \A q \in Procs : staged[q] = None => staged'[q] = None
    BY <1>2, <1>3
  <2>2. \A v \in Workers : v # w => pc'[v] = pc[v] /\ job'[v] = job[v]
    BY DEF End, Goto, IInv, TypeOK
  <2>3. pc'[w] = "idle" /\ job'[w].proc = None /\ UNCHANGED <<group, notifier>>
    BY DEF End, Goto, IInv, TypeOK, NoTask, Task
  <2>4. \A v \in Workers : pc[v] \in InCheck => job[v].proc \in Procs
    BY WorkerFacts DEF InCheck
  <2>5. \A t \in Waiting : t.proc \in Procs
    BY WaitingTasks DEF IInv, Tasks
  <2> QED
    BY <1>1, <2>1, <2>2, <2>3, <2>4, <2>5, ProcessingAssumption DEF IInv, CheckInv, InCheck
<1>10. OwnInv'
  BY <1>1 DEF OwnInv, InOwn, IInv, End, Goto
<1>11. OverInv'
  BY <1>1, ProcessingAssumption DEF OverInv, TypeOK, IInv, End, Goto, NoTask, Task
<1>12. PendingInv'
  BY <1>1, <1>2, <1>3, <1>4, PendingKept, ProcessingAssumption
    DEF IInv, TypeOK, InBody, InFinalize, End, Goto, Proc, ImageOf
<1>13. BrokenInv'
  BY DEF BrokenInv, IInv, End
<1>14. FinalInv'
  BY DEF FinalInv, InFinalize, IInv, End, Goto
<1>15. AnswerInv'
  BY DEF AnswerInv, IInv, End
<1>16. NotifierInv'
  BY ProcessingAssumption DEF NotifierInv, IInv, End, Goto, NoTask, Task
<1>17. EntryInv'
  BY DEF EntryInv, IInv, End, Goto
<1>18. DoneInv'
  BY DEF DoneInv, IInv, End
<1>19. OkInv'
  BY DEF OkInv, IInv, End, Goto
<1>20. FilesInv'
  BY <1>1, <1>2, <1>3, <1>4, FilesKept, ProcessingAssumption
    DEF IInv, TypeOK, FilesInv, End, Goto, Proc, ImageOf, ReferredElsewhere, NoTask, Task
<1>21. StagedInv'
  BY <1>1, <1>3 DEF StagedInv, IInv, End, Goto, Proc, ReferredElsewhere
<1>22. StoredInv'
  BY DEF StoredInv, IInv, End
<1>23. OwnerInv'
  BY DEF OwnerInv, IInv, End, Goto
<1> QED
  BY <1>5, <1>6, <1>7, <1>8, <1>9, <1>10, <1>11, <1>12, <1>13, <1>14, <1>15, <1>16, <1>17,
     <1>18, <1>19, <1>20, <1>21, <1>22, <1>23
    DEF IInv

-----------------------------------------------------------------------------
(* The two ways to throw.                                                   *)

\* A task that throws breaks its image.
LEMMA FailStep ==
  ASSUME IInv, NEW w \in Workers, Fail(w)
  PROVE  IInv'
<1>1. PICK l \in {"check", "recheck", "again", "load", "decode", "resize", "save"} : Throw(w, l)
  BY DEF Fail
<1>2. pc[w] # "idle"
  BY <1>1 DEF Throw, Goto
<1>3. /\ image[job[w].proc] \in Images /\ broken \subseteq Images
      /\ broken' = broken \cup {image[job[w].proc]}
  BY <1>2, WorkerFacts DEF Fail, ImageOf, Proc, IInv, TypeOK
<1>4. l \in InCheck \cup InOwn /\ l \notin {"claim", "wait"}
  BY DEF InCheck, InOwn
<1> QED
  BY <1>1, <1>3, <1>4, ThrowStep

\* A waiter that finds nothing throws because the one it waited for failed,
\* which has broken the image of both.
LEMMA RecheckThrowsStep ==
  ASSUME IInv, NEW w \in Workers, RecheckThrows(w)
  PROVE  IInv'
<1> DEFINE p == job[w].proc
<1> DEFINE q == notifier[p]
<1>1. pc[w] = "recheck" /\ stored[image[p]] = None /\ Throw(w, "recheck")
  BY DEF RecheckThrows, Throw, Goto, ImageOf, Proc
<1>2. p \in Procs /\ image[p] \in Images
  BY <1>1, WorkerFacts
<1>3. q # p /\ q # None /\ q \in Procs
  BY <1>1, <1>2 DEF IInv, CheckInv, InCheck, TypeOK
<1>4. q \in done /\ image[q] = image[p]
  BY <1>1, <1>2, <1>3 DEF IInv, NotifierInv
<1>5. group[q] = "Done_Error"
  BY <1>1, <1>3, <1>4 DEF IInv, DoneInv, TypeOK
<1>6. image[p] \in broken
  BY <1>3, <1>4, <1>5 DEF IInv, BrokenInv
<1>7. broken' = broken /\ broken \subseteq Images
  BY DEF RecheckThrows, IInv, TypeOK
<1>8. "recheck" \in InCheck \cup InOwn
  BY DEF InCheck
<1> QED
  BY <1>1, <1>6, <1>7, <1>8, ThrowStep

-----------------------------------------------------------------------------
(* The invariant.                                                           *)

\* It holds before the first upload.
LEMMA InitInv == Init => IInv
<1> SUFFICES ASSUME Init PROVE IInv
  OBVIOUS
<1>1. queue = <<>> /\ queue \in Seq(Tasks) /\ DOMAIN queue = {} /\ Waiting = {}
  BY EmptySeq, LenProperties DEF Init, Waiting
<1>2. \A w \in Workers : pc[w] = "idle" /\ job[w] = NoTask /\ job[w].proc = None
  BY DEF Init, NoTask, Task
<1>3. TypeOK
  BY <1>1 DEF Init, TypeOK, Labels
<1>4. JobInv /\ FreshInv /\ OneCheck
  BY <1>1, <1>2 DEF Init, JobInv, FreshInv, OneCheck
<1>5. CheckInv /\ OwnInv /\ FinalInv /\ OkInv /\ StagedInv
  BY <1>1, <1>2
    DEF Init, CheckInv, OwnInv, FinalInv, OkInv, StagedInv, InCheck, InOwn, InFinalize
<1>6. OverInv /\ PendingInv /\ BrokenInv /\ AnswerInv
  BY DEF Init, OverInv, PendingInv, BrokenInv, AnswerInv
<1>7. NotifierInv /\ EntryInv /\ DoneInv /\ FilesInv /\ StoredInv /\ OwnerInv
  BY ProcessingAssumption
    DEF Init, NotifierInv, EntryInv, DoneInv, FilesInv, FilesOf, StoredInv, OwnerInv
<1> QED
  BY <1>3, <1>4, <1>5, <1>6, <1>7 DEF IInv

\* And every step keeps it.
LEMMA StepInv == IInv /\ [Next]_vars => IInv'
<1> SUFFICES ASSUME IInv, [Next]_vars PROVE IInv'
  OBVIOUS
<1>1. ASSUME NEW p \in Procs, NEW i \in Images, Run(p, i) PROVE IInv'
  BY <1>1, RunStep
<1>2. ASSUME NEW w \in Workers, BodyStep(w) PROVE IInv'
  BY <1>2, CheckStep, ClaimStep, WaitStep, RecheckFindsStep, RecheckThrowsStep, AgainStep,
     LoadStep, DecodeStep, ResizeStep, SaveStep DEF BodyStep
<1>3. ASSUME NEW w \in Workers, FinalizeStep(w) PROVE IInv'
  BY <1>3, CommitStep, CommitCrashesStep, EraseStep, NotifyStep, HookStep DEF FinalizeStep
<1>4. ASSUME NEW w \in Workers, Start(w) \/ Return(w) \/ End(w) \/ Fail(w) PROVE IInv'
  BY <1>4, StartStep, ReturnStep, EndStep, FailStep
<1>5. CASE UNCHANGED vars
  <2>1. /\ UNCHANGED <<queue, job, pc, image, group, notifier, processing, done,
                       staged, stored, answer, broken, crashed>>
        /\ Waiting' = Waiting
    BY <1>5 DEF vars, Waiting
  <2>2. TypeOK' /\ JobInv' /\ FreshInv' /\ OneCheck' /\ CheckInv' /\ OwnInv'
    BY <2>1 DEF IInv, TypeOK, JobInv, FreshInv, OneCheck, CheckInv, OwnInv
  <2>3. OverInv' /\ PendingInv' /\ BrokenInv' /\ FinalInv' /\ AnswerInv'
        /\ NotifierInv' /\ EntryInv'
    BY <2>1 DEF IInv, OverInv, PendingInv, BrokenInv, FinalInv, AnswerInv, NotifierInv, EntryInv
  <2>4. DoneInv' /\ OkInv' /\ FilesInv' /\ StagedInv' /\ StoredInv' /\ OwnerInv'
    BY <2>1 DEF IInv, DoneInv, OkInv, FilesInv, FilesOf, Ahead, StagedInv, StoredInv, OwnerInv
  <2> QED
    BY <2>2, <2>3, <2>4 DEF IInv
<1> QED
  BY <1>1, <1>2, <1>3, <1>4, <1>5 DEF Next, WorkerStep

\* The invariant always holds.
THEOREM Invariance == Spec => []IInv
<1> QED BY InitInv, StepInv, PTL DEF Spec

-----------------------------------------------------------------------------
(* What follows from it.                                                    *)

\* Every variable keeps its type.
THEOREM TypeCorrect == Spec => []TypeOK
<1>1. IInv => TypeOK
  BY DEF IInv
<1> QED
  BY <1>1, Invariance, PTL

\* No entry is left in the map for later uploads to wait for in vain.
THEOREM Owned == Spec => []EntryHasOwner
<1>1. ASSUME IInv, NEW i \in Images, processing[i] # None
      PROVE  LET p == processing[i]
             IN /\ image[p] = i
                /\ p \notin done
                /\ \/ Queued(p)
                   \/ \E w \in Workers : Proc(w) = p /\ pc[w] \in InBody \cup {"commit", "erase"}
  <2> DEFINE p == processing[i]
  <2>1. p \in Procs /\ image[p] = i /\ p \notin done
    BY <1>1 DEF IInv, TypeOK, EntryInv
  <2>2. CASE group[p] = "Running"
    <3>1. image[p] # None
      BY <2>1, ProcessingAssumption
    <3>2. \/ \E t \in Waiting : t.proc = p
          \/ \E w \in Workers : job[w].proc = p /\ pc[w] \in InBody
      BY <1>1, <2>1, <2>2, <3>1 DEF IInv, PendingInv
    <3> QED
      BY <2>1, <3>2, QueuedWaits DEF Proc
  <2>3. CASE \E w \in Workers : job[w].proc = p /\ pc[w] \in {"commit", "erase"}
    BY <2>1, <2>3 DEF Proc
  <2> QED
    BY <1>1, <2>2, <2>3 DEF IInv, EntryInv
<1>2. IInv => EntryHasOwner
  BY <1>1 DEF EntryHasOwner
<1> QED
  BY <1>2, Invariance, PTL

\* Two uploads of an image are processed at once only after one has failed.
THEOREM Exclusive == Spec => []OneOwner
<1>1. ASSUME IInv, NEW i \in Images \ broken PROVE Cardinality(Owners(i)) <= 1
  <2>1. Owners(i) \subseteq {processing[i]}
    BY <1>1 DEF IInv, OwnerInv, Owners
  <2>2. Owners(i) = {} \/ Owners(i) = {processing[i]}
    BY <2>1
  <2> QED
    BY <2>2, FS_EmptySet, FS_Singleton
<1>2. IInv => OneOwner
  BY <1>1 DEF OneOwner
<1> QED
  BY <1>2, Invariance, PTL

-----------------------------------------------------------------------------
(* Nobody is forgotten.                                                     *)

\* A group that was decided has a worker that finalizes it, until the processor is
\* answered; and until the notifier is triggered, if the processor has one.
FinishInv ==
  \A p \in Procs : group[p] # "Running" =>
    /\ answer[p] = None => \E w \in Workers : job[w].proc = p /\ pc[w] \in InFinalize
    /\ notifier[p] = p /\ p \notin done =>
         \E w \in Workers : job[w].proc = p /\ pc[w] \in {"commit", "erase", "notify"}

\* A step of a worker that does not finalize, and decides nothing, keeps it.
LEMMA FinishKept ==
  ASSUME IInv, FinishInv, NEW w \in Workers, pc[w] \notin InFinalize,
         \A v \in Workers \ {w} : pc'[v] = pc[v] /\ job'[v] = job[v],
         UNCHANGED <<group, done, answer>>,
         \A p \in Procs : group[p] # "Running" => notifier'[p] = notifier[p]
  PROVE  FinishInv'
BY DEF FinishInv, InFinalize

\* When a group is decided its worker goes on to finalize.
LEMMA FinishBegun ==
  ASSUME IInv, FinishInv, NEW w \in Workers, pc[w] \in InBody, NEW p, p = job[w].proc,
         UNCHANGED <<job, notifier, done, answer>>, NEW l,
         pc' = [pc EXCEPT ![w] = l], l \in Labels,
         \A q \in Procs \ {p} : group'[q] = group[q],
         group[p] = "Running" /\ group'[p] # "Running" =>
           l \in InFinalize /\ (notifier[p] # None => l \in {"commit", "erase"})
  PROVE  FinishInv'
<1>1. pc[w] \notin InFinalize /\ pc'[w] = l /\ \A v \in Workers \ {w} : pc'[v] = pc[v]
  BY DEF InBody, InFinalize, IInv, TypeOK
<1> SUFFICES ASSUME NEW q \in Procs, group'[q] # "Running"
             PROVE  /\ answer[q] = None => \E v \in Workers : job[v].proc = q /\ pc'[v] \in InFinalize
                    /\ notifier[q] = q /\ q \notin done =>
                         \E v \in Workers : job[v].proc = q /\ pc'[v] \in {"commit", "erase", "notify"}
  BY DEF FinishInv
<1>2. CASE group[q] # "Running"
  BY <1>1, <1>2 DEF FinishInv, InFinalize
<1>3. CASE group[q] = "Running"
  BY <1>1, <1>3, ProcessingAssumption
<1> QED
  BY <1>2, <1>3

\* A worker that finalizes is the only one of its processor.
LEMMA FinishGoesOn ==
  ASSUME IInv, FinishInv, NEW w \in Workers, pc[w] \in InFinalize, NEW p, p = job[w].proc,
         UNCHANGED <<job, notifier, group>>, NEW l \in Labels,
         pc' = [pc EXCEPT ![w] = l],
         \A q \in Procs \ {p} : answer'[q] = answer[q],
         done \subseteq done',
         \/ l \in InFinalize /\ answer' = answer
         \/ answer'[p] # None,
         \/ l \in {"commit", "erase", "notify"}
         \/ pc[w] = "hook"
         \/ notifier[p] \in done'
  PROVE  FinishInv'
<1>1. pc'[w] = l /\ (\A v \in Workers \ {w} : pc'[v] = pc[v]) /\ p \in Procs
  BY WorkerFacts DEF IInv, TypeOK, InFinalize
<1>2. \A v \in Workers : v # w /\ job[v].proc = p => pc[v] \notin InFinalize
  BY DEF IInv, FinalInv
<1> SUFFICES ASSUME NEW q \in Procs, group[q] # "Running"
             PROVE  /\ answer'[q] = None => \E v \in Workers : job[v].proc = q /\ pc'[v] \in InFinalize
                    /\ notifier[q] = q /\ q \notin done' =>
                         \E v \in Workers : job[v].proc = q /\ pc'[v] \in {"commit", "erase", "notify"}
  BY DEF FinishInv
<1>3. CASE q # p
  BY <1>1, <1>3 DEF FinishInv
<1>4. CASE q = p
  <2>1. answer'[q] = None => pc'[w] \in InFinalize
    BY <1>1, <1>4
  <2>2. notifier[q] = q /\ q \notin done' => l \in {"commit", "erase", "notify"}
    <3> SUFFICES ASSUME notifier[q] = q, q \notin done' PROVE l \in {"commit", "erase", "notify"}
      OBVIOUS
    <3>1. \E v \in Workers : job[v].proc = q /\ pc[v] \in {"commit", "erase", "notify"}
      BY DEF FinishInv
    <3>2. pc[w] # "hook"
      BY <1>2, <1>4, <3>1 DEF InFinalize
    <3> QED
      BY <1>4, <3>2
  <2> QED
    BY <1>1, <1>4, <2>1, <2>2
<1> QED
  BY <1>3, <1>4

\* Every step keeps it.
LEMMA FinishStep == IInv /\ IInv' /\ FinishInv /\ [Next]_vars => FinishInv'
<1> SUFFICES ASSUME IInv, IInv', FinishInv, [Next]_vars PROVE FinishInv'
  OBVIOUS
<1>1. ASSUME NEW p \in Procs, NEW i \in Images, Run(p, i) PROVE FinishInv'
  BY <1>1 DEF FinishInv, Run
<1>2. ASSUME NEW w \in Workers, Start(w) PROVE FinishInv'
  <2>1. /\ pc[w] = "idle" /\ \A v \in Workers \ {w} : pc'[v] = pc[v] /\ job'[v] = job[v]
        /\ UNCHANGED <<group, done, answer, notifier>>
    BY <1>2 DEF Start, Goto, IInv, TypeOK
  <2> QED
    BY <2>1, FinishKept DEF InFinalize
<1>3. ASSUME NEW w \in Workers,
             Check(w) \/ Wait(w) \/ RecheckFinds(w) \/ Again(w) \/ Load(w) \/ Decode(w)
             \/ Resize(w) \/ Save(w)
      PROVE  FinishInv'
  <2>1. /\ pc[w] \in {"check", "wait", "recheck", "again", "load", "decode", "resize", "save"}
        /\ \A v \in Workers \ {w} : pc'[v] = pc[v] /\ job'[v] = job[v]
        /\ UNCHANGED <<group, done, answer, notifier>>
    BY <1>3 DEF Check, Wait, RecheckFinds, Again, Load, Decode, Resize, Save, Goto, IInv, TypeOK
  <2> QED
    BY <2>1, FinishKept DEF InFinalize
<1>4. ASSUME NEW w \in Workers, Claim(w) PROVE FinishInv'
  <2>1. /\ pc[w] = "claim" /\ \A v \in Workers \ {w} : pc'[v] = pc[v] /\ job'[v] = job[v]
        /\ UNCHANGED <<group, done, answer>>
        /\ \A q \in Procs : q # job[w].proc => notifier'[q] = notifier[q]
    BY <1>4 DEF Claim, Goto, Proc, IInv, TypeOK
  <2>2. group[job[w].proc] = "Running"
    BY <2>1 DEF IInv, CheckInv, InCheck
  <2> QED
    BY <2>1, <2>2, FinishKept DEF InFinalize
<1>5. ASSUME NEW w \in Workers, Return(w) PROVE FinishInv'
  <2> DEFINE p == job[w].proc
  <2> DEFINE finishes == group[p] = "Running" /\ ~PendingElsewhere(w, p)
  <2> DEFINE l == IF finishes THEN FinalizeOk(p) ELSE "end"
  <2>1. /\ pc[w] = "return" /\ pc' = [pc EXCEPT ![w] = l]
        /\ group' = IF finishes THEN [group EXCEPT ![p] = "Done_OK"] ELSE group
        /\ UNCHANGED <<job, notifier, done, answer>>
    BY <1>5 DEF Return, Goto, Proc
  <2>2. /\ l \in Labels /\ (finishes => l \in InFinalize)
        /\ finishes /\ notifier[p] # None => l = "commit"
    BY DEF FinalizeOk, Labels, InFinalize
  <2>3. /\ \A q \in Procs \ {p} : group'[q] = group[q]
        /\ ~finishes => group'[p] = group[p]
    BY <2>1 DEF IInv, TypeOK
  <2>4. pc[w] \in InBody
    BY <2>1 DEF InBody
  <2> HIDE DEF finishes, l
  <2> QED
    BY <2>1, <2>2, <2>3, <2>4, FinishBegun
<1>6. ASSUME NEW w \in Workers, NEW l \in InCheck \cup InOwn, Throw(w, l) PROVE FinishInv'
  <2> DEFINE p == job[w].proc
  <2> DEFINE m == IF group[p] = "Running" THEN FinalizeError(p) ELSE "end"
  <2>1. /\ pc[w] \in InBody /\ pc' = [pc EXCEPT ![w] = m]
        /\ group' = [group EXCEPT ![p] = "Done_Error"]
        /\ UNCHANGED <<job, notifier, done, answer>>
    BY <1>6 DEF Throw, Goto, Proc, InCheck, InOwn, InBody
  <2>2. /\ m \in Labels /\ (group[p] = "Running" => m \in InFinalize)
        /\ group[p] = "Running" /\ notifier[p] # None => m = "erase"
    BY DEF FinalizeError, Labels, InFinalize
  <2>3. \A q \in Procs \ {p} : group'[q] = group[q]
    BY <2>1 DEF IInv, TypeOK
  <2> HIDE DEF m
  <2> QED
    BY <2>1, <2>2, <2>3, FinishBegun
<1>7. ASSUME NEW w \in Workers, Commit(w) \/ CommitCrashes(w) \/ Erase(w) PROVE FinishInv'
  <2>1. PICK l \in {"commit", "erase", "notify"} :
          /\ pc[w] \in InFinalize /\ pc' = [pc EXCEPT ![w] = l]
          /\ UNCHANGED <<job, notifier, group, answer, done>>
    BY <1>7 DEF Commit, CommitCrashes, Erase, Goto, InFinalize
  <2>2. l \in Labels /\ l \in InFinalize
    BY DEF Labels, InFinalize
  <2> QED
    BY <2>1, <2>2, FinishGoesOn
<1>8. ASSUME NEW w \in Workers, Notify(w) PROVE FinishInv'
  <2>1. /\ pc[w] \in InFinalize /\ pc' = [pc EXCEPT ![w] = "hook"]
        /\ UNCHANGED <<job, notifier, group, answer>>
        /\ done' = done \cup {notifier[job[w].proc]}
    BY <1>8 DEF Notify, Goto, Proc, InFinalize
  <2>2. "hook" \in Labels /\ "hook" \in InFinalize
    BY DEF Labels, InFinalize
  <2> QED
    BY <2>1, <2>2, FinishGoesOn
<1>9. ASSUME NEW w \in Workers, Hook(w) PROVE FinishInv'
  <2> DEFINE p == job[w].proc
  <2>1. /\ pc[w] = "hook" /\ pc' = [pc EXCEPT ![w] = "end"]
        /\ UNCHANGED <<job, notifier, group, done>>
        /\ answer' = [answer EXCEPT ![p] = IF group[p] = "Done_OK" THEN "ok" ELSE "error"]
    BY <1>9 DEF Hook, Goto, Proc
  <2>2. "end" \in Labels /\ pc[w] \in InFinalize /\ p \in Procs
    BY <2>1, WorkerFacts DEF Labels, InFinalize
  <2>3. answer'[p] # None /\ \A q \in Procs \ {p} : answer'[q] = answer[q]
    BY <2>1, <2>2, ProcessingAssumption DEF IInv, TypeOK
  <2> QED
    BY <2>1, <2>2, <2>3, FinishGoesOn
<1>10. ASSUME NEW w \in Workers, End(w) PROVE FinishInv'
  <2>1. /\ pc[w] = "end" /\ \A v \in Workers \ {w} : pc'[v] = pc[v] /\ job'[v] = job[v]
        /\ UNCHANGED <<group, done, answer, notifier>>
    BY <1>10 DEF End, Goto, IInv, TypeOK
  <2> QED
    BY <2>1, FinishKept DEF InFinalize
<1>11. CASE UNCHANGED vars
  BY <1>11 DEF FinishInv, vars
<1>12. ASSUME NEW w \in Workers, RecheckThrows(w) \/ Fail(w) PROVE FinishInv'
  BY <1>6, <1>12 DEF RecheckThrows, Fail, InCheck, InOwn
<1> QED
  BY <1>1, <1>2, <1>3, <1>4, <1>5, <1>7, <1>8, <1>9, <1>10, <1>11, <1>12
    DEF Next, WorkerStep, BodyStep, FinalizeStep

\* A worker of a live process can go on unless it finds nothing in the deque, or
\* waits for a notifier that was not triggered yet.
CanStep(w) ==
  IF pc[w] = "idle" THEN queue # <<>>
  ELSE pc[w] = "wait" => notifier[Proc(w)] \in done

\* An upload that was not answered has a task in the deque or a worker at it,
\* and if nobody can go on, then every worker waits for an upload whose tasks
\* are in the deque.
NobodyForgotten ==
  /\ \A p \in Procs : image[p] # None /\ answer[p] = None =>
       Queued(p) \/ \E w \in Workers : Proc(w) = p /\ pc[w] \in InBody \cup InFinalize
  /\ (\E p \in Procs : image[p] # None /\ answer[p] = None) =>
       EveryWorkerWaits \/ \E w \in Workers : CanStep(w)

\* The processor that a worker waits for has a task in the deque or another
\* worker, which does not wait.
LEMMA WaitedFor ==
  ASSUME IInv, FinishInv, NEW w \in Workers, pc[w] = "wait", notifier[Proc(w)] \notin done
  PROVE  LET q == notifier[Proc(w)]
         IN /\ q \in Procs
            /\ Queued(q) \/ \E v \in Workers : job[v].proc = q /\ pc[v] \notin {"idle", "wait"}
<1> DEFINE q == notifier[Proc(w)]
<1>1. q \in Procs /\ notifier[q] = q /\ image[q] # None
  <2>1. job[w].proc \in Procs /\ image[job[w].proc] # None /\ notifier[job[w].proc] # None
    BY WorkerFacts, ProcessingAssumption DEF IInv, CheckInv, InCheck
  <2> QED
    BY <2>1 DEF Proc, IInv, NotifierInv, TypeOK
<1>2. \A v \in Workers : job[v].proc = q => pc[v] \notin {"idle", "wait"}
  BY <1>1, IdleFacts DEF IInv, CheckInv, InCheck
<1>3. CASE group[q] = "Running"
  BY <1>1, <1>2, <1>3, QueuedWaits DEF IInv, PendingInv
<1>4. CASE group[q] # "Running"
  BY <1>1, <1>2, <1>4 DEF FinishInv
<1> QED
  BY <1>1, <1>3, <1>4

\* The safety part of HookCalledOrBlocked: no upload is left without a task or a
\* worker, and the pool stands still only in the way that WaitersBlockPool shows.
\* Waiters wait for owners, never in a circle.
THEOREM Unforgotten == Spec => []NobodyForgotten
<1>1. Init => FinishInv
  BY DEF Init, FinishInv
<1>2. ASSUME IInv, FinishInv, NEW p \in Procs, image[p] # None, answer[p] = None
      PROVE  Queued(p) \/ \E w \in Workers : Proc(w) = p /\ pc[w] \in InBody \cup InFinalize
  <2>1. CASE group[p] = "Running"
    BY <1>2, <2>1, QueuedWaits DEF Proc, IInv, PendingInv
  <2>2. CASE group[p] # "Running"
    BY <1>2, <2>2 DEF Proc, FinishInv
  <2> QED
    BY <2>1, <2>2
<1>3. ASSUME IInv, FinishInv, NEW p \in Procs, image[p] # None, answer[p] = None,
             \A w \in Workers : ~CanStep(w)
      PROVE  EveryWorkerWaits
  <2>1. \A w \in Workers : IF queue = <<>> THEN pc[w] = "idle" \/ pc[w] = "wait"
                                           ELSE pc[w] = "wait"
    BY <1>3 DEF CanStep
  <2>2. \A w \in Workers : pc[w] = "wait" => notifier[Proc(w)] \notin done
    BY <1>3 DEF CanStep
  <2>3. ASSUME NEW w \in Workers, pc[w] = "wait"
        PROVE  notifier[Proc(w)] \notin done /\ Queued(notifier[Proc(w)])
    BY <1>3, <2>1, <2>2, <2>3, WaitedFor
  <2>4. queue # <<>>
    <3> SUFFICES ASSUME queue = <<>> PROVE FALSE
      OBVIOUS
    <3>1. \A q : ~Queued(q)
      BY DEF Queued
    <3>2. PICK w \in Workers : Proc(w) = p /\ pc[w] \in InBody \cup InFinalize
      BY <1>2, <1>3, <3>1
    <3>3. pc[w] = "wait"
      BY <2>1, <3>2 DEF InBody, InFinalize
    <3> QED
      BY <2>3, <3>1, <3>3
  <2> QED
    BY <2>1, <2>3, <2>4 DEF EveryWorkerWaits
<1>4. IInv /\ FinishInv => NobodyForgotten
  BY <1>2, <1>3 DEF NobodyForgotten
<1>5. IInv /\ FinishInv /\ [Next]_vars => (IInv /\ FinishInv)'
  BY StepInv, FinishStep
<1> QED
  BY <1>1, <1>4, <1>5, InitInv, PTL DEF Spec

-----------------------------------------------------------------------------
(* Processing implements UploadContract.                                    *)

\* The contract sees the uploads, the complete folders, the broken images and
\* the answers.
Uploads == {<<p, image[p]>> : p \in {q \in Procs : image[q] # None}}
Available == {i \in Images : stored[i] = File}
Answers == {<<p, answer[p]>> : p \in {q \in Procs : answer[q] # None}}

\* The mapping, by name.
LEMMA Mapping ==
  /\ (Contract!Init <=> Uploads = {} /\ Available = {} /\ broken = {} /\ Answers = {})
  /\ Uploads' = Uploads /\ Available' = Available /\ broken' = broken /\ Answers' = Answers
       => UNCHANGED Contract!vars
BY DEF Contract!Init, Contract!vars, Uploads, Available, Answers

\* A step that changes none of these variables is not seen.
LEMMA Unseen ==
  UNCHANGED <<image, stored, broken, answer>> => UNCHANGED Contract!vars
<1> SUFFICES ASSUME UNCHANGED <<image, stored, broken, answer>> PROVE UNCHANGED Contract!vars
  OBVIOUS
<1>1. Uploads' = Uploads /\ Available' = Available /\ Answers' = Answers
  BY DEF Uploads, Available, Answers
<1> QED
  BY <1>1, Mapping

\* Run is an upload.
LEMMA RunRefines ==
  ASSUME IInv, NEW p \in Procs, NEW i \in Images, Run(p, i)
  PROVE  Contract!Upload(p, i)
<1>1. image[p] = None /\ image' = [image EXCEPT ![p] = i] /\ i # None
  BY ProcessingAssumption DEF Run
<1>2. Uploads' = Uploads \cup {<<p, i>>}
  BY <1>1 DEF IInv, TypeOK, Uploads
<1>3. \A j : <<p, j>> \notin Uploads
  BY <1>1 DEF Uploads
<1>4. Available' = Available /\ broken' = broken /\ Answers' = Answers
  BY DEF Run, Available, Answers
<1> QED
  BY <1>2, <1>3, <1>4 DEF Contract!Upload, Uploads, Available, Answers

\* A commit makes all files of an uploaded image available.
LEMMA CommitRefines ==
  ASSUME IInv, NEW w \in Workers, Commit(w)
  PROVE  Contract!Store(image[job[w].proc])
<1> DEFINE p == job[w].proc
<1>1. pc[w] # "idle" /\ stored[image[p]] = None /\ stored' = [stored EXCEPT ![image[p]] = staged[p]]
  BY DEF Commit, CanCommit, Goto, Proc, ImageOf
<1>2. p \in Procs /\ image[p] \in Images
  BY <1>1, WorkerFacts
<1>3. staged[p] # None /\ staged[p] = stored'[image[p]]
  BY <1>1, <1>2 DEF IInv, TypeOK, Commit, CanCommit, Proc
<1>4. stored'[image[p]] = File
  BY <1>2, <1>3, CommitStep DEF IInv, StoredInv
<1>5. image[p] \notin Available /\ Available' = Available \cup {image[p]}
  BY <1>1, <1>2, <1>4, FolderAssumption DEF IInv, TypeOK, Available
<1>6. <<p, image[p]>> \in Uploads
  BY <1>2, ProcessingAssumption DEF Uploads
<1>7. Uploads' = Uploads /\ broken' = broken /\ Answers' = Answers
  BY DEF Commit, Uploads, Answers
<1> QED
  BY <1>2, <1>5, <1>6, <1>7 DEF Contract!Store, Uploads, Available, Answers

\* A task that throws breaks an uploaded image.
LEMMA FailRefines ==
  ASSUME IInv, NEW w \in Workers, Fail(w)
  PROVE  Contract!Break(image[job[w].proc]) /\ image[job[w].proc] \in Images
<1> DEFINE p == job[w].proc
<1>1. pc[w] # "idle"
  BY DEF Fail, Throw, Goto
<1>2. p \in Procs /\ image[p] \in Images
  BY <1>1, WorkerFacts
<1>3. <<p, image[p]>> \in Uploads
  BY <1>2, ProcessingAssumption DEF Uploads
<1>4. Uploads' = Uploads /\ Available' = Available /\ Answers' = Answers
      /\ broken' = broken \cup {image[p]}
  BY DEF Fail, Throw, ImageOf, Proc, Uploads, Available, Answers
<1> QED
  BY <1>2, <1>3, <1>4 DEF Contract!Break, Uploads, Available, Answers

\* The hook answers an upload once, with success when all files are available,
\* and with failure when its image is broken.
LEMMA HookRefines ==
  ASSUME IInv, NEW w \in Workers, Hook(w)
  PROVE  LET p == job[w].proc
         IN /\ p \in Procs /\ image[p] \in Images
            /\ \E a \in {"ok", "error"} : Contract!Answer(p, image[p], a)
<1> DEFINE p == job[w].proc
<1> DEFINE a == IF group[p] = "Done_OK" THEN "ok" ELSE "error"
<1>1. pc[w] = "hook" /\ answer' = [answer EXCEPT ![p] = a]
  BY DEF Hook, Goto, Proc
<1>2. p \in Procs /\ image[p] \in Images
  BY <1>1, WorkerFacts
<1>3. answer[p] = None /\ group[p] \in {"Done_OK", "Done_Error"}
  BY <1>1, <1>2 DEF IInv, TypeOK, FinalInv, InFinalize
<1>4. a \in {"ok", "error"} /\ None \notin {"ok", "error"}
  BY ProcessingAssumption
<1>5. Answers' = Answers \cup {<<p, a>>} /\ \A b : <<p, b>> \notin Answers
  BY <1>1, <1>2, <1>3, <1>4 DEF IInv, TypeOK, Answers
<1>6. image[p] \in IF a = "ok" THEN Available ELSE broken
  <2>1. CASE group[p] = "Done_OK"
    BY <1>1, <1>2, <2>1 DEF IInv, OkInv, StoredInv, Available
  <2>2. CASE group[p] = "Done_Error"
    BY <1>2, <2>2 DEF IInv, BrokenInv
  <2> QED
    BY <1>3, <2>1, <2>2
<1>7. <<p, image[p]>> \in Uploads
  BY <1>2, ProcessingAssumption DEF Uploads
<1>8. Uploads' = Uploads /\ Available' = Available /\ broken' = broken
  BY DEF Hook, Uploads, Available
<1>9. \E b \in {"ok", "error"} : Contract!Answer(p, image[p], b)
  <2> HIDE DEF a
  <2>1. Contract!Answer(p, image[p], a)
    BY <1>4, <1>5, <1>6, <1>7, <1>8 DEF Contract!Answer, Uploads, Available, Answers
  <2> QED
    BY <1>4, <2>1 DEF Contract!Answer
<1> QED
  BY <1>2, <1>9

\* Every step of the processors is a step of the contract, or not seen.
LEMMA StepRefines == IInv /\ [Next]_vars => [Contract!Next]_(Contract!vars)
<1> SUFFICES ASSUME IInv, [Next]_vars PROVE [Contract!Next]_(Contract!vars)
  OBVIOUS
<1>1. ASSUME NEW p \in Procs, NEW i \in Images, Run(p, i) PROVE Contract!Next
  BY <1>1, RunRefines DEF Contract!Next
<1>2. ASSUME NEW w \in Workers, Commit(w) PROVE Contract!Next
  <2>1. image[job[w].proc] \in Images
    BY <1>2, WorkerFacts DEF Commit, Goto
  <2>2. Contract!Store(image[job[w].proc])
    BY <1>2, CommitRefines
  <2> QED
    BY <2>1, <2>2 DEF Contract!Next, Contract!Store
<1>3. ASSUME NEW w \in Workers, Fail(w) PROVE Contract!Next
  BY <1>3, FailRefines DEF Contract!Next
<1>4. ASSUME NEW w \in Workers, Hook(w) PROVE Contract!Next
  BY <1>4, HookRefines DEF Contract!Next
<1>5. ASSUME NEW w \in Workers, Start(w) \/ BodyStep(w) \/ Return(w) \/ End(w)
      PROVE  UNCHANGED <<image, stored, broken, answer>>
  BY <1>5 DEF Start, BodyStep, Return, End, Check, Claim, Wait, RecheckFinds, RecheckThrows,
     Throw, Again, Load, Decode, Resize, Save
<1>6. ASSUME NEW w \in Workers, CommitCrashes(w) \/ Erase(w) \/ Notify(w)
      PROVE  UNCHANGED <<image, stored, broken, answer>>
  BY <1>6 DEF CommitCrashes, Erase, Notify
<1>7. ASSUME UNCHANGED vars PROVE UNCHANGED <<image, stored, broken, answer>>
  BY <1>7 DEF vars
<1> QED
  BY <1>1, <1>2, <1>3, <1>4, <1>5, <1>6, <1>7, Unseen DEF Next, WorkerStep, FinalizeStep

\* Whatever threads, hashes in progress and failures do, an upload is answered
\* once and truly, and an image becomes available with all its files at once.
THEOREM Refinement == Spec => ImplementsContract
<1>1. Init => Contract!Init
  <2>1. Init => Available = {}
    BY FolderAssumption DEF Init, Available, File
  <2>2. Init => Uploads = {} /\ broken = {} /\ Answers = {}
    BY DEF Init, Uploads, Answers
  <2> QED
    BY <2>1, <2>2, Mapping
<1> QED
  BY <1>1, StepRefines, Invariance, PTL DEF Spec, ImplementsContract, Contract!Spec

-----------------------------------------------------------------------------
(* No file is written twice.                                                *)

\* The sizes are a std::set; the formats are a vector, in which the
\* configuration may have one twice.
Distinct == IsInjective(Sizes) /\ IsInjective(Formats)

\* No task is queued twice.
QueueInv == \A k, l \in DOMAIN queue : k # l => queue[k] # queue[l]

\* Nor queued while it is executed, nor executed by two workers.
ApartInv ==
  /\ \A t \in Waiting : \A w \in Workers : pc[w] = t.kind => job[w] # t
  /\ \A v, w \in Workers : v # w /\ pc[v] = pc[w] /\ pc[w] \in InOwn => job[v] # job[w]

\* The load task of a processor is alone, and leaves the original behind.
LoadInv ==
  /\ \A t \in Waiting : t.kind = "load" =>
       /\ \A u \in Waiting : u.proc = t.proc => u = t
       /\ \A w \in Workers : job[w].proc = t.proc => pc[w] \notin InOwn
  /\ \A w \in Workers : pc[w] \in {"load", "decode"} =>
       /\ \A t \in Waiting : t.proc # job[w].proc
       /\ \A v \in Workers : v # w /\ job[v].proc = job[w].proc => pc[v] \notin InOwn
       /\ pc[w] = "decode" => staged[job[w].proc] = {<<None, None>>}

\* A resize task is for all formats.
ResizeInv ==
  /\ \A t \in Waiting : t.kind = "resize" => t.format = None
  /\ \A w \in Workers : pc[w] = "resize" => job[w].format = None

\* What is to be resized is not yet to be saved, and what is there is neither.
AheadInv ==
  \A p \in Procs, s \in Range(Sizes), f \in Range(Formats) :
    /\ Ahead(p, "resize", s, None) => ~Ahead(p, "save", s, f)
    /\ staged[p] # None /\ <<s, f>> \in staged[p] =>
         ~Ahead(p, "resize", s, None) /\ ~Ahead(p, "save", s, f)

OnceInv == QueueInv /\ ApartInv /\ LoadInv /\ ResizeInv /\ AheadInv

\* Tasks are told apart by their fields.
LEMMA SameTask ==
  ASSUME NEW t \in Tasks, NEW u \in Tasks,
         t.proc = u.proc, t.kind = u.kind, t.size = u.size, t.format = u.format
  PROVE  t = u
BY DEF Tasks

\* The first task is no longer there when it was taken.
LEMMA HeadGone ==
  ASSUME TypeOK, QueueInv, queue # <<>>, queue' = Tail(queue)
  PROVE  QueueInv' /\ Head(queue) \notin Waiting'
<1>1. queue \in Seq(Tasks)
  BY DEF TypeOK
<1>2. /\ Len(queue) \in Nat \ {0} /\ DOMAIN queue = 1..Len(queue) /\ Head(queue) = queue[1]
      /\ DOMAIN queue' = 1..Len(queue) - 1
      /\ \A k \in 1..Len(queue) - 1 : queue'[k] = queue[k + 1]
  BY <1>1, HeadTailProperties, EmptySeq, LenProperties
<1>3. \A k \in 1..Len(queue) - 1 : k + 1 \in 1..Len(queue) /\ k + 1 # 1
  BY <1>2
<1>4. QueueInv'
  BY <1>2, <1>3 DEF QueueInv
<1>5. Head(queue) \notin Waiting'
  BY <1>2, <1>3 DEF QueueInv, Waiting
<1> QED
  BY <1>4, <1>5

\* Different tasks that are not there are added.
LEMMA NewTasksAdded ==
  ASSUME TypeOK, QueueInv, NEW s \in Seq(Tasks), IsInjective(s), queue' = queue \o s,
         \A k \in DOMAIN s : s[k] \notin Waiting
  PROVE  QueueInv'
<1> DEFINE n == Len(queue)
<1>1. /\ n \in Nat /\ Len(s) \in Nat
      /\ DOMAIN queue = 1..n /\ DOMAIN s = 1..Len(s)
      /\ DOMAIN queue' = 1..n + Len(s)
      /\ \A k \in 1..n : queue'[k] = queue[k]
      /\ \A k \in 1..Len(s) : queue'[n + k] = s[k]
  BY ConcatProperties, LenProperties DEF TypeOK
<1>2. \A k \in DOMAIN queue' : \/ k \in 1..n /\ queue'[k] = queue[k] /\ queue[k] \in Waiting
                               \/ /\ k - n \in 1..Len(s) /\ queue'[k] = s[k - n]
                                  /\ s[k - n] \notin Waiting
  <2> SUFFICES ASSUME NEW k \in 1..n + Len(s), k \notin 1..n
               PROVE  k - n \in 1..Len(s) /\ queue'[k] = s[k - n]
    BY <1>1 DEF Waiting
  <2>1. k - n \in 1..Len(s) /\ n + (k - n) = k
    BY <1>1
  <2> QED
    BY <1>1, <2>1
<1> SUFFICES ASSUME NEW k \in DOMAIN queue', NEW l \in DOMAIN queue', k # l, queue'[k] = queue'[l]
             PROVE  FALSE
  BY DEF QueueInv
<1>3. CASE k \in 1..n /\ l \in 1..n
  BY <1>1, <1>3 DEF QueueInv
<1>4. CASE /\ k - n \in 1..Len(s) /\ l - n \in 1..Len(s)
           /\ queue'[k] = s[k - n] /\ queue'[l] = s[l - n]
  <2>1. k - n = l - n
    BY <1>1, <1>4 DEF IsInjective
  <2> QED
    BY <1>1, <2>1
<1> QED
  BY <1>2, <1>3, <1>4

\* A single one is.
LEMMA NewTaskAdded ==
  ASSUME TypeOK, QueueInv, NEW t \in Tasks, t \notin Waiting, queue' = Append(queue, t)
  PROVE  QueueInv'
<1> DEFINE s == <<t>>
<1>1. s \in Seq(Tasks) /\ DOMAIN s = {1} /\ s[1] = t /\ queue' = queue \o s
  BY AppendIsConcat DEF TypeOK
<1>2. IsInjective(s)
  BY <1>1 DEF IsInjective
<1> HIDE DEF s
<1> QED
  BY <1>1, <1>2, NewTasksAdded

\* Most steps neither add nor take a task, and stage nothing.
LEMMA QuietStep ==
  ASSUME IInv, IInv', OnceInv, NEW w \in Workers,
         UNCHANGED queue, pc'[w] \notin InOwn \cup {"check"},
         \A v \in Workers \ {w} : pc'[v] = pc[v] /\ job'[v] = job[v],
         \A p \in Procs : staged'[p] \in {staged[p], None}
  PROVE  OnceInv'
<1>1. Waiting' = Waiting /\ QueueInv'
  BY DEF Waiting, OnceInv, QueueInv
<1>2. \A t \in Waiting : t.kind \in {"check", "load", "resize", "save"}
  BY WaitingTasks DEF IInv, Tasks
<1>3. ApartInv' /\ ResizeInv'
  BY <1>1, <1>2 DEF OnceInv, ApartInv, ResizeInv, InOwn
<1>4. LoadInv'
  <2>1. \A v \in Workers \ {w} :
          pc[v] = "decode" => job[v].proc \in Procs /\ staged'[job[v].proc] # None
    BY WorkerFacts DEF IInv, StagedInv
  <2> QED
    BY <1>1, <2>1 DEF OnceInv, LoadInv, InOwn
<1>5. AheadInv'
  <2>1. \A p, s, f : \A kind \in {"resize", "save"} : Ahead(p, kind, s, f)' => Ahead(p, kind, s, f)
    BY <1>1 DEF Ahead, InOwn
  <2> QED
    BY <2>1 DEF OnceInv, AheadInv
<1> QED
  BY <1>1, <1>3, <1>4, <1>5 DEF OnceInv

\* An upload adds its check task.
LEMMA RunOnce ==
  ASSUME IInv, OnceInv, NEW p \in Procs, NEW i \in Images, Run(p, i)
  PROVE  OnceInv'
<1> DEFINE t == Task(p, "check", None, None)
<1>1. t \in Tasks /\ t.proc = p /\ t.kind = "check"
  BY DEF Task, Tasks
<1>2. \A u \in Waiting : u.proc # p
  BY DEF Run, IInv, JobInv
<1>3. queue' = Append(queue, t) /\ UNCHANGED <<job, pc, staged>>
  BY DEF Run
<1>4. \A w \in Workers : job[w].proc # p
  BY ProcessingAssumption DEF Run, IInv, JobInv, TypeOK, NoTask, Task
<1> HIDE DEF t
<1>5. Waiting' = Waiting \cup {t} /\ QueueInv'
  BY <1>1, <1>2, <1>3, TaskAdded, NewTaskAdded DEF IInv, OnceInv
<1>6. ApartInv' /\ ResizeInv'
  BY <1>1, <1>3, <1>4, <1>5 DEF OnceInv, ApartInv, ResizeInv
<1>7. LoadInv'
  <2>1. \A w \in Workers : pc[w] \in {"load", "decode"} => job[w].proc # p
    BY <1>4
  <2> QED
    BY <1>1, <1>2, <1>3, <1>5, <2>1 DEF OnceInv, LoadInv
<1>8. AheadInv'
  <2>1. \A q, s, f : \A kind \in {"resize", "save"} : Ahead(q, kind, s, f)' => Ahead(q, kind, s, f)
    BY <1>1, <1>3, <1>5 DEF Ahead
  <2> QED
    BY <1>3, <2>1 DEF OnceInv, AheadInv
<1> QED
  BY <1>5, <1>6, <1>7, <1>8 DEF OnceInv

\* A worker takes a task, and is the only one to execute it.
LEMMA StartOnce ==
  ASSUME IInv, OnceInv, NEW w \in Workers, Start(w)
  PROVE  OnceInv'
<1> DEFINE t == Head(queue)
<1>1. /\ t \in Tasks /\ t \in Waiting /\ Waiting' = Waiting \ {t} /\ QueueInv'
  BY HeadTaken, HeadGone DEF Start, IInv, OnceInv
<1>2. t.kind \in {"check", "load", "resize", "save"} /\ t.proc \in Procs
  BY <1>1 DEF Tasks
<1>3. /\ pc[w] = "idle" /\ pc'[w] \in {t.kind, "end"} /\ job'[w] = t /\ UNCHANGED staged
      /\ \A v \in Workers \ {w} : pc'[v] = pc[v] /\ job'[v] = job[v]
  BY DEF Start, Goto, IInv, TypeOK
<1> HIDE DEF t
<1>4. ApartInv'
  BY <1>1, <1>2, <1>3 DEF OnceInv, ApartInv, InOwn
<1>5. LoadInv'
  <2>1. t.kind = "load" => /\ \A u \in Waiting' : u.proc # t.proc
                           /\ \A v \in Workers \ {w} : job[v].proc = t.proc => pc[v] \notin InOwn
    BY <1>1 DEF OnceInv, LoadInv
  <2>2. pc'[w] \in InOwn => /\ \A u \in Waiting' : u.kind = "load" => u.proc # t.proc
                            /\ \A v \in Workers \ {w} :
                                 pc[v] \in {"load", "decode"} => job[v].proc # t.proc
    BY <1>1 DEF OnceInv, LoadInv
  <2>3. pc'[w] # "decode" /\ (pc'[w] = "load" => t.kind = "load")
    BY <1>2, <1>3
  <2> QED
    BY <1>1, <1>3, <2>1, <2>2, <2>3 DEF OnceInv, LoadInv
<1>6. ResizeInv'
  BY <1>1, <1>2, <1>3 DEF OnceInv, ResizeInv
<1>7. AheadInv'
  <2>1. \A q, s, f : \A kind \in {"resize", "save"} : Ahead(q, kind, s, f)' => Ahead(q, kind, s, f)
    BY <1>1, <1>2, <1>3 DEF Ahead
  <2> QED
    BY <1>3, <2>1 DEF OnceInv, AheadInv
<1> QED
  BY <1>1, <1>4, <1>5, <1>6, <1>7 DEF OnceInv

\* The owner of an image adds its load task, the only one of its tasks.
LEMMA AgainOnce ==
  ASSUME IInv, IInv', OnceInv, NEW w \in Workers, Again(w)
  PROVE  OnceInv'
<1> DEFINE p == job[w].proc
<1> DEFINE t == Task(p, "load", None, None)
<1>1. /\ pc[w] = "again" /\ pc'[w] = "return" /\ UNCHANGED <<job, staged>>
      /\ \A v \in Workers \ {w} : pc'[v] = pc[v]
  BY DEF Again, Goto, IInv, TypeOK
<1>2. p \in Procs /\ (\A u \in Waiting : u.proc # p) /\ \A v \in Workers \ {w} : job[v].proc # p
  BY <1>1, WorkerFacts DEF IInv, CheckInv, InCheck
<1>3. CASE stored[image[p]] # None
  <2>1. UNCHANGED queue
    BY <1>3 DEF Again, Proc, ImageOf
  <2> QED
    BY <1>1, <2>1, QuietStep DEF InOwn
<1>4. CASE stored[image[p]] = None
  <2>1. t \in Tasks /\ t.proc = p /\ t.kind = "load" /\ queue' = Append(queue, t)
    BY <1>2, <1>4 DEF Task, Tasks, Again, Proc, ImageOf
  <2> HIDE DEF t
  <2>2. Waiting' = Waiting \cup {t} /\ QueueInv'
    BY <1>2, <2>1, TaskAdded, NewTaskAdded DEF IInv, OnceInv
  <2>3. \A u \in Waiting : u.kind \in {"check", "load", "resize", "save"}
    BY WaitingTasks DEF IInv, Tasks
  <2>4. ApartInv' /\ ResizeInv'
    BY <1>1, <1>2, <2>1, <2>2, <2>3 DEF OnceInv, ApartInv, ResizeInv, InOwn
  <2>5. LoadInv'
    <3>1. \A v \in Workers : pc'[v] \in InOwn => v # w /\ job[v].proc # p
      BY <1>1, <1>2 DEF InOwn
    <3> QED
      BY <1>1, <1>2, <2>1, <2>2, <3>1 DEF OnceInv, LoadInv, InOwn
  <2>6. AheadInv'
    <3>1. \A q, s, f : \A kind \in {"resize", "save"} :
            Ahead(q, kind, s, f)' => Ahead(q, kind, s, f)
      BY <1>1, <2>1, <2>2 DEF Ahead
    <3> QED
      BY <1>1, <3>1 DEF OnceInv, AheadInv
  <2> QED
    BY <2>2, <2>4, <2>5, <2>6 DEF OnceInv
<1> QED
  BY <1>3, <1>4

\* The original is staged, and the load task goes on.
LEMMA LoadOnce ==
  ASSUME IInv, OnceInv, NEW w \in Workers, Load(w)
  PROVE  OnceInv'
<1> DEFINE p == job[w].proc
<1>1. /\ pc[w] = "load" /\ pc'[w] = "decode" /\ UNCHANGED <<queue, job>>
      /\ \A v \in Workers \ {w} : pc'[v] = pc[v]
      /\ staged' = [staged EXCEPT ![p] = {<<None, None>>}]
  BY DEF Load, Goto, Proc, IInv, TypeOK
<1>2. Waiting' = Waiting /\ QueueInv' /\ p \in Procs
  BY <1>1, WorkerFacts DEF Waiting, OnceInv, QueueInv
<1>3. \A q \in Procs : staged'[q] = IF q = p THEN {<<None, None>>} ELSE staged[q]
  BY <1>1 DEF IInv, TypeOK
<1>4. \A v \in Workers \ {w} : job[v].proc = p => pc[v] \notin InOwn
  BY <1>1 DEF OnceInv, LoadInv
<1>5. ApartInv' /\ ResizeInv'
  <2>1. \A v \in Workers \ {w} : pc[v] = "decode" => job[v] # job[w]
    BY <1>4 DEF InOwn
  <2>2. \A t \in Waiting : t.kind # "decode"
    BY WaitingTasks DEF IInv, Tasks
  <2> QED
    BY <1>1, <1>2, <2>1, <2>2 DEF OnceInv, ApartInv, ResizeInv, InOwn
<1>6. LoadInv'
  <2>1. \A v \in Workers \ {w} : pc[v] = "decode" => job[v].proc \in Procs /\ job[v].proc # p
    BY <1>4, WorkerFacts DEF InOwn
  <2> QED
    BY <1>1, <1>2, <1>3, <2>1 DEF OnceInv, LoadInv, InOwn
<1>7. AheadInv'
  <2>1. \A q, s, f : \A kind \in {"resize", "save"} : Ahead(q, kind, s, f)' => Ahead(q, kind, s, f)
    BY <1>1, <1>2 DEF Ahead
  <2>2. \A s \in Range(Sizes), f \in Range(Formats) : <<s, f>> \notin {<<None, None>>}
    BY ProcessingAssumption
  <2> QED
    BY <1>3, <2>1, <2>2 DEF OnceInv, AheadInv
<1> QED
  BY <1>2, <1>5, <1>6, <1>7 DEF OnceInv

\* The load task adds the resize tasks.
LEMMA DecodeOnce ==
  ASSUME IInv, OnceInv, Distinct, NEW w \in Workers, Decode(w)
  PROVE  OnceInv'
<1> DEFINE p == job[w].proc
<1> DEFINE s == [k \in DOMAIN Sizes |-> Task(p, "resize", Sizes[k], None)]
<1>1. /\ pc[w] = "decode" /\ pc'[w] = "return" /\ UNCHANGED <<job, staged>>
      /\ \A v \in Workers \ {w} : pc'[v] = pc[v]
  BY DEF Decode, Goto, IInv, TypeOK
<1>2. p \in Procs
  BY <1>1, WorkerFacts
<1>3. /\ \A t \in Waiting : t.proc # p
      /\ \A v \in Workers \ {w} : job[v].proc = p => pc[v] \notin InOwn
      /\ staged[p] = {<<None, None>>}
  BY <1>1 DEF OnceInv, LoadInv
<1>4. /\ s \in Seq(Tasks) /\ IsInjective(s)
      /\ \A k \in DOMAIN s : s[k].proc = p /\ s[k].kind = "resize" /\ s[k].format = None
  <2>1. DOMAIN Sizes = 1..Len(Sizes) /\ Len(Sizes) \in Nat
    BY LenProperties, ProcessingAssumption
  <2>2. \A k \in DOMAIN Sizes : Sizes[k] \in Range(Sizes)
    BY DEF Range
  <2>3. \A k \in DOMAIN s : s[k].size = Sizes[k]
    BY DEF Task
  <2>4. IsInjective(s)
    BY <2>3 DEF Distinct, IsInjective
  <2> QED
    BY <1>2, <2>1, <2>2, <2>4 DEF Task, Tasks
<1>5. queue' = queue \o s
  BY DEF Decode, Proc
<1> HIDE DEF s
<1>6. QueueInv' /\ Waiting' = Waiting \cup {s[k] : k \in DOMAIN s}
  BY <1>2, <1>3, <1>4, <1>5, TasksAdded, NewTasksAdded DEF IInv, OnceInv
<1>7. \A t \in Waiting' : t \in Waiting \/ (t.proc = p /\ t.kind = "resize" /\ t.format = None)
  BY <1>4, <1>6
<1>8. ApartInv' /\ ResizeInv'
  <2>1. \A t \in Waiting : t.kind # "return"
    BY WaitingTasks DEF IInv, Tasks
  <2> QED
    BY <1>1, <1>3, <1>7, <2>1 DEF OnceInv, ApartInv, ResizeInv, InOwn
<1>9. LoadInv'
  <2>1. \A t \in Waiting' : t.kind = "load" => t \in Waiting /\ t.proc # p
    BY <1>3, <1>7
  <2>2. \A v \in Workers : pc'[v] \in InOwn => v # w /\ pc[v] = pc'[v] /\ job[v].proc # p
    BY <1>1, <1>3 DEF InOwn
  <2> QED
    BY <1>1, <1>7, <2>1, <2>2 DEF OnceInv, LoadInv, InOwn
<1>10. AheadInv'
  <2>1. \A q, z, f : /\ Ahead(q, "save", z, f)' => q # p /\ Ahead(q, "save", z, f)
                     /\ Ahead(q, "resize", z, None)' => q = p \/ Ahead(q, "resize", z, None)
    BY <1>1, <1>3, <1>7 DEF Ahead, InOwn
  <2>2. \A z \in Range(Sizes), f \in Range(Formats) : <<z, f>> \notin {<<None, None>>}
    BY ProcessingAssumption
  <2> QED
    BY <1>1, <1>3, <2>1, <2>2 DEF OnceInv, AheadInv
<1> QED
  BY <1>6, <1>8, <1>9, <1>10 DEF OnceInv

\* A resize task adds the save tasks of its size.
LEMMA ResizeOnce ==
  ASSUME IInv, OnceInv, Distinct, NEW w \in Workers, Resize(w)
  PROVE  OnceInv'
<1> DEFINE p == job[w].proc
<1> DEFINE z == job[w].size
<1> DEFINE s == [k \in DOMAIN Formats |-> Task(p, "save", z, Formats[k])]
<1>1. /\ pc[w] = "resize" /\ pc'[w] = "return" /\ UNCHANGED <<job, staged>>
      /\ \A v \in Workers \ {w} : pc'[v] = pc[v]
  BY DEF Resize, Goto, IInv, TypeOK
<1>2. /\ p \in Procs /\ job[w] \in Tasks /\ job[w].kind = "resize"
      /\ z \in Range(Sizes) /\ job[w].format = None
  BY <1>1, WorkerFacts DEF IInv, JobInv, Shape, OnceInv, ResizeInv
<1>3. \A f \in Range(Formats) :
        ~Ahead(p, "save", z, f) /\ (staged[p] # None => <<z, f>> \notin staged[p])
  <2>1. Ahead(p, "resize", z, None)
    BY <1>1, <1>2 DEF Ahead
  <2> QED
    BY <1>2, <2>1 DEF OnceInv, AheadInv
<1>4. /\ \A t \in Waiting : ~(t.proc = p /\ t.kind = "resize" /\ t.size = z /\ t.format = None)
      /\ \A v \in Workers \ {w} :
           ~(job[v].proc = p /\ pc[v] = "resize" /\ job[v].size = z /\ job[v].format = None)
  <2>1. \A t \in Waiting : ~(t.proc = p /\ t.kind = "resize" /\ t.size = z /\ t.format = None)
    BY <1>1, <1>2, SameTask, WaitingTasks DEF IInv, OnceInv, ApartInv
  <2>2. \A v \in Workers : pc[v] = "resize" => job[v] \in Tasks /\ job[v].kind = "resize"
    BY DEF IInv, JobInv
  <2> QED
    BY <1>1, <1>2, <2>1, <2>2, SameTask DEF OnceInv, ApartInv, InOwn
<1>5. /\ s \in Seq(Tasks) /\ IsInjective(s)
      /\ \A k \in DOMAIN s : /\ s[k].proc = p /\ s[k].kind = "save" /\ s[k].size = z
                             /\ s[k].format \in Range(Formats)
  <2>1. DOMAIN Formats = 1..Len(Formats) /\ Len(Formats) \in Nat
    BY LenProperties, ProcessingAssumption
  <2>2. \A k \in DOMAIN Formats : Formats[k] \in Range(Formats)
    BY DEF Range
  <2>3. \A k \in DOMAIN s : s[k].format = Formats[k]
    BY DEF Task
  <2>4. IsInjective(s)
    BY <2>3 DEF Distinct, IsInjective
  <2> QED
    BY <1>2, <2>1, <2>2, <2>4 DEF Task, Tasks
<1>6. queue' = queue \o s
  BY DEF Resize, Proc
<1>7. \A t \in Waiting : t.proc = p => t.kind \notin {"check", "load"}
  BY <1>1 DEF IInv, CheckInv, OnceInv, LoadInv, InOwn
<1> HIDE DEF s
<1>8. \A k \in DOMAIN s : s[k] \notin Waiting
  BY <1>3, <1>5 DEF Ahead
<1>9. QueueInv' /\ Waiting' = Waiting \cup {s[k] : k \in DOMAIN s}
  BY <1>2, <1>5, <1>6, <1>7, <1>8, TasksAdded, NewTasksAdded DEF IInv, OnceInv
<1>10. \A t \in Waiting' : \/ t \in Waiting
                           \/ /\ t.proc = p /\ t.kind = "save"
                              /\ t.size = z /\ t.format \in Range(Formats)
  BY <1>5, <1>9
<1> HIDE DEF z
<1>11. ApartInv' /\ ResizeInv'
  <2>1. \A t \in Waiting : t.kind # "return"
    BY WaitingTasks DEF IInv, Tasks
  <2>2. \A v \in Workers : pc'[v] = "save" => \A f \in Range(Formats) :
          ~(job[v].proc = p /\ job[v].size = z /\ job[v].format = f)
    BY <1>1, <1>3 DEF Ahead
  <2> QED
    BY <1>1, <1>10, <2>1, <2>2 DEF OnceInv, ApartInv, ResizeInv, InOwn
<1>12. LoadInv'
  <2>1. \A t \in Waiting' : t.kind = "load" => t \in Waiting /\ t.proc # p
    BY <1>7, <1>10
  <2>2. \A v \in Workers : pc[v] \in {"load", "decode"} => job[v].proc # p
    BY <1>1 DEF OnceInv, LoadInv, InOwn
  <2> QED
    BY <1>1, <1>10, <2>1, <2>2 DEF OnceInv, LoadInv, InOwn
<1>13. AheadInv'
  <2>1. \A q, y : Ahead(q, "resize", y, None)' => Ahead(q, "resize", y, None) /\ ~(q = p /\ y = z)
    BY <1>1, <1>4, <1>10 DEF Ahead
  <2>2. \A q, y, f : Ahead(q, "save", y, f)' => Ahead(q, "save", y, f) \/ (q = p /\ y = z)
    BY <1>1, <1>10 DEF Ahead
  <2> SUFFICES ASSUME NEW q \in Procs, NEW y \in Range(Sizes), NEW f \in Range(Formats)
               PROVE  /\ Ahead(q, "resize", y, None)' => ~Ahead(q, "save", y, f)'
                      /\ staged[q] # None /\ <<y, f>> \in staged[q] =>
                           ~Ahead(q, "resize", y, None)' /\ ~Ahead(q, "save", y, f)'
    BY <1>1 DEF AheadInv
  <2> QED
    BY <1>3, <2>1, <2>2 DEF OnceInv, AheadInv
<1> QED
  BY <1>9, <1>11, <1>12, <1>13 DEF OnceInv

\* A save task writes its file.
LEMMA SaveOnce ==
  ASSUME IInv, OnceInv, NEW w \in Workers, Save(w)
  PROVE  OnceInv'
<1> DEFINE p == job[w].proc
<1> DEFINE z == job[w].size
<1> DEFINE g == job[w].format
<1>1. /\ pc[w] = "save" /\ pc'[w] = "return" /\ UNCHANGED <<queue, job>>
      /\ \A v \in Workers \ {w} : pc'[v] = pc[v]
      /\ staged' = [staged EXCEPT ![p] = @ \cup {<<z, g>>}]
  BY DEF Save, Goto, Proc, IInv, TypeOK
<1>2. /\ p \in Procs /\ job[w] \in Tasks /\ job[w].kind = "save"
      /\ z \in Range(Sizes) /\ g \in Range(Formats) /\ staged[p] # None
  BY <1>1, WorkerFacts DEF IInv, JobInv, Shape, StagedInv
<1>3. Waiting' = Waiting /\ QueueInv'
  BY <1>1 DEF Waiting, OnceInv, QueueInv
<1>4. ApartInv' /\ ResizeInv'
  <2>1. \A t \in Waiting : t.kind # "return"
    BY WaitingTasks DEF IInv, Tasks
  <2> QED
    BY <1>1, <1>3, <2>1 DEF OnceInv, ApartInv, ResizeInv, InOwn
<1>5. LoadInv'
  <2>1. \A v \in Workers \ {w} : pc[v] = "decode" => job[v].proc \in Procs /\ job[v].proc # p
    BY <1>1, WorkerFacts DEF OnceInv, LoadInv, InOwn
  <2>2. \A q \in Procs : q # p => staged'[q] = staged[q]
    BY <1>1 DEF IInv, TypeOK
  <2> QED
    BY <1>1, <1>3, <2>1, <2>2 DEF OnceInv, LoadInv, InOwn
<1>6. AheadInv'
  <2>1. \A q, y, f : /\ Ahead(q, "resize", y, None)' => Ahead(q, "resize", y, None)
                     /\ Ahead(q, "save", y, f)' => Ahead(q, "save", y, f)
    BY <1>1, <1>3 DEF Ahead
  <2>2. ~Ahead(p, "resize", z, None)
    <3>1. Ahead(p, "save", z, g)
      BY <1>1 DEF Ahead
    <3> QED
      BY <1>2, <3>1 DEF OnceInv, AheadInv
  <2>3. \A q, y, f : q = p /\ y = z /\ f = g => ~Ahead(q, "save", y, f)'
    <3>1. \A t \in Waiting : ~(t.proc = p /\ t.kind = "save" /\ t.size = z /\ t.format = g)
      BY <1>1, <1>2, SameTask, WaitingTasks DEF IInv, OnceInv, ApartInv
    <3>2. \A v \in Workers \ {w} :
            ~(job[v].proc = p /\ pc[v] = "save" /\ job[v].size = z /\ job[v].format = g)
      <4>1. \A v \in Workers : pc[v] = "save" => job[v] \in Tasks /\ job[v].kind = "save"
        BY DEF IInv, JobInv
      <4> QED
        BY <1>1, <1>2, <4>1, SameTask DEF OnceInv, ApartInv, InOwn
    <3> QED
      BY <1>1, <1>3, <3>1, <3>2 DEF Ahead
  <2>4. \A q \in Procs : staged'[q] = IF q = p THEN staged[p] \cup {<<z, g>>} ELSE staged[q]
    BY <1>1 DEF IInv, TypeOK
  <2> HIDE DEF p, z, g
  <2> SUFFICES ASSUME NEW q \in Procs, NEW y \in Range(Sizes), NEW f \in Range(Formats)
               PROVE  /\ Ahead(q, "resize", y, None)' => ~Ahead(q, "save", y, f)'
                      /\ staged'[q] # None /\ <<y, f>> \in staged'[q] =>
                           ~Ahead(q, "resize", y, None)' /\ ~Ahead(q, "save", y, f)'
    BY DEF AheadInv
  <2>5. /\ Ahead(q, "resize", y, None) => ~Ahead(q, "save", y, f)
        /\ staged[q] # None /\ <<y, f>> \in staged[q] =>
             ~Ahead(q, "resize", y, None) /\ ~Ahead(q, "save", y, f)
    BY DEF OnceInv, AheadInv
  <2>6. CASE q = p /\ y = z /\ f = g
    BY <2>1, <2>2, <2>3, <2>6
  <2>7. CASE q # p
    BY <2>1, <2>4, <2>5, <2>7
  <2>8. CASE q = p /\ ~(y = z /\ f = g)
    <3>1. <<y, f>> \in staged'[q] => <<y, f>> \in staged[q]
      BY <2>4, <2>8
    <3> QED
      BY <1>2, <2>1, <2>5, <2>8, <3>1
  <2> QED
    BY <2>6, <2>7, <2>8
<1> QED
  BY <1>3, <1>4, <1>5, <1>6 DEF OnceInv

\* The invariant, when sizes and formats are distinct.
LEMMA StepOnce == Distinct /\ IInv /\ IInv' /\ OnceInv /\ [Next]_vars => OnceInv'
<1> SUFFICES ASSUME Distinct, IInv, IInv', OnceInv, [Next]_vars PROVE OnceInv'
  OBVIOUS
<1>1. ASSUME NEW p \in Procs, NEW i \in Images, Run(p, i) PROVE OnceInv'
  BY <1>1, RunOnce
<1>2. ASSUME NEW w \in Workers,
             Start(w) \/ Again(w) \/ Load(w) \/ Decode(w) \/ Resize(w) \/ Save(w)
      PROVE  OnceInv'
  BY <1>2, StartOnce, AgainOnce, LoadOnce, DecodeOnce, ResizeOnce, SaveOnce
<1>3. ASSUME NEW w \in Workers,
             \/ Check(w) \/ Claim(w) \/ Wait(w) \/ RecheckFinds(w) \/ RecheckThrows(w)
             \/ Return(w) \/ CommitCrashes(w) \/ Erase(w) \/ Notify(w) \/ Hook(w) \/ Fail(w)
      PROVE  OnceInv'
  <2>1. UNCHANGED <<queue, job, staged>>
    BY <1>3 DEF Check, Claim, Wait, RecheckFinds, RecheckThrows, Throw, Return, CommitCrashes,
         Erase, Notify, Hook, Fail
  <2>2. \E to \in Labels \ (InOwn \cup {"check"}) : pc' = [pc EXCEPT ![w] = to]
    BY <1>3 DEF Check, Claim, Wait, RecheckFinds, RecheckThrows, Throw, Return, CommitCrashes,
         Erase, Notify, Hook, Fail, Goto, FinalizeOk, FinalizeError, InOwn,
         Labels, InBody, InFinalize
  <2>3. pc'[w] \notin InOwn \cup {"check"} /\ \A v \in Workers \ {w} : pc'[v] = pc[v]
    BY <2>2 DEF IInv, TypeOK
  <2> QED
    BY <2>1, <2>3, QuietStep
<1>4. ASSUME NEW w \in Workers, Commit(w) \/ End(w) PROVE OnceInv'
  <2>1. UNCHANGED queue /\ \A p \in Procs : staged'[p] \in {staged[p], None}
    BY <1>4 DEF Commit, End, IInv, TypeOK
  <2>2. pc'[w] \in {"erase", "idle"} /\ \A v \in Workers \ {w} : pc'[v] = pc[v] /\ job'[v] = job[v]
    BY <1>4 DEF Commit, End, Goto, IInv, TypeOK
  <2> QED
    BY <2>1, <2>2, QuietStep DEF InOwn
<1>5. CASE UNCHANGED vars
  <2>1. UNCHANGED <<queue, job, pc, staged>> /\ Waiting' = Waiting
    BY <1>5 DEF vars, Waiting
  <2> QED
    BY <2>1 DEF OnceInv, QueueInv, ApartInv, LoadInv, ResizeInv, AheadInv, Ahead
<1> QED
  BY <1>1, <1>2, <1>3, <1>4, <1>5 DEF Next, WorkerStep, BodyStep, FinalizeStep

\* "The image processing code never attempts to create a file or folder with
\* the same name twice", if no format is configured twice.
THEOREM WrittenOnce == Distinct => (Spec => NoFileTwice)
<1>1. Init => OnceInv
  <2> SUFFICES ASSUME Init PROVE OnceInv
    OBVIOUS
  <2>1. DOMAIN queue = {} /\ Waiting = {} /\ \A w \in Workers : pc[w] = "idle"
    BY EmptySeq, LenProperties DEF Init, Waiting
  <2>2. \A p, s, f : ~Ahead(p, "resize", s, f) /\ ~Ahead(p, "save", s, f)
    BY <2>1 DEF Ahead
  <2> QED
    BY <2>1, <2>2 DEF OnceInv, QueueInv, ApartInv, LoadInv, ResizeInv, AheadInv, InOwn
<1>2. ASSUME IInv, OnceInv, NEW w \in Workers, pc[w] = "save"
      PROVE  <<job[w].size, job[w].format>> \notin staged[Proc(w)]
  <2>1. /\ job[w].proc \in Procs /\ staged[job[w].proc] # None
        /\ job[w].size \in Range(Sizes) /\ job[w].format \in Range(Formats)
    BY <1>2, WorkerFacts DEF IInv, JobInv, Shape, StagedInv
  <2>2. Ahead(job[w].proc, "save", job[w].size, job[w].format)
    BY <1>2 DEF Ahead
  <2> QED
    BY <1>2, <2>1, <2>2 DEF OnceInv, AheadInv, Proc
<1>3. IInv /\ OnceInv => \A w \in Workers : pc[w] = "save" /\ pc'[w] = "return" =>
                           <<job[w].size, job[w].format>> \notin staged[Proc(w)]
  BY <1>2
<1>4. Distinct /\ IInv /\ IInv' /\ OnceInv /\ [Next]_vars => OnceInv'
  BY StepOnce
<1> SUFFICES ASSUME Distinct PROVE Spec => NoFileTwice
  OBVIOUS
<1> QED
  BY <1>1, <1>3, <1>4, Invariance, PTL DEF Spec, NoFileTwice
=============================================================================
