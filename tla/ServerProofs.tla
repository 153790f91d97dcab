----------------------------- MODULE ServerProofs -----------------------------
(***************************************************************************)
(* Proofs about Server, for any number of threads, uploads and images:     *)
(* what a task may find gone while the process ends, that it leaves no     *)
(* staged folder behind, and that nothing blocks its end but an orphan or  *)
(* a worker that has slept through notify_all.                             *)
(***************************************************************************)
EXTENDS Server, SequenceTheorems, FiniteSetTheorems, TLAPS

-----------------------------------------------------------------------------
(* The order in which parts are built and taken down.                       *)

\* What is built after 0, 1, ... parts.
Prefixes == {{}, {"config"}, {"config", "pool"}, {"config", "pool", "map"},
             {"config", "pool", "map", "image"}, Parts}

\* There are five parts.
LEMMA FiveParts ==
  /\ Parts = {"config", "pool", "map", "image", "io"}
  /\ Order[1] = "config" /\ Order[2] = "pool" /\ Order[3] = "map"
  /\ Order[4] = "image" /\ Order[5] = "io"
BY DEF Parts, Order, Range

\* The next part makes the next prefix.
LEMMA BuildsInOrder ==
  ASSUME NEW parts \in Prefixes, parts # Parts
  PROVE  parts \cup {Order[Cardinality(parts) + 1]} \in Prefixes
<1> DEFINE C == {"config"}
<1> DEFINE P == C \cup {"pool"}
<1> DEFINE M == P \cup {"map"}
<1> DEFINE I == M \cup {"image"}
<1>1. Cardinality({}) = 0 /\ IsFiniteSet({})
  BY FS_EmptySet
<1>2. Cardinality(C) = 1 /\ IsFiniteSet(C)
  BY FS_Singleton
<1>3. Cardinality(P) = 2 /\ IsFiniteSet(P)
  BY <1>2, FS_AddElement
<1>4. Cardinality(M) = 3 /\ IsFiniteSet(M)
  BY <1>3, FS_AddElement
<1>5. Cardinality(I) = 4
  BY <1>4, FS_AddElement
<1>6. P = {"config", "pool"} /\ M = {"config", "pool", "map"} /\ I = {"config", "pool", "map", "image"}
  OBVIOUS
<1>7. I \cup {"io"} = Parts
  BY FiveParts
<1> HIDE DEF C, P, M, I
<1> QED
  BY <1>1, <1>2, <1>3, <1>4, <1>5, <1>6, <1>7, FiveParts DEF Prefixes, C, P, M, I

\* A part goes after those that were built after it.  An exception skips the
\* destruction of the image libraries.
LEMMA FallsInOrder ==
  ASSUME NEW p, Falls(p)
  PROVE  /\ main = "ending" /\ p \in built
         /\ p \in {"io", "map", "pool", "config"} => "image" \notin built \/ failed
         /\ p \in {"map", "pool", "config"} => "io" \notin built
         /\ p \in {"pool", "config"} => "map" \notin built
         /\ p = "config" => "pool" \notin built
         /\ p = "image" => ~failed
<1> DEFINE parts == built \ (IF failed THEN {"image"} ELSE {})
<1>1. main = "ending" /\ p \in parts
  BY DEF Falls, LastOf
<1>2. \A k \in 1..5 : Down[k] \in parts => \E j \in 1..k : Down[j] = p
  BY DEF Falls, LastOf, Down
<1>3. Down[1] \in parts => p = Down[1]
  BY <1>2
<1>4. Down[2] \in parts => p \in {Down[1], Down[2]}
  BY <1>2
<1>5. Down[3] \in parts => p \in {Down[1], Down[2], Down[3]}
  BY <1>2
<1>6. Down[4] \in parts => p \in {Down[1], Down[2], Down[3], Down[4]}
  BY <1>2
<1> QED
  BY <1>1, <1>3, <1>4, <1>5, <1>6 DEF Down

\* While there are parts to take down, one of them is next.
LEMMA SomethingFalls ==
  ASSUME built \subseteq Parts, main = "ending", \A p \in Parts : ~Falls(p)
  PROVE  built \subseteq {"image"} /\ (~failed => built = {})
<1> DEFINE parts == built \ (IF failed THEN {"image"} ELSE {})
<1>1. ASSUME parts # {} PROVE FALSE
  <2>1. DOMAIN Down = 1..5 /\ \A p \in Parts : \E k \in 1..5 : Down[k] = p
    BY FiveParts DEF Down
  <2>2. PICK k \in 1..5 : Down[k] \in parts /\ \A j \in 1..k - 1 : Down[j] \notin parts
    <3>1. Down[1] \in parts \/ Down[2] \in parts \/ Down[3] \in parts
          \/ Down[4] \in parts \/ Down[5] \in parts
      BY <1>1, <2>1
    <3> QED
      BY <3>1
  <2>3. LastOf(parts, Down[k])
    <3> SUFFICES ASSUME NEW l \in 1..5, Down[l] \in parts PROVE k \in 1..l
      BY <2>1, <2>2 DEF LastOf
    <3> QED
      BY <2>2
  <2>4. Down[k] \in Parts
    BY <2>2
  <2> QED
    BY <2>3, <2>4 DEF Falls
<1> QED
  BY <1>1

-----------------------------------------------------------------------------
(* The inductive invariant.                                                 *)

\* Where a worker can be.
Labels == Stages \cup {"idle", "claim", "again", "wait", "finalize", "hook", "respond", "end"}

\* Every variable has its type.
TypeOK ==
  /\ main \in {"building", "serving", "ending", "exited", "killed"}
  /\ built \subseteq Parts
  /\ failed \in BOOLEAN
  /\ submitted \in Seq(Tasks)
  /\ started \in 0..Len(submitted)
  /\ job \in [Workers -> Tasks \cup {NoTask}]
  /\ open \in BOOLEAN
  /\ shutdown \in BOOLEAN /\ notified \in BOOLEAN /\ late \in BOOLEAN
  /\ asleep \subseteq Workers
  /\ pc \in [Workers -> Labels]
  /\ image \in [Uploads -> Images \cup {None}]
  /\ owner \in [Images -> Uploads \cup {None}]
  /\ notifier \in [Uploads -> Uploads \cup {None}]
  /\ done \subseteq Uploads /\ staged \subseteq Uploads /\ connected \subseteq Uploads
  /\ stored \subseteq Images
  /\ missed \subseteq Parts

\* Nothing was ever uploaded.
Unused ==
  /\ submitted = <<>>
  /\ staged = {} /\ connected = {} /\ missed = {}

\* The stages of the process.
LifeInv ==
  /\ main = "building" => built \in Prefixes \ {Parts} /\ ~failed /\ open /\ Unused
  /\ main = "serving" => built = Parts /\ ~failed /\ open /\ missed = {}
  /\ main = "exited" => "pool" \notin built

\* The parts: the pool needs the configuration, and is there until its threads
\* are joined if it was ever used; connections need the io context; when an
\* exception ends the service the image libraries stay.
PartsInv ==
  /\ "pool" \in built => "config" \in built
  /\ Unused \/ (open => "pool" \in built)
  /\ connected # {} => "io" \in built
  /\ main = "ending" /\ failed => Unused \/ "image" \in built

\* Tasks are of uploads that came in, a worker that is not idle has one, and
\* once the threads are joined none has.
JobInv ==
  /\ \A k \in DOMAIN submitted : image[submitted[k][1]] # None
  /\ \A w \in Workers :
       IF pc[w] = "idle" THEN job[w] = NoTask
       ELSE job[w] \in Tasks /\ image[job[w][1]] # None /\ open /\ submitted # <<>>

\* The inductive invariant.
IInv == TypeOK /\ LifeInv /\ PartsInv /\ JobInv /\ MissedOnlyAtTheEnd

\* It holds before anything is built.
LEMMA InitInv == Init => IInv
<1> SUFFICES ASSUME Init PROVE IInv
  OBVIOUS
<1>1. submitted = <<>> /\ submitted \in Seq(Tasks) /\ Len(submitted) = 0 /\ DOMAIN submitted = {}
  BY EmptySeq, LenProperties DEF Init, Pool!Init
<1>2. TypeOK
  <2>1. started \in 0..Len(submitted)
    BY <1>1 DEF Init, Pool!Init
  <2> QED
    BY <1>1, <2>1 DEF Init, Pool!Init, TypeOK, Labels
<1>3. {} # Parts
  BY FiveParts
<1>4. LifeInv /\ PartsInv
  BY <1>1, <1>3 DEF Init, Pool!Init, LifeInv, PartsInv, Unused, Prefixes
<1>5. JobInv /\ MissedOnlyAtTheEnd
  BY <1>1 DEF Init, Pool!Init, JobInv, MissedOnlyAtTheEnd
<1> QED
  BY <1>2, <1>4, <1>5 DEF IInv

-----------------------------------------------------------------------------
(* Steps of the main thread.                                                *)

\* The next part is built.
LEMMA BuildStep == ASSUME IInv, Build PROVE IInv'
<1>1. built \in Prefixes \ {Parts} /\ built' \in Prefixes
  BY BuildsInOrder DEF Build, IInv, LifeInv
<1>2. \A parts \in Prefixes : parts \subseteq Parts /\ ("pool" \in parts => "config" \in parts)
  BY FiveParts DEF Prefixes
<1>3. main' = (IF built' = Parts THEN "serving" ELSE "building")
  BY DEF Build
<1>4. UNCHANGED <<failed, submitted, started, job, open, shutdown, notified, late, asleep, pc,
                  image, owner, notifier, done, staged, stored, connected, missed>> /\ Unused /\ Unused' /\ ~failed /\ open
  BY DEF Build, pool, flags, work, IInv, LifeInv, Unused
<1>5. TypeOK'
  BY <1>1, <1>2, <1>3, <1>4 DEF IInv, TypeOK
<1>6. LifeInv' /\ PartsInv'
  BY <1>1, <1>2, <1>3, <1>4 DEF LifeInv, PartsInv, Unused
<1>7. JobInv' /\ MissedOnlyAtTheEnd'
  BY <1>4 DEF IInv, JobInv, MissedOnlyAtTheEnd, Unused
<1> QED
  BY <1>5, <1>6, <1>7 DEF IInv

\* Building fails, or the service ends.
LEMMA EndingStep == ASSUME IInv, BuildFails \/ Stop PROVE IInv'
<1>1. /\ main \in {"building", "serving"} /\ main' \in {"ending", "killed"} /\ failed' \in BOOLEAN
      /\ main = "building" => failed' = TRUE
      /\ UNCHANGED <<built, submitted, started, job, open, shutdown, notified, late, asleep, pc,
                     image, owner, notifier, done, staged, stored, connected, missed>>
  BY DEF BuildFails, Stop, pool, flags, work
<1>2. missed = {} /\ (main = "building" => Unused) /\ (main = "serving" => "image" \in built)
  BY <1>1, FiveParts DEF IInv, LifeInv, Unused
<1>3. TypeOK'
  BY <1>1 DEF IInv, TypeOK
<1>4. LifeInv' /\ PartsInv'
  BY <1>1, <1>2 DEF IInv, LifeInv, PartsInv, Unused
<1>5. JobInv' /\ MissedOnlyAtTheEnd'
  BY <1>1, <1>2 DEF IInv, JobInv, MissedOnlyAtTheEnd
<1> QED
  BY <1>3, <1>4, <1>5 DEF IInv

\* An upload comes in.
LEMMA UploadStep ==
  ASSUME IInv, NEW u \in Uploads, NEW i \in Images, Upload(u, i) PROVE IInv'
<1> DEFINE t == <<u, "check">>
<1>1. t \in Tasks
  BY DEF Tasks, Stages
<1>2. /\ submitted' = Append(submitted, t) /\ submitted' \in Seq(Tasks)
      /\ Len(submitted') = Len(submitted) + 1 /\ submitted' # <<>>
      /\ \A k \in DOMAIN submitted' :
           \/ k \in DOMAIN submitted /\ submitted'[k] = submitted[k]
           \/ submitted'[k] = t
  BY <1>1, AppendProperties, LenProperties DEF Upload, Pool!Submit, IInv, TypeOK
<1>3. \A v \in Uploads : image[v] # None => image'[v] = image[v]
  BY DEF Upload, IInv, TypeOK
<1>4. image'[u] # None /\ main = "serving" /\ "io" \in built /\ "pool" \in built
      /\ built = Parts /\ open /\ ~failed /\ missed = {}
  BY FiveParts, ServerAssumption DEF Upload, IInv, LifeInv, TypeOK
<1>5. UNCHANGED <<main, built, failed, started, job, open, shutdown, notified, late, asleep, pc,
                  owner, notifier, done, staged, stored, missed>>
      /\ image' = [image EXCEPT ![u] = i] /\ connected' = connected \cup {u}
  BY DEF Upload, Pool!Submit, flags
<1>6. TypeOK'
  <2>1. started \in 0..Len(submitted')
    BY <1>2, LenProperties DEF IInv, TypeOK
  <2> QED
    BY <1>2, <1>5, <2>1 DEF IInv, TypeOK
<1>7. LifeInv' /\ PartsInv'
  BY <1>4, <1>5 DEF IInv, LifeInv, PartsInv
<1>8. JobInv'
  <2>1. \A k \in DOMAIN submitted : submitted[k][1] \in Uploads
    BY ElementOfSeq DEF IInv, TypeOK, Tasks
  <2>2. \A k \in DOMAIN submitted' : image'[submitted'[k][1]] # None
    BY <1>2, <1>3, <1>4, <2>1 DEF IInv, JobInv
  <2>3. \A w \in Workers : job[w] \in Tasks => job[w][1] \in Uploads
    BY DEF Tasks
  <2> QED
    BY <1>2, <1>3, <1>5, <2>2, <2>3 DEF IInv, JobInv
<1>9. MissedOnlyAtTheEnd'
  BY <1>3, <1>4, <1>5 DEF IInv, MissedOnlyAtTheEnd
<1> QED
  BY <1>6, <1>7, <1>8, <1>9 DEF IInv

\* A part that is not the pool goes away, and connections with the io context.
LEMMA DestroyStep == ASSUME IInv, NEW p \in Parts, Destroy(p) PROVE IInv'
<1>1. /\ p # "pool" /\ main = "ending"
      /\ p = "config" => "pool" \notin built
      /\ p = "image" => ~failed
  BY FallsInOrder DEF Destroy
<1>2. /\ built' = built \ {p} /\ connected' = IF p = "io" THEN {} ELSE connected
      /\ UNCHANGED <<main, failed, submitted, started, job, open, shutdown, notified, late, asleep,
                     pc, image, owner, notifier, done, staged, stored, missed>>
  BY DEF Destroy, pool, flags, work
<1>3. Unused => Unused'
  BY <1>2 DEF Unused
<1>4. TypeOK'
  BY <1>2 DEF IInv, TypeOK
<1>5. LifeInv' /\ PartsInv'
  BY <1>1, <1>2, <1>3 DEF IInv, LifeInv, PartsInv
<1>6. JobInv' /\ MissedOnlyAtTheEnd'
  BY <1>2 DEF IInv, JobInv, MissedOnlyAtTheEnd
<1> QED
  BY <1>4, <1>5, <1>6 DEF IInv

\* The pool is told to stop.
LEMMA StoppingStep == ASSUME IInv, StoreShutdown \/ NotifyAll PROVE IInv'
<1>1. /\ shutdown' = TRUE /\ notified' \in BOOLEAN /\ late' \in BOOLEAN /\ asleep' \subseteq Workers
      /\ UNCHANGED <<main, built, failed, submitted, started, job, open, pc, image, owner,
                     notifier, done, staged, stored, connected, missed>>
  BY DEF StoreShutdown, NotifyAll, pool, work, IInv, TypeOK
<1>2. TypeOK'
  BY <1>1 DEF IInv, TypeOK
<1>3. LifeInv' /\ PartsInv' /\ JobInv' /\ MissedOnlyAtTheEnd'
  BY <1>1 DEF IInv, LifeInv, PartsInv, JobInv, MissedOnlyAtTheEnd, Unused
<1> QED
  BY <1>2, <1>3 DEF IInv

\* Its threads are joined, when none has a task.
LEMMA JoinStep == ASSUME IInv, Join PROVE IInv'
<1>1. main = "ending" /\ built' = built \ {"pool"} /\ open' = FALSE /\ staged' \subseteq staged
      /\ \A w \in Workers : job[w] = NoTask
  BY FallsInOrder DEF Join, Pool!Close
<1>2. UNCHANGED <<main, failed, submitted, started, job, shutdown, notified, late, asleep, pc,
                  image, owner, notifier, done, stored, connected, missed>>
  BY DEF Join, Pool!Close, flags
<1>3. \A w \in Workers : pc[w] = "idle"
  BY <1>1, ServerAssumption DEF IInv, JobInv
<1>4. TypeOK'
  BY <1>1, <1>2 DEF IInv, TypeOK
<1>5. LifeInv' /\ PartsInv'
  BY <1>1, <1>2 DEF IInv, LifeInv, PartsInv, Unused
<1>6. JobInv' /\ MissedOnlyAtTheEnd'
  BY <1>1, <1>2, <1>3 DEF IInv, JobInv, MissedOnlyAtTheEnd
<1> QED
  BY <1>4, <1>5, <1>6 DEF IInv

\* main returns when nothing is left to take down.
LEMMA ExitStep == ASSUME IInv, Exit PROVE IInv'
<1>1. main = "ending" /\ main' = "exited"
      /\ UNCHANGED <<built, failed, submitted, started, job, open, shutdown, notified, late,
                     asleep, pc, image, owner, notifier, done, staged, stored, connected, missed>>
  BY DEF Exit, pool, flags, work
<1>2. "pool" \notin built
  BY SomethingFalls DEF Exit, IInv, TypeOK
<1>3. TypeOK'
  BY <1>1 DEF IInv, TypeOK
<1>4. LifeInv' /\ PartsInv'
  BY <1>1, <1>2 DEF IInv, LifeInv, PartsInv, Unused
<1>5. JobInv' /\ MissedOnlyAtTheEnd'
  BY <1>1 DEF IInv, JobInv, MissedOnlyAtTheEnd
<1> QED
  BY <1>3, <1>4, <1>5 DEF IInv

-----------------------------------------------------------------------------
(* Steps of the workers.                                                    *)

\* While a worker has a task, configuration and pool are there, all parts when
\* the server serves, and the image libraries after an exception.
LEMMA BusyFacts ==
  ASSUME IInv, NEW w \in Workers, pc[w] # "idle", main \notin {"exited", "killed"}
  PROVE  /\ UploadOf(w) \in Uploads /\ ImageOf(w) \in Images
         /\ open /\ submitted # <<>> /\ ~Unused
         /\ {"config", "pool"} \subseteq built
         /\ main = "serving" \/ main = "ending"
         /\ main = "serving" => built = Parts /\ missed = {}
         /\ main = "ending" /\ failed => "image" \in built
<1>1. job[w] \in Tasks /\ image[job[w][1]] # None /\ open /\ submitted # <<>>
  BY DEF IInv, JobInv
<1>2. UploadOf(w) \in Uploads /\ ImageOf(w) \in Images
  BY <1>1 DEF IInv, TypeOK, Tasks, UploadOf, ImageOf
<1>3. ~Unused
  BY <1>1 DEF Unused
<1> QED
  BY <1>1, <1>2, <1>3 DEF IInv, TypeOK, LifeInv, PartsInv

\* A task that is added to the pool.
LEMMA SubmitFacts ==
  ASSUME IInv, NEW t \in Tasks, Pool!Submit(t), image[t[1]] # None
  PROVE  /\ submitted' \in Seq(Tasks) /\ submitted' # <<>> /\ started' \in 0..Len(submitted')
         /\ \A k \in DOMAIN submitted' : image[submitted'[k][1]] # None
         /\ UNCHANGED <<started, job, open>>
<1>1. submitted \in Seq(Tasks) /\ submitted' = Append(submitted, t) /\ UNCHANGED <<started, job,
                                                                                   open>>
  BY DEF Pool!Submit, IInv, TypeOK
<1>2. /\ submitted' \in Seq(Tasks) /\ Len(submitted') = Len(submitted) + 1 /\ submitted' # <<>>
      /\ \A k \in DOMAIN submitted' :
           \/ k \in DOMAIN submitted /\ submitted'[k] = submitted[k]
           \/ submitted'[k] = t
  BY <1>1, AppendProperties, LenProperties
<1>3. started' \in 0..Len(submitted')
  BY <1>1, <1>2, LenProperties DEF IInv, TypeOK
<1> QED
  BY <1>1, <1>2, <1>3 DEF IInv, JobInv

\* A worker goes on with its task, and uses parts.
LEMMA BusyStep ==
  ASSUME IInv, NEW w \in Workers, NEW from, NEW to, from # "idle", to # "idle", Goto(w, from, to),
         UNCHANGED <<main, built, failed, job, open, image, connected>>,
         missed' = missed \/ \E parts \in SUBSET Parts : Uses(parts),
         TypeOK',
         submitted' # <<>>, \A k \in DOMAIN submitted' : image[submitted'[k][1]] # None
  PROVE  IInv'
<1>1. /\ pc[w] # "idle" /\ main \notin {"exited", "killed"}
      /\ \A v \in Workers : pc'[v] = "idle" <=> pc[v] = "idle"
  BY DEF Goto, IInv, TypeOK
<1>2. missed \subseteq missed' /\ missed' \subseteq missed \cup (Parts \ built)
  BY DEF Uses
<1>3. /\ open /\ submitted # <<>> /\ ~Unused /\ {"config", "pool"} \subseteq built
      /\ main = "serving" => built = Parts /\ missed = {}
      /\ main = "ending" /\ failed => "image" \in built
      /\ main = "serving" \/ main = "ending"
      /\ UploadOf(w) \in Uploads /\ image[UploadOf(w)] # None
  BY <1>1, BusyFacts, ServerAssumption DEF ImageOf
<1>4. LifeInv' /\ PartsInv'
  BY <1>2, <1>3 DEF IInv, LifeInv, PartsInv
<1>5. JobInv'
  BY <1>1, <1>3 DEF IInv, JobInv
<1>6. MissedOnlyAtTheEnd'
  BY <1>2, <1>3 DEF IInv, MissedOnlyAtTheEnd
<1> QED
  BY <1>4, <1>5, <1>6 DEF IInv

\* A worker that is not idle.
LEMMA Submitted ==
  ASSUME IInv, NEW w \in Workers, pc[w] # "idle"
  PROVE  submitted # <<>> /\ \A k \in DOMAIN submitted : image[submitted[k][1]] # None
BY DEF IInv, JobInv

\* Steps that change no more than pc, the map and missed.
LEMMA PlainStep ==
  ASSUME IInv, NEW w \in Workers,
         Check(w) \/ Claim(w) \/ Save(w) \/ Hook(w) \/ Respond(w)
  PROVE  IInv'
<1>1. UNCHANGED <<main, built, failed, submitted, started, job, open, shutdown, notified, late,
                  asleep, image, done, staged, stored, connected>>
  BY DEF Check, Claim, Save, Hook, Respond, pool, flags
<1>2. \E from, to \in Labels \ {"idle"} : Goto(w, from, to)
  BY DEF Check, Claim, Save, Hook, Respond, Stages, Labels
<1>3. missed' = missed \/ \E parts \in SUBSET Parts : Uses(parts)
  <2>1. {"config"} \subseteq Parts /\ {"map"} \subseteq Parts
        /\ {"config", "image"} \subseteq Parts /\ {"io"} \subseteq Parts
    BY FiveParts
  <2> QED
    BY <2>1 DEF Check, Claim, Save, Hook, Respond
<1>4. TypeOK'
  <2>1. missed' \subseteq Parts
    BY <1>3 DEF Uses, IInv, TypeOK
  <2>2. pc' \in [Workers -> Labels]
    BY <1>2 DEF Goto, IInv, TypeOK
  <2>3. UploadOf(w) \in Uploads /\ ImageOf(w) \in Images
    BY <1>2, BusyFacts DEF Goto
  <2>4. /\ owner' \in [Images -> Uploads \cup {None}]
        /\ notifier' \in [Uploads -> Uploads \cup {None}]
    <3>1. CASE Claim(w)
      BY <2>3, <3>1 DEF Claim, IInv, TypeOK
    <3>2. CASE UNCHANGED <<owner, notifier>>
      BY <3>2 DEF IInv, TypeOK
    <3> QED
      BY <3>1, <3>2 DEF Check, Save, Hook, Respond
  <2> QED
    BY <1>1, <2>1, <2>2, <2>4 DEF IInv, TypeOK
<1>6. submitted # <<>> /\ \A k \in DOMAIN submitted : image[submitted[k][1]] # None
  BY <1>2, Submitted DEF Goto
<1> QED
  BY <1>1, <1>2, <1>3, <1>4, <1>6, BusyStep

\* A new image is known, or its folder staged, and the next stage added.
LEMMA AddingStep ==
  ASSUME IInv, NEW w \in Workers, Again(w) \/ Load(w)
  PROVE  IInv'
<1>1. UNCHANGED <<main, built, failed, shutdown, notified, late, image, owner, notifier, done,
                  stored, connected>> /\ asleep' = {}
  BY DEF Again, Load, Submit
<1>2. PICK from \in Labels \ {"idle"} : Goto(w, from, "end")
  BY DEF Again, Load, Stages, Labels
<1>3. \E parts \in SUBSET Parts : Uses(parts)
  <2>1. {"config", "pool"} \subseteq Parts /\ {"config", "image", "pool"} \subseteq Parts
    BY FiveParts
  <2> QED
    BY <2>1 DEF Again, Load
<1>4. UploadOf(w) \in Uploads /\ ImageOf(w) \in Images
  BY <1>2, BusyFacts DEF Goto
<1>5. \E s \in Stages : Pool!Submit(<<UploadOf(w), s>>)
  BY DEF Again, Load, Submit, Stages
<1>6. /\ submitted' \in Seq(Tasks) /\ submitted' # <<>> /\ started' \in 0..Len(submitted')
      /\ \A k \in DOMAIN submitted' : image[submitted'[k][1]] # None
      /\ UNCHANGED <<started, job, open>>
  <2>1. PICK s \in Stages : Pool!Submit(<<UploadOf(w), s>>)
    BY <1>5
  <2>2. <<UploadOf(w), s>> \in Tasks /\ image[<<UploadOf(w), s>>[1]] # None
    BY <1>4, ServerAssumption DEF Tasks, ImageOf
  <2> QED
    BY <2>1, <2>2, SubmitFacts
<1>7. TypeOK'
  <2>1. missed' \subseteq Parts
    BY <1>3 DEF Uses, IInv, TypeOK
  <2>2. pc' \in [Workers -> Labels]
    BY <1>2 DEF Goto, IInv, TypeOK, Labels
  <2>3. staged' \subseteq Uploads
    BY <1>4 DEF Again, Load, IInv, TypeOK
  <2> QED
    BY <1>1, <1>6, <2>1, <2>2, <2>3 DEF IInv, TypeOK
<1> QED
  BY <1>1, <1>2, <1>3, <1>6, <1>7, BusyStep

\* The owner of an image commits it, and wakes those who wait for it.
LEMMA FinalizeStep == ASSUME IInv, NEW w \in Workers, Finalize(w) PROVE IInv'
<1>1. UNCHANGED <<main, built, failed, submitted, started, job, open, shutdown, notified, late,
                  asleep, image, notifier, connected>>
  BY DEF Finalize, pool, flags
<1>2. Goto(w, "finalize", "hook") /\ pc[w] # "idle" /\ main \notin {"exited", "killed"}
  BY DEF Finalize, Goto
<1>3. \E parts \in SUBSET Parts : Uses(parts)
  <2>1. {"config", "map"} \subseteq Parts
    BY FiveParts
  <2> QED
    BY <2>1 DEF Finalize
<1>4. UploadOf(w) \in Uploads /\ ImageOf(w) \in Images
  BY <1>2, BusyFacts
<1>5. TypeOK'
  <2>1. missed' \subseteq Parts
    BY <1>3 DEF Uses, IInv, TypeOK
  <2> QED
    BY <1>1, <1>2, <1>4, <2>1 DEF Finalize, Goto, IInv, TypeOK, Labels
<1>7. submitted # <<>> /\ \A k \in DOMAIN submitted : image[submitted[k][1]] # None
  BY <1>2, Submitted
<1> QED
  BY <1>1, <1>2, <1>3, <1>5, <1>7, BusyStep

\* A worker takes the next task.
LEMMA StartStep == ASSUME IInv, NEW w \in Workers, Start(w) PROVE IInv'
<1> DEFINE t == submitted[started + 1]
<1>1. started + 1 \in DOMAIN submitted /\ started + 1 \in 0..Len(submitted) /\ submitted # <<>>
  <2>1. started \in Nat /\ started < Len(submitted) /\ Len(submitted) \in Nat
    BY LenProperties DEF Start, IInv, TypeOK
  <2> QED
    BY <2>1, LenProperties, EmptySeq DEF IInv, TypeOK
<1>2. t \in Tasks /\ t[2] \in Stages /\ image[t[1]] # None
  BY <1>1, ElementOfSeq DEF IInv, TypeOK, JobInv, Tasks
<1>3. /\ pc[w] = "idle" /\ pc' = [pc EXCEPT ![w] = t[2]] /\ open
      /\ job' = [job EXCEPT ![w] = t] /\ started' = started + 1 /\ late' = shutdown
      /\ UNCHANGED <<main, built, failed, submitted, open, shutdown, notified, asleep, image,
                     owner, notifier, done, staged, stored, connected, missed>>
  BY DEF Start, Goto, Pool!Start
<1> HIDE DEF t
<1>4. TypeOK'
  BY <1>1, <1>2, <1>3 DEF IInv, TypeOK, Labels
<1>5. LifeInv' /\ PartsInv'
  BY <1>3 DEF IInv, LifeInv, PartsInv, Unused
<1>6. JobInv'
  BY <1>1, <1>2, <1>3 DEF IInv, TypeOK, JobInv, Stages
<1>7. MissedOnlyAtTheEnd'
  BY <1>3 DEF IInv, MissedOnlyAtTheEnd
<1> QED
  BY <1>4, <1>5, <1>6, <1>7 DEF IInv

\* And ends it.
LEMMA FinishStep == ASSUME IInv, NEW w \in Workers, Finish(w) PROVE IInv'
<1>1. /\ pc' = [pc EXCEPT ![w] = "idle"] /\ job' = [job EXCEPT ![w] = NoTask]
      /\ UNCHANGED <<main, built, failed, submitted, started, open, shutdown, notified, late,
                     asleep, image, owner, notifier, done, staged, stored, connected, missed>>
  BY DEF Finish, Goto, Pool!Finish, flags
<1>2. TypeOK'
  BY <1>1 DEF IInv, TypeOK, Labels
<1>3. LifeInv' /\ PartsInv'
  BY <1>1 DEF IInv, LifeInv, PartsInv, Unused
<1>4. JobInv' /\ MissedOnlyAtTheEnd'
  BY <1>1 DEF IInv, TypeOK, JobInv, MissedOnlyAtTheEnd
<1> QED
  BY <1>2, <1>3, <1>4 DEF IInv

\* A waiter that goes on takes the process with it.
LEMMA DieStep == ASSUME IInv, NEW w \in Workers, Die(w) PROVE IInv'
<1>1. pc[w] # "idle" /\ main \notin {"exited", "killed"} /\ pc' = [pc EXCEPT ![w] = "end"]
      /\ main' = "killed" /\ Uses({"config"})
      /\ UNCHANGED <<built, failed, submitted, started, job, open, shutdown, notified, late,
                     asleep, image, owner, notifier, done, staged, stored, connected>>
  BY DEF Die, Goto, pool, flags
<1>2. "config" \in built
  BY <1>1, BusyFacts
<1>3. missed' = missed
  BY <1>1, <1>2 DEF Uses
<1>4. TypeOK'
  BY <1>1, <1>3 DEF IInv, TypeOK, Labels
<1>5. LifeInv' /\ PartsInv'
  BY <1>1, <1>3 DEF IInv, LifeInv, PartsInv, Unused
<1>6. JobInv' /\ MissedOnlyAtTheEnd'
  BY <1>1, <1>3 DEF IInv, TypeOK, JobInv, MissedOnlyAtTheEnd
<1> QED
  BY <1>4, <1>5, <1>6 DEF IInv

\* Who sleeps wakes for no reason.
LEMMA WakeupStep == ASSUME IInv, NEW w \in Workers, SpuriousWakeup(w) PROVE IInv'
<1>1. asleep' \subseteq asleep
      /\ UNCHANGED <<main, built, failed, submitted, started, job, open, shutdown, notified, late,
                     pc, image, owner, notifier, done, staged, stored, connected, missed>>
  BY DEF SpuriousWakeup, pool, work
<1>2. TypeOK'
  BY <1>1 DEF IInv, TypeOK
<1>3. LifeInv' /\ PartsInv' /\ JobInv' /\ MissedOnlyAtTheEnd'
  BY <1>1 DEF IInv, LifeInv, PartsInv, JobInv, MissedOnlyAtTheEnd, Unused
<1> QED
  BY <1>2, <1>3 DEF IInv

\* Every step keeps the invariant.
LEMMA StepInv == IInv /\ [Next]_vars => IInv'
<1> SUFFICES ASSUME IInv, [Next]_vars PROVE IInv'
  OBVIOUS
<1>1. ASSUME MainStep \/ Stop PROVE IInv'
  BY <1>1, BuildStep, EndingStep, DestroyStep, StoppingStep, JoinStep, ExitStep DEF MainStep
<1>2. ASSUME NEW u \in Uploads, NEW i \in Images, Upload(u, i) PROVE IInv'
  BY <1>2, UploadStep
<1>3. ASSUME NEW w \in Workers, WorkerStep(w) \/ SpuriousWakeup(w) PROVE IInv'
  BY <1>3, StartStep, PlainStep, AddingStep, DieStep, FinalizeStep, FinishStep, WakeupStep
     DEF WorkerStep
<1>4. CASE UNCHANGED vars
  <2>1. TypeOK' /\ LifeInv' /\ PartsInv'
    BY <1>4 DEF vars, IInv, TypeOK, LifeInv, PartsInv, Unused
  <2>2. JobInv' /\ MissedOnlyAtTheEnd'
    BY <1>4 DEF vars, IInv, JobInv, MissedOnlyAtTheEnd
  <2> QED
    BY <2>1, <2>2 DEF IInv
<1> QED
  BY <1>1, <1>2, <1>3, <1>4 DEF Next

\* The invariant always holds.
THEOREM Invariance == Spec => []IInv
<1> QED
  BY InitInv, StepInv, PTL DEF Spec

-----------------------------------------------------------------------------
(* What follows from it.                                                    *)

\* Every variable keeps its type.
THEOREM TypeCorrect == Spec => []TypeOK
<1>1. IInv => TypeOK
  BY DEF IInv
<1> QED
  BY <1>1, Invariance, PTL

\* A task that outlives the service never misses configuration, storage or
\* pool, and the rest only while the process ends.
THEOREM Missed == Spec => []MissedOnlyAtTheEnd
<1>1. IInv => MissedOnlyAtTheEnd
  BY DEF IInv
<1> QED
  BY <1>1, Invariance, PTL

-----------------------------------------------------------------------------
(* Nothing blocks the end but an orphan or a sleeper: what ExitsUnlessStuck  *)
(* needs of each state, whatever is scheduled.                              *)

\* The stage that follows that of a task was not added yet.
NotYet(t) ==
  /\ t[2] = "check" => \A k \in DOMAIN submitted : submitted[k] # <<t[1], "load">>
  /\ t[2] = "load" => \A k \in DOMAIN submitted : submitted[k] # <<t[1], "save">>

\* No task is added twice, and none before the one that adds it has started.
QueueInv ==
  /\ \A j, k \in DOMAIN submitted : submitted[j] = submitted[k] => j = k
  /\ \A k \in DOMAIN submitted : k > started => NotYet(submitted[k])
  /\ \A k \in DOMAIN submitted : submitted[k][2] = "save" =>
       \E j \in DOMAIN submitted : submitted[j] = <<submitted[k][1], "load">>

\* Where a worker has yet to add the next stage, and of which stage it is there.
Adding == {"check", "claim", "again", "load"}
StageAt(l) == IF l = "load" THEN "load" ELSE "check"

\* A worker has a task of the queue to itself, and one that is about to add
\* the next stage has not done so.
HandInv ==
  \A w \in Workers : pc[w] # "idle" =>
    /\ \E k \in DOMAIN submitted : k <= started /\ job[w] = submitted[k]
    /\ \A v \in Workers \ {w} : pc[v] # "idle" => job[v] # job[w]
    /\ pc[w] \in Adding => job[w][2] = StageAt(pc[w]) /\ NotYet(job[w])

\* The pool is open until the main thread has joined its threads.
OpenInv == ~open => "pool" \notin built /\ main \in {"ending", "exited", "killed"}

BlockInv == QueueInv /\ HandInv /\ OpenInv

\* A task t is the stage after that of s.
Follows(t, s) ==
  /\ s[1] = t[1]
  /\ \/ s[2] = "check" /\ t[2] = "load"
     \/ s[2] = "load" /\ t[2] = "save"

\* What was added before stays where it is.
LEMMA AppendFacts ==
  ASSUME IInv, NEW t \in Tasks, Pool!Submit(t)
  PROVE  /\ DOMAIN submitted' = DOMAIN submitted \cup {Len(submitted) + 1}
         /\ Len(submitted) + 1 \notin DOMAIN submitted /\ DOMAIN submitted \subseteq Nat
         /\ started \in Nat
         /\ \A k \in DOMAIN submitted : submitted'[k] = submitted[k] /\ submitted[k] # t
         /\ submitted'[Len(submitted) + 1] = t
         /\ \A k \in DOMAIN submitted : submitted[k] \in Tasks
         /\ UNCHANGED <<started, job, open>> /\ open
<1>1. submitted \in Seq(Tasks) /\ submitted' = Append(submitted, t)
      /\ UNCHANGED <<started, job, open>> /\ open /\ started \in 0..Len(submitted)
      BY DEF IInv, TypeOK, Pool!Submit
<1>2. /\ submitted' \in Seq(Tasks) /\ Len(submitted') = Len(submitted) + 1
      /\ \A k \in 1..Len(submitted) : submitted'[k] = submitted[k]
      /\ submitted'[Len(submitted) + 1] = t
      BY <1>1, AppendProperties
<1>3. DOMAIN submitted = 1..Len(submitted) /\ DOMAIN submitted' = 1..Len(submitted')
      /\ Len(submitted) \in Nat
      BY <1>1, <1>2, LenProperties
<1>4. \A k \in DOMAIN submitted : submitted[k] \in Tasks
      BY <1>1, ElementOfSeq, <1>3
<1>5. \A k \in DOMAIN submitted : submitted[k] # t
      BY DEF Pool!Submit, Pool!Range
<1>6. 1..Len(submitted) + 1 = 1..Len(submitted) \cup {Len(submitted) + 1}
      BY <1>3
<1> QED BY <1>1, <1>2, <1>3, <1>4, <1>5, <1>6

\* Adding a task takes nothing from those it does not follow.
LEMMA NotYetKept ==
  ASSUME IInv, NEW t \in Tasks, Pool!Submit(t),
         NEW s \in Tasks, NotYet(s), ~Follows(t, s)
  PROVE  NotYet(s)'
<1> DEFINE n == Len(submitted) + 1
<1>4. /\ DOMAIN submitted' = DOMAIN submitted \cup {n} /\ submitted'[n] = t
      /\ \A k \in DOMAIN submitted : submitted'[k] = submitted[k]
      BY AppendFacts
<1> HIDE DEF n
<1>1. \A k \in DOMAIN submitted' :
        \/ submitted'[k] = t
        \/ k \in DOMAIN submitted /\ submitted'[k] = submitted[k]
      BY <1>4
<1>2. ASSUME NEW f \in Stages, t = <<s[1], f>> PROVE t[1] = s[1] /\ t[2] = f
      BY <1>2
<1>3. ASSUME NEW f \in Stages, t # <<s[1], f>>,
             \A k \in DOMAIN submitted : submitted[k] # <<s[1], f>>
      PROVE  \A k \in DOMAIN submitted' : submitted'[k] # <<s[1], f>>
      BY <1>1, <1>3
<1>5. CASE s[2] = "check"
  <2>1. "load" \in Stages /\ t # <<s[1], "load">>
        BY <1>2, <1>5 DEF Follows, Stages
  <2> QED BY <1>3, <1>5, <2>1 DEF NotYet
<1>6. CASE s[2] = "load"
  <2>1. "save" \in Stages /\ t # <<s[1], "save">>
        BY <1>2, <1>6 DEF Follows, Stages
  <2> QED BY <1>3, <1>6, <2>1 DEF NotYet
<1> QED BY <1>5, <1>6 DEF NotYet

\* The queue with one task more.
LEMMA QueueAppend ==
  ASSUME IInv, QueueInv, NEW t \in Tasks, Pool!Submit(t), NotYet(t),
         \A k \in DOMAIN submitted : k > started => ~Follows(t, submitted[k]),
         t[2] = "save" => \E j \in DOMAIN submitted : submitted[j] = <<t[1], "load">>
  PROVE  QueueInv'
<1> DEFINE n == Len(submitted) + 1
<1>1. /\ DOMAIN submitted' = DOMAIN submitted \cup {n} /\ n \notin DOMAIN submitted
      /\ \A k \in DOMAIN submitted : submitted'[k] = submitted[k] /\ submitted[k] # t
      /\ submitted'[n] = t
      /\ \A k \in DOMAIN submitted : submitted[k] \in Tasks
      /\ started' = started
      BY AppendFacts
<1> HIDE DEF n
<1>2. NotYet(t)'
      BY NotYetKept DEF Follows
<1>3. \A j, k \in DOMAIN submitted' : submitted'[j] = submitted'[k] => j = k
      BY <1>1 DEF QueueInv
<1>4. ASSUME NEW k \in DOMAIN submitted', k > started PROVE NotYet(submitted[k])'
  <2>1. CASE k = n
        BY <1>1, <1>2, <2>1 DEF NotYet
  <2>2. CASE k \in DOMAIN submitted
    <3>1. NotYet(submitted[k]) /\ submitted'[k] = submitted[k]
          BY <1>1, <1>4, <2>2 DEF QueueInv
    <3>2. \A s \in Tasks : NotYet(s) /\ ~Follows(t, s) => NotYet(s)'
          BY NotYetKept
    <3>3. ASSUME NEW s \in Tasks, s = submitted[k], s = submitted'[k]
          PROVE  NotYet(submitted[k])'
      <4>1. NotYet(s)'
            BY <1>4, <2>2, <3>1, <3>2, <3>3
      <4> QED BY <3>3, <4>1 DEF NotYet
    <3> QED BY <1>1, <2>2, <3>1, <3>3
  <2> QED BY <1>1, <2>1, <2>2
<1>5. ASSUME NEW k \in DOMAIN submitted', submitted'[k][2] = "save"
      PROVE  \E j \in DOMAIN submitted' : submitted'[j] = <<submitted'[k][1], "load">>
      BY <1>1, <1>5 DEF QueueInv
<1> QED BY <1>1, <1>3, <1>4, <1>5 DEF QueueInv

\* An upload adds its first task.
LEMMA BlockUpload ==
  ASSUME IInv, BlockInv, NEW u \in Uploads, NEW i \in Images, Upload(u, i)
  PROVE  BlockInv'
<1> DEFINE t == <<u, "check">>
<1>1. t \in Tasks /\ Pool!Submit(t) /\ t[1] = u /\ t[2] = "check"
      BY DEF Upload, Tasks, Stages
<1>2. \A k \in DOMAIN submitted : submitted[k][1] # u
      BY DEF IInv, JobInv, Upload
<1> HIDE DEF t
<1>3. NotYet(t) /\ \A s : ~Follows(t, s)
      BY <1>1, <1>2 DEF NotYet, Follows
<1>4. QueueInv'
      BY <1>1, <1>3, QueueAppend DEF BlockInv
<1>5. HandInv'
  <2> SUFFICES ASSUME NEW w \in Workers, pc[w] # "idle"
               PROVE  /\ \E k \in DOMAIN submitted' : k <= started /\ job[w] = submitted'[k]
                      /\ \A v \in Workers \ {w} : pc[v] # "idle" => job[v] # job[w]
                      /\ pc[w] \in Adding => job[w][2] = StageAt(pc[w]) /\ NotYet(job[w])'
      BY <1>1, AppendFacts DEF HandInv, Upload, flags
  <2>1. PICK k \in DOMAIN submitted : k <= started /\ job[w] = submitted[k]
        BY DEF BlockInv, HandInv
  <2>2. k \in DOMAIN submitted' /\ submitted'[k] = submitted[k] /\ job[w] \in Tasks /\ job' = job
        BY <1>1, <2>1, AppendFacts
  <2>3. NotYet(job[w]) => NotYet(job[w])'
    <3>1. \A s \in Tasks : NotYet(s) => NotYet(s)'
          BY <1>1, <1>3, NotYetKept
    <3>2. ASSUME NEW s \in Tasks, s = job[w], NotYet(s) PROVE NotYet(job[w])'
      <4>1. NotYet(s)'
            BY <3>1, <3>2
      <4> QED BY <2>2, <3>2, <4>1 DEF NotYet
    <3> QED BY <2>2, <3>2
  <2> QED BY <2>1, <2>2, <2>3 DEF BlockInv, HandInv
<1>6. OpenInv'
      BY DEF BlockInv, OpenInv, Upload, Pool!Submit
<1> QED BY <1>4, <1>5, <1>6 DEF BlockInv

\* A task adds the next stage, and ends.
LEMMA BlockAdds ==
  ASSUME IInv, BlockInv, NEW w \in Workers, NEW l \in {"again", "load"}, NEW f \in Stages,
         \/ l = "again" /\ f = "load"
         \/ l = "load" /\ f = "save",
         Goto(w, l, "end"), Pool!Submit(<<UploadOf(w), f>>), main' = main, built' = built
  PROVE  BlockInv'
<1> DEFINE s == StageAt(l)
<1>1. /\ l \in Adding /\ l # "idle" /\ s \in Stages
      /\ (s = "check" /\ f = "load") \/ (s = "load" /\ f = "save")
      BY DEF Adding, StageAt, Stages
<1>2. pc[w] = l /\ pc' = [pc EXCEPT ![w] = "end"] /\ pc[w] # "idle" /\ "end" \notin Adding
      BY <1>1 DEF Goto, Adding
<1> DEFINE t == <<UploadOf(w), f>>
<1>3. job[w] = <<UploadOf(w), s>> /\ UploadOf(w) \in Uploads /\ NotYet(job[w])
  <2>1. job[w] \in Tasks /\ job[w][2] = s /\ NotYet(job[w])
        BY <1>1, <1>2 DEF IInv, JobInv, BlockInv, HandInv
  <2> QED BY <2>1 DEF Tasks, UploadOf
<1>4. PICK h \in DOMAIN submitted : h <= started /\ job[w] = submitted[h]
      BY <1>1, <1>2 DEF BlockInv, HandInv
<1>5. t \in Tasks /\ Pool!Submit(t) /\ t[1] = UploadOf(w) /\ t[2] = f
      BY <1>1, <1>3 DEF Tasks
<1> HIDE DEF t, s
<1>6. \A r \in Tasks : Follows(t, r) => r = job[w]
      BY <1>1, <1>3, <1>5 DEF Follows, Tasks
<1>7. QueueInv'
  <2>1. NotYet(t)
        BY <1>1, <1>3, <1>5 DEF NotYet, BlockInv, QueueInv
  <2>2. \A k \in DOMAIN submitted : k > started => ~Follows(t, submitted[k])
    <3>1. \A k \in DOMAIN submitted : submitted[k] \in Tasks /\ k \in Nat /\ started \in Nat
          BY <1>5, AppendFacts
    <3> QED BY <1>4, <1>6, <3>1 DEF BlockInv, QueueInv
  <2>3. t[2] = "save" => \E j \in DOMAIN submitted : submitted[j] = <<t[1], "load">>
        BY <1>1, <1>3, <1>4, <1>5
  <2> QED BY <1>5, <2>1, <2>2, <2>3, QueueAppend DEF BlockInv
<1>8. HandInv'
  <2> SUFFICES ASSUME NEW v \in Workers, pc'[v] # "idle"
               PROVE  /\ \E k \in DOMAIN submitted' : k <= started /\ job[v] = submitted'[k]
                      /\ \A x \in Workers \ {v} : pc'[x] # "idle" => job[x] # job[v]
                      /\ pc'[v] \in Adding => job[v][2] = StageAt(pc'[v]) /\ NotYet(job[v])'
      BY <1>5, AppendFacts DEF HandInv
  <2>1. \A x \in Workers : pc[x] # "idle" <=> pc'[x] # "idle"
        BY <1>1, <1>2 DEF IInv, TypeOK
  <2>2. PICK k \in DOMAIN submitted : k <= started /\ job[v] = submitted[k]
        BY <2>1 DEF BlockInv, HandInv
  <2>3. k \in DOMAIN submitted' /\ submitted'[k] = submitted[k] /\ job[v] \in Tasks /\ job' = job
        BY <1>5, <2>2, AppendFacts
  <2>4. CASE v = w
        BY <1>2, <2>1, <2>2, <2>3, <2>4 DEF BlockInv, HandInv, IInv, TypeOK
  <2>5. CASE v # w
    <3>1. pc'[v] = pc[v] /\ job[v] # job[w]
          BY <1>1, <1>2, <2>1, <2>5 DEF BlockInv, HandInv
    <3>2. NotYet(job[v]) => NotYet(job[v])'
      <4>1. \A r \in Tasks : NotYet(r) /\ ~Follows(t, r) => NotYet(r)'
            BY <1>5, NotYetKept
      <4>2. ASSUME NEW r \in Tasks, r = job[v], NotYet(r) PROVE NotYet(job[v])'
        <5>1. NotYet(r)'
              BY <1>6, <3>1, <4>1, <4>2
        <5> QED BY <2>3, <4>2, <5>1 DEF NotYet
      <4> QED BY <2>3, <4>2
    <3> QED BY <2>1, <2>2, <2>3, <3>1, <3>2 DEF BlockInv, HandInv
  <2> QED BY <2>4, <2>5
<1>9. OpenInv'
      BY DEF BlockInv, OpenInv, Pool!Submit
<1> QED BY <1>7, <1>8, <1>9 DEF BlockInv

\* So do check_existence and load_image.
LEMMA BlockAdding ==
  ASSUME IInv, BlockInv, NEW w \in Workers, Again(w) \/ Load(w)
  PROVE  BlockInv'
<1>1. "load" \in Stages /\ "save" \in Stages
      BY DEF Stages
<1>2. CASE Again(w)
  <2>1. Goto(w, "again", "end") /\ Pool!Submit(<<UploadOf(w), "load">>) /\ main' = main /\ built' = built
        BY <1>2 DEF Again, Submit
  <2> QED BY <1>1, <2>1, BlockAdds
<1>3. CASE Load(w)
  <2>1. Goto(w, "load", "end") /\ Pool!Submit(<<UploadOf(w), "save">>) /\ main' = main /\ built' = built
        BY <1>3 DEF Load, Submit
  <2> QED BY <1>1, <2>1, BlockAdds
<1> QED BY <1>2, <1>3

\* A worker takes the next task, which nobody has.
LEMMA BlockStart ==
  ASSUME IInv, BlockInv, NEW w \in Workers, Start(w)
  PROVE  BlockInv'
<1> DEFINE t == submitted[started + 1]
<1>1. started \in Nat /\ started + 1 \in DOMAIN submitted /\ DOMAIN submitted \subseteq Nat
  <2>1. started \in Nat /\ started < Len(submitted) /\ Len(submitted) \in Nat
        BY LenProperties DEF Start, IInv, TypeOK
  <2> QED BY <2>1, LenProperties DEF IInv, TypeOK
<1>2. t \in Tasks /\ NotYet(t) /\ t[2] \in Stages
  <2>1. t \in Tasks
        BY <1>1, ElementOfSeq DEF IInv, TypeOK
  <2>2. NotYet(t)
        BY <1>1 DEF BlockInv, QueueInv
  <2> QED BY <2>1, <2>2 DEF Tasks
<1>3. /\ pc[w] = "idle" /\ pc' = [pc EXCEPT ![w] = t[2]]
      /\ job' = [job EXCEPT ![w] = t] /\ started' = started + 1
      /\ UNCHANGED <<main, built, submitted, open>>
      BY DEF Start, Goto, Pool!Start
<1>4. \A v \in Workers : pc[v] # "idle" => job[v] # t
      BY <1>1 DEF BlockInv, QueueInv, HandInv
<1>5. \A s : NotYet(s) => NotYet(s)'
      BY <1>3 DEF NotYet
<1>6. QueueInv'
      BY <1>1, <1>3 DEF BlockInv, QueueInv, NotYet
<1>7. HandInv'
  <2> SUFFICES ASSUME NEW v \in Workers, pc'[v] # "idle"
               PROVE  /\ \E k \in DOMAIN submitted : k <= started + 1 /\ job'[v] = submitted[k]
                      /\ \A x \in Workers \ {v} : pc'[x] # "idle" => job'[x] # job'[v]
                      /\ pc'[v] \in Adding => job'[v][2] = StageAt(pc'[v]) /\ NotYet(job[v])'
      BY <1>3 DEF HandInv
  <2>1. CASE v = w
    <3>1. job'[v] = t /\ pc'[v] = t[2] /\ \A x \in Workers \ {v} : pc'[x] = pc[x] /\ job'[x] = job[x]
          BY <1>3, <2>1 DEF IInv, TypeOK
    <3>2. NotYet(job[v])'
          BY <1>2, <1>3, <3>1 DEF NotYet
    <3>3. pc'[v] \in Adding => t[2] = StageAt(pc'[v])
          BY <1>2, <3>1 DEF Adding, StageAt, Stages
    <3> QED BY <1>1, <1>4, <3>1, <3>2, <3>3
  <2>2. CASE v # w
    <3>1. job'[v] = job[v] /\ pc'[v] = pc[v]
          BY <1>3, <2>2
    <3>2. PICK k \in DOMAIN submitted : k <= started /\ job[v] = submitted[k]
          BY <3>1 DEF BlockInv, HandInv
    <3>3. \A x \in Workers \ {v} : pc'[x] # "idle" => job'[x] # job'[v]
          BY <1>3, <1>4, <3>1 DEF BlockInv, HandInv, IInv, TypeOK
    <3>4. pc[v] \in Adding => job[v][2] = StageAt(pc[v]) /\ NotYet(job[v])'
          BY <1>3, <3>1 DEF BlockInv, HandInv, NotYet
    <3> QED BY <1>1, <3>1, <3>2, <3>3, <3>4
  <2> QED BY <2>1, <2>2
<1>8. OpenInv'
      BY <1>3 DEF BlockInv, OpenInv
<1> QED BY <1>6, <1>7, <1>8 DEF BlockInv

\* A worker goes on with a task that has nothing to add any more, or ends it;
\* or the main thread builds or takes down a part.
LEMMA BlockOther ==
  ASSUME IInv, BlockInv,
         UNCHANGED <<submitted, started>>,
         \A v \in Workers : pc'[v] # "idle" =>
            /\ pc[v] # "idle" /\ job'[v] = job[v]
            /\ pc'[v] \in Adding => pc[v] \in Adding /\ StageAt(pc'[v]) = StageAt(pc[v]),
         OpenInv'
  PROVE  BlockInv'
<1>1. QueueInv'
      BY DEF BlockInv, QueueInv, NotYet
<1>2. HandInv'
      BY DEF BlockInv, HandInv, NotYet
<1> QED BY <1>1, <1>2 DEF BlockInv

\* Every step.
LEMMA BlockStep == IInv /\ BlockInv /\ [Next]_vars => BlockInv'
<1> SUFFICES ASSUME IInv, BlockInv, [Next]_vars PROVE BlockInv'
    OBVIOUS
<1>1. CASE MainStep \/ Stop \/ UNCHANGED vars
  <2>1. UNCHANGED <<submitted, started, pc, job>>
        BY <1>1 DEF MainStep, Build, BuildFails, Destroy, StoreShutdown, NotifyAll, Join,
                    Exit, Stop, Pool!Close, pool, work, vars
  <2>2. OpenInv'
    <3>1. CASE Join
          BY <3>1 DEF Join, OpenInv, Falls, LastOf
    <3>2. CASE Build
          BY <3>2 DEF Build, OpenInv, BlockInv, pool
    <3>3. CASE ~Join /\ ~Build
          BY <1>1, <3>3 DEF MainStep, BuildFails, Destroy, StoreShutdown, NotifyAll, Exit,
                            Stop, pool, vars, OpenInv, BlockInv
    <3> QED BY <3>1, <3>2, <3>3
  <2> QED BY <2>1, <2>2, BlockOther
<1>2. ASSUME NEW w \in Workers,
             Check(w) \/ Claim(w) \/ Die(w) \/ Save(w) \/ Finalize(w) \/ Hook(w) \/ Respond(w)
      PROVE  BlockInv'
  <2>1. PICK from \in Labels, to \in Labels \ {"idle", "check", "load"} :
          /\ Goto(w, from, to) /\ from # "idle"
          /\ to \in Adding => from \in {"check", "claim"}
        BY <1>2 DEF Check, Claim, Die, Save, Finalize, Hook, Respond, Labels, Stages, Adding
  <2>2. UNCHANGED <<submitted, started, job, open, built>>
        BY <1>2 DEF Check, Claim, Die, Save, Finalize, Hook, Respond, pool
  <2>3. main' = main \/ main' = "killed"
        BY <1>2 DEF Check, Claim, Die, Save, Finalize, Hook, Respond
  <2>4. OpenInv'
        BY <2>2, <2>3 DEF BlockInv, OpenInv
  <2>5. \A v \in Workers : pc'[v] # "idle" =>
          /\ pc[v] # "idle"
          /\ pc'[v] \in Adding => pc[v] \in Adding /\ StageAt(pc'[v]) = StageAt(pc[v])
        BY <2>1 DEF Goto, IInv, TypeOK, Adding, StageAt
  <2> QED BY <2>2, <2>4, <2>5, BlockOther
<1>3. ASSUME NEW w \in Workers, Finish(w) PROVE BlockInv'
  <2>1. /\ pc' = [pc EXCEPT ![w] = "idle"] /\ job' = [job EXCEPT ![w] = NoTask]
        /\ UNCHANGED <<main, built, submitted, started, open>>
        BY <1>3 DEF Finish, Goto, Pool!Finish
  <2>2. OpenInv'
        BY <2>1 DEF BlockInv, OpenInv
  <2>3. \A v \in Workers : pc'[v] # "idle" => pc'[v] = pc[v] /\ job'[v] = job[v]
        BY <2>1 DEF IInv, TypeOK
  <2> QED BY <2>1, <2>2, <2>3, BlockOther
<1>4. ASSUME NEW w \in Workers, SpuriousWakeup(w) PROVE BlockInv'
  <2>1. UNCHANGED <<main, built, submitted, started, job, open, pc>>
        BY <1>4 DEF SpuriousWakeup, pool, work
  <2>2. OpenInv'
        BY <2>1 DEF BlockInv, OpenInv
  <2> QED BY <2>1, <2>2, BlockOther
<1> QED BY <1>1, <1>2, <1>3, <1>4, BlockUpload, BlockAdding, BlockStart DEF Next, WorkerStep

\* What the main thread can do while the process ends: there is no part left
\* to take down, or one that is no pool whose threads it has to join, or it
\* is the pool and they are idle and awake.
MainCanStep ==
  \/ \A p \in Parts : ~Falls(p)
  \/ \E p \in Parts :
       /\ Falls(p)
       /\ p = "pool" /\ notified => open /\ asleep = {} /\ \A w \in Workers : job[w] = NoTask

\* What a worker can do.
CanStep(w) ==
  \/ pc[w] = "idle" /\ ~late /\ open /\ started < Len(submitted)
  \/ pc[w] = "wait" /\ notifier[UploadOf(w)] \in done
  \/ pc[w] \in {"again", "load"} /\ open /\ NotYet(job[w])
  \/ pc[w] \in {"check", "claim", "save", "finalize", "hook", "respond", "end"}

\* While the process ends somebody can go on, or a worker is an orphan: it
\* waits for an image that nobody is processing any more; or a worker sleeps
\* that nobody has notified.
NothingElseBlocks ==
  main = "ending" =>
    \/ MainCanStep \/ \E w \in Workers : CanStep(w)
    \/ asleep # {} \/ \E w \in Workers : Orphaned(w)

\* The main thread does not notify before it has set the flag.
FlagInv == notified => shutdown

LEMMA FlagStep == FlagInv /\ [Next]_vars => FlagInv'
BY DEF FlagInv, Next, MainStep, Build, BuildFails, Destroy, StoreShutdown, NotifyAll, Join, Exit,
       Stop, Upload, WorkerStep, Start, Check, Claim, Again, Die, Load, Save, Finalize, Hook,
       Respond, Finish, SpuriousWakeup, flags, vars

\* The part of ExitsUnlessStuck that needs no fairness.
THEOREM Unblocked == Spec => []NothingElseBlocks
<1>1. Init => BlockInv /\ FlagInv
  <2> SUFFICES ASSUME Init PROVE BlockInv /\ FlagInv
      OBVIOUS
  <2>1. DOMAIN submitted = {}
        BY EmptySeq DEF Init, Pool!Init
  <2> QED BY <2>1 DEF Init, Pool!Init, BlockInv, QueueInv, HandInv, OpenInv, FlagInv
<1>2. IInv /\ BlockInv /\ FlagInv => NothingElseBlocks
  <2> SUFFICES ASSUME IInv, BlockInv, FlagInv, main = "ending", ~MainCanStep, asleep = {},
                      \A w \in Workers : ~CanStep(w)
               PROVE  \E w \in Workers : Orphaned(w)
      BY DEF NothingElseBlocks
  <2>1. PICK p \in Parts : Falls(p)
        BY DEF MainCanStep
  <2>2. p = "pool" /\ shutdown /\ (open => \E w \in Workers : job[w] # NoTask)
        BY <2>1 DEF MainCanStep, FlagInv
  <2>3. open
        BY <2>1, <2>2 DEF BlockInv, OpenInv, Falls, LastOf
  <2>4. PICK w \in Workers : pc[w] # "idle"
        BY <2>2, <2>3 DEF IInv, JobInv
  <2>5. ASSUME NEW v \in Workers PROVE pc[v] \in {"idle", "wait"}
    <3>1. pc[v] \in Labels
          BY DEF IInv, TypeOK
    <3>2. pc[v] \in {"again", "load"} => NotYet(job[v])
          BY DEF BlockInv, HandInv, Adding
    <3> QED BY <2>3, <3>1, <3>2 DEF CanStep, Labels, Stages
  <2>6. pc[w] = "wait" /\ notifier[UploadOf(w)] \notin done
        BY <2>4, <2>5 DEF CanStep
  <2> QED BY <2>2, <2>5, <2>6 DEF Orphaned
<1> QED BY <1>1, <1>2, BlockStep, FlagStep, Invariance, PTL DEF Spec

-----------------------------------------------------------------------------
(* Staged folders.                                                          *)

\* Somebody will commit the folder, or its task is in the deque.
Kept(u) ==
  \/ \E k \in DOMAIN submitted : k > started /\ submitted[k] = <<u, "save">>
  \/ \E w \in Workers : pc[w] \in {"save", "finalize"} /\ job[w] = <<u, "save">>

\* Every staged folder is kept so while the pool is there.
KeptInv == (staged # {} => open) /\ \A u \in staged : Kept(u)

\* Every step keeps them so, and the join removes those that are left.
LEMMA KeptStep == IInv /\ KeptInv /\ [Next]_vars => KeptInv'
<1> SUFFICES ASSUME IInv, KeptInv, [Next]_vars PROVE KeptInv'
    OBVIOUS
<1>1. CASE \/ MainStep \/ Stop \/ UNCHANGED vars \/ \E w \in Workers : SpuriousWakeup(w)
  <2>1. CASE Join
    <3>1. /\ staged' = staged \ {submitted[k][1] : k \in started + 1..Len(submitted)}
          /\ \A w \in Workers : job[w] = NoTask
          BY <2>1 DEF Join, Pool!Close
    <3>2. ASSUME NEW u \in staged PROVE u \notin staged'
      <4>1. PICK k \in DOMAIN submitted : k > started /\ submitted[k] = <<u, "save">>
        <5>1. \A w \in Workers : pc[w] \notin {"save", "finalize"}
              BY <3>1, ServerAssumption DEF IInv, JobInv
        <5> QED BY <5>1 DEF KeptInv, Kept
      <4>2. started \in Nat /\ k \in Nat /\ k <= Len(submitted) /\ Len(submitted) \in Nat
            BY LenProperties DEF IInv, TypeOK
      <4>3. k \in started + 1..Len(submitted) /\ submitted[k][1] = u
            BY <4>1, <4>2
      <4> QED BY <3>1, <4>3
    <3> QED BY <3>1, <3>2 DEF KeptInv
  <2>2. CASE ~Join
    <3>1. UNCHANGED <<submitted, started, pc, job, staged, open>>
          BY <1>1, <2>2 DEF MainStep, Build, BuildFails, Destroy, StoreShutdown, NotifyAll, Exit,
                            Stop, SpuriousWakeup, pool, work, vars
    <3> QED BY <3>1 DEF KeptInv, Kept
  <2> QED BY <2>1, <2>2
<1>2. ASSUME NEW t \in Tasks, Pool!Submit(t), staged' \subseteq staged \cup {t[1]},
             t[2] = "save" \/ staged' = staged,
             \A w \in Workers : pc[w] \in {"save", "finalize"} => pc'[w] = pc[w]
      PROVE  KeptInv'
  <2>1. /\ DOMAIN submitted' = DOMAIN submitted \cup {Len(submitted) + 1}
        /\ \A k \in DOMAIN submitted : submitted'[k] = submitted[k]
        /\ submitted'[Len(submitted) + 1] = t
        /\ UNCHANGED <<started, job, open>> /\ open
        BY <1>2, AppendFacts
  <2>2. ASSUME NEW u \in staged PROVE Kept(u)'
    <3>1. CASE \E k \in DOMAIN submitted : k > started /\ submitted[k] = <<u, "save">>
          BY <2>1, <3>1 DEF Kept
    <3>2. CASE \E w \in Workers : pc[w] \in {"save", "finalize"} /\ job[w] = <<u, "save">>
          BY <1>2, <2>1, <3>2 DEF Kept
    <3> QED BY <3>1, <3>2 DEF KeptInv, Kept
  <2>3. ASSUME t[2] = "save" PROVE Kept(t[1])'
    <3>1. t = <<t[1], "save">>
          BY <2>3 DEF Tasks
    <3>2. Len(submitted) + 1 > started /\ Len(submitted) + 1 \in DOMAIN submitted'
          BY <2>1, LenProperties DEF IInv, TypeOK
    <3> QED BY <2>1, <3>1, <3>2 DEF Kept
  <2>4. ASSUME NEW u \in staged' PROVE Kept(u)'
        BY <1>2, <2>2, <2>3
  <2> QED BY <2>1, <2>4 DEF KeptInv
<1>3. ASSUME NEW u \in Uploads, NEW i \in Images, Upload(u, i) PROVE KeptInv'
  <2>1. <<u, "check">> \in Tasks
        BY DEF Tasks, Stages
  <2> QED BY <1>2, <1>3, <2>1 DEF Upload
<1>4. ASSUME NEW w \in Workers, Again(w) \/ Load(w) PROVE KeptInv'
  <2>1. pc[w] \in {"again", "load"} /\ pc' = [pc EXCEPT ![w] = "end"]
        BY <1>4 DEF Again, Load, Goto
  <2>2. UploadOf(w) \in Uploads
        BY <1>4, <2>1, BusyFacts DEF Again, Load, Goto
  <2>3. <<UploadOf(w), "load">> \in Tasks /\ <<UploadOf(w), "save">> \in Tasks
        BY <2>2 DEF Tasks, Stages
  <2>4. \A v \in Workers : pc[v] \in {"save", "finalize"} => pc'[v] = pc[v]
        BY <2>1 DEF IInv, TypeOK
  <2>5. CASE Again(w)
        BY <1>2, <2>3, <2>4, <2>5 DEF Again, Submit
  <2>6. CASE Load(w)
        BY <1>2, <2>3, <2>4, <2>6 DEF Load, Submit
  <2> QED BY <1>4, <2>5, <2>6
<1>5. ASSUME NEW w \in Workers, Start(w) PROVE KeptInv'
  <2>1. /\ pc[w] = "idle" /\ pc' = [pc EXCEPT ![w] = submitted[started + 1][2]]
        /\ job' = [job EXCEPT ![w] = submitted[started + 1]] /\ started' = started + 1
        /\ UNCHANGED <<submitted, staged, open>>
        BY <1>5 DEF Start, Goto, Pool!Start
  <2>2. ASSUME NEW u \in staged PROVE Kept(u)'
    <3>1. CASE \E k \in DOMAIN submitted : k > started + 1 /\ submitted[k] = <<u, "save">>
          BY <2>1, <3>1 DEF Kept
    <3>2. CASE submitted[started + 1] = <<u, "save">>
      <4>1. job' = [job EXCEPT ![w] = <<u, "save">>] /\ pc' = [pc EXCEPT ![w] = "save"]
            BY <2>1, <3>2
      <4>2. job'[w] = <<u, "save">> /\ pc'[w] = "save"
            BY <4>1 DEF IInv, TypeOK
      <4> QED BY <4>2 DEF Kept
    <3>3. CASE \E v \in Workers : pc[v] \in {"save", "finalize"} /\ job[v] = <<u, "save">>
          BY <2>1, <3>3 DEF Kept, IInv, TypeOK
    <3>4. \A k \in DOMAIN submitted : k > started => k = started + 1 \/ k > started + 1
          BY LenProperties DEF IInv, TypeOK
    <3> QED BY <3>1, <3>2, <3>3, <3>4 DEF KeptInv, Kept
  <2> QED BY <2>1, <2>2 DEF KeptInv
<1>6. ASSUME NEW w \in Workers,
             Check(w) \/ Claim(w) \/ Die(w) \/ Save(w) \/ Hook(w) \/ Respond(w)
      PROVE  KeptInv'
  <2>1. UNCHANGED <<submitted, started, job, staged, open>>
        BY <1>6 DEF Check, Claim, Die, Save, Hook, Respond, pool
  <2>2. \A v \in Workers : pc[v] \in {"save", "finalize"} => pc'[v] \in {"save", "finalize"}
        BY <1>6 DEF Check, Claim, Die, Save, Hook, Respond, Goto, IInv, TypeOK
  <2> QED BY <2>1, <2>2 DEF KeptInv, Kept
<1>7. ASSUME NEW w \in Workers, Finalize(w) PROVE KeptInv'
  <2>1. pc[w] = "finalize" /\ pc' = [pc EXCEPT ![w] = "hook"] /\ staged' = staged \ {job[w][1]}
        /\ UNCHANGED <<submitted, started, job, open>>
        BY <1>7 DEF Finalize, Goto, UploadOf, pool
  <2>2. ASSUME NEW u \in staged' PROVE Kept(u)'
    <3>1. u \in staged /\ job[w] # <<u, "save">>
          BY <2>1
    <3>2. \A v \in Workers : job[v] = <<u, "save">> => pc'[v] = pc[v]
          BY <2>1, <3>1 DEF IInv, TypeOK
    <3> QED BY <2>1, <3>1, <3>2 DEF KeptInv, Kept
  <2> QED BY <2>1, <2>2 DEF KeptInv
<1>8. ASSUME NEW w \in Workers, Finish(w) PROVE KeptInv'
  <2>1. pc[w] = "end" /\ pc' = [pc EXCEPT ![w] = "idle"] /\ job' = [job EXCEPT ![w] = NoTask]
        /\ UNCHANGED <<submitted, started, staged, open>>
        BY <1>8 DEF Finish, Goto, Pool!Finish
  <2>2. \A v \in Workers : pc[v] \in {"save", "finalize"} => pc'[v] = pc[v] /\ job'[v] = job[v]
        BY <2>1 DEF IInv, TypeOK
  <2> QED BY <2>1, <2>2 DEF KeptInv, Kept
<1> QED BY <1>1, <1>3, <1>4, <1>5, <1>6, <1>7, <1>8 DEF Next, WorkerStep

\* A process that comes to its end, after an exception too, leaves no staged
\* folder behind, though tasks that would have committed it were never run.
THEOREM LeavesNoFolder == Spec => []TempEmptyAtExit
<1>1. Init => KeptInv
      BY DEF Init, KeptInv
<1>2. IInv /\ KeptInv => TempEmptyAtExit
      BY DEF IInv, LifeInv, PartsInv, Unused, KeptInv, TempEmptyAtExit
<1> QED BY <1>1, <1>2, KeptStep, Invariance, PTL DEF Spec
=============================================================================
