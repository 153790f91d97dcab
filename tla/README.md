# Verification of asset-server-cpp

TLA+ models of the image asset server, checked with TLC on small instances and
proved with TLAPS for every instance: all safety properties of its components, the
four refinements, and of each liveness property the part that needs no fairness.
Paths of the program are relative to the repository; line numbers are those of
`src/<file>` in it.

## The system

One thread runs a boost.asio io loop: it accepts connections, reads requests
and writes responses. A pool of threads runs the tasks of image processing.
They share the pool's deque, the map `currently_processing` from hashes to
notifiers, and the storage directories.

| part | state | operations | what makes it hard |
|---|---|---|---|
| `thread_pool` | deque under a mutex, condition variable, atomic flag | worker loop, `add_task`, `blocking_shutdown` | wakeups, shutdown outside of the mutex, late starts |
| `task_group` | atomic state, atomic 16 bit counter, two callbacks | `add_task`, its executor, `cancel` | state and counter change separately; tasks add tasks, throw, end last |
| `image_processor` | notifier, staged folder, results; the shared map | `run`, `check_existence`, `load_image`, `resize`, `save_to_format`, `finalize` | duplicate uploads in progress, failures, waiting inside the pool |
| storage (fs) | temp and data directory | create, write, commit by rename, clean up, walk, `init` | partial failure, crash and restart |
| `http_connection` | socket, two timers, `responded`, the request body | accept, read, answer, write, deadlines, ready hook | deadline against hook, life time across threads |
| configuration | sizes, formats, limits | parse, `get_sizes`, `get_formats` | termination, rounding, widths of integers |
| `main` | owner of everything above | start, signals, destruction | order of destruction against running tasks |

How they interact: a connection calls `image_processor::run` with a hook that
holds a weak pointer to it and with a plain reference to the request body. `run`
adds `check_existence` to the processor's group, the group wraps it in an
executor and pushes it to the pool. Tasks add tasks. The executor that ends last,
or throws first, calls `finalize`, which commits the staged folder, erases the
hash from the map, wakes waiters and calls the hook, which answers the request
from the pool thread.

What makes each part correct: the pool starts every task once and in order and
stops when told; a group calls one callback, on success only when all its tasks
are over; a processor is alone on its image, answers success only when all files
are stored, and leaves nothing for others to wait for in vain; a connection
answers once, lives until its answer, and ends.

## Modules

Each layer uses the contract of the layer below, which that layer implements.

| module | models | abstraction |
|---|---|---|
| `PoolContract` | what a pool promises | submission order, number started, job of each worker |
| `ThreadPool` | `thread_pool` | one action per observable step; executors are opaque |
| `ThreadPoolProofs` | theorems on `ThreadPool` | |
| `GroupContract` | what a group promises | accepted and finished tasks, outcome, callback |
| `TaskGroup` | `task_group` over `PoolContract` | one action per atomic instruction; tasks add, return or throw |
| `TaskGroupProofs` | theorems on `TaskGroup` | |
| `UploadContract` | what processing promises to uploaders | stored and broken images, answers |
| `Processing` | `image_processor`, map, pool | a group's decision is one step; bytes and hash are an image |
| `ProcessingProofs` | theorems on `Processing` | |
| `StoreContract` | what a storage promises | folders become available whole, for good |
| `Storage` | `storage_fs` and its directories, death and restart of the process | a variant is a folder with one file |
| `StorageProofs` | theorems on `Storage` | |
| `Variants` | names, formats and dimensions of an image; `find_existing_data`, `walk_folder`, the shared libmagic cookie | texts are what their dots separate; nothing fails |
| `VariantsProofs` | theorems on `Variants` | |
| `HttpConnection` | `http_connection`, accept loop | one io thread; asio calls are atomic; a request is the set of its faults |
| `HttpConnectionProofs` | theorems on `HttpConnection` | |
| `Server` | `main`: start, service, shutdown; over `PoolContract` | an upload has three tasks; a part is there or not |
| `ServerProofs` | theorems on `Server` | |
| `ConfigText` | `parse_bytes`, `string_view_to_int`, `size_spec::parse`, `size_specs::parse` | operators on sequences of characters; widths of integers scaled |
| `Config` | `config::parse`, and the sizes of an image | one action per line |
| `Sizes` | `get_sizes`, `div_round_up`; an instance in `Config` | one action per iteration |
| `ConfigProofs` | theorems on `Config`, `ConfigText` and `Sizes` | |
| `MCProcessing`, `MCVariants`, `MCConfig` | instances | values for TLC; the other modules need model values only |

### ThreadPool

`pc[w]` names what worker `w` executes next in the loop of lines 31-40 of
`thread_pool.hpp`: the read of the flag (`While`), the lock (`LockMutex`), the
predicate of `cv.wait` (`EvalPredicate`), unlocking and falling asleep in one step
(`FallAsleep`, as the standard says of `wait`), the second read of the flag
(`CheckShutdown`), the pop (`Take`), the end of the executor (`Finish`).
`SpuriousWakeup` may always happen. `AddTask` is one action because it is one
critical section whose last statement is the notification; it may be called by the
io loop until it has stopped, and by running tasks always. `StoreShutdown`,
`NotifyAll` and `JoinAll` are the three statements of `blocking_shutdown`, which
take no lock. `submitted`, `started` and `late` are histories.

### TaskGroup

Uses the program's discipline: one client adds the first task, everything else is
added by tasks of the group; the client may cancel. `pending` wraps at `Limit` as
a two's complement counter does. `Counted` is what the counter should count, read
off the program counters, the deque and the calls of `add_task` in progress.
`Shutdown` destroys the pool (when no task runs) and leaves queued tasks alone.

### Processing

`queue`, `job` and `pc` are the pool. `notifier[p]` is `processing_done_notifier`,
named after the processor that emplaced it; `done` has those that were stored
`false`. `staged[p]` and `stored[i]` are sets of files. Every
access to the map, the storage and a notifier is an action of its own. A crash
(null `temp_folder`, or an exception out of `on_finish`) stops everything.
`Fail` is a task that throws for reasons of its own (undecodable image, full
disk, a folder that cannot be walked, in any of the three lookups);
`RecheckThrows` is the error a waiter reports when it finds nothing. A rename that
throws, for whatever reason, ends the process (`CommitCrashes`).
A task's additions to the queue are one step: its own task is pending until it
returns, so the group cannot end in between (`TaskGroup` has them one by one).

### Storage

`temp` and `data` are the directories: they outlive the process, whose variables
`Crash` resets at any moment, in the middle of a write or of `init` too, and as
often as it likes. A folder has sets of sub-folders (`dirs`), of files that are being
written, or were when the process died (`torn`), of files that a failed write has cut
short (`cut`) and of complete ones (`whole`). `OpenFile` and `CloseFile` are the two
ends of `create_file`; the second may end without everything written, since nobody
asks the stream. `path[u]` has the number that `std::rand` gave to the folder. It is
any of `Numbers`: nothing seeds it, nothing keeps it from repeating, and
`create_directory` takes a folder that is there. Several users may stage folders of
one hash, since one that failed is destroyed late and after a failure two
processors may own one image. If two of them get the same number their folder is
one, and whatever the first to end does to it is done to the other; `shared` and
`mixed` remember who and which hashes were met by this, and the properties leave
them out. `Destroy` is the destructor of the staged folder, which
may come long after `Fail` and, since `commit_staged_folder` clears `should_cleanup`
in a copy, also removes the path after a commit. `CommitThrows` is a rename that
fails, which ends the process. `Restart` may choose another configuration, so that
folders of the store differ in what they have. `StoreContract` says: what becomes
available lacks nothing, though its files may be cut short, and stays as it is,
through all of this.

### Variants

Follows one upload through `run`, `check_existence`, `load_image`, `resize`,
`save_to_format` and `finalize`, with the data that `Processing` leaves out: the
name of the file (without extension, sanitized), the format of the original
(libmagic's, or the uploader's), the dimensions and formats, and the files that
are made. `extent` is what is known of the original's width and height, and
`Times` counts the formats of an answer: a format that the configuration has twice
is answered twice by who makes it, and once by who finds it. `Find` is
`find_existing_data` on what was stored; it does not know the extent. `CallMagic` and `Copy`
are the call of `magic_buffer` and the copy of what it returned; between them
another thread may use the same cookie. `trailing` says whether the configured
`data_dir` ends with a slash, which `walk_folder` does not expect.

### HttpConnection

`step[c]["io"]` and `step[c]["hook"]` are the two threads that may be inside
`respond_with_error` or `respond_ok`: cancel, cancel, exchange, build and write.
Handlers of the io loop run one at a time. A timer is `armed`, then `due` when
its handler is queued, or `aborted` when it was cancelled in time; each of the
three keeps the connection alive until the handler has run. `Alive` is the
disjunction of everything that holds a `shared_ptr`. `request[c]` is the set of
faults of the request, `Checks` the order in which the code looks for them, and
`reply[c]` what was answered. The processor is what its use of the
request shows: it reads the body in `check_existence` and in `load_image`, and
again in any task that resizes or saves (`resizing`), because libvips decodes the
pixels of the buffer only when they are needed. After a task has failed others of
its group may still do so. It may call the hook at any time after the first read,
or never.

### Server

`built` has the parts of `main`'s scope that exist, in the order of their
declarations; `Destroy`, `StoreShutdown`, `NotifyAll` and `Join` take them down in
the reverse order, after `destroy_image_processing`, which is skipped when an
exception ends `ctx.run`. A step of a worker names the parts it uses, and `missed`
remembers those that were gone. `Start` is the pool's, with the one late start that
`ThreadPool` allows. `NotifyAll` may leave one worker `asleep` that had the mutex
and found neither task nor flag, as in `PoolShutdownHangs`; `Join` needs all threads
to be awake, and nothing makes this one wake but another task, which a running one
may add, or a spurious wakeup. `Die` ends the process, as the null folder of a
waiter does (`WaiterCommits`), and `BuildFails` may, as threads that are destroyed
unjoined do.

### ConfigText, Config and Sizes

A key is the sequence of what its dots separate, a value the sequence of its
characters. A parser that may throw is the set of its results, empty when it
throws. Integers wrap at the widths of their fields, which are scaled so that
TLC can reach them: 1024 is `Kilo`, and the range of `unsigned` is four times the
factor of `G`, as in the code. `Documented` and `Described` are written from
`asset-server.cfg` and the comment on `size_spec`, and do not use the operators of
the parser or of the loop; so is `DocumentedDefaults`, while `Defaults` are those of
the code. They differ in the two timeouts, and in nothing else, as `AsWritten` says.

## Runs

| run | bounds | shows |
|---|---|---|
| `Pool` | 3 workers, 3 tasks, fair | FIFO without loss, no lost wakeup, one late start, quiescence after join; refinement of `PoolContract`; every task starts unless shut down |
| `Group` | 3 workers, 3 tasks, counter of -8..7, fair | exact counter, no `logic_error`, finished means over, one right callback; refinement of `GroupContract`; a callback comes and the counter reaches 0 |
| `Uploads` | 3 uploads of 1 image, 2 workers, 2 formats, throwing tasks, fair | owned entries, one owner until a failure, no file written twice; refinement of `UploadContract`, for which folders must be complete; unless the process dies or every worker waits for queued tasks a hook is called and a staged folder is committed or removed |
| `Storage` | 2 users, 1 hash, 1 variant, 2 random numbers, any number of deaths | unless two folders of a hash share a number, no file that is being written in the store, staged files stay intact; no litter in `temp_dir`; refinement of `StoreContract` |
| `Variants` | 2 uploads, 3 images, 3 file names, with and without a slash | answers name the files of the store; stored images are found again, with two exceptions that the property states |
| `Http` | 2 connections, 4 kinds of requests, fair, reading client | one response, the one the request deserves, kept until answered; every request answered, every connection ends |
| `Server` | 2 workers, 2 uploads, 2 images, fair | which parts tasks miss at shutdown, and that only then; no staged folder left at the end; the server exits or dies unless a waiter was orphaned or a worker has slept through `notify_all` |
| `Config` | files of up to one line for each of 12 keys out of 43 lines, 3 image widths, fair | an accepted file means what the example file says, and what it leaves out has the documented default, all but the timeouts; nothing is refused without a reason; sizes are found and are as described |
| `PoolShutdownHangs` | 2 workers, 1 task, fair | **violation**: `blocking_shutdown` may never return |
| `WaitersBlockPool` | 2 uploads, 1 worker, fair | **violation**: waiters occupy the pool, no hook is called |
| `WaiterCommits` | 2 uploads, 2 workers | **violation**: a waiter commits a null folder |
| `HttpDanglingBody` | 1 connection | **violation**: tasks read the body of a freed request |

Why the bounds are enough. Pool: every race is between one worker and one other
worker, a submitter or the shutdown; a third worker makes "some sleep, some come"
possible. Group: three tasks allow a parent with two children or a chain, so that
ends, throws and additions overlap, and the counter of -8..7 never wraps with
three tasks. Uploads: an owner, a waiter and one that comes later, two save tasks
that overlap, and as many workers as can be in each other's way; more uploads than
workers, so that the pool can be blocked. The second owner after a failure needs a
fourth upload, and `OneOwner` leaves it out. Storage: two users are the one that
stages and the one that has failed or committed and is destroyed late, or two that
stage at once; two numbers can be equal or not; deaths are not bounded, since the
state that they leave is. Variants: two uploads are the one
that saves and the one that finds, or two that share the cookie; the images have
equal and different heights, formats that overlap, one that is configured twice, one
with a dot, and one image has a format that libmagic does not know.
Server: two workers are a task that runs while
another waits or hooks; two uploads of one image, or of two. Config: the keys are
independent but for the order of the storage keys, the two timeouts and
duplicates, all of which two lines show. Connections interact only by sharing the
io thread, so two are enough. Deadlock checking is off in all runs: the constants
bound the number of uploads, tasks, folders and connections, and a run that used
them up stops; the hang of `WaitersBlockPool` and that of `PoolShutdownHangs` are
found as violations of liveness. Symmetry is not used.

## Fairness

Weak fairness of threads: the operating system schedules them, mutexes are
eventually obtained, executors return (bodies add finitely many tasks). For the io
loop, weak fairness of "some handler runs": a connection of the model takes
finitely many steps, so handlers that are queued run in the end. Deadlines expire.
Closing a socket makes pending operations fail. In `Server` the main thread takes its steps
and workers theirs, but no signal has to come. `Storage` and `Variants` assume no
fairness. In `Config` a loop that runs makes its iterations. Never assumed: that
somebody uploads, sends, cancels, shuts down, that a condition variable wakes
spuriously, or that processing ends; `ReadingClientSpec` alone assumes that a
client reads its answer.

## Proofs

`ThreadPoolProofs` proves for any finite set of workers and any set of tasks:
`TypeCorrect`, `Fifo`, `WakeupsSuffice`, `OneLateStart`, `Quiescence` (the five
invariants of the run `Pool`) and `Refinement` (`Spec => ImplementsContract`).
Assumptions: `WorkersAssumption` (finitely many workers) and `NamesAssumption`
(the two null values are no task and no worker).

The inductive invariant `IInv` strengthens the properties with what the code
relies on silently: the owner of the mutex is the one worker inside the critical
section (`LockInv`); what a worker learnt about the deque stays true while it has
the mutex, in particular a worker that is about to pop finds a task and one that
is about to sleep left none (`DequeInv`); a worker has an executor exactly while
it runs it (`ExecutorInv`); only a pop already past the flag is late, and there is
one because it has the mutex (`LateInv`). `NoLostWakeup` is inductive given these:
a worker stops being on its way either by finding the deque empty or by taking a
task, and `add_task` wakes one worker for each task it pushes, so the count of
workers on their way is changed together with the length of the deque; the
cardinality lemmas `ComingGrows` and `ComingShrinks` carry this. The step lemmas
have one case per action. The refinement uses `NextInOrder`: the head of the deque
is the next task of the submission order. `NeverStuck` says when all threads stand
still: unless the pool is being shut down only when every submitted task has been
started, and during a shutdown only if those that have not ended sleep, which is
the hang of `PoolShutdownHangs` and the only one there is.

`TaskGroupProofs` proves, for any finite sets of workers and tasks, `TypeCorrect`,
`Accurate`, `NoBug`, `Finished`, `RightCallback` (the four invariants of the run
`Group`) and `Refinement` (`Spec => ImplementsContract`). Assumptions:
`GroupAssumption` (finite sets, distinct names), and as the hypothesis
`CounterSuffices` of every theorem that the counter can hold the number of tasks.
The code does not guarantee it: see the first of the disagreements without a run
below.

The argument: `StructInv` says that a task is announced, submitted and executed at
most once, so that the three parts of `Counted` are disjoint and every instruction
adds one task to it, takes one away or leaves it (`CountedGains`, `CountedLoses`,
`CountedKept`, `CountedPushed`, `CountedStarted`). With finite cardinalities that
gives `PendingAccurate`. A worker whose decrement returns 1 was therefore the last,
and from then on the group is `Over`: no worker holds a task, none is queued and the
client, which adds only the first task, is done adding, so `Over` is stable
(`OverStep`). `ReachedInv`, `StateInv`, `FailureInv` and `CallInv` describe what
threads between the decrement and the callback know; each needs the others, which
is why they are one inductive invariant with the counter. In the refinement the
increment is the step at which the contract accepts a task, the decrement the one
at which it completes it, and the compare-and-swap the decision. `Settled`: when
nobody is in the group and none of its tasks is in the deque, one callback was
called and the counter is 0. It needs `RestInv`: a group that was decided and has
not called has a thread on its way to the call, and one that is over but still
`Running` has the worker whose decrement returned 1 on its way to the decision.

`StorageProofs` proves, for any finite sets of users, hashes and variants, any
numbers and any sequence of deaths, `TypeCorrect`, `Intact` (`StagedIntact`), `Whole`
(`NothingTorn`), `Tidy` (`NoLitter`) and `Refinement` (`Spec => ImplementsContract`).
Assumptions: `StorageAssumption` and `NoFolderAssumption` (finite sets, distinct
names), and nothing on writes or on `std::rand`. The argument: users that do not share
a path have different ones, so what a user or a late destructor does to a folder is
done to nobody else's; and `init` has removed what dead processes left. A user that
commits has saved what is configured and has no open file, so its folder is one the
contract may publish. `NoLitter` is inductive with these: a folder appears with a user
that stages it, and goes with the first of its users that ends.

`HttpConnectionProofs` proves, for any connections and requests, `TypeCorrect`,
`Once` (`OneResponse`), `Truth` (`AnswerFits`) and `Kept` (`KeptUntilAnswered`), from
`RequestsAssumption`. The invariant is one of each connection (`ConnInv`), and a
step leaves the others alone (`SameInv`). `WriteInv`: `exchange` lets one thread
through. `ReplyInv`, `FaultInv` and `StatusInv`: what a thread is about to answer is
true while it is on its way, since outcomes are final and a deadline is only set
for requests without faults. `KeptInv`: from the start of the processing there is
a deadline that will answer, a thread that does, or the flag; a deadline that was
cancelled has been so by a thread on its way to the flag. `Unabandoned`
(`AnsweredBeforeFreed`) is about all requests, rejected ones too: whatever lets go
of a connection last, its answer has been written by then and its socket is closed.
`EndInv` says who will answer, and that who took the flag writes.

`ProcessingProofs` proves, for any finite sets of workers and uploads and any
images, sizes and formats, `TypeCorrect`, `Owned` (`EntryHasOwner`), `Exclusive`
(`OneOwner`) and `Refinement` (`Spec => ImplementsContract`), and `WrittenOnce`
(`NoFileTwice`) from the hypothesis `Distinct`: no size and no format is
configured twice. The code does not make sure of it for formats: see the
disagreements below. Assumptions: `ProcessingAssumption` (finite sets, `None` is
no upload, image, size or format) and `FolderAssumption` (`None` is no folder).

The argument follows a processor through its life. Before its check task runs it
has nothing (`FreshInv`); a check task is alone (`OneCheck`, `CheckInv`), so the
notifier it has found is the only thing that changes under it. Only the processor
that entered itself goes on to the tasks that make files (`OwnInv`). The files that
are not staged are waited for in the deque or being made (`FilesInv`, with `Ahead`),
so a group that ends well, which has no task left (`OverInv`), has staged all of
them: what `Commit` stores is complete (`StoredInv`), and the refinement may let it
become available. One worker finalizes (`FinalInv`), and erases the entry it owns
before it triggers its notifier (`EntryInv`, `DoneInv`), so whoever was woken finds
the image stored, or its own error justified by a failure (`NotifierInv`,
`BrokenInv`, `OkInv`). `OwnerInv` is the converse of `EntryInv`, and holds until
something throws: then a waiter that fails erases the entry of a successor.
`WrittenOnce` adds `OnceInv`: no task is queued twice nor executed while it is
queued, and what is yet to be made is not yet there. Each action has a lemma with
one step per conjunct. `Unforgotten` (`NobodyForgotten`): an upload without answer
has a task in the deque or a worker at it, and some worker can go on unless every
one waits for queued tasks (the hang of `WaitersBlockPool`). From `FinishInv`, that
a decided group has a worker that finalizes until its notifier and its hook are
served, follows that a waiter always waits for one that does not wait itself
(`WaitedFor`): there are no circles.

`ServerProofs` proves, for any finite sets of workers and uploads and any images,
`TypeCorrect`, `Missed` (`MissedOnlyAtTheEnd`) and `LeavesNoFolder`
(`TempEmptyAtExit`), from `ServerAssumption`. `LifeInv` and `PartsInv` say which parts
exist at each stage: parts are built as prefixes of `Order` and taken down from the end
of it, the image libraries excepted when an exception ends the service. `JobInv` says
what a worker at each label holds, and that none holds anything once the threads are
joined; `MissedOnlyAtTheEnd` is inductive given these. For `LeavesNoFolder` a staged
folder belongs to an upload whose `save` is in the deque or in the hands of a worker
that has not committed yet: when the threads are joined there are no such hands, and
what the deque has is destroyed with it. `Unblocked` (`NothingElseBlocks`): while the
process ends the main thread or some worker can go on, or a worker is an orphan, or
one is asleep that has missed `notify_all`. `QueueInv` and `HandInv` say that each task
is added once, by the one before it, and is in one worker's hands.

`VariantsProofs` proves, for any names, formats, dimensions and images,
`TypeCorrect`, `NamesFiles` (`AnswersNameFiles`) and `FoundLater` (`FoundAgain`), from
`VariantsAssumption` (what libmagic and the
configuration give are texts, and `None` is no folder). `StagedInv`: the staged folder
and the fields of the processor, from which the answer is written, say the same but
for the files that `saving` still has to write. `StoredInv` carries that over to
the store, and `FoundInv` to who finds it. That the folder is found rests on
`NameSplit` and `NamesAgain`: a name is divided where it was put together, unless
its format has a dot, which is the exception that `FoundAgain` states.

`ConfigProofs` proves, for any set of lines, any images and any scale of the
integers, `TypeCorrect` (`TypeOK`), `Written` (`AsWritten`), `Judged` (`Verdict`) and
`SizesRight` (`SizesAsDescribed`), from `TextAssumption` and `ConfigAssumption`. What is
parsed from any text is in the range of its field, and a size specification is one
that `get_sizes` expects: a percentage is between 1 and 99 (`SpecParsed`,
`BytesParsed`). In the other direction, a number written in decimal is read back as
itself (`Numerals`, by induction on the number), and the documented forms are read
as what the example file says: integers (`IntegerOf`), bytes with a unit
(`BytesOf`), a size specification with and without decrement and limit (`SpecOf`),
and a list of them (`SpecsOf`); `DocumentedParsed` puts them together for each
field. `ReadInv` carries that along the file: the configuration is what the lines
that were read say, each key once, and the defaults of the code elsewhere, which are
the documented ones but for the two timeouts. `VerdictInv` has the
reason why a file was refused: a line that could not be applied is not documented,
was there, or came too early (`NotApplied`), and what is missing at the end was
never read (`Completeness`, `Reasons`).

The sequence of the comment on `size_spec` is a recursive function; `Recursion`, a
recursion theorem for functions on an interval, shows that it exists, and `UpTo`
is the induction along it. It descends to 0 (`Sinking`), the rounded quotient of
the code is the rounded percentage of the comment (`Percentage`), and the loop
walks along it (`LoopInv`): when it leaves, no later width counts. `Descending`
says that every iteration ends the loop or goes to a smaller width, but for the
specifications that `NeverEnds` names.

Only model-checked: liveness, because fairness and `ENABLED` are out of the
prover's reach. For each of the eight liveness properties of the passing runs there
is a theorem on the part that concerns single states or steps: whoever must go on
exists, and stands still only when there is nothing left to do or in the case that
the property excepts. What remains for TLC is that the steps that can be taken are
enough: that no endless behaviour avoids the goal.

| liveness property | the part that is proved |
|---|---|
| `EveryTaskStarts` | `NeverStuck` |
| `Settles` | `Settled` |
| `HookCalledOrBlocked` | `Unforgotten` |
| `TempEmptied` | `Unforgotten`, and `Tidy` for the folders on disk |
| `EveryRequestAnswered`, `ConnectionsEnd` | `Unabandoned` |
| `ExitsUnlessStuck` | `Unblocked` |
| `SizesFound` | `Descending` |

## Disagreements between code and documentation

The four violation runs; `PROJECT.json` quotes the line each contradicts. Others
were met while modelling; they have no run of their own, and most are exceptions
that a property states:

- `pending_tasks` (`thread_pool.hpp:105`) is a `std::int16_t`. `load_image` adds one
  task per size before it ends, and `1:1px` gives one size per pixel of width. With
  `Limit` below the number of tasks, `NoLogicError` fails: the counter wraps and a
  thread throws the `logic_error` of line 228.
- `add_task` loads the state at line 155 and pushes at line 168: the pool can get a
  task of a group that errored in between, although line 99 says that no more
  tasks will be added. It is skipped, and the counter stays exact.
- After a failure two processors may own one image: a waiter that fails erases the
  entry of its successor (`image_processing.hpp:116`). `OneOwner` without its
  exception fails with four uploads.
- A duplicate upload whose owner's tasks were left in the deque at shutdown waits
  for ever, so `blocking_shutdown` does not return; nor does it when a worker has
  slept through `notify_all` (`PoolShutdownHangs`). `ExitsUnlessStuck` excepts both.
- Running tasks use the map, libvips and the io context when `main` has destroyed
  them (`main.cpp:109`): without its exception `MissedOnlyAtTheEnd` fails.
- The kill timer is cancelled before the response is written
  (`http_connection.hpp:49`), so a client that does not read keeps its socket
  although `asset-server.cfg:14` says that it is closed: `ConnectionsEnd` fails
  under a specification that does not assume reading clients.
- `std::rand` is not seeded and may repeat itself (`storage/fs.hpp:124`): two processors
  of one image that get the same number write into one folder, and the first to end
  takes it away. The properties of `Storage` except it.
- `create_file` (`storage/fs.hpp:45`) does not look at the stream after `write`, and
  `interface.hpp:124` wants all files or none: `Storage` has files in the store that a
  full disk has cut short (`cut`), and so has `StoreContract`.
- `get_formats` (`config.hpp:224`) appends the formats of `*` to those of the original
  and removes no duplicates, although `interface.hpp:30` says that no file is created
  twice. With the same format twice in `Formats`, `NoFileTwice` fails: two tasks open
  the same file. `WrittenOnce` has the hypothesis that this leaves, and in `Variants`
  the format is counted twice in the answer.
- Two `load_image` at once share one libmagic cookie (`image_processing.hpp:178`): an
  original may get the extension of another image. In `Variants` it may get any
  (`Copy`, when `disturbed`); that it gets its own is not claimed.
- `asset-server.cfg:1` promises the default values, and `:9` and `:16` give 15 and 20
  seconds for the timeouts; `config.hpp:184` has 8 and 10. `AsWritten` states it.
- What a later upload is told differs from what the first one was: the original's
  extent is 0x0 (`image_processing.hpp:252`, which says so), and formats come once.
- `walk_folder` (`storage/fs.hpp:106`) expects a `data_dir` without a slash at its
  end; with one, every later upload of a stored image fails. The same
  happens with a format that has a dot, whose files `find_existing_data` takes for
  those of another name (`image_processing.hpp:265`). Both are exceptions of
  `FoundAgain`.
- `size_spec::parse` accepts a percentage with limit 0, and its loop stays at width
  0 for ever (`config.hpp:93`). `SizesFound` excepts it. `asset-server.cfg:45` asks
  for integers > 0, but 0, negative numbers and whatever follows the digits
  are accepted, and so are `10q` and `50x` for a decrement in pixels, of which two
  characters are cut off (`config.hpp:61`).
- `parse_bytes` wraps at 32 bits: `4G` is 0. A port above 65535 wraps, and
  `thread_pool_size=0` is accepted, with which nothing is ever processed.

## Not modelled, and why

- Transliteration, comments, digests: pure functions on strings with tests.
- The response bodies: `AnswersNameFiles` has their content, not their JSON.
- Races inside asio objects used from two threads, and what libmagic and libvips
  do inside.
- The command line; running out of descriptors.
- Loss of power: what system calls did is taken to survive, as it does the death
  of a process.
- `tests`, deployment, scripts, the two playgrounds: not part of the server.

## What could follow

Everything that was planned is there but one refinement: that `Processing` is what
`Server` has in place of its three tasks. `Server` lets a task use several parts in
one step and makes all formats in one `save`, where `Processing` has a task for each
and adds them in other steps; a mapping would need a module between the two, and
would show no more about either than their properties do. Without a property
remain the failures of the constructor of `std::thread` and of `accept`, and the
races inside asio objects.
