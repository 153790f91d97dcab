------------------------------- MODULE Storage -------------------------------
(***************************************************************************)
(* The filesystem backend of src/storage/fs.hpp and the directories that   *)
(* outlive the process: staged folders in temp_dir, their files being      *)
(* written by several threads, the commit by rename into data_dir, the     *)
(* destructor that cleans up, the death of the process at any moment, and  *)
(* init at the next start.                                                 *)
(*                                                                         *)
(* A user is the image_processor that has a staged folder.  Several may    *)
(* stage folders of one hash, since one that failed is destroyed late, and *)
(* after a failure two may own one image (see Processing).  A variant has  *)
(* a folder with one file; the original is a file next to these folders.   *)
(* What the system calls did survives the process (not a loss of power,    *)
(* since nothing is synced).                                               *)
(***************************************************************************)
EXTENDS FiniteSets

CONSTANTS Users, Hashes,
          Variants,     \* what a server may be configured to make
          Original,     \* the name of the uploaded file
          Numbers,      \* what std::rand may return
          NoFolder, NoNumber

ASSUME StorageAssumption ==
  /\ IsFiniteSet(Users) /\ IsFiniteSet(Hashes) /\ IsFiniteSet(Variants)
  /\ Original \notin Variants
  /\ NoFolder \notin Hashes /\ NoNumber \notin Numbers

VARIABLES temp, data,  \* the two directories
          boot,        \* "down", "clearing" (in init), "up"
          configured,  \* the variants of this start's configuration
          phase,       \* what each user is about
          hash, path,  \* final_name and path of its staged folder
          writing,     \* its files that are open
          saved,       \* its files that create_file has returned for
          shared,      \* history: users whose path another one was given too
          mixed        \* history: hashes committed from a shared path

files == <<temp, data>>
process == <<boot, configured>>
users == <<phase, hash, path, writing, saved>>
history == <<shared, mixed>>
vars == <<temp, data, boot, configured, phase, hash, path, writing, saved,
          shared, mixed>>

Names == Variants \cup {Original}
Paths == Hashes \X Numbers
NoPath == <<NoFolder, NoNumber>>

(***************************************************************************)
(* A folder has sub-folders, files that are being written (or were, when   *)
(* the process died), files that a failed write has cut short, and whole   *)
(* ones.                                                                   *)
(***************************************************************************)
Folder == [dirs : SUBSET Variants,
           torn : SUBSET Names, cut : SUBSET Names, whole : SUBSET Names]
Empty == [dirs |-> {}, torn |-> {}, cut |-> {}, whole |-> {}]
Without(f, n) == [f EXCEPT !.torn = @ \ {n}, !.cut = @ \ {n}, !.whole = @ \ {n}]
Torn(f, n) == [Without(f, n) EXCEPT !.torn = @ \cup {n}]
CutShort(f, n) == [Without(f, n) EXCEPT !.cut = @ \cup {n}]
Written(f, n) == [Without(f, n) EXCEPT !.whole = @ \cup {n}]

ASSUME NoFolderAssumption == NoFolder \notin Folder

NobodyStages ==
  /\ phase = [u \in Users |-> "idle"]
  /\ hash = [u \in Users |-> NoFolder]
  /\ path = [u \in Users |-> NoPath]
  /\ writing = [u \in Users |-> {}]
  /\ saved = [u \in Users |-> {}]
  /\ shared = {}

Init ==
  /\ temp = [x \in Paths |-> NoFolder]
  /\ data = [h \in Hashes |-> NoFolder]
  /\ boot = "down"
  /\ configured \in SUBSET Variants
  /\ mixed = {}
  /\ NobodyStages

-----------------------------------------------------------------------------
(* The life of a staged folder.                                             *)

\* create_staged_folder.  Nothing looks whether the number is new (nor is
\* std::rand seeded, so a process starts with those that the last one had), and
\* create_directory accepts a folder that is there.
StageWithoutNumber(u, h) ==
  LET x == <<h, CHOOSE r \in Numbers : TRUE>>
  IN /\ boot = "up" /\ phase[u] = "idle"
     /\ temp' = [temp EXCEPT ![x] = IF @ = NoFolder THEN Empty ELSE @]
     /\ phase' = [phase EXCEPT ![u] = "staging"]
     /\ hash' = [hash EXCEPT ![u] = h]
     /\ path' = [path EXCEPT ![u] = x]
     /\ UNCHANGED <<data, process, writing, saved, history>>
Stage(u, h) ==
  \E r \in Numbers :
    LET x == <<h, r>>
        others == {v \in Users : path[v] = x}
    IN /\ boot = "up" /\ phase[u] = "idle"
       /\ temp' = [temp EXCEPT ![x] = IF @ = NoFolder THEN Empty ELSE @]
       /\ phase' = [phase EXCEPT ![u] = "staging"]
       /\ hash' = [hash EXCEPT ![u] = h]
       /\ path' = [path EXCEPT ![u] = x]
       /\ shared' = IF others = {} THEN shared ELSE shared \cup others \cup {u}
       /\ UNCHANGED <<data, process, writing, saved, mixed>>

\* Tasks that run when another one fails go on to the end.
Active(u) == phase[u] \in {"staging", "failed"} /\ temp[path[u]] # NoFolder

CreateFolder(u, v) ==
  /\ Active(u) /\ Original \in saved[u]
  /\ v \in configured \ temp[path[u]].dirs
  /\ temp' = [temp EXCEPT ![path[u]].dirs = @ \cup {v}]
  /\ UNCHANGED <<data, process, users, history>>

\* create_file opens, which truncates, and writes.
OpenFile(u, n) ==
  /\ Active(u)
  /\ n = Original \/ n \in temp[path[u]].dirs \cap configured
  /\ n \notin writing[u] \cup saved[u]
  /\ temp' = [temp EXCEPT ![path[u]] = Torn(@, n)]
  /\ writing' = [writing EXCEPT ![u] = @ \cup {n}]
  /\ UNCHANGED <<data, process, phase, hash, path, saved, history>>

\* Nobody asks the stream whether everything was written.  (The folder may be
\* gone if it was shared.)
CloseFile(u, n) ==
  /\ n \in writing[u]
  /\ writing' = [writing EXCEPT ![u] = @ \ {n}]
  /\ saved' = [saved EXCEPT ![u] = @ \cup {n}]
  /\ IF temp[path[u]] = NoFolder THEN UNCHANGED temp
     ELSE \/ temp' = [temp EXCEPT ![path[u]] = Written(@, n)]
          \/ temp' = [temp EXCEPT ![path[u]] = CutShort(@, n)]
  /\ UNCHANGED <<data, process, phase, hash, path, history>>

\* A task of the user throws; the entry of the hash is free for others.
Fail(u) ==
  /\ phase[u] = "staging"
  /\ phase' = [phase EXCEPT ![u] = "failed"]
  /\ UNCHANGED <<files, process, hash, path, writing, saved, history>>

AllSaved(u) == saved[u] = {Original} \cup configured
EnoughSaved(u) == configured \subseteq temp[path[u]].dirs

\* commit_staged_folder: the rename of a folder that is there to a name that is
\* not taken, or that of an empty folder.
CanRename(u) == temp[path[u]] # NoFolder /\ data[hash[u]] \in {NoFolder, Empty}
Rename(u) ==
  /\ CanRename(u)
  /\ data' = [data EXCEPT ![hash[u]] = temp[path[u]]]
  /\ temp' = [temp EXCEPT ![path[u]] = NoFolder]
  /\ mixed' = IF u \in shared THEN mixed \cup {hash[u]} ELSE mixed
  /\ phase' = [phase EXCEPT ![u] = "committed"]
  /\ UNCHANGED <<process, hash, path, writing, saved, shared>>
CommitEarly(u) ==
  /\ phase[u] = "staging" /\ EnoughSaved(u)
  /\ Rename(u)
Commit(u) ==
  /\ phase[u] = "staging" /\ AllSaved(u)
  /\ Rename(u)

\* The destructor, when the last closure with the processor is gone.  After a
\* commit it removes the path too, which is free by then: should_cleanup was
\* cleared in a copy of the object.
Forget(u) ==
  /\ phase' = [phase EXCEPT ![u] = "idle"]
  /\ hash' = [hash EXCEPT ![u] = NoFolder]
  /\ path' = [path EXCEPT ![u] = NoPath]
  /\ saved' = [saved EXCEPT ![u] = {}]
  /\ shared' = shared \ {u}
DestroyKeeps(u) ==
  /\ phase[u] \in {"failed", "committed"} /\ writing[u] = {}
  /\ Forget(u)
  /\ UNCHANGED <<files, process, writing, mixed>>
Destroy(u) ==
  /\ phase[u] \in {"failed", "committed"} /\ writing[u] = {}
  /\ temp' = [temp EXCEPT ![path[u]] = NoFolder]
  /\ Forget(u)
  /\ UNCHANGED <<data, process, writing, mixed>>

-----------------------------------------------------------------------------
(* The life of the process.                                                 *)

Die ==
  /\ boot' = "down"
  /\ phase' = [u \in Users |-> "idle"]
  /\ hash' = [u \in Users |-> NoFolder]
  /\ path' = [u \in Users |-> NoPath]
  /\ writing' = [u \in Users |-> {}]
  /\ saved' = [u \in Users |-> {}]
  /\ shared' = {}
  /\ UNCHANGED <<files, configured, mixed>>

Crash == boot # "down" /\ Die

\* A rename that throws ends the process: nobody catches what leaves finalize.
CommitThrows(u) ==
  /\ phase[u] = "staging" /\ AllSaved(u) /\ ~CanRename(u)
  /\ Die

\* The configuration may have been edited.
Restart ==
  /\ boot = "down"
  /\ boot' = "clearing"
  /\ configured' \in SUBSET Variants
  /\ UNCHANGED <<files, users, history>>

\* init: remove_all takes one folder after the other.
ClearFolder(x) ==
  /\ boot = "clearing"
  /\ temp[x] # NoFolder
  /\ temp' = [temp EXCEPT ![x] = NoFolder]
  /\ UNCHANGED <<data, process, users, history>>

Cleared == \A x \in Paths : temp[x] = NoFolder
MakeDirectoriesOnly ==
  /\ boot = "clearing"
  /\ boot' = "up"
  /\ UNCHANGED <<files, configured, users, history>>
MakeDirectories ==
  /\ boot = "clearing" /\ Cleared
  /\ boot' = "up"
  /\ UNCHANGED <<files, configured, users, history>>

-----------------------------------------------------------------------------
Work(u) ==
  \/ \E v \in Variants : CreateFolder(u, v)
  \/ \E n \in Names : OpenFile(u, n) \/ CloseFile(u, n)
  \/ Fail(u) \/ Commit(u) \/ CommitThrows(u) \/ Destroy(u)

Start == Restart \/ (\E x \in Paths : ClearFolder(x)) \/ MakeDirectories

Next ==
  \/ \E u \in Users : Work(u) \/ \E h \in Hashes : Stage(u, h)
  \/ Crash
  \/ Start

Spec == Init /\ [][Next]_vars

-----------------------------------------------------------------------------
(* Properties.                                                              *)

\* Every variable has its type.
TypeOK ==
  /\ temp \in [Paths -> Folder \cup {NoFolder}]
  /\ data \in [Hashes -> Folder \cup {NoFolder}]
  /\ boot \in {"down", "clearing", "up"}
  /\ configured \in SUBSET Variants
  /\ phase \in [Users -> {"idle", "staging", "failed", "committed"}]
  /\ hash \in [Users -> Hashes \cup {NoFolder}]
  /\ path \in [Users -> Paths \cup {NoPath}]
  /\ writing \in [Users -> SUBSET Names]
  /\ saved \in [Users -> SUBSET Names]
  /\ shared \in SUBSET Users
  /\ mixed \in SUBSET Hashes

\* A folder gets into the store only when nobody writes to it any more, and
\* nobody does later: no file of the store is torn, whoever died or failed while
\* it was written, unless std::rand gave two processors of the hash the same
\* number at the same time.  (Files that a failed write cut short may be there.)
NothingTorn ==
  \A h \in Hashes \ mixed : data[h] # NoFolder => data[h].torn = {}

\* What a user has saved is there until it commits: no destructor of another
\* user of the same hash, nor what a dead process left, touches it, unless
\* std::rand has repeated a number while the first one was in use.
StagedIntact ==
  \A u \in Users \ shared : phase[u] = "staging" =>
    /\ temp[path[u]] # NoFolder
    /\ temp[path[u]].torn = writing[u]
    /\ temp[path[u]].cut \cup temp[path[u]].whole = saved[u]

\* "You should implement a destructor that cleans up the temporary folder":
\* while the server is up, a folder of temp_dir is that of a user that is about
\* it, whose commit or destructor will take it away: what dead processes left is
\* gone, and no destructor leaves anything.
NoLitter ==
  boot = "up" =>
    \A x \in Paths : temp[x] # NoFolder =>
      \E u \in Users : phase[u] \in {"staging", "failed"} /\ path[u] = x

\* Across deaths, restarts and changes of the configuration the storage is an
\* atomic store of folders in which nothing is missing.
Contract == INSTANCE StoreContract WITH
  available <- [h \in Hashes |-> IF h \in mixed THEN NoFolder ELSE data[h]]
ImplementsContract == Contract!Spec
=============================================================================
