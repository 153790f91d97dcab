---------------------------- MODULE StorageProofs ----------------------------
(***************************************************************************)
(* Proofs about Storage, for any users, hashes, variants and numbers, any  *)
(* number of deaths of the process, and writes that may be cut short: what *)
(* is staged stays intact, no file of the store is torn, no folder is      *)
(* forgotten in temp_dir, and the storage implements StoreContract.        *)
(***************************************************************************)
EXTENDS Storage, TLAPS

-----------------------------------------------------------------------------
(* The inductive invariant.                                                 *)

\* A user has a path of its hash while it is not idle, and only an idle one
\* has nothing at all; a process that is not up has no users.
UserInv ==
  \A u \in Users :
    IF phase[u] = "idle" THEN path[u] = NoPath /\ writing[u] = {} /\ saved[u] = {}
    ELSE /\ boot = "up"
         /\ hash[u] \in Hashes
         /\ path[u] \in Paths

\* Two users that have one path are known to.
SharedInv ==
  \A u, v \in Users :
    u # v /\ phase[u] # "idle" /\ phase[v] # "idle" /\ path[u] = path[v] => u \in shared

\* What a user writes is part of what it has to make.
FilesInv ==
  \A u \in Users :
    /\ writing[u] \cap saved[u] = {}
    /\ writing[u] \cup saved[u] \subseteq {Original} \cup configured

\* The sub-folders of a staged folder are those of configured variants, and
\* there for each file, which is cut short or whole, never both.
DirsInv ==
  \A u \in Users \ shared : phase[u] = "staging" =>
    /\ temp[path[u]].dirs \subseteq configured
    /\ writing[u] \cup saved[u] \subseteq {Original} \cup temp[path[u]].dirs
    /\ temp[path[u]].cut \cap temp[path[u]].whole = {}

\* The folder of a user is there until it is committed, and then no file of
\* it is open.
HeldInv ==
  \A u \in Users :
    /\ u \notin shared /\ phase[u] \in {"staging", "failed"} => temp[path[u]] # NoFolder
    /\ phase[u] = "committed" => writing[u] = {}

\* What was committed is never replaced by a rename.
FullInv == \A h \in Hashes \ mixed : data[h] # Empty

\* What a user that shares its folder with nobody sees of it.
OwnInv == HeldInv /\ StagedIntact /\ DirsInv

\* What the store has.
StoreInv == NothingTorn /\ FullInv

IInv ==
  /\ TypeOK /\ UserInv /\ SharedInv /\ FilesInv
  /\ NoLitter /\ OwnInv /\ StoreInv

-----------------------------------------------------------------------------
(* The beginning, and staging.                                              *)

\* The first state is typed and satisfies the invariant.
LEMMA InitInv == Init => IInv
<1> SUFFICES ASSUME Init PROVE IInv
    OBVIOUS
<1>1. TypeOK
      BY StorageAssumption DEF Init, TypeOK, NobodyStages
<1>2. Empty # NoFolder
      BY NoFolderAssumption DEF Empty, Folder
<1>3. UserInv /\ SharedInv /\ FilesInv /\ NoLitter /\ OwnInv /\ StoreInv
      BY <1>2 DEF Init, NobodyStages, UserInv, SharedInv, FilesInv, NoLitter, OwnInv, HeldInv,
             StagedIntact, DirsInv, StoreInv, NothingTorn, FullInv
<1> QED BY <1>1, <1>3 DEF IInv

\* Staging: a path that nobody has is free, and that of somebody is shared.
LEMMA StageStep ==
  ASSUME IInv, NEW u \in Users, NEW h \in Hashes, Stage(u, h)
  PROVE  IInv'
<1>1. PICK r \in Numbers :
        LET x == <<h, r>>
            others == {v \in Users : path[v] = x}
        IN /\ boot = "up" /\ phase[u] = "idle"
           /\ temp' = [temp EXCEPT ![x] = IF @ = NoFolder THEN Empty ELSE @]
           /\ phase' = [phase EXCEPT ![u] = "staging"]
           /\ hash' = [hash EXCEPT ![u] = h]
           /\ path' = [path EXCEPT ![u] = x]
           /\ shared' = IF others = {} THEN shared ELSE shared \cup others \cup {u}
           /\ UNCHANGED <<data, process, writing, saved, mixed>>
      BY DEF Stage
<1> DEFINE x == <<h, r>>
           others == {v \in Users : path[v] = x}
<1>2. x \in Paths
      BY DEF Paths
<1>3. Empty \in Folder /\ Empty # NoFolder
      BY NoFolderAssumption DEF Empty, Folder
<1>4. boot = "up" /\ boot' = boot /\ configured' = configured /\ data' = data /\ mixed' = mixed
      BY <1>1 DEF process
<1>5. /\ phase[u] = "idle" /\ phase' = [phase EXCEPT ![u] = "staging"]
      /\ path' = [path EXCEPT ![u] = x] /\ hash' = [hash EXCEPT ![u] = h]
      /\ writing' = writing /\ saved' = saved
      BY <1>1
<1>6. temp' = [temp EXCEPT ![x] = IF temp[x] = NoFolder THEN Empty ELSE temp[x]]
      BY <1>1
<1>7. shared' = IF others = {} THEN shared ELSE shared \cup others \cup {u}
      BY <1>1
<1> HIDE DEF x
<1>8. TypeOK'
  <2>1. temp' \in [Paths -> Folder \cup {NoFolder}]
        BY <1>2, <1>3, <1>6 DEF IInv, TypeOK
  <2>2. path' \in [Users -> Paths \cup {NoPath}]
        BY <1>2, <1>5 DEF IInv, TypeOK
  <2>3. shared' \in SUBSET Users
        BY <1>7 DEF IInv, TypeOK
  <2> QED BY <2>1, <2>2, <2>3, <1>4, <1>5 DEF IInv, TypeOK
<1>9. path'[u] = x /\ phase'[u] = "staging" /\ hash'[u] = h
      BY <1>5 DEF IInv, TypeOK
<1>10. \A v \in Users : v # u => path'[v] = path[v] /\ phase'[v] = phase[v] /\ hash'[v] = hash[v]
       BY <1>5 DEF IInv, TypeOK
<1>11. UserInv'
       BY <1>2, <1>4, <1>5, <1>9, <1>10 DEF IInv, UserInv
<1>12. SharedInv'
  <2> SUFFICES ASSUME NEW v \in Users, NEW w \in Users, v # w, phase'[v] # "idle",
                      phase'[w] # "idle", path'[v] = path'[w]
               PROVE  v \in shared'
      BY DEF SharedInv
  <2>1. CASE v = u
    <3>1. w \in others
          BY <2>1, <1>9, <1>10
    <3> QED BY <2>1, <3>1, <1>7
  <2>2. CASE v # u /\ w = u
    <3>1. v \in others
          BY <2>2, <1>9, <1>10
    <3> QED BY <3>1, <1>7
  <2>3. CASE v # u /\ w # u
    <3>1. v \in shared
          BY <2>3, <1>10 DEF IInv, SharedInv
    <3> QED BY <3>1, <1>7
  <2> QED BY <2>1, <2>2, <2>3
<1>13. FilesInv'
       BY <1>4, <1>5 DEF IInv, FilesInv
<1>14. NoLitter'
  <2> SUFFICES ASSUME NEW y \in Paths, temp'[y] # NoFolder
               PROVE  \E v \in Users : phase'[v] \in {"staging", "failed"} /\ path'[v] = y
      BY DEF NoLitter
  <2>1. CASE y = x
        BY <2>1, <1>9
  <2>2. CASE y # x
    <3>1. temp[y] # NoFolder
          BY <2>2, <1>6 DEF IInv, TypeOK
    <3>2. PICK v \in Users : phase[v] \in {"staging", "failed"} /\ path[v] = y
          BY <3>1, <1>4 DEF IInv, NoLitter
    <3> QED BY <3>2, <1>5, <1>10
  <2> QED BY <2>1, <2>2
<1>15. OwnInv'
  <2> SUFFICES ASSUME NEW v \in Users
               PROVE  /\ v \notin shared' /\ phase'[v] \in {"staging", "failed"} =>
                           temp'[path'[v]] # NoFolder
                      /\ phase'[v] = "committed" => writing[v] = {}
                      /\ v \notin shared' /\ phase'[v] = "staging" =>
                           /\ temp'[path'[v]] # NoFolder
                           /\ temp'[path'[v]].torn = writing[v]
                           /\ temp'[path'[v]].cut \cup temp'[path'[v]].whole = saved[v]
                           /\ temp'[path'[v]].dirs \subseteq configured
                           /\ writing[v] \cup saved[v] \subseteq {Original} \cup temp'[path'[v]].dirs
                           /\ temp'[path'[v]].cut \cap temp'[path'[v]].whole = {}
      BY <1>4, <1>5 DEF OwnInv, HeldInv, StagedIntact, DirsInv
  <2>1. CASE v = u
    <3>1. writing[u] = {} /\ saved[u] = {}
          BY <1>5 DEF IInv, UserInv
    <3>2. u \notin shared' => others = {}
          BY <1>7
    <3>3. others = {} => temp[x] = NoFolder
          BY <1>2, <1>4 DEF IInv, NoLitter
    <3>4. temp[x] = NoFolder => temp'[x] = Empty
          BY <1>2, <1>6 DEF IInv, TypeOK
    <3> QED BY <2>1, <1>3, <1>9, <3>1, <3>2, <3>3, <3>4 DEF Empty
  <2>2. CASE v # u
    <3>1. v \notin shared' => v \notin shared /\ path[v] # x
          BY <1>7
    <3>2. path[v] # x => temp'[path[v]] = temp[path[v]]
          BY <1>6 DEF IInv, TypeOK
    <3> QED BY <2>2, <1>10, <3>1, <3>2 DEF IInv, OwnInv, HeldInv, StagedIntact, DirsInv
  <2> QED BY <2>1, <2>2
<1>16. StoreInv'
       BY <1>4 DEF IInv, StoreInv, NothingTorn, FullInv
<1> QED BY <1>8, <1>11, <1>12, <1>13, <1>14, <1>15, <1>16 DEF IInv

-----------------------------------------------------------------------------
(* Steps on a staged folder.                                                *)

\* Whoever changes its own folder leaves those alone that are not shared.
LEMMA OthersKept ==
  ASSUME IInv, NEW u \in Users, NEW v \in Users, u # v, v \notin shared,
         phase[u] # "idle", phase[v] # "idle",
         NEW f, temp' = [temp EXCEPT ![path[u]] = f]
  PROVE  temp'[path[v]] = temp[path[v]]
<1>1. path[v] # path[u]
      BY DEF IInv, SharedInv
<1> QED BY <1>1 DEF IInv, TypeOK

\* A step of a user in its folder, which stays there: what is left to show is
\* what it does to that folder and to the files of the user.
LEMMA FolderStep ==
  ASSUME IInv, NEW u \in Users, phase[u] \in {"staging", "failed"},
         temp[path[u]] # NoFolder,
         NEW f \in Folder, temp' = [temp EXCEPT ![path[u]] = f],
         UNCHANGED <<data, boot, configured, phase, hash, path, shared, mixed>>,
         writing' \in [Users -> SUBSET Names], saved' \in [Users -> SUBSET Names],
         \A v \in Users : v # u => writing'[v] = writing[v] /\ saved'[v] = saved[v],
         writing'[u] \cap saved'[u] = {},
         writing'[u] \cup saved'[u] \subseteq {Original} \cup configured,
         u \notin shared /\ phase[u] = "staging" =>
           /\ f.torn = writing'[u]
           /\ f.cut \cup f.whole = saved'[u]
           /\ f.dirs \subseteq configured
           /\ writing'[u] \cup saved'[u] \subseteq {Original} \cup f.dirs
           /\ f.cut \cap f.whole = {}
  PROVE  IInv'
<1>1. path[u] \in Paths /\ boot = "up"
      BY DEF IInv, UserInv
<1>2. f # NoFolder /\ temp'[path[u]] = f
      BY <1>1, NoFolderAssumption DEF IInv, TypeOK
<1>3. TypeOK'
  <2>1. temp' \in [Paths -> Folder \cup {NoFolder}]
        BY <1>1 DEF IInv, TypeOK
  <2> QED BY <2>1 DEF IInv, TypeOK
<1>4. UserInv'
      BY <1>1 DEF IInv, UserInv
<1>5. SharedInv'
      BY DEF IInv, SharedInv
<1>6. FilesInv'
      BY DEF IInv, FilesInv
<1>7. NoLitter'
  <2> SUFFICES ASSUME NEW y \in Paths, temp'[y] # NoFolder
               PROVE  \E v \in Users : phase[v] \in {"staging", "failed"} /\ path[v] = y
      BY DEF NoLitter
  <2>1. temp[y] # NoFolder
        BY DEF IInv, TypeOK
  <2> QED BY <2>1, <1>1 DEF IInv, NoLitter
<1>8. OwnInv'
  <2> SUFFICES ASSUME NEW v \in Users
               PROVE  /\ v \notin shared /\ phase[v] \in {"staging", "failed"} =>
                           temp'[path[v]] # NoFolder
                      /\ phase[v] = "committed" => writing'[v] = {}
                      /\ v \notin shared /\ phase[v] = "staging" =>
                           /\ temp'[path[v]] # NoFolder
                           /\ temp'[path[v]].torn = writing'[v]
                           /\ temp'[path[v]].cut \cup temp'[path[v]].whole = saved'[v]
                           /\ temp'[path[v]].dirs \subseteq configured
                           /\ writing'[v] \cup saved'[v] \subseteq {Original} \cup temp'[path[v]].dirs
                           /\ temp'[path[v]].cut \cap temp'[path[v]].whole = {}
      BY DEF OwnInv, HeldInv, StagedIntact, DirsInv
  <2>1. CASE v = u
        BY <2>1, <1>2
  <2>2. CASE v # u
    <3>1. v \notin shared /\ phase[v] # "idle" => temp'[path[v]] = temp[path[v]]
          BY <2>2, OthersKept
    <3> QED BY <2>2, <3>1 DEF IInv, OwnInv, HeldInv, StagedIntact, DirsInv
  <2> QED BY <2>1, <2>2
<1>9. StoreInv'
      BY DEF IInv, StoreInv, NothingTorn, FullInv
<1> QED BY <1>3, <1>4, <1>5, <1>6, <1>7, <1>8, <1>9 DEF IInv

\* A sub-folder is made.
LEMMA CreateFolderStep ==
  ASSUME IInv, NEW u \in Users, NEW d \in Variants, CreateFolder(u, d)
  PROVE  IInv'
<1> DEFINE x == path[u]
           f == [temp[x] EXCEPT !.dirs = @ \cup {d}]
<1>1. x \in Paths /\ temp[x] # NoFolder /\ phase[u] \in {"staging", "failed"}
      BY DEF IInv, UserInv, CreateFolder, Active
<1>2. temp[x] \in Folder
      BY <1>1 DEF IInv, TypeOK
<1>3. /\ f \in Folder
      /\ f.dirs = temp[x].dirs \cup {d} /\ f.torn = temp[x].torn
      /\ f.cut = temp[x].cut /\ f.whole = temp[x].whole
      BY <1>2 DEF Folder
<1>4. temp' = [temp EXCEPT ![x] = f]
      BY DEF CreateFolder
<1>5. d \in configured /\ UNCHANGED <<data, boot, configured, phase, hash, path, shared, mixed>>
      /\ writing' = writing /\ saved' = saved
      BY DEF CreateFolder, process, users, history
<1>6. writing \in [Users -> SUBSET Names] /\ saved \in [Users -> SUBSET Names]
      BY DEF IInv, TypeOK
<1>7. writing[u] \cap saved[u] = {} /\ writing[u] \cup saved[u] \subseteq {Original} \cup configured
      BY DEF IInv, FilesInv
<1>8. u \notin shared /\ phase[u] = "staging" =>
           /\ f.torn = writing[u]
           /\ f.cut \cup f.whole = saved[u]
           /\ f.dirs \subseteq configured
           /\ writing[u] \cup saved[u] \subseteq {Original} \cup f.dirs
           /\ f.cut \cap f.whole = {}
      BY <1>3, <1>5 DEF IInv, OwnInv, StagedIntact, DirsInv
<1> HIDE DEF f
<1> QED BY <1>1, <1>3, <1>4, <1>5, <1>6, <1>7, <1>8, FolderStep

\* A file is opened, and counts as torn from then on.
LEMMA OpenFileStep ==
  ASSUME IInv, NEW u \in Users, NEW n \in Names, OpenFile(u, n)
  PROVE  IInv'
<1> DEFINE x == path[u]
           f == Torn(temp[x], n)
<1>1. x \in Paths /\ temp[x] # NoFolder /\ phase[u] \in {"staging", "failed"}
      BY DEF IInv, UserInv, OpenFile, Active
<1>2. temp[x] \in Folder
      BY <1>1 DEF IInv, TypeOK
<1>3. /\ f \in Folder
      /\ f.dirs = temp[x].dirs /\ f.torn = temp[x].torn \cup {n}
      /\ f.cut = temp[x].cut \ {n} /\ f.whole = temp[x].whole \ {n}
      BY <1>2 DEF Folder, Torn, Without
<1>4. temp' = [temp EXCEPT ![x] = f]
      BY DEF OpenFile
<1>5. UNCHANGED <<data, boot, configured, phase, hash, path, shared, mixed>> /\ saved' = saved
      BY DEF OpenFile, process, history
<1>6. writing' = [writing EXCEPT ![u] = @ \cup {n}]
      BY DEF OpenFile
<1>7. writing' \in [Users -> SUBSET Names] /\ saved' \in [Users -> SUBSET Names]
      BY <1>5, <1>6 DEF IInv, TypeOK
<1>8. writing'[u] = writing[u] \cup {n} /\ \A v \in Users : v # u => writing'[v] = writing[v]
      BY <1>6 DEF IInv, TypeOK
<1>9. n \notin saved[u] /\ n \in {Original} \cup configured /\ n \in {Original} \cup temp[x].dirs
      BY DEF OpenFile
<1>10. writing'[u] \cap saved[u] = {} /\ writing'[u] \cup saved[u] \subseteq {Original} \cup configured
       BY <1>8, <1>9 DEF IInv, FilesInv
<1>11. u \notin shared /\ phase[u] = "staging" =>
           /\ f.torn = writing'[u]
           /\ f.cut \cup f.whole = saved[u]
           /\ f.dirs \subseteq configured
           /\ writing'[u] \cup saved[u] \subseteq {Original} \cup f.dirs
           /\ f.cut \cap f.whole = {}
  <2> SUFFICES ASSUME u \notin shared, phase[u] = "staging"
               PROVE  /\ f.torn = writing'[u]
                      /\ f.cut \cup f.whole = saved[u]
                      /\ f.dirs \subseteq configured
                      /\ writing'[u] \cup saved[u] \subseteq {Original} \cup f.dirs
                      /\ f.cut \cap f.whole = {}
      OBVIOUS
  <2>1. temp[x].torn = writing[u] /\ temp[x].cut \cup temp[x].whole = saved[u]
        BY DEF IInv, OwnInv, StagedIntact
  <2>2. /\ temp[x].dirs \subseteq configured
        /\ writing[u] \cup saved[u] \subseteq {Original} \cup temp[x].dirs
        /\ temp[x].cut \cap temp[x].whole = {}
        BY DEF IInv, OwnInv, DirsInv
  <2> HIDE DEF x, f
  <2> QED BY <1>3, <1>8, <1>9, <2>1, <2>2
<1> HIDE DEF f
<1> QED BY <1>1, <1>3, <1>4, <1>5, <1>7, <1>8, <1>10, <1>11, FolderStep

\* A file is closed, with all of its data or cut short.
LEMMA CloseFileStep ==
  ASSUME IInv, NEW u \in Users, NEW n \in Names, CloseFile(u, n)
  PROVE  IInv'
<1> DEFINE x == path[u]
<1>1. x \in Paths /\ phase[u] \in {"staging", "failed"}
      BY DEF IInv, TypeOK, UserInv, OwnInv, HeldInv, CloseFile
<1>2. UNCHANGED <<data, boot, configured, phase, hash, path, shared, mixed>>
      BY DEF CloseFile, process, history
<1>3. n \in writing[u] /\ writing' = [writing EXCEPT ![u] = @ \ {n}]
      /\ saved' = [saved EXCEPT ![u] = @ \cup {n}]
      BY DEF CloseFile
<1>4. writing' \in [Users -> SUBSET Names] /\ saved' \in [Users -> SUBSET Names]
      BY <1>3 DEF IInv, TypeOK
<1>5. /\ writing'[u] = writing[u] \ {n} /\ saved'[u] = saved[u] \cup {n}
      /\ \A v \in Users : v # u => writing'[v] = writing[v] /\ saved'[v] = saved[v]
      BY <1>3 DEF IInv, TypeOK
<1>6. /\ writing'[u] \cap saved'[u] = {}
      /\ writing'[u] \cup saved'[u] \subseteq {Original} \cup configured
      BY <1>3, <1>5 DEF IInv, FilesInv
<1>7. CASE temp[x] = NoFolder
  <2>1. temp' = temp
        BY <1>7 DEF CloseFile
  <2>2. u \in shared
        BY <1>1, <1>7 DEF IInv, OwnInv, HeldInv
  <2>3. TypeOK'
        BY <1>2, <1>4, <2>1 DEF IInv, TypeOK
  <2>4. UserInv' /\ SharedInv' /\ FilesInv' /\ NoLitter' /\ StoreInv'
        BY <1>1, <1>2, <1>5, <1>6, <2>1
           DEF IInv, UserInv, SharedInv, FilesInv, NoLitter, StoreInv, NothingTorn, FullInv
  <2>5. OwnInv'
        BY <1>1, <1>2, <1>5, <2>1, <2>2 DEF IInv, OwnInv, HeldInv, StagedIntact, DirsInv
  <2> QED BY <2>3, <2>4, <2>5 DEF IInv
<1>8. CASE temp[x] # NoFolder
  <2>1. PICK f \in {Written(temp[x], n), CutShort(temp[x], n)} : temp' = [temp EXCEPT ![x] = f]
        BY <1>8 DEF CloseFile
  <2>2. temp[x] \in Folder
        BY <1>1, <1>8 DEF IInv, TypeOK
  <2>3. /\ f \in Folder
        /\ f.dirs = temp[x].dirs /\ f.torn = temp[x].torn \ {n}
        /\ f.cut \cup f.whole = temp[x].cut \cup temp[x].whole \cup {n}
        /\ temp[x].cut \cap temp[x].whole = {} => f.cut \cap f.whole = {}
    <3>1. CASE f = Written(temp[x], n)
          BY <2>2, <3>1 DEF Folder, Written, Without
    <3>2. CASE f = CutShort(temp[x], n)
          BY <2>2, <3>2 DEF Folder, CutShort, Without
    <3> QED BY <2>1, <3>1, <3>2
  <2>4. u \notin shared /\ phase[u] = "staging" =>
           /\ f.torn = writing'[u]
           /\ f.cut \cup f.whole = saved'[u]
           /\ f.dirs \subseteq configured
           /\ writing'[u] \cup saved'[u] \subseteq {Original} \cup f.dirs
           /\ f.cut \cap f.whole = {}
    <3> SUFFICES ASSUME u \notin shared, phase[u] = "staging"
                 PROVE  /\ f.torn = writing'[u]
                        /\ f.cut \cup f.whole = saved'[u]
                        /\ f.dirs \subseteq configured
                        /\ writing'[u] \cup saved'[u] \subseteq {Original} \cup f.dirs
                        /\ f.cut \cap f.whole = {}
        OBVIOUS
    <3>1. temp[x].torn = writing[u] /\ temp[x].cut \cup temp[x].whole = saved[u]
          BY DEF IInv, OwnInv, StagedIntact
    <3>2. /\ temp[x].dirs \subseteq configured
          /\ writing[u] \cup saved[u] \subseteq {Original} \cup temp[x].dirs
          /\ temp[x].cut \cap temp[x].whole = {}
          BY DEF IInv, OwnInv, DirsInv
    <3> HIDE DEF x
    <3> QED BY <1>3, <1>5, <2>3, <3>1, <3>2
  <2> QED BY <1>1, <1>2, <1>4, <1>5, <1>6, <1>8, <2>1, <2>3, <2>4, FolderStep
<1> QED BY <1>7, <1>8

\* A user fails: its folder stays.
LEMMA FailStep ==
  ASSUME IInv, NEW u \in Users, Fail(u)
  PROVE  IInv'
<1>1. /\ UNCHANGED <<temp, data, boot, configured, hash, path, writing, saved, shared, mixed>>
      /\ phase[u] = "staging" /\ phase' = [phase EXCEPT ![u] = "failed"]
      BY DEF Fail, files, process, history
<1>2. TypeOK'
      BY <1>1 DEF IInv, TypeOK
<1>3. \A v \in Users : phase'[v] = phase[v] \/ (phase[v] = "staging" /\ phase'[v] = "failed")
      BY <1>1 DEF IInv, TypeOK
<1>4. UserInv' /\ SharedInv' /\ FilesInv'
      BY <1>1, <1>3 DEF IInv, UserInv, SharedInv, FilesInv
<1>5. NoLitter'
      BY <1>1, <1>3 DEF IInv, NoLitter
<1>6. OwnInv'
      BY <1>1, <1>3 DEF IInv, OwnInv, HeldInv, StagedIntact, DirsInv
<1>7. StoreInv'
      BY <1>1 DEF IInv, StoreInv, NothingTorn, FullInv
<1> QED BY <1>2, <1>4, <1>5, <1>6, <1>7 DEF IInv

-----------------------------------------------------------------------------
(* The end of a staged folder.                                              *)

\* What is committed has all that is configured, and nothing torn: finalize
\* runs when every file is saved, and then none is open.
LEMMA CommittedIsComplete ==
  ASSUME IInv, NEW u \in Users \ shared, Commit(u)
  PROVE  /\ temp[path[u]] =
              [dirs |-> configured, torn |-> {}, cut |-> temp[path[u]].cut,
               whole |-> (configured \cup {Original}) \ temp[path[u]].cut]
         /\ temp[path[u]].cut \subseteq configured \cup {Original}
<1> DEFINE f == temp[path[u]]
<1>1. saved[u] = {Original} \cup configured /\ phase[u] = "staging"
      BY DEF Commit, AllSaved
<1>2. writing[u] = {}
      BY <1>1 DEF IInv, FilesInv
<1>3. f.torn = {} /\ f.cut \cup f.whole = configured \cup {Original}
      BY <1>1, <1>2 DEF IInv, OwnInv, StagedIntact
<1>4. f.cut \cap f.whole = {}
      BY <1>1 DEF IInv, OwnInv, DirsInv
<1>5. f.dirs = configured
  <2>1. Original \notin configured
        BY StorageAssumption DEF IInv, TypeOK
  <2>2. f.dirs \subseteq configured /\ saved[u] \subseteq {Original} \cup f.dirs
        BY <1>1 DEF IInv, OwnInv, DirsInv
  <2> QED BY <1>1, <2>1, <2>2
<1>6. f \in Folder
      BY <1>1 DEF IInv, TypeOK, UserInv, Commit, Rename, CanRename
<1> QED BY <1>3, <1>4, <1>5, <1>6 DEF Folder

\* A commit moves the folder of one user, and of nobody else, unless it is
\* shared.
LEMMA CommitStep ==
  ASSUME IInv, NEW u \in Users, Commit(u)
  PROVE  IInv'
<1> DEFINE x == path[u]
<1>1. x \in Paths /\ temp[x] # NoFolder /\ phase[u] = "staging" /\ hash[u] \in Hashes
      BY DEF IInv, UserInv, Commit, Rename, CanRename
<1>2. temp[x] \in Folder /\ writing[u] = {} /\ boot = "up"
      BY <1>1 DEF IInv, TypeOK, UserInv, FilesInv, Commit, AllSaved
<1>3. /\ UNCHANGED <<boot, configured, hash, path, writing, saved, shared>>
      /\ temp' = [temp EXCEPT ![x] = NoFolder]
      /\ data' = [data EXCEPT ![hash[u]] = temp[x]]
      /\ mixed' = IF u \in shared THEN mixed \cup {hash[u]} ELSE mixed
      /\ phase' = [phase EXCEPT ![u] = "committed"]
      BY DEF Commit, Rename, process
<1>4. TypeOK'
  <2>1. mixed' \in SUBSET Hashes
        BY <1>1, <1>3 DEF IInv, TypeOK
  <2> QED BY <2>1, <1>1, <1>2, <1>3 DEF IInv, TypeOK
<1>5. phase'[u] = "committed" /\ \A v \in Users : v # u => phase'[v] = phase[v]
      BY <1>3 DEF IInv, TypeOK
<1>6. UserInv' /\ SharedInv' /\ FilesInv'
  <2>1. UserInv'
        BY <1>1, <1>2, <1>3, <1>5 DEF IInv, UserInv
  <2>2. SharedInv'
        BY <1>1, <1>3, <1>5 DEF IInv, SharedInv
  <2> QED BY <2>1, <2>2, <1>3 DEF IInv, FilesInv
<1>7. NoLitter'
  <2> SUFFICES ASSUME NEW y \in Paths, temp'[y] # NoFolder
               PROVE  \E v \in Users : phase'[v] \in {"staging", "failed"} /\ path[v] = y
      BY <1>3 DEF NoLitter
  <2>1. y # x /\ temp[y] # NoFolder
        BY <1>3 DEF IInv, TypeOK
  <2>2. PICK v \in Users : phase[v] \in {"staging", "failed"} /\ path[v] = y
        BY <2>1, <1>2 DEF IInv, NoLitter
  <2> QED BY <2>1, <2>2, <1>5
<1>8. OwnInv'
  <2> SUFFICES ASSUME NEW v \in Users
               PROVE  /\ v \notin shared /\ phase'[v] \in {"staging", "failed"} =>
                           phase[v] = phase'[v] /\ temp'[path[v]] = temp[path[v]]
                      /\ phase'[v] = "committed" => v = u \/ phase[v] = "committed"
      BY <1>2, <1>3 DEF IInv, OwnInv, HeldInv, StagedIntact, DirsInv
  <2>1. CASE v = u
        BY <2>1, <1>5
  <2>2. CASE v # u
    <3>1. v \notin shared /\ phase[v] # "idle" => temp'[path[v]] = temp[path[v]]
          BY <2>2, <1>1, <1>3, OthersKept
    <3> QED BY <2>2, <3>1, <1>5
  <2> QED BY <2>1, <2>2
<1>9. StoreInv'
  <2> SUFFICES ASSUME NEW h \in Hashes, h \notin mixed'
               PROVE  /\ data'[h] # NoFolder => data'[h].torn = {}
                      /\ data'[h] # Empty
      BY DEF StoreInv, NothingTorn, FullInv
  <2>1. CASE h = hash[u]
    <3>1. u \notin shared
          BY <2>1, <1>3
    <3>2. data'[h] = temp[x]
          BY <2>1, <1>3 DEF IInv, TypeOK
    <3>3. /\ temp[x] = [dirs |-> configured, torn |-> {}, cut |-> temp[x].cut,
                       whole |-> (configured \cup {Original}) \ temp[x].cut]
          /\ temp[x].cut \subseteq configured \cup {Original}
          BY <3>1, CommittedIsComplete
    <3>4. /\ temp[x].torn = {} /\ temp[x] # Empty
          BY <3>3 DEF Empty
    <3> QED BY <3>2, <3>4
  <2>2. CASE h # hash[u]
    <3>1. data'[h] = data[h] /\ h \notin mixed
          BY <2>2, <1>3 DEF IInv, TypeOK
    <3> QED BY <3>1 DEF IInv, StoreInv, NothingTorn, FullInv
  <2> QED BY <2>1, <2>2
<1> QED BY <1>4, <1>6, <1>7, <1>8, <1>9 DEF IInv

\* A destructor, however late it comes, removes no path but that of its user.
LEMMA DestroyStep ==
  ASSUME IInv, NEW u \in Users, Destroy(u)
  PROVE  IInv'
<1> DEFINE x == path[u]
<1>1. x \in Paths /\ phase[u] \in {"failed", "committed"} /\ writing[u] = {} /\ boot = "up"
      BY DEF IInv, UserInv, Destroy
<1>2. /\ temp' = [temp EXCEPT ![x] = NoFolder]
      /\ UNCHANGED <<data, boot, configured, writing, mixed>>
      /\ phase' = [phase EXCEPT ![u] = "idle"]
      /\ hash' = [hash EXCEPT ![u] = NoFolder]
      /\ path' = [path EXCEPT ![u] = NoPath]
      /\ saved' = [saved EXCEPT ![u] = {}]
      /\ shared' = shared \ {u}
      BY DEF Destroy, Forget, process
<1>3. TypeOK'
      BY <1>1, <1>2 DEF IInv, TypeOK
<1>4. /\ phase'[u] = "idle" /\ path'[u] = NoPath /\ saved'[u] = {}
      /\ \A v \in Users : v # u => /\ phase'[v] = phase[v] /\ path'[v] = path[v]
                                   /\ saved'[v] = saved[v] /\ hash'[v] = hash[v]
      BY <1>2 DEF IInv, TypeOK
<1>5. UserInv' /\ SharedInv'
  <2>1. UserInv'
        BY <1>1, <1>2, <1>4 DEF IInv, UserInv
  <2>2. SharedInv'
        BY <1>2, <1>4 DEF IInv, SharedInv
  <2> QED BY <2>1, <2>2
<1>6. FilesInv'
      BY <1>1, <1>2, <1>4 DEF IInv, FilesInv
<1>7. NoLitter'
  <2> SUFFICES ASSUME NEW y \in Paths, temp'[y] # NoFolder
               PROVE  \E v \in Users : phase'[v] \in {"staging", "failed"} /\ path'[v] = y
      BY DEF NoLitter
  <2>1. y # x /\ temp[y] # NoFolder
        BY <1>2 DEF IInv, TypeOK
  <2>2. PICK v \in Users : phase[v] \in {"staging", "failed"} /\ path[v] = y
        BY <2>1, <1>1 DEF IInv, NoLitter
  <2> QED BY <2>1, <2>2, <1>4
<1>8. OwnInv'
  <2> SUFFICES ASSUME NEW v \in Users, phase'[v] # "idle"
               PROVE  /\ phase'[v] = phase[v] /\ path'[v] = path[v] /\ saved'[v] = saved[v]
                      /\ v \notin shared' => v \notin shared /\ temp'[path[v]] = temp[path[v]]
      BY <1>2 DEF IInv, OwnInv, HeldInv, StagedIntact, DirsInv
  <2>1. v # u
        BY <1>4
  <2>2. v \notin shared' => v \notin shared
        BY <2>1, <1>2
  <2>3. v \notin shared' => temp'[path[v]] = temp[path[v]]
        BY <2>1, <2>2, <1>1, <1>2, <1>4, OthersKept
  <2> QED BY <2>1, <2>2, <2>3, <1>4
<1>9. StoreInv'
      BY <1>2 DEF IInv, StoreInv, NothingTorn, FullInv
<1> QED BY <1>3, <1>5, <1>6, <1>7, <1>8, <1>9 DEF IInv

-----------------------------------------------------------------------------
(* The life of the process.                                                 *)

\* The process dies, at whatever moment.
LEMMA DieStep ==
  ASSUME IInv, Die
  PROVE  IInv'
<1>1. TypeOK'
      BY StorageAssumption DEF IInv, TypeOK, Die, files
<1>2. (UserInv /\ SharedInv /\ FilesInv /\ NoLitter /\ OwnInv)'
      BY DEF Die, UserInv, SharedInv, FilesInv, NoLitter, OwnInv, HeldInv, StagedIntact,
             DirsInv
<1>3. StoreInv'
      BY DEF IInv, StoreInv, NothingTorn, FullInv, Die, files
<1> QED BY <1>1, <1>2, <1>3 DEF IInv

\* init: the process is not up, so that nobody stages, and it is up when
\* temp_dir is empty.
LEMMA StartStep ==
  ASSUME IInv, Start
  PROVE  IInv'
<1>1. boot # "up"
      BY DEF Start, Restart, ClearFolder, MakeDirectories
<1>2. UNCHANGED users /\ UNCHANGED data /\ UNCHANGED history
      BY DEF Start, Restart, ClearFolder, MakeDirectories, files
<1>3. \A u \in Users : phase[u] = "idle" /\ path[u] = NoPath /\ writing[u] = {} /\ saved[u] = {}
      BY <1>1 DEF IInv, UserInv
<1>4. TypeOK'
  <2>1. CASE Restart
        BY <2>1 DEF IInv, TypeOK, Restart, files, users, history
  <2>2. ASSUME NEW x \in Paths, ClearFolder(x) PROVE TypeOK'
        BY <2>2 DEF IInv, TypeOK, ClearFolder, process, users, history
  <2>3. CASE MakeDirectories
        BY <2>3 DEF IInv, TypeOK, MakeDirectories, files, users, history
  <2> QED BY <2>1, <2>2, <2>3 DEF Start
<1>5. (UserInv /\ SharedInv /\ FilesInv /\ OwnInv)'
      BY <1>2, <1>3 DEF users, UserInv, SharedInv, FilesInv, OwnInv, HeldInv, StagedIntact,
                        DirsInv
<1>6. NoLitter'
      BY <1>1 DEF Start, Restart, ClearFolder, MakeDirectories, Cleared, NoLitter,
                  process, files
<1>7. StoreInv'
      BY <1>2 DEF IInv, StoreInv, NothingTorn, FullInv, history
<1> QED BY <1>4, <1>5, <1>6, <1>7 DEF IInv

-----------------------------------------------------------------------------
(* Every step.                                                              *)

\* The invariant is inductive.
LEMMA StepInv == IInv /\ [Next]_vars => IInv'
<1> SUFFICES ASSUME IInv, [Next]_vars PROVE IInv'
    OBVIOUS
<1>1. ASSUME NEW u \in Users, Work(u) PROVE IInv'
      BY <1>1, CreateFolderStep, OpenFileStep, CloseFileStep, FailStep, CommitStep,
         DieStep, DestroyStep DEF Work, CommitThrows
<1>2. ASSUME NEW u \in Users, NEW h \in Hashes, Stage(u, h) PROVE IInv'
      BY <1>2, StageStep
<1>3. CASE Crash
      BY <1>3, DieStep DEF Crash
<1>4. CASE Start
      BY <1>4, StartStep
<1>5. CASE UNCHANGED vars
      BY <1>5 DEF vars, IInv, TypeOK, UserInv, SharedInv, FilesInv, NoLitter, OwnInv, HeldInv,
                  StagedIntact, DirsInv, StoreInv, NothingTorn, FullInv
<1> QED BY <1>1, <1>2, <1>3, <1>4, <1>5 DEF Next

\* The invariant always holds.
THEOREM Invariance == Spec => []IInv
BY InitInv, StepInv, PTL DEF Spec

\* Every variable keeps its type.
THEOREM TypeCorrect == Spec => []TypeOK
<1>1. IInv => TypeOK
      BY DEF IInv
<1> QED BY <1>1, Invariance, PTL

\* What a user has saved is there until it commits: no late destructor and no
\* left-over of a dead process touches it, unless std::rand repeats itself.
THEOREM Intact == Spec => []StagedIntact
<1>1. IInv => StagedIntact
      BY DEF IInv, OwnInv
<1> QED BY <1>1, Invariance, PTL

\* No file of the store is still being written or was when its writer died or
\* failed, unless std::rand repeats itself; it may be cut short.
THEOREM Whole == Spec => []NothingTorn
<1>1. IInv => NothingTorn
      BY DEF IInv, StoreInv
<1> QED BY <1>1, Invariance, PTL

\* While the server is up, every folder of temp_dir has a user that will take
\* it away.
THEOREM Tidy == Spec => []NoLitter
<1>1. IInv => NoLitter
      BY DEF IInv
<1> QED BY <1>1, Invariance, PTL

-----------------------------------------------------------------------------
(* Refinement.                                                              *)

\* What the contract sees of the store.
Seen == [h \in Hashes |-> IF h \in mixed THEN NoFolder ELSE data[h]]

\* A commit publishes, a restart restarts, and nothing else shows.
LEMMA StepRefines == IInv /\ [Next]_vars => [Contract!Next]_(Contract!vars)
<1> SUFFICES ASSUME IInv, [Next]_vars PROVE [Contract!Next]_(Contract!vars)
    OBVIOUS
<1>1. ASSUME NEW u \in Users, Commit(u) PROVE [Contract!Next]_(Contract!vars)
  <2> DEFINE x == path[u]
  <2>1. hash[u] \in Hashes /\ configured' = configured
        BY <1>1 DEF IInv, UserInv, Commit, Rename, process
  <2>2. /\ data[hash[u]] \in {NoFolder, Empty}
        /\ data' = [data EXCEPT ![hash[u]] = temp[x]]
        /\ mixed' = IF u \in shared THEN mixed \cup {hash[u]} ELSE mixed
        BY <1>1 DEF Commit, Rename, CanRename
  <2>3. Seen[hash[u]] = NoFolder
        BY <2>1, <2>2 DEF IInv, StoreInv, FullInv, Seen
  <2>4. CASE hash[u] \in mixed'
    <3>1. Seen' = Seen
      <4> SUFFICES ASSUME NEW h \in Hashes PROVE Seen'[h] = Seen[h]
          BY DEF Seen
      <4>1. CASE h = hash[u]
            BY <4>1, <2>3, <2>4 DEF Seen
      <4>2. CASE h # hash[u]
            BY <4>2, <2>2 DEF IInv, TypeOK, Seen
      <4> QED BY <4>1, <4>2
    <3>2. UNCHANGED Contract!vars
          BY <2>1, <3>1 DEF Contract!vars, Seen
    <3> QED BY <3>2
  <2>5. CASE hash[u] \notin mixed'
    <3>1. u \in Users \ shared
          BY <2>2, <2>5
    <3>2. Seen' = [Seen EXCEPT ![hash[u]] = temp[x]]
      <4> SUFFICES ASSUME NEW h \in Hashes
                   PROVE  Seen'[h] = IF h = hash[u] THEN temp[x] ELSE Seen[h]
          BY DEF Seen
      <4> QED BY <2>2, <2>5 DEF IInv, TypeOK, Seen
    <3>3. /\ temp[x].cut \in SUBSET Contract!Files
          /\ temp[x] = Contract!Complete(temp[x].cut)
          BY <1>1, <3>1, CommittedIsComplete DEF Contract!Complete, Contract!Files
    <3>4. PICK h \in Hashes : h = hash[u]
          BY <2>1
    <3>5. Contract!Publish(h)
          BY <2>1, <2>3, <3>2, <3>3, <3>4 DEF Contract!Publish, Seen
    <3> QED BY <3>5 DEF Contract!Next
  <2> QED BY <2>4, <2>5
<1>2. ASSUME UNCHANGED <<data, mixed, configured>> PROVE UNCHANGED Contract!vars
      BY <1>2 DEF Contract!vars
<1>3. ASSUME NEW u \in Users, Work(u), ~Commit(u) PROVE UNCHANGED <<data, mixed, configured>>
      BY <1>3 DEF Work, CreateFolder, OpenFile, CloseFile, Fail, CommitThrows, Die, Destroy,
                  files, process, history
<1>4. ASSUME NEW u \in Users, NEW h \in Hashes, Stage(u, h)
      PROVE  UNCHANGED <<data, mixed, configured>>
      BY <1>4 DEF Stage, process
<1>5. CASE Crash
      BY <1>2, <1>5 DEF Crash, Die, files
<1>6. CASE Restart
      BY <1>6 DEF Restart, files, history, Contract!Next, Contract!Restart
<1>7. ASSUME NEW x \in Paths, ClearFolder(x) PROVE UNCHANGED <<data, mixed, configured>>
      BY <1>7 DEF ClearFolder, process, history
<1>8. CASE MakeDirectories
      BY <1>2, <1>8 DEF MakeDirectories, files, history
<1>9. CASE UNCHANGED vars
      BY <1>2, <1>9 DEF vars
<1> QED BY <1>1, <1>2, <1>3, <1>4, <1>5, <1>6, <1>7, <1>8, <1>9 DEF Next, Start

\* The storage is an atomic store of folders in which nothing is missing, across
\* deaths and restarts, as far as std::rand does not repeat itself.
THEOREM Refinement == Spec => ImplementsContract
<1>1. Init => Contract!Init
      BY DEF Init, Contract!Init
<1> QED BY <1>1, StepRefines, Invariance, PTL DEF Spec, ImplementsContract, Contract!Spec
=============================================================================
