--------------------------- MODULE VariantsProofs ---------------------------
(***************************************************************************)
(* Proofs about Variants: every answer names the files that are stored,    *)
(* and an image that is stored is found again.  What makes them so is that *)
(* the staged folder and the fields of the processor say the same, but for *)
(* the files that are yet to be saved, and that a name is divided where it *)
(* was put together.                                                       *)
(***************************************************************************)
EXTENDS Variants, SequenceTheorems, TLAPS

-----------------------------------------------------------------------------
(* Texts.                                                                   *)

\* The name of a file is divided at its last dot, which is the one before its
\* format when that has none.
LEMMA NameSplit ==
  ASSUME NEW x, NEW f, IsText(f)
  PROVE  LET t == Name(<<x>>, f)
         IN /\ Name(WithoutExtension(t), Extension(t)) = t
            /\ Len(f) = 1 => WithoutExtension(t) = <<x>>
<1> DEFINE S == {x} \cup Range(f)
<1> DEFINE t == <<x>> \o f
<1>1. f \in Seq(S) /\ Len(f) \in Nat \ {0} /\ <<x>> \in Seq(S) /\ Len(<<x>>) = 1 /\ <<x>>[1] = x
  <2>1. f \in Seq(Range(f)) /\ f # <<>>
    BY DEF IsText
  <2>2. Range(f) \subseteq S
    OBVIOUS
  <2>3. f \in Seq(S)
    BY <2>1, <2>2
  <2> QED
    BY <2>1, <2>3, EmptySeq, LenProperties
<1>2. /\ t \in Seq(S) /\ Len(t) = 1 + Len(f)
      /\ t[1] = x /\ \A k \in 1..Len(f) : t[k + 1] = f[k]
  <2>1. /\ t \in Seq(S) /\ Len(t) = Len(<<x>>) + Len(f)
        /\ \A k \in 1..Len(t) : t[k] = IF k <= Len(<<x>>) THEN <<x>>[k] ELSE f[k - Len(<<x>>)]
    BY <1>1, ConcatProperties
  <2>2. \A k \in 1..Len(f) : k + 1 \in 1..Len(t) /\ ~(k + 1 <= 1) /\ (k + 1) - 1 = k
    BY <1>1, <2>1
  <2> QED
    BY <1>1, <2>1, <2>2
<1> HIDE DEF t
<1>3. WithoutExtension(t) = SubSeq(t, 1, Len(f)) /\ Extension(t) = <<t[Len(t)]>>
  BY <1>1, <1>2 DEF WithoutExtension, Extension, Front, Last
<1> DEFINE a == SubSeq(t, 1, Len(f))
<1> DEFINE b == <<t[Len(t)]>>
<1>4. /\ a \in Seq(S) /\ Len(a) = Len(f) /\ \A k \in 1..Len(f) : a[k] = t[k]
      /\ b \in Seq(S) /\ Len(b) = 1 /\ b[1] = t[Len(t)]
  <2>1. \A k \in 1..Len(f) : t[k] \in S
    BY <1>1, <1>2, ElementOfSeq
  <2>2. t[Len(t)] \in S
    BY <1>1, <1>2, ElementOfSeq
  <2> QED
    BY <1>1, <1>2, <2>1, <2>2, SubSeqProperties
<1> HIDE DEF a, b
<1>5. a \o b = t
  <2>1. Len(f) \in Nat /\ Len(t) = Len(a) + Len(b) /\ Len(a) = Len(f)
    BY <1>1, <1>2, <1>4
  <2>2. a \in Seq(S) /\ b \in Seq(S)
    BY <1>4
  <2>3. /\ a \o b \in Seq(S) /\ Len(a \o b) = Len(a) + Len(b)
        /\ \A k \in 1..Len(a) + Len(b) : (a \o b)[k] = IF k <= Len(a) THEN a[k] ELSE b[k - Len(a)]
    BY <2>2, ConcatProperties
  <2>4. \A k \in 1..Len(t) : (a \o b)[k] = t[k]
    <3> SUFFICES ASSUME NEW k \in 1..Len(t) PROVE (a \o b)[k] = t[k]
      OBVIOUS
    <3>1. k \in 1..Len(a) + Len(b) /\ Len(b) = 1
      BY <1>4, <2>1
    <3>2. CASE k <= Len(f)
      BY <1>4, <2>1, <2>3, <3>1, <3>2
    <3>3. CASE k = Len(f) + 1
      <4>1. (a \o b)[k] = b[1] /\ k = Len(t)
        BY <2>1, <2>3, <3>1, <3>3
      <4> QED
        BY <1>4, <4>1
    <3> QED
      BY <2>1, <3>1, <3>2, <3>3
  <2> QED
    BY <1>2, <2>1, <2>3, <2>4, SeqEqual
<1>6. Len(f) = 1 => a = <<x>>
  BY <1>1, <1>2, <1>4, SeqEqual
<1> QED
  BY <1>3, <1>5, <1>6 DEF Name, a, b, t

\* What has no dot in it begins with the whole of a name.
LEMMA Underscored ==
  ASSUME NEW text
  PROVE  /\ \E x : Sanitized(text) = <<x>>
         /\ IsText(Sanitized(text))
<1> DEFINE x == FoldLeft(LAMBDA done, part : done \o <<"_">> \o part, Head(text), Tail(text))
<1>1. Sanitized(text) = <<x>>
  BY DEF Sanitized
<1> HIDE DEF x
<1> QED
  BY <1>1, EmptySeq DEF IsText, Range

\* Formats are not empty.
LEMMA FormatsAreTexts ==
  /\ \A o \in Originals : IsText(o)
  /\ \A o, f : f \in Range(GetFormats(o)) => IsText(f)
<1>1. ASSUME NEW o, NEW f, f \in Range(GetFormats(o)) PROVE IsText(f)
  <2> DEFINE first == IF o \in DOMAIN FormatsOf THEN FormatsOf[o] ELSE <<>>
  <2> DEFINE Good == {g \in Range(first) \cup Range(AllFormats) : IsText(g)}
  <2>1. first \in Seq(Good)
    <3>1. CASE o \in DOMAIN FormatsOf
      <4>1. FormatsOf[o] \in Range(FormatsOf)
        BY <3>1 DEF Range
      <4>2. first \in Seq(Range(first)) /\ Range(first) \subseteq Good
        BY <3>1, <4>1, VariantsAssumption
      <4> QED
        BY <4>2
    <3>2. CASE o \notin DOMAIN FormatsOf
      BY <3>2, EmptySeq
    <3> QED
      BY <3>1, <3>2
  <2>2. AllFormats \in Seq(Good)
    <3>1. AllFormats \in Seq(Range(AllFormats)) /\ Range(AllFormats) \subseteq Good
      BY VariantsAssumption
    <3> QED
      BY <3>1
  <2> HIDE DEF first, Good
  <2>3. first \o AllFormats \in Seq(Good)
    BY <2>1, <2>2, ConcatProperties
  <2>4. f \in Good
    <3>1. PICK k \in DOMAIN (first \o AllFormats) : f = (first \o AllFormats)[k]
      BY <1>1 DEF GetFormats, Range, first
    <3> QED
      BY <2>3, <3>1, ElementOfSeq, LenProperties
  <2> QED
    BY <2>4 DEF Good
<1> QED
  BY <1>1, Underscored, VariantsAssumption DEF Originals

-----------------------------------------------------------------------------
(* The inductive invariant.                                                 *)

\* Every variable has its type.
TypeOK ==
  /\ image \in [Uploads -> Images \cup {None}]
  /\ suggested \in [Uploads -> Suggested \cup {None}]
  /\ phase \in [Uploads -> Processing \cup {"none", "check", "found", "error", "new"}]
  /\ \A u \in Uploads : phase[u] # "none" => image[u] \in Images /\ suggested[u] \in Suggested
  /\ DOMAIN filename = Uploads /\ DOMAIN original = Uploads /\ DOMAIN extent = Uploads
  /\ DOMAIN dimensions = Uploads /\ DOMAIN saving = Uploads
  /\ staged \in [Uploads -> Folders]
  /\ stored \in [Images -> Folders \cup {None}]
  /\ disturbed \subseteq Uploads

\* An image is processed by one upload, which is the first.
AloneInv ==
  \A u \in Uploads : phase[u] \in Processing =>
    /\ stored[image[u]] = None
    /\ \A v \in Uploads : phase[v] \in Processing /\ image[v] = image[u] => v = u

\* A processor has no sizes until it has loaded the image, and its file name
\* has no dot.
LoadInv ==
  \A u \in Uploads :
    /\ phase[u] \in {"none", "check", "load", "magic"} => dimensions[u] = {}
    /\ phase[u] # "resize" => saving[u] = {}
    /\ phase[u] \notin {"resize", "new"} => extent[u] = <<0, 0>>
    /\ phase[u] \in {"check"} \cup Processing \cup {"new"} => filename[u] \in Filenames

\* Whatever libmagic answers, the original has one of the formats there are,
\* and the extent is that of the image.
FormatInv ==
  \A u \in Uploads :
    /\ phase[u] \in {"check"} \cup Processing \cup {"new"} => original[u] \in Originals
    /\ phase[u] \in {"resize", "new"} => extent[u] = Extent[image[u]]

\* The staged folder has the files that the processor knows of, but for those
\* that are yet to be saved.
NamesOf(u) == {Name(filename[u], f) : f \in Range(GetFormats(original[u]))}
SavedAs(u, size) ==
  {Name(filename[u], GetFormats(original[u])[n]) :
     n \in {m \in DOMAIN GetFormats(original[u]) : <<size, m>> \in saving[u]}}
KnownSizes(u) == {<<d.width, d.height>> : d \in dimensions[u]}
FolderInv(u) ==
  /\ staged[u].files = {Name(filename[u], original[u])}
  /\ DOMAIN staged[u].folders = KnownSizes(u)
  /\ \A d \in dimensions[u] : d.formats = Times(GetFormats(original[u]))
  /\ \A size \in KnownSizes(u) : staged[u].folders[size] \cup SavedAs(u, size) = NamesOf(u)
  /\ \A task \in saving[u] :
       \E size \in KnownSizes(u), n \in DOMAIN GetFormats(original[u]) : task = <<size, n>>
StagedInv == \A u \in Uploads : phase[u] \in {"resize", "new"} => FolderInv(u)

\* A folder is stored by the one upload that processed the image.
StoredInv ==
  /\ \A u \in Uploads : phase[u] = "new" => stored[image[u]] = staged[u]
  /\ \A i \in Images : stored[i] # None => \E u \in Uploads : phase[u] = "new" /\ image[u] = i

\* Who found the folder lists it, and every format once.
FoundInv ==
  \A u \in Uploads : phase[u] = "found" =>
    /\ stored[image[u]] # None /\ Listed(u) = stored[image[u]]
    /\ \A d \in dimensions[u] : \A f \in DOMAIN d.formats : d.formats[f] = 1

\* The inductive invariant.
IInv ==
  /\ TypeOK /\ AloneInv /\ LoadInv /\ FormatInv /\ StagedInv /\ StoredInv
  /\ FoundInv /\ FoundAgain

-----------------------------------------------------------------------------
(* Folders.                                                                 *)

\* What the type of a folder says.
LEMMA FolderParts ==
  ASSUME NEW F \in Folders
  PROVE  /\ F = [files |-> F.files, folders |-> F.folders]
         /\ F.files \subseteq Names /\ DOMAIN F.folders \subseteq Dimensions
         /\ \A size \in DOMAIN F.folders : F.folders[size] \subseteq Names
<1>1. PICK sizes \in SUBSET Dimensions : F.folders \in [sizes -> SUBSET Names]
  BY DEF Folders
<1> QED
  BY <1>1 DEF Folders

\* A new folder is empty.
LEMMA NewIsFolder ==
  NewFolder \in Folders /\ NewFolder.files = {} /\ DOMAIN NewFolder.folders = {}
<1>1. DOMAIN <<>> = {}
  BY EmptySeq, LenProperties
<1>2. <<>> \in [{} -> SUBSET Names]
  BY <1>1
<1>3. <<>> \in UNION {[sizes -> SUBSET Names] : sizes \in SUBSET Dimensions}
  BY <1>2
<1> QED
  BY <1>1, <1>3 DEF NewFolder, Folders

\* A file is added to it.
LEMMA FileCreated ==
  ASSUME NEW F \in Folders, NEW name \in Names
  PROVE  LET G == CreateFile(F, name)
         IN G \in Folders /\ G.files = F.files \cup {name} /\ G.folders = F.folders
BY DEF Folders, CreateFile

\* A folder that is created in it is empty.
LEMMA FolderCreated ==
  ASSUME NEW F \in Folders, NEW size \in Dimensions
  PROVE  LET G == CreateFolder(F, size)
         IN /\ G \in Folders /\ G.files = F.files
            /\ DOMAIN G.folders = DOMAIN F.folders \cup {size}
            /\ \A s \in DOMAIN F.folders : G.folders[s] = F.folders[s]
            /\ size \notin DOMAIN F.folders => G.folders[size] = {}
<1> DEFINE folders == [s \in DOMAIN F.folders \cup {size} |->
                         IF s \in DOMAIN F.folders THEN F.folders[s] ELSE {}]
<1>1. CreateFolder(F, size) = [F EXCEPT !.folders = folders]
  BY DEF CreateFolder
<1>2. folders \in UNION {[sizes -> SUBSET Names] : sizes \in SUBSET Dimensions}
  <2>1. DOMAIN F.folders \cup {size} \in SUBSET Dimensions
    BY FolderParts
  <2>2. folders \in [DOMAIN F.folders \cup {size} -> SUBSET Names]
    BY FolderParts
  <2> QED
    BY <2>1, <2>2
<1>3. /\ DOMAIN folders = DOMAIN F.folders \cup {size}
      /\ \A s \in DOMAIN F.folders : folders[s] = F.folders[s]
      /\ size \notin DOMAIN F.folders => folders[size] = {}
  OBVIOUS
<1> HIDE DEF folders
<1> QED
  BY <1>1, <1>2, <1>3, FolderParts DEF Folders

\* A file is added to a folder in it.
LEMMA FileCreatedIn ==
  ASSUME NEW F \in Folders, NEW size \in DOMAIN F.folders, NEW name \in Names
  PROVE  LET G == CreateFileIn(F, size, name)
         IN /\ G \in Folders /\ G.files = F.files
            /\ DOMAIN G.folders = DOMAIN F.folders
            /\ \A s \in DOMAIN F.folders :
                 G.folders[s] = IF s = size THEN F.folders[s] \cup {name} ELSE F.folders[s]
<1> DEFINE folders == [F.folders EXCEPT ![size] = @ \cup {name}]
<1>1. CreateFileIn(F, size, name) = [F EXCEPT !.folders = folders]
  BY DEF CreateFileIn
<1>2. PICK sizes \in SUBSET Dimensions : F.folders \in [sizes -> SUBSET Names]
  BY DEF Folders
<1>3. /\ folders \in UNION {[z -> SUBSET Names] : z \in SUBSET Dimensions}
      /\ DOMAIN folders = DOMAIN F.folders
      /\ \A s \in DOMAIN F.folders :
           folders[s] = IF s = size THEN F.folders[s] \cup {name} ELSE F.folders[s]
  <2>1. folders \in [sizes -> SUBSET Names]
    BY <1>2
  <2> QED
    BY <1>2, <2>1
<1> HIDE DEF folders
<1> QED
  BY <1>1, <1>3, FolderParts DEF Folders

\* The files of an image have names of its folder.
LEMMA NamesAreNames ==
  ASSUME NEW name \in Filenames, NEW o \in Originals
  PROVE  Name(name, o) \in Names /\ \A f \in Range(GetFormats(o)) : Name(name, f) \in Names
BY DEF Names

\* What a processor lists depends on its fields alone.
LEMMA ListedKept ==
  ASSUME NEW u, filename'[u] = filename[u], original'[u] = original[u],
         dimensions'[u] = dimensions[u]
  PROVE  /\ Listed(u)' = Listed(u) /\ NamesOf(u)' = NamesOf(u)
         /\ KnownSizes(u)' = KnownSizes(u)
         /\ saving'[u] = saving[u] /\ staged'[u] = staged[u] => FolderInv(u)' = FolderInv(u)
<1>1. /\ Listed(u)' = Listed(u) /\ NamesOf(u)' = NamesOf(u)
      /\ KnownSizes(u)' = KnownSizes(u)
  BY DEF Listed, NamesOf, KnownSizes
<1>2. ASSUME saving'[u] = saving[u], staged'[u] = staged[u]
      PROVE  FolderInv(u)' = FolderInv(u)
  <2>1. \A size : SavedAs(u, size)' = SavedAs(u, size)
    BY <1>2 DEF SavedAs
  <2> QED
    BY <1>1, <1>2, <2>1 DEF FolderInv
<1> QED
  BY <1>1, <1>2

\* When all files are saved, the folder is as the processor lists it.
LEMMA AllSaved ==
  ASSUME TypeOK, LoadInv, StagedInv, NEW u \in Uploads, phase[u] \in {"resize", "new"},
         saving[u] = {}
  PROVE  Listed(u) = staged[u]
<1> DEFINE F == staged[u]
<1> DEFINE G == Listed(u)
<1>1. /\ F = [files |-> F.files, folders |-> F.folders]
      /\ F.files = {Name(filename[u], original[u])}
      /\ DOMAIN F.folders = KnownSizes(u)
      /\ F.folders = [size \in DOMAIN F.folders |-> F.folders[size]]
  <2>1. F \in Folders
    BY DEF TypeOK
  <2>2. PICK sizes \in SUBSET Dimensions : F.folders \in [sizes -> SUBSET Names]
    BY <2>1 DEF Folders
  <2> QED
    BY <2>1, <2>2, FolderParts DEF StagedInv, FolderInv
<1>2. \A size \in KnownSizes(u) : F.folders[size] = NamesOf(u)
  <2>1. \A size : SavedAs(u, size) = {}
    BY DEF SavedAs
  <2>2. \A size \in KnownSizes(u) : F.folders[size] \cup SavedAs(u, size) = NamesOf(u)
    BY DEF StagedInv, FolderInv
  <2> QED
    BY <2>1, <2>2
<1>3. \A size \in KnownSizes(u) :
        UNION {DOMAIN d.formats : d \in {e \in dimensions[u] : size = <<e.width, e.height>>}}
          = Range(GetFormats(original[u]))
  BY DEF StagedInv, FolderInv, KnownSizes, Times
<1>4. \A size \in KnownSizes(u) : G.folders[size] = NamesOf(u)
  BY <1>3 DEF Listed, NamesOf, KnownSizes
<1>5. /\ G = [files |-> G.files, folders |-> G.folders]
      /\ G.files = {Name(filename[u], original[u])}
      /\ G.folders = [size \in KnownSizes(u) |-> G.folders[size]]
  BY DEF Listed, KnownSizes
<1> HIDE DEF F, G
<1>6. F.folders = G.folders
  BY <1>1, <1>2, <1>4, <1>5
<1> QED
  BY <1>1, <1>5, <1>6 DEF F, G

-----------------------------------------------------------------------------
(* The steps.                                                               *)

\* An upload begins.
LEMMA RunStep ==
  ASSUME IInv, NEW u \in Uploads, NEW i \in Images, NEW name \in Suggested, Run(u, i, name)
  PROVE  IInv'
<1>1. /\ phase[u] = "none" /\ phase' = [phase EXCEPT ![u] = "check"]
      /\ image' = [image EXCEPT ![u] = i] /\ suggested' = [suggested EXCEPT ![u] = name]
      /\ filename' = [filename EXCEPT ![u] = Sanitized(WithoutExtension(name))]
      /\ original' = [original EXCEPT ![u] = Sanitized(Extension(name))]
      /\ UNCHANGED <<trailing, extent, dimensions, saving, staged, stored, disturbed>>
  BY DEF Run, Goto
<1>2. /\ phase'[u] = "check" /\ image'[u] = i /\ suggested'[u] = name
      /\ filename'[u] = Sanitized(WithoutExtension(name))
      /\ original'[u] = Sanitized(Extension(name))
  BY <1>1 DEF IInv, TypeOK
<1>3. \A v \in Uploads \ {u} :
        /\ phase'[v] = phase[v] /\ image'[v] = image[v] /\ suggested'[v] = suggested[v]
        /\ filename'[v] = filename[v] /\ original'[v] = original[v]
  BY <1>1 DEF IInv, TypeOK
<1>4. TypeOK'
  BY <1>1, <1>2, <1>3 DEF IInv, TypeOK
<1>5. AloneInv'
  BY <1>1, <1>2, <1>3 DEF IInv, AloneInv, Processing
<1>6. LoadInv'
  BY <1>1, <1>2, <1>3 DEF IInv, LoadInv, Filenames, Processing
<1>7. FormatInv'
  BY <1>1, <1>2, <1>3 DEF IInv, FormatInv, Originals
<1>8. StagedInv' /\ FoundInv'
  BY <1>1, <1>2, <1>3, ListedKept DEF IInv, StagedInv, FoundInv
<1>9. StoredInv'
  BY <1>1, <1>2, <1>3 DEF IInv, StoredInv
<1>10. FoundAgain'
  BY <1>1, <1>2, <1>3 DEF IInv, FoundAgain
<1> QED
  BY <1>4, <1>5, <1>6, <1>7, <1>8, <1>9, <1>10 DEF IInv

\* It owns an image that is new.
LEMMA ClaimStep ==
  ASSUME IInv, NEW u \in Uploads, Claim(u)
  PROVE  IInv'
<1>1. /\ phase[u] = "check" /\ phase' = [phase EXCEPT ![u] = "load"]
      /\ UNCHANGED <<names, fields, saving, staged, stored, disturbed>>
  BY DEF Claim, Goto
<1>2. phase'[u] = "load" /\ \A v \in Uploads \ {u} : phase'[v] = phase[v]
  BY <1>1 DEF IInv, TypeOK
<1>3. UNCHANGED <<image, suggested, trailing, filename, original, extent, dimensions>>
  BY <1>1 DEF names, fields
<1>4. TypeOK'
  BY <1>1, <1>2, <1>3 DEF IInv, TypeOK, Processing
<1>5. AloneInv'
  BY <1>1, <1>2, <1>3 DEF Claim, IInv, AloneInv
<1>6. LoadInv'
  BY <1>1, <1>2, <1>3 DEF IInv, LoadInv, Processing
<1>7. FormatInv'
  BY <1>1, <1>2, <1>3 DEF IInv, FormatInv, Processing
<1>8. StagedInv' /\ FoundInv'
  BY <1>1, <1>2, <1>3, ListedKept DEF IInv, StagedInv, FoundInv
<1>9. StoredInv'
  BY <1>1, <1>2, <1>3 DEF IInv, StoredInv
<1>10. FoundAgain'
  BY <1>1, <1>2, <1>3 DEF IInv, FoundAgain
<1> QED
  BY <1>4, <1>5, <1>6, <1>7, <1>8, <1>9, <1>10 DEF IInv

\* It asks libmagic, and may disturb others.
LEMMA CallMagicStep ==
  ASSUME IInv, NEW u \in Uploads, CallMagic(u)
  PROVE  IInv'
<1>1. /\ phase[u] = "load" /\ phase' = [phase EXCEPT ![u] = "magic"]
      /\ UNCHANGED <<names, fields, saving, staged, stored>>
      /\ disturbed \subseteq disturbed' /\ disturbed' \subseteq Uploads
  BY DEF CallMagic, Goto, IInv, TypeOK
<1>2. phase'[u] = "magic" /\ \A v \in Uploads \ {u} : phase'[v] = phase[v]
  BY <1>1 DEF IInv, TypeOK
<1>3. UNCHANGED <<image, suggested, trailing, filename, original, extent, dimensions>>
  BY <1>1 DEF names, fields
<1>4. TypeOK'
  BY <1>1, <1>2, <1>3 DEF IInv, TypeOK, Processing
<1>5. AloneInv'
  BY <1>1, <1>2, <1>3 DEF IInv, AloneInv, Processing
<1>6. LoadInv'
  BY <1>1, <1>2, <1>3 DEF IInv, LoadInv, Processing
<1>7. FormatInv'
  BY <1>1, <1>2, <1>3 DEF IInv, FormatInv, Processing
<1>8. StagedInv' /\ FoundInv'
  BY <1>1, <1>2, <1>3, ListedKept DEF IInv, StagedInv, FoundInv
<1>9. StoredInv'
  BY <1>1, <1>2, <1>3 DEF IInv, StoredInv
<1>10. FoundAgain'
  BY <1>1, <1>2, <1>3 DEF IInv, FoundAgain
<1> QED
  BY <1>4, <1>5, <1>6, <1>7, <1>8, <1>9, <1>10 DEF IInv

\* What is stored is the folder of a processor that is over.
LEMMA WhatIsStored ==
  ASSUME IInv, NEW i \in Images, stored[i] # None
  PROVE  \E v \in Uploads :
           /\ phase[v] = "new" /\ image[v] = i
           /\ stored[i] \in Folders
           /\ stored[i].files = {Name(filename[v], original[v])}
           /\ \A size \in DOMAIN stored[i].folders : stored[i].folders[size] = NamesOf(v)
           /\ filename[v] \in Filenames /\ original[v] \in Originals
<1>1. PICK v \in Uploads : phase[v] = "new" /\ image[v] = i
  BY DEF IInv, StoredInv
<1>2. stored[i] = staged[v] /\ FolderInv(v) /\ saving[v] = {}
  BY <1>1 DEF IInv, StoredInv, StagedInv, LoadInv
<1>3. \A size : SavedAs(v, size) = {}
  BY <1>2 DEF SavedAs
<1>4. \A size \in DOMAIN staged[v].folders : staged[v].folders[size] = NamesOf(v)
  BY <1>2, <1>3 DEF FolderInv
<1>5. stored[i] \in Folders
  BY DEF IInv, TypeOK
<1>6. filename[v] \in Filenames /\ original[v] \in Originals
  BY <1>1 DEF IInv, LoadInv, FormatInv
<1> QED
  BY <1>1, <1>2, <1>4, <1>5, <1>6 DEF FolderInv

\* The files of an image are named again from the parts of their names.
LEMMA NamesAgain ==
  ASSUME NEW n \in Filenames, NEW f, IsText(f)
  PROVE  /\ Name(WithoutExtension(Name(n, f)), Extension(Name(n, f))) = Name(n, f)
         /\ Len(f) = 1 => WithoutExtension(Name(n, f)) = n
<1>1. PICK x : n = <<x>>
  BY Underscored DEF Filenames
<1> QED
  BY <1>1, NameSplit

\* An upload that finds its image lists what is stored, and no format twice.
LEMMA FoundLists ==
  ASSUME IInv, NEW u \in Uploads, stored[image[u]] # None, image[u] \in Images,
         NEW file \in stored[image[u]].files, Fits(stored[image[u]], file),
         Found(u, stored[image[u]], file)
  PROVE  /\ Listed(u)' = stored[image[u]]
         /\ extent'[u] = <<0, 0>>
         /\ \A d \in dimensions'[u] : \A f \in DOMAIN d.formats : d.formats[f] = 1
<1> DEFINE F == stored[image[u]]
<1>1. PICK v \in Uploads :
        /\ F \in Folders /\ F.files = {Name(filename[v], original[v])}
        /\ \A size \in DOMAIN F.folders : F.folders[size] = NamesOf(v)
        /\ filename[v] \in Filenames /\ original[v] \in Originals
  BY WhatIsStored
<1>2. /\ F = [files |-> F.files, folders |-> F.folders]
      /\ DOMAIN F.folders \subseteq Dimensions
      /\ F.folders = [size \in DOMAIN F.folders |-> F.folders[size]]
  <2>1. PICK sizes \in SUBSET Dimensions : F.folders \in [sizes -> SUBSET Names]
    BY <1>1 DEF Folders
  <2> QED
    BY <1>1, <2>1, FolderParts
<1>3. /\ filename'[u] = WithoutExtension(file) /\ original'[u] = Extension(file)
      /\ extent'[u] = <<0, 0>>
      /\ dimensions'[u] =
           {[width |-> size[1], height |-> size[2],
             formats |-> [e \in {Extension(f) : f \in F.folders[size]} |-> 1]] : size \in DOMAIN F.folders}
  BY DEF Found, IInv, TypeOK
<1>4. \A size \in DOMAIN F.folders : \A f \in F.folders[size] :
        WithoutExtension(f) = WithoutExtension(file)
  BY DEF Fits
<1> HIDE DEF F
<1>5. F.files = {Name(filename'[u], original'[u])}
  <2>1. IsText(original[v]) /\ file = Name(filename[v], original[v])
    BY <1>1, FormatsAreTexts DEF F
  <2> QED
    BY <1>1, <1>3, <2>1, NamesAgain
<1>6. \A size \in DOMAIN F.folders : \A f \in F.folders[size] :
        Name(filename'[u], Extension(f)) = f
  <2> SUFFICES ASSUME NEW size \in DOMAIN F.folders, NEW f \in F.folders[size]
               PROVE  Name(filename'[u], Extension(f)) = f
    OBVIOUS
  <2>1. PICK g \in Range(GetFormats(original[v])) : f = Name(filename[v], g)
    BY <1>1 DEF NamesOf
  <2>2. Name(WithoutExtension(f), Extension(f)) = f
    BY <1>1, <2>1, FormatsAreTexts, NamesAgain
  <2> QED
    BY <1>3, <1>4, <2>2
<1>7. \A size \in DOMAIN F.folders : size = <<size[1], size[2]>>
  BY <1>2 DEF Dimensions
<1> DEFINE spec(size) == [width |-> size[1], height |-> size[2],
                          formats |-> [e \in {Extension(f) : f \in F.folders[size]} |-> 1]]
<1>8. \A size \in DOMAIN F.folders :
        /\ spec(size) \in dimensions'[u]
        /\ size = <<spec(size).width, spec(size).height>>
        /\ DOMAIN spec(size).formats = {Extension(f) : f \in F.folders[size]}
        /\ \A f \in DOMAIN spec(size).formats : spec(size).formats[f] = 1
  BY <1>3, <1>7
<1>9. \A d \in dimensions'[u] : \E size \in DOMAIN F.folders : d = spec(size)
  BY <1>3
<1> HIDE DEF spec
<1>10. KnownSizes(u)' = DOMAIN F.folders
  BY <1>8, <1>9 DEF KnownSizes
<1>11. \A size \in DOMAIN F.folders :
         UNION {DOMAIN d.formats : d \in {e \in dimensions'[u] : size = <<e.width, e.height>>}}
           = {Extension(f) : f \in F.folders[size]}
  <2> SUFFICES ASSUME NEW size \in DOMAIN F.folders
               PROVE  {e \in dimensions'[u] : size = <<e.width, e.height>>} = {spec(size)}
    BY <1>8
  <2> QED
    BY <1>8, <1>9
<1>12. \A size \in DOMAIN F.folders :
         {Name(filename'[u], f) : f \in {Extension(g) : g \in F.folders[size]}} = F.folders[size]
  BY <1>6
<1> DEFINE G == Listed(u)'
<1>13. /\ G = [files |-> G.files, folders |-> G.folders]
       /\ G.files = {Name(filename'[u], original'[u])}
       /\ G.folders = [size \in KnownSizes(u)' |-> G.folders[size]]
  BY DEF Listed, KnownSizes
<1>14. \A size \in DOMAIN F.folders : G.folders[size] = F.folders[size]
  <2> SUFFICES ASSUME NEW size \in DOMAIN F.folders PROVE G.folders[size] = F.folders[size]
    OBVIOUS
  <2>1. G.folders[size] =
          {Name(filename'[u], f) : f \in
             UNION {DOMAIN d.formats : d \in {e \in dimensions'[u] : size = <<e.width, e.height>>}}}
    BY <1>10 DEF Listed, KnownSizes
  <2> QED
    BY <1>11, <1>12, <2>1
<1> HIDE DEF G
<1>15. G.folders = F.folders
  BY <1>2, <1>10, <1>13, <1>14
<1>16. Listed(u)' = F
  BY <1>2, <1>5, <1>13, <1>15 DEF G
<1> QED
  BY <1>3, <1>8, <1>9, <1>16 DEF F

\* It finds its image, or the folder's names do not fit.
LEMMA FindStep ==
  ASSUME IInv, NEW u \in Uploads, Find(u)
  PROVE  IInv'
<1> DEFINE F == stored[image[u]]
<1>1. /\ phase[u] = "check" /\ F # None /\ image[u] \in Images
      /\ UNCHANGED <<names, saving, staged, stored, disturbed>>
  BY DEF Find, IInv, TypeOK
<1>2. UNCHANGED <<trailing, image, suggested>>
  BY <1>1 DEF names
<1>3. PICK file \in F.files :
        \/ /\ Descends(F) /\ Fits(F, file) /\ Found(u, F, file)
           /\ phase' = [phase EXCEPT ![u] = "found"]
        \/ /\ ~(Descends(F) /\ Fits(F, file)) /\ UNCHANGED fields
           /\ phase' = [phase EXCEPT ![u] = "error"]
  BY DEF Find, Goto
<1>4. phase'[u] \in {"found", "error"} /\ \A v \in Uploads \ {u} : phase'[v] = phase[v]
  BY <1>3 DEF IInv, TypeOK
<1>5. /\ DOMAIN filename' = Uploads /\ DOMAIN original' = Uploads
      /\ DOMAIN extent' = Uploads /\ DOMAIN dimensions' = Uploads
      /\ \A v \in Uploads \ {u} : /\ filename'[v] = filename[v] /\ original'[v] = original[v]
                                  /\ dimensions'[v] = dimensions[v] /\ extent'[v] = extent[v]
  BY <1>3 DEF fields, Found, IInv, TypeOK
<1>6. TypeOK'
  BY <1>1, <1>2, <1>3, <1>5 DEF IInv, TypeOK
<1>7. AloneInv'
  BY <1>1, <1>2, <1>4 DEF IInv, AloneInv, Processing
<1>8. LoadInv'
  <2>1. extent'[u] = <<0, 0>>
    BY <1>1, <1>3 DEF Found, fields, IInv, TypeOK, LoadInv
  <2> QED
    BY <1>1, <1>2, <1>4, <1>5, <2>1 DEF IInv, LoadInv, Processing
<1>9. FormatInv'
  BY <1>1, <1>2, <1>4, <1>5 DEF IInv, FormatInv, Processing
<1>10. StagedInv'
  BY <1>1, <1>4, <1>5, ListedKept DEF IInv, StagedInv
<1>11. StoredInv'
  BY <1>1, <1>2, <1>4 DEF IInv, StoredInv
<1>12. FoundInv'
  <2>1. \A v \in Uploads \ {u} : Listed(v)' = Listed(v)
    BY <1>5, ListedKept
  <2>2. phase'[u] = "found" =>
          /\ Listed(u)' = F
          /\ \A d \in dimensions'[u] : \A f \in DOMAIN d.formats : d.formats[f] = 1
    BY <1>1, <1>3, FoundLists DEF IInv, TypeOK
  <2> QED
    BY <1>1, <1>2, <1>4, <1>5, <2>1, <2>2 DEF IInv, FoundInv
<1>13. FoundAgain'
  <2>1. ASSUME phase'[u] = "error", ~trailing
        PROVE  \E v \in Uploads : /\ phase[v] = "new" /\ image[v] = image[u]
                                   /\ \E f \in {original[v]} \cup Range(GetFormats(original[v])) :
                                         Len(f) > 1
    <3>1. PICK v \in Uploads :
            /\ phase[v] = "new" /\ image[v] = image[u]
            /\ F.files = {Name(filename[v], original[v])}
            /\ \A size \in DOMAIN F.folders : F.folders[size] = NamesOf(v)
            /\ filename[v] \in Filenames /\ original[v] \in Originals
      BY <1>1, WhatIsStored
    <3>2. ~Fits(F, file)
      BY <1>3, <2>1 DEF Descends, IInv, TypeOK
    <3>3. PICK f \in NamesOf(v) :
            WithoutExtension(f) # WithoutExtension(Name(filename[v], original[v]))
      BY <3>1, <3>2 DEF Fits
    <3>4. PICK g \in Range(GetFormats(original[v])) : f = Name(filename[v], g)
      BY DEF NamesOf
    <3>5. IsText(g) /\ IsText(original[v])
      BY <3>1, FormatsAreTexts
    <3>6. Len(g) # 1 \/ Len(original[v]) # 1
      BY <3>1, <3>3, <3>4, <3>5, NamesAgain
    <3>7. ASSUME NEW t, IsText(t), Len(t) # 1 PROVE Len(t) > 1
      <4>1. t \in Seq(Range(t)) /\ t # <<>>
        BY <3>7 DEF IsText
      <4>2. Len(t) \in Nat /\ Len(t) # 0
        BY <4>1, EmptySeq, LenProperties
      <4>3. \A n \in Nat : n # 0 /\ n # 1 => n > 1
        OBVIOUS
      <4> QED
        BY <3>7, <4>2, <4>3
    <3> QED
      BY <3>1, <3>4, <3>5, <3>6, <3>7
  <2>2. \A v \in Uploads : phase[v] = "new" => phase'[v] = "new" /\ original'[v] = original[v]
    BY <1>1, <1>4, <1>5
  <2> QED
    BY <1>2, <1>4, <2>1, <2>2 DEF IInv, FoundAgain
<1> QED
  BY <1>6, <1>7, <1>8, <1>9, <1>10, <1>11, <1>12, <1>13 DEF IInv

\* The answer of libmagic is copied, and the original staged.
LEMMA CopyStep ==
  ASSUME IInv, NEW u \in Uploads, Copy(u)
  PROVE  IInv'
<1>1. /\ phase[u] = "magic" /\ phase' = [phase EXCEPT ![u] = "resize"]
      /\ image[u] \in Images /\ suggested[u] \in Suggested
      /\ UNCHANGED <<names, filename, dimensions, saving, stored, disturbed>>
  BY DEF Copy, Goto, IInv, TypeOK
<1>2. UNCHANGED <<trailing, image, suggested>>
  BY <1>1 DEF names
<1>3. PICK text \in IF u \in disturbed THEN Garbage \cup Range(Detected) ELSE {Detected[image[u]]} :
        LET format == IF text = Unknown THEN original[u] ELSE text
        IN /\ original' = [original EXCEPT ![u] = format]
           /\ staged' = [staged EXCEPT ![u] = CreateFile(NewFolder, Name(filename[u], format))]
  BY DEF Copy
<1> DEFINE format == IF text = Unknown THEN original[u] ELSE text
<1>4. /\ original[u] \in Originals
      /\ dimensions[u] = {} /\ saving[u] = {} /\ filename[u] \in Filenames
  BY <1>1 DEF IInv, LoadInv, FormatInv, Processing
<1>5. format \in Originals
  <2>1. Detected[image[u]] \in Range(Detected)
    BY <1>1, VariantsAssumption DEF Range
  <2> QED
    BY <1>1, <1>4, <2>1 DEF Originals
<1> DEFINE F == CreateFile(NewFolder, Name(filename[u], format))
<1>17. extent' = [extent EXCEPT ![u] = Extent[image[u]]]
  BY DEF Copy
<1>6. original' = [original EXCEPT ![u] = format] /\ staged' = [staged EXCEPT ![u] = F]
  BY <1>3
<1> HIDE DEF format
<1>7. F \in Folders /\ F.files = {Name(filename[u], format)} /\ DOMAIN F.folders = {}
  BY <1>4, <1>5, NewIsFolder, FileCreated, NamesAreNames
<1> HIDE DEF F
<1>8. /\ phase'[u] = "resize" /\ original'[u] = format /\ staged'[u] = F
      /\ extent'[u] = Extent[image[u]]
      /\ \A v \in Uploads \ {u} : /\ phase'[v] = phase[v] /\ original'[v] = original[v]
                                  /\ staged'[v] = staged[v] /\ extent'[v] = extent[v]
  BY <1>1, <1>6, <1>17 DEF IInv, TypeOK
<1>9. TypeOK'
  <2>1. DOMAIN original' = Uploads /\ DOMAIN extent' = Uploads /\ staged' \in [Uploads -> Folders]
    BY <1>6, <1>7, <1>17 DEF IInv, TypeOK
  <2>2. phase' \in [Uploads -> Processing \cup {"none", "check", "found", "error", "new"}]
    BY <1>1 DEF IInv, TypeOK, Processing
  <2> QED
    BY <1>1, <1>2, <1>8, <2>1, <2>2 DEF IInv, TypeOK
<1>10. AloneInv'
  BY <1>1, <1>2, <1>8 DEF IInv, AloneInv, Processing
<1>11. LoadInv'
  BY <1>1, <1>2, <1>4, <1>8 DEF IInv, LoadInv, Processing
<1>12. FormatInv'
  BY <1>1, <1>2, <1>5, <1>8 DEF IInv, FormatInv, Processing
<1>13. StagedInv'
  <2>1. KnownSizes(u)' = {}
    BY <1>1, <1>4 DEF KnownSizes
  <2>2. FolderInv(u)'
    BY <1>1, <1>4, <1>7, <1>8, <2>1 DEF FolderInv
  <2> QED
    BY <1>1, <1>8, <2>2, ListedKept DEF IInv, StagedInv
<1>14. StoredInv'
  BY <1>1, <1>2, <1>8 DEF IInv, StoredInv
<1>15. FoundInv'
  BY <1>1, <1>2, <1>8, ListedKept DEF IInv, FoundInv
<1>16. FoundAgain'
  BY <1>1, <1>2, <1>8 DEF IInv, FoundAgain
<1> QED
  BY <1>9, <1>10, <1>11, <1>12, <1>13, <1>14, <1>15, <1>16 DEF IInv

\* A size is known, and its files are to be saved.
LEMMA ResizeStep ==
  ASSUME IInv, NEW u \in Uploads, NEW w \in UNION Range(SizesOf), Resize(u, w)
  PROVE  IInv'
<1> DEFINE formats == GetFormats(original[u])
<1> DEFINE size == <<w, Height[image[u]][w]>>
<1> DEFINE d == [width |-> w, height |-> Height[image[u]][w], formats |-> Times(formats)]
<1> DEFINE F == CreateFolder(staged[u], size)
<1>1. /\ phase[u] = "resize" /\ w \notin Widths(u)
      /\ dimensions' = [dimensions EXCEPT ![u] = @ \cup {d}]
      /\ staged' = [staged EXCEPT ![u] = F]
      /\ saving' = [saving EXCEPT ![u] = @ \cup {<<size, n>> : n \in DOMAIN formats}]
      /\ UNCHANGED <<names, phase, filename, original, extent, stored, disturbed>>
  BY DEF Resize, IInv, TypeOK
<1>2. UNCHANGED <<trailing, image, suggested>>
  BY <1>1 DEF names
<1>3. image[u] \in Images /\ staged[u] \in Folders /\ size \in Dimensions /\ FolderInv(u)
  BY <1>1 DEF IInv, TypeOK, StagedInv, Dimensions
<1>4. size \notin KnownSizes(u)
  BY <1>1 DEF KnownSizes, Widths
<1>5. /\ F \in Folders /\ F.files = staged[u].files
      /\ DOMAIN F.folders = DOMAIN staged[u].folders \cup {size}
      /\ \A s \in DOMAIN staged[u].folders : F.folders[s] = staged[u].folders[s]
      /\ size \notin DOMAIN staged[u].folders => F.folders[size] = {}
  BY <1>3, FolderCreated
<1>6. d.formats = Times(formats) /\ size = <<d.width, d.height>>
  OBVIOUS
<1> HIDE DEF F, d, size
<1>7. /\ dimensions'[u] = dimensions[u] \cup {d} /\ staged'[u] = F
      /\ saving'[u] = saving[u] \cup {<<size, n>> : n \in DOMAIN formats}
      /\ \A v \in Uploads \ {u} : /\ dimensions'[v] = dimensions[v] /\ staged'[v] = staged[v]
                                  /\ saving'[v] = saving[v]
  BY <1>1 DEF IInv, TypeOK
<1>8. TypeOK'
  <2>1. staged' \in [Uploads -> Folders] /\ DOMAIN dimensions' = Uploads /\ DOMAIN saving' = Uploads
    BY <1>1, <1>5 DEF IInv, TypeOK
  <2> QED
    BY <1>1, <1>2, <2>1 DEF IInv, TypeOK
<1>9. AloneInv' /\ FormatInv'
  BY <1>1, <1>2 DEF IInv, AloneInv, FormatInv
<1>10. LoadInv'
  BY <1>1, <1>2, <1>7 DEF IInv, LoadInv
<1>11. StagedInv'
  <2>1. KnownSizes(u)' = KnownSizes(u) \cup {size}
    BY <1>6, <1>7 DEF KnownSizes
  <2>2. NamesOf(u)' = NamesOf(u) /\ GetFormats(original'[u]) = formats
    BY <1>1 DEF NamesOf
  <2>3. ASSUME NEW s \in KnownSizes(u)
        PROVE  F.folders[s] \cup SavedAs(u, s)' = NamesOf(u)
    <3>1. SavedAs(u, s)' = SavedAs(u, s)
      BY <1>1, <1>4, <1>7, <2>3 DEF SavedAs
    <3> QED
      BY <1>3, <1>5, <2>3, <3>1 DEF FolderInv
  <2>4. F.folders[size] = {} /\ SavedAs(u, size)' = NamesOf(u)
    <3>1. F.folders[size] = {}
      BY <1>3, <1>4, <1>5 DEF FolderInv
    <3>2. \A n \in DOMAIN formats : <<size', n>> \in saving'[u]
      BY <1>1, <1>2, <1>7 DEF size
    <3>3. SavedAs(u, size)' = {Name(filename[u], formats[n]) : n \in DOMAIN formats}
      BY <1>1, <3>2 DEF SavedAs
    <3> QED
      BY <3>1, <3>3 DEF NamesOf, Range
  <2>5. \A s \in KnownSizes(u)' : F.folders[s] \cup SavedAs(u, s)' = NamesOf(u)
    <3>1. size' = size
      BY <1>2 DEF size
    <3> QED
      BY <2>1, <2>3, <2>4, <3>1
  <2>6. \A task \in saving'[u] :
          \E s \in KnownSizes(u) \cup {size}, n \in DOMAIN formats : task = <<s, n>>
    BY <1>3, <1>7 DEF FolderInv
  <2>7. \A e \in dimensions'[u] : e.formats = Times(formats)
    BY <1>3, <1>6, <1>7 DEF FolderInv
  <2>8. F.files = {Name(filename[u], original[u])} /\ DOMAIN F.folders = KnownSizes(u) \cup {size}
    BY <1>3, <1>5 DEF FolderInv
  <2>9. FolderInv(u)'
    BY <1>1, <1>7, <2>1, <2>2, <2>5, <2>6, <2>7, <2>8 DEF FolderInv
  <2> QED
    BY <1>1, <1>7, <2>9, ListedKept DEF IInv, StagedInv
<1>12. StoredInv'
  BY <1>1, <1>2, <1>7 DEF IInv, StoredInv
<1>13. FoundInv'
  <2> SUFFICES ASSUME NEW v \in Uploads, phase[v] = "found"
               PROVE  /\ stored[image[v]] # None /\ Listed(v)' = stored[image[v]]
                      /\ \A e \in dimensions'[v] : \A f \in DOMAIN e.formats : e.formats[f] = 1
    BY <1>1, <1>2 DEF FoundInv
  <2>1. dimensions'[v] = dimensions[v]
    BY <1>1, <1>7
  <2>2. Listed(v)' = Listed(v)
    BY <1>1, <2>1 DEF Listed
  <2> QED
    BY <2>1, <2>2 DEF IInv, FoundInv
<1>14. FoundAgain'
  BY <1>1, <1>2 DEF IInv, FoundAgain
<1> QED
  BY <1>8, <1>9, <1>10, <1>11, <1>12, <1>13, <1>14 DEF IInv

\* A file is saved.
LEMMA SaveStep ==
  ASSUME IInv, NEW u \in Uploads, NEW task \in saving[u], Save(u, task)
  PROVE  IInv'
<1> DEFINE formats == GetFormats(original[u])
<1> DEFINE name == Name(filename[u], formats[task[2]])
<1> DEFINE F == CreateFileIn(staged[u], task[1], name)
<1>1. /\ saving' = [saving EXCEPT ![u] = @ \ {task}]
      /\ staged' = [staged EXCEPT ![u] = F]
      /\ UNCHANGED <<names, phase, filename, original, extent, dimensions, stored, disturbed>>
  BY DEF Save, IInv, TypeOK, fields
<1>2. UNCHANGED <<trailing, image, suggested>> /\ phase[u] = "resize"
  BY <1>1 DEF names, IInv, LoadInv
<1>3. /\ staged[u] \in Folders /\ FolderInv(u)
      /\ filename[u] \in Filenames /\ original[u] \in Originals
  BY <1>2 DEF IInv, TypeOK, StagedInv, LoadInv, FormatInv, Processing
<1>4. PICK size \in KnownSizes(u), k \in DOMAIN formats : task = <<size, k>>
  BY <1>3 DEF FolderInv
<1>5. name = Name(filename[u], formats[k]) /\ name \in Names /\ size \in DOMAIN staged[u].folders
  BY <1>3, <1>4, NamesAreNames DEF FolderInv, Range
<1>6. F = CreateFileIn(staged[u], size, name)
  BY <1>4
<1> HIDE DEF F, name
<1>7. /\ F \in Folders /\ F.files = staged[u].files
      /\ DOMAIN F.folders = DOMAIN staged[u].folders
      /\ \A s \in DOMAIN staged[u].folders :
           F.folders[s] = IF s = size THEN staged[u].folders[s] \cup {name}
                                      ELSE staged[u].folders[s]
  <2>1. staged[u] \in Folders /\ size \in DOMAIN staged[u].folders /\ name \in Names
    BY <1>3, <1>5
  <2> DEFINE G == CreateFileIn(staged[u], size, name)
  <2>2. /\ G \in Folders /\ G.files = staged[u].files
        /\ DOMAIN G.folders = DOMAIN staged[u].folders
        /\ \A s \in DOMAIN staged[u].folders :
             G.folders[s] = IF s = size THEN staged[u].folders[s] \cup {name}
                                        ELSE staged[u].folders[s]
    BY <2>1, FileCreatedIn
  <2> QED
    BY <1>6, <2>2
<1>8. /\ saving'[u] = saving[u] \ {task} /\ staged'[u] = F
      /\ \A v \in Uploads \ {u} : staged'[v] = staged[v] /\ saving'[v] = saving[v]
  BY <1>1 DEF IInv, TypeOK
<1>9. TypeOK'
  <2>1. staged' \in [Uploads -> Folders] /\ DOMAIN saving' = Uploads
    BY <1>1, <1>7 DEF IInv, TypeOK
  <2> QED
    BY <1>1, <1>2, <2>1 DEF IInv, TypeOK
<1>10. AloneInv' /\ FormatInv'
  BY <1>1, <1>2 DEF IInv, AloneInv, FormatInv
<1>11. LoadInv'
  BY <1>1, <1>2, <1>8 DEF IInv, LoadInv
<1>12. StagedInv'
  <2>1. /\ KnownSizes(u)' = KnownSizes(u) /\ NamesOf(u)' = NamesOf(u)
        /\ GetFormats(original'[u]) = formats
    BY <1>1 DEF KnownSizes, NamesOf
  <2>2. \A s \in KnownSizes(u) :
          SavedAs(u, s) = SavedAs(u, s)' \cup (IF s = size THEN {name} ELSE {})
    <3> SUFFICES ASSUME NEW s \in KnownSizes(u)
                 PROVE  SavedAs(u, s) = SavedAs(u, s)' \cup (IF s = size THEN {name} ELSE {})
      OBVIOUS
    <3>1. {m \in DOMAIN formats : <<s, m>> \in saving[u]} =
            {m \in DOMAIN formats : <<s, m>> \in saving'[u]} \cup (IF s = size THEN {k} ELSE {})
      BY <1>4, <1>8
    <3>2. SavedAs(u, s)' = {Name(filename[u], formats[n]) :
                              n \in {m \in DOMAIN formats : <<s, m>> \in saving'[u]}}
      BY <1>1 DEF SavedAs
    <3> QED
      BY <1>5, <3>1, <3>2 DEF SavedAs
  <2>3. \A s \in KnownSizes(u) : F.folders[s] \cup SavedAs(u, s)' = NamesOf(u)
    <3> SUFFICES ASSUME NEW s \in KnownSizes(u)
                 PROVE  F.folders[s] \cup SavedAs(u, s)' = NamesOf(u)
      OBVIOUS
    <3>1. /\ s \in DOMAIN staged[u].folders
          /\ staged[u].folders[s] \cup SavedAs(u, s) = NamesOf(u)
      BY <1>3 DEF FolderInv
    <3>2. F.folders[s] = staged[u].folders[s] \cup (IF s = size THEN {name} ELSE {})
      BY <1>7, <3>1
    <3>3. SavedAs(u, s) = SavedAs(u, s)' \cup (IF s = size THEN {name} ELSE {})
      BY <2>2
    <3> QED
      BY <3>1, <3>2, <3>3
  <2>4. /\ F.files = {Name(filename[u], original[u])} /\ DOMAIN F.folders = KnownSizes(u)
        /\ \A t \in saving'[u] :
             \E s \in KnownSizes(u), n \in DOMAIN formats : t = <<s, n>>
        /\ \A e \in dimensions[u] : e.formats = Times(formats)
    BY <1>3, <1>7, <1>8 DEF FolderInv
  <2>5. FolderInv(u)'
    BY <1>1, <1>8, <2>1, <2>3, <2>4 DEF FolderInv
  <2> QED
    BY <1>1, <1>8, <2>5, ListedKept DEF IInv, StagedInv
<1>13. StoredInv'
  BY <1>1, <1>2, <1>8 DEF IInv, StoredInv
<1>14. FoundInv'
  BY <1>1, <1>2, ListedKept DEF IInv, FoundInv
<1>15. FoundAgain'
  BY <1>1, <1>2 DEF IInv, FoundAgain
<1> QED
  BY <1>9, <1>10, <1>11, <1>12, <1>13, <1>14, <1>15 DEF IInv

\* The folder is stored, and stays.
LEMMA FinalizeStep ==
  ASSUME IInv, NEW u \in Uploads, Finalize(u)
  PROVE  IInv'
<1>1. /\ phase[u] = "resize" /\ phase' = [phase EXCEPT ![u] = "new"]
      /\ stored' = [stored EXCEPT ![image[u]] = staged[u]]
      /\ image[u] \in Images /\ saving[u] = {} /\ staged[u] \in Folders
      /\ UNCHANGED <<names, fields, saving, staged, disturbed>>
  BY DEF Finalize, Goto, IInv, TypeOK
<1>2. UNCHANGED <<trailing, image, suggested, filename, original, extent, dimensions>>
  BY <1>1 DEF names, fields
<1>3. phase'[u] = "new" /\ \A v \in Uploads \ {u} : phase'[v] = phase[v]
  BY <1>1 DEF IInv, TypeOK
<1>4. /\ stored[image[u]] = None /\ stored'[image[u]] = staged[u]
      /\ \A i \in Images : i # image[u] => stored'[i] = stored[i]
  BY <1>1 DEF IInv, TypeOK, AloneInv, Processing
<1>5. staged[u] # None
  BY <1>1, VariantsAssumption
<1>6. \A v \in Uploads : phase[v] = "new" => stored[image[v]] # None
  BY VariantsAssumption DEF IInv, TypeOK, StoredInv
<1>7. TypeOK'
  BY <1>1, <1>2, <1>3, <1>4 DEF IInv, TypeOK
<1>8. AloneInv'
  BY <1>1, <1>2, <1>3, <1>4 DEF IInv, TypeOK, AloneInv, Processing
<1>9. LoadInv'
  BY <1>1, <1>2, <1>3 DEF IInv, LoadInv, Processing
<1>10. FormatInv'
  BY <1>1, <1>2, <1>3 DEF IInv, FormatInv, Processing
<1>11. StagedInv'
  BY <1>1, <1>2, <1>3, ListedKept DEF IInv, StagedInv
<1>12. StoredInv'
  BY <1>1, <1>2, <1>3, <1>4, <1>6 DEF IInv, TypeOK, StoredInv
<1>13. FoundInv'
  BY <1>1, <1>2, <1>3, <1>4, ListedKept DEF IInv, TypeOK, FoundInv
<1>14. FoundAgain'
  BY <1>1, <1>2, <1>3 DEF IInv, FoundAgain
<1> QED
  BY <1>7, <1>8, <1>9, <1>10, <1>11, <1>12, <1>13, <1>14 DEF IInv

-----------------------------------------------------------------------------
(* The theorems.                                                            *)

\* It holds at first.
LEMMA InitInv == Init => IInv
<1> SUFFICES ASSUME Init PROVE IInv
  OBVIOUS
<1>1. TypeOK
  BY NewIsFolder DEF Init, TypeOK
<1>2. AloneInv /\ LoadInv /\ FormatInv /\ StagedInv /\ StoredInv /\ FoundInv /\ FoundAgain
  BY DEF Init, AloneInv, LoadInv, FormatInv, StagedInv, StoredInv, FoundInv, FoundAgain, Processing
<1> QED
  BY <1>1, <1>2 DEF IInv

\* And every step keeps it.
LEMMA StepInv == IInv /\ [Next]_vars => IInv'
<1> SUFFICES ASSUME IInv, [Next]_vars PROVE IInv'
  OBVIOUS
<1>1. CASE Next
  <2> SUFFICES ASSUME NEW u \in Uploads,
                      \/ \E i \in Images, name \in Suggested : Run(u, i, name)
                      \/ Find(u) \/ Claim(u) \/ CallMagic(u) \/ Copy(u)
                      \/ \E w \in UNION Range(SizesOf) : Resize(u, w)
                      \/ \E task \in saving[u] : Save(u, task)
                      \/ Finalize(u)
               PROVE  IInv'
    BY <1>1 DEF Next
  <2> QED
    BY RunStep, FindStep, ClaimStep, CallMagicStep, CopyStep, ResizeStep, SaveStep, FinalizeStep
<1>2. CASE UNCHANGED vars
  <2>1. UNCHANGED <<trailing, image, suggested, phase, filename, original, extent, dimensions,
                    saving, staged, stored, disturbed>>
    BY <1>2 DEF vars, names, fields
  <2>2. \A u : Listed(u)' = Listed(u) /\ FolderInv(u)' = FolderInv(u)
    BY <2>1, ListedKept
  <2> QED
    BY <2>1, <2>2 DEF IInv, TypeOK, AloneInv, LoadInv, FormatInv, StagedInv, StoredInv, FoundInv,
         FoundAgain
<1> QED
  BY <1>1, <1>2

\* The inductive invariant holds throughout.
THEOREM Invariance == Spec => []IInv
BY InitInv, StepInv, PTL DEF Spec

\* Every variable keeps its type.
THEOREM TypeCorrect == Spec => []TypeOK
BY Invariance, PTL DEF IInv

\* What an upload answers, whether its image was new or found, names the files
\* that are stored, all of them and no others.
THEOREM NamesFiles == Spec => []AnswersNameFiles
<1>1. IInv => AnswersNameFiles
  <2> SUFFICES ASSUME IInv, NEW u \in Uploads, phase[u] \in {"found", "new"}
               PROVE  /\ Listed(u) = stored[image[u]]
                      /\ extent[u] = IF phase[u] = "new" THEN Extent[image[u]] ELSE <<0, 0>>
                      /\ \/ phase[u] = "new"
                         \/ \A d \in dimensions[u] : \A f \in DOMAIN d.formats : d.formats[f] = 1
    BY DEF AnswersNameFiles
  <2>1. CASE phase[u] = "new"
    <3>1. stored[image[u]] = staged[u] /\ saving[u] = {}
      BY <2>1 DEF IInv, StoredInv, LoadInv
    <3> QED
      BY <2>1, <3>1, AllSaved DEF IInv, FormatInv
  <2>2. CASE phase[u] = "found"
    BY <2>2 DEF IInv, FoundInv, LoadInv
  <2> QED
    BY <2>1, <2>2
<1> QED
  BY <1>1, Invariance, PTL

\* An image that is stored is found, if no format has a dot and data_dir does
\* not end with a slash.
THEOREM FoundLater == Spec => []FoundAgain
BY Invariance, PTL DEF IInv
=============================================================================
