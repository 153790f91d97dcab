------------------------------ MODULE Variants ------------------------------
(***************************************************************************)
(* What the files of an image are called, what an upload answers, and how  *)
(* a later upload of the same image finds it again: load_image, resize,    *)
(* save_to_format, find_existing_data and write_result_json of             *)
(* src/image_processing.hpp.                                               *)
(*                                                                         *)
(* A text is the sequence of what its dots separate, and each of these a   *)
(* sequence of words.  WIDTHxHEIGHT is a pair.  Who processes an image is  *)
(* decided as Processing shows, here in one step; a waiter looks the image *)
(* up when the owner has committed it.  Nothing fails.                     *)
(***************************************************************************)
EXTENDS Naturals, Sequences, FiniteSets, SequencesExt

CONSTANTS Uploads, Images,
          Suggested,    \* the file names that clients suggest
          Detected,     \* the extension libmagic gives for each image, or Unknown
          Unknown,
          SizesOf,      \* the widths to make of each image
          Extent,       \* the width and the height of each image
          Height,       \* Height[i][w]: that of image i when it is w wide
          FormatsOf,    \* the configured formats, for some original formats
          AllFormats,   \* and for all of them
          Garbage,      \* text that may be read while it is overwritten
          None

VARIABLES trailing,   \* whether the configured data_dir ends with a slash
          image,      \* of each upload
          suggested,  \* its file name
          phase,
          filename, original, extent, dimensions,  \* the fields of its processor
          saving,     \* save_to_format tasks to come: dimensions and index
          staged,     \* its staged folder
          stored,     \* the folder of each image in data_dir
          disturbed   \* history: uploads whose use of the cookie was not alone

names == <<trailing, image, suggested>>
fields == <<filename, original, extent, dimensions>>
vars == <<names, phase, fields, saving, staged, stored, disturbed>>

-----------------------------------------------------------------------------
(* Texts.                                                                   *)

NoExtension == << <<>> >>
\* Both look for the last dot.
WithoutExtension(text) == IF Len(text) = 1 THEN text ELSE Front(text)
Extension(text) == IF Len(text) = 1 THEN NoExtension ELSE <<Last(text)>>

\* A dot becomes an underscore.
Sanitized(text) ==
  <<FoldLeft(LAMBDA done, part : done \o <<"_">> \o part, Head(text), Tail(text))>>

Name(name, format) == name \o format

GetFormats(format) ==
  (IF format \in DOMAIN FormatsOf THEN FormatsOf[format] ELSE <<>>) \o AllFormats

\* A list of formats as an answer has it, in any order: how often each is in it.
Times(formats) ==
  [f \in Range(formats) |-> Cardinality({n \in DOMAIN formats : formats[n] = f})]

NewFolder == [files |-> {}, folders |-> <<>>]

CreateFile(folder, name) == [folder EXCEPT !.files = @ \cup {name}]
CreateFolder(folder, size) ==
  [folder EXCEPT !.folders =
     [s \in DOMAIN @ \cup {size} |-> IF s \in DOMAIN @ THEN @[s] ELSE {}]]
CreateFileIn(folder, size, name) == [folder EXCEPT !.folders[size] = @ \cup {name}]

(***************************************************************************)
(* What an image can be stored as, which is told apart from None.  Texts   *)
(* are not empty: the least one has nothing before, between and after its  *)
(* dots, of which it has none.                                             *)
(***************************************************************************)
IsText(text) == text \in Seq(Range(text)) /\ text # <<>>

Filenames == {Sanitized(WithoutExtension(name)) : name \in Suggested}
Originals == {Sanitized(Extension(name)) : name \in Suggested}
               \cup Range(Detected) \cup Garbage
Names == {Name(name, format) : name \in Filenames,
                               format \in Originals \cup UNION {Range(GetFormats(o)) : o \in Originals}}
Dimensions == {<<w, Height[i][w]>> : i \in Images, w \in UNION Range(SizesOf)}
Folders == [files : SUBSET Names,
            folders : UNION {[sizes -> SUBSET Names] : sizes \in SUBSET Dimensions}]

ASSUME VariantsAssumption ==
  /\ Images \subseteq DOMAIN Detected
  /\ \A text \in Range(Detected) \cup Garbage : IsText(text)
  /\ \A formats \in Range(FormatsOf) \cup {AllFormats} :
       formats \in Seq(Range(formats)) /\ \A format \in Range(formats) : IsText(format)
  /\ None \notin Folders

-----------------------------------------------------------------------------
Init ==
  /\ trailing \in BOOLEAN
  /\ image = [u \in Uploads |-> None]
  /\ suggested = [u \in Uploads |-> None]
  /\ phase = [u \in Uploads |-> "none"]
  /\ filename = [u \in Uploads |-> None]
  /\ original = [u \in Uploads |-> None]
  /\ extent = [u \in Uploads |-> <<0, 0>>]
  /\ dimensions = [u \in Uploads |-> {}]
  /\ saving = [u \in Uploads |-> {}]
  /\ staged = [u \in Uploads |-> NewFolder]
  /\ stored = [i \in Images |-> None]
  /\ disturbed = {}

Goto(u, from, to) ==
  /\ phase[u] = from
  /\ phase' = [phase EXCEPT ![u] = to]

\* run, and the constructor.
Run(u, i, name) ==
  /\ Goto(u, "none", "check")
  /\ image' = [image EXCEPT ![u] = i]
  /\ suggested' = [suggested EXCEPT ![u] = name]
  /\ filename' = [filename EXCEPT ![u] = Sanitized(WithoutExtension(name))]
  /\ original' = [original EXCEPT ![u] = Sanitized(Extension(name))]
  /\ UNCHANGED <<trailing, extent, dimensions, saving, staged, stored, disturbed>>

(***************************************************************************)
(* find_existing_data.  The folder is walked in any order, so any file     *)
(* beside the folders may be taken for the original.  A name that does not *)
(* fit makes it throw; so does walk_folder when it descends after cutting  *)
(* data_dir and a separator off a path in which data_dir has brought its   *)
(* own: it cuts off a letter more, and does not find the folder.           *)
(***************************************************************************)
Found(u, folder, file) ==
  /\ filename' = [filename EXCEPT ![u] = WithoutExtension(file)]
  /\ original' = [original EXCEPT ![u] = Extension(file)]
  /\ extent' = [extent EXCEPT ![u] = <<0, 0>>]
  /\ dimensions' = [dimensions EXCEPT ![u] =
       {[width |-> size[1], height |-> size[2],
         formats |-> [e \in {Extension(f) : f \in folder.folders[size]} |-> 1]] :
          size \in DOMAIN folder.folders}]

Descends(folder) == folder.folders = <<>> \/ ~trailing

Fits(folder, file) ==
  \A size \in DOMAIN folder.folders : \A f \in folder.folders[size] :
    WithoutExtension(f) = WithoutExtension(file)

Find(u) ==
  /\ phase[u] = "check" /\ stored[image[u]] # None
  /\ LET folder == stored[image[u]]
     IN \E file \in folder.files :
          IF Descends(folder) /\ Fits(folder, file)
          THEN Goto(u, "check", "found") /\ Found(u, folder, file)
          ELSE Goto(u, "check", "error") /\ UNCHANGED fields
  /\ UNCHANGED <<names, saving, staged, stored, disturbed>>

Processing == {"load", "magic", "resize"}

\* check_existence goes on: it is new, and nobody else processes it.
Claim(u) ==
  /\ Goto(u, "check", "load")
  /\ stored[image[u]] = None
  /\ \A v \in Uploads : phase[v] \in Processing => image[v] # image[u]
  /\ UNCHANGED <<names, fields, saving, staged, stored, disturbed>>

\* load_image calls magic_buffer, with the cookie of all.
CallMagic(u) ==
  /\ Goto(u, "load", "magic")
  /\ LET others == {v \in Uploads : phase[v] = "magic"}
     IN disturbed' = disturbed \cup others \cup (IF others = {} THEN {} ELSE {u})
  /\ UNCHANGED <<names, fields, saving, staged, stored>>

(***************************************************************************)
(* It copies the result out of the memory of the cookie.  If another call  *)
(* was in between, that may be anything.  Then the original is written,    *)
(* and the extent of the image is known, and what sizes to make.            *)
(***************************************************************************)
Copy(u) ==
  /\ Goto(u, "magic", "resize")
  /\ \E text \in IF u \in disturbed THEN Garbage \cup Range(Detected) ELSE {Detected[image[u]]} :
       LET format == IF text = Unknown THEN original[u] ELSE text
       IN /\ original' = [original EXCEPT ![u] = format]
          /\ staged' = [staged EXCEPT ![u] = CreateFile(NewFolder, Name(filename[u], format))]
  /\ extent' = [extent EXCEPT ![u] = Extent[image[u]]]
  /\ UNCHANGED <<names, filename, dimensions, saving, stored, disturbed>>

Widths(u) == {d.width : d \in dimensions[u]}

\* A resize task: the thumbnail decides the height.
ResizeBeforeHeight(u, w) ==
  /\ phase[u] = "resize" /\ w \in SizesOf[image[u]] \ Widths(u)
  /\ LET formats == GetFormats(original[u])
         d == [width |-> w, height |-> 0, formats |-> Times(formats)]
     IN /\ dimensions' = [dimensions EXCEPT ![u] = @ \cup {d}]
        /\ staged' = [staged EXCEPT ![u] = CreateFolder(@, <<w, Height[image[u]][w]>>)]
        /\ saving' = [saving EXCEPT ![u] =
             @ \cup {<< <<w, Height[image[u]][w]>>, n>> : n \in DOMAIN formats}]
  /\ UNCHANGED <<names, phase, filename, original, extent, stored, disturbed>>
Resize(u, w) ==
  /\ phase[u] = "resize" /\ w \in SizesOf[image[u]] \ Widths(u)
  /\ LET formats == GetFormats(original[u])
         h == Height[image[u]][w]
         d == [width |-> w, height |-> h, formats |-> Times(formats)]
     IN /\ dimensions' = [dimensions EXCEPT ![u] = @ \cup {d}]
        /\ staged' = [staged EXCEPT ![u] = CreateFolder(@, <<w, h>>)]
        /\ saving' = [saving EXCEPT ![u] = @ \cup {<< <<w, h>>, n>> : n \in DOMAIN formats}]
  /\ UNCHANGED <<names, phase, filename, original, extent, stored, disturbed>>

SaveSuggested(u, task) ==
  /\ task \in saving[u]
  /\ saving' = [saving EXCEPT ![u] = @ \ {task}]
  /\ staged' = [staged EXCEPT ![u] =
       CreateFileIn(@, task[1], Name(WithoutExtension(suggested[u]), GetFormats(original[u])[task[2]]))]
  /\ UNCHANGED <<names, phase, fields, stored, disturbed>>
Save(u, task) ==
  /\ task \in saving[u]
  /\ saving' = [saving EXCEPT ![u] = @ \ {task}]
  /\ staged' = [staged EXCEPT ![u] =
       CreateFileIn(@, task[1], Name(filename[u], GetFormats(original[u])[task[2]]))]
  /\ UNCHANGED <<names, phase, fields, stored, disturbed>>

\* finalize, when all tasks are over.
Finalize(u) ==
  /\ Goto(u, "resize", "new")
  /\ Widths(u) = SizesOf[image[u]] /\ saving[u] = {}
  /\ stored' = [stored EXCEPT ![image[u]] = staged[u]]
  /\ UNCHANGED <<names, fields, saving, staged, disturbed>>

Next ==
  \E u \in Uploads :
    \/ \E i \in Images, name \in Suggested : Run(u, i, name)
    \/ Find(u) \/ Claim(u) \/ CallMagic(u) \/ Copy(u)
    \/ \E w \in UNION Range(SizesOf) : Resize(u, w)
    \/ \E task \in saving[u] : Save(u, task)
    \/ Finalize(u)

Spec == Init /\ [][Next]_vars

-----------------------------------------------------------------------------
(* Properties.                                                              *)

\* The answer to an upload, made from what the processor of the first upload
\* remembers or from what that of a later one finds, names the files that the
\* store has, all of them and no others, whatever file names the uploads
\* suggest.  It is not the same for all: who finds the image does not know the
\* extent of the original, and lists a format once that was asked for twice.
Listed(u) ==
  [files |-> {Name(filename[u], original[u])},
   folders |-> [size \in {<<d.width, d.height>> : d \in dimensions[u]} |->
                 {Name(filename[u], f) : f \in
                    UNION {DOMAIN d.formats : d \in {e \in dimensions[u] : size = <<e.width, e.height>>}}}]]
AnswersNameFiles ==
  \A u \in Uploads : phase[u] \in {"found", "new"} =>
    /\ Listed(u) = stored[image[u]]
    /\ extent[u] = IF phase[u] = "new" THEN Extent[image[u]] ELSE <<0, 0>>
    /\ (\E d \in dimensions[u] : \E f \in DOMAIN d.formats : d.formats[f] > 1) => phase[u] = "new"

\* An image that is stored is found, unless one of its formats, a configured
\* one or that of the original, has a dot in it, so that the names of its files
\* do not fit, or data_dir ends with a slash: then every later upload fails.
FoundAgain ==
  \A u \in Uploads : phase[u] = "error" =>
    \/ trailing
    \/ \E v \in Uploads : /\ phase[v] = "new" /\ image[v] = image[u]
                          /\ \E f \in {original[v]} \cup Range(GetFormats(original[v])) : Len(f) > 1
=============================================================================
