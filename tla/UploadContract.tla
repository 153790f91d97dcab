---------------------------- MODULE UploadContract ----------------------------
(***************************************************************************)
(* What the processing of uploads promises their senders, without threads, *)
(* hashes in progress or staged folders: an upload is answered once, with  *)
(* success only when all files of its image are in the store, with failure *)
(* only when some processing of that image failed; the store only grows.   *)
(* Processing implements it.                                               *)
(***************************************************************************)
CONSTANTS Procs, Images

VARIABLES uploads,  \* pairs of an upload and its image
          stored,   \* images with all their files available
          broken,   \* images of which some processing failed
          answers   \* pairs of an upload and its answer

vars == <<uploads, stored, broken, answers>>

Init == uploads = {} /\ stored = {} /\ broken = {} /\ answers = {}

Upload(p, i) ==
  /\ \A j \in Images : <<p, j>> \notin uploads
  /\ uploads' = uploads \cup {<<p, i>>}
  /\ UNCHANGED <<stored, broken, answers>>

Store(i) ==
  /\ i \notin stored
  /\ \E p \in Procs : <<p, i>> \in uploads
  /\ stored' = stored \cup {i}
  /\ UNCHANGED <<uploads, broken, answers>>

Break(i) ==
  /\ \E p \in Procs : <<p, i>> \in uploads
  /\ broken' = broken \cup {i}
  /\ UNCHANGED <<uploads, stored, answers>>

Answer(p, i, a) ==
  /\ <<p, i>> \in uploads
  /\ \A b \in {"ok", "error"} : <<p, b>> \notin answers
  /\ i \in IF a = "ok" THEN stored ELSE broken
  /\ answers' = answers \cup {<<p, a>>}
  /\ UNCHANGED <<uploads, stored, broken>>

Next ==
  \E i \in Images :
    \/ Store(i)
    \/ Break(i)
    \/ \E p \in Procs : Upload(p, i) \/ \E a \in {"ok", "error"} : Answer(p, i, a)

Spec == Init /\ [][Next]_vars
=============================================================================
