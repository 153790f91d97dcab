---------------------------- MODULE StoreContract ----------------------------
(***************************************************************************)
(* What the storage backend promises, without staging, renames or crashes  *)
(* (src/storage/interface.hpp): a folder appears in the store at once, has *)
(* the original and all variants that were configured when its image was   *)
(* processed, and then never changes, whatever happens to the process.     *)
(* A file may be cut short, which the backend does not notice.  Storage    *)
(* implements it.                                                          *)
(***************************************************************************)
CONSTANTS Hashes, Variants, Original, NoFolder

VARIABLES available,   \* the content of the folder of each hash, or NoFolder
          configured   \* the variants the server is configured to make

vars == <<available, configured>>

Files == configured \cup {Original}
Complete(cut) == [dirs |-> configured, torn |-> {}, cut |-> cut, whole |-> Files \ cut]

Init ==
  /\ available = [h \in Hashes |-> NoFolder]
  /\ configured \in SUBSET Variants

Publish(h) ==
  /\ available[h] = NoFolder
  /\ \E cut \in SUBSET Files : available' = [available EXCEPT ![h] = Complete(cut)]
  /\ UNCHANGED configured

\* The server is started anew, perhaps with another configuration.
Restart ==
  /\ configured' \in SUBSET Variants
  /\ UNCHANGED available

Next == Restart \/ \E h \in Hashes : Publish(h)

Spec == Init /\ [][Next]_vars
=============================================================================
