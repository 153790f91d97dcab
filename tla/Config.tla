------------------------------- MODULE Config -------------------------------
(***************************************************************************)
(* The configuration: config::parse of src/config.hpp, which reads a file  *)
(* line by line, and the use that is made of its sizes for an image.       *)
(*                                                                         *)
(* A line is a key, what its first dot separates, and a value.             *)
(* Empty lines and comments do nothing and are not lines here; a line      *)
(* without an = stands with the unknown keys: both are refused.            *)
(***************************************************************************)
EXTENDS ConfigText, FiniteSets

CONSTANTS Lines,            \* the lines a file may have
          Widths,           \* of uploaded images
          SpecSet,          \* size specifications whose text a file may have
          DefaultPort, None

SizeSpecs(decrements, pct) ==
  [fixed_value : 1..IntMax, decrement : decrements, decrement_is_pct : {pct}]

ASSUME ConfigAssumption ==
  /\ Lines \subseteq [key : Seq(STRING) \ {<<>>}, value : Seq(STRING)]
  /\ Widths \subseteq Nat
  /\ \A s \in SpecSet :
       IF s.decrement_is_pct THEN s \in SizeSpecs(1..99, TRUE)
                             ELSE s \in SizeSpecs(0..IntMax, FALSE)
  /\ DefaultPort \in 0..ShortRange - 1 /\ ShortRange <= IntMax
  /\ 20 * Factor["M"] < UnsignedRange
  /\ None \notin Lines \cup [{"data_dir", "temp_dir"} -> Seq(STRING)]

VARIABLES phase,  \* "reading", "accepted" or "refused"
          read,   \* the lines read without an error; their keys are seen_keys
          cfg,
          bad,    \* the line that was refused
          original, k, looping, width, result   \* see Sizes

parser == <<phase, read, cfg, bad>>
expansion == <<original, k, looping, width, result>>
vars == <<parser, expansion>>

GetSizes == INSTANCE Sizes WITH specs <- cfg.sizes

Defaults ==
  [listen_host |-> <<"127.0.0.1">>,
   listen_port |-> DefaultPort,
   processing_timeout_secs |-> 8,
   socket_kill_timeout_secs |-> 10,
   thread_pool_size |-> None,
   upload_limit |-> 20 * Factor["M"],
   auth_token |-> <<>>,
   sizes |-> <<>>,
   formats |-> {},
   storage |-> None]

Init ==
  /\ phase = "reading"
  /\ read = {}
  /\ cfg = Defaults
  /\ bad = None
  /\ GetSizes!Init

-----------------------------------------------------------------------------
(* One line.                                                                *)

Keys(lines) == {l.key : l \in lines}

Fields == {"listen_host", "listen_port", "processing_timeout_secs",
           "socket_kill_timeout_secs", "thread_pool_size", "upload_limit",
           "auth_token", "sizes"}

Parsed(field, value) ==
  CASE field = "listen_host" -> {value}
    [] field = "listen_port" -> {Short(n) : n \in StringViewToInt(value)}
    [] field = "upload_limit" -> ParseBytes(value)
    [] field = "auth_token" -> {<<"Bearer ">> \o value}
    [] field = "sizes" -> ParseSpecs(value)
    [] OTHER -> {Unsigned(n) : n \in StringViewToInt(value)}

SetField(l) ==
  {[cfg EXCEPT ![l.key[1]] = x] : x \in IF Len(l.key) = 1 /\ l.key[1] \in Fields
                                        THEN Parsed(l.key[1], l.value) ELSE {}}

NewStorage == [data_dir |-> <<>>, temp_dir |-> <<>>]

SetStorageType(l) ==
  IF l.key = <<"storage", "type">> /\ l.value = <<"fs">>
  THEN {[cfg EXCEPT !.storage = NewStorage]} ELSE {}

\* storage_fs::set_config, which needs an object to be called on.
SetStorageBefore(l) ==
  IF Len(l.key) = 2 /\ l.key[1] = "storage" /\ l.key[2] \in DOMAIN NewStorage
  THEN {[cfg EXCEPT !.storage =
           [(IF cfg.storage = None THEN NewStorage ELSE @) EXCEPT ![l.key[2]] = l.value]]}
  ELSE {}
SetStorage(l) ==
  IF Len(l.key) = 2 /\ l.key[1] = "storage" /\ l.key[2] \in DOMAIN NewStorage
     /\ cfg.storage # None
  THEN {[cfg EXCEPT !.storage[l.key[2]] = l.value]}
  ELSE {}

SetFormats(l) ==
  IF Len(l.key) = 2 /\ l.key[1] = "formats" /\ Split(l.value) # <<>>
  THEN {[cfg EXCEPT !.formats = @ \cup {<<l.key[2], Split(l.value)>>}]} ELSE {}

Applied(l) == SetField(l) \cup SetStorageType(l) \cup SetStorage(l) \cup SetFormats(l)

Seen(l) == l.key \in Keys(read)

ReadLine(l) ==
  /\ phase = "reading"
  /\ ~Seen(l) /\ cfg' \in Applied(l)
  /\ read' = read \cup {l}
  /\ UNCHANGED <<phase, bad, expansion>>

RefuseLine(l) ==
  /\ phase = "reading"
  /\ Seen(l) \/ Applied(l) = {}
  /\ phase' = "refused"
  /\ bad' = l
  /\ UNCHANGED <<read, cfg, expansion>>

Valid ==
  /\ cfg.sizes # <<>> /\ cfg.formats # {}
  /\ cfg.storage # None /\ <<>> \notin {cfg.storage.data_dir, cfg.storage.temp_dir}
  /\ cfg.socket_kill_timeout_secs > cfg.processing_timeout_secs
  /\ cfg.processing_timeout_secs # 0

EndOfFile ==
  /\ phase = "reading"
  /\ phase' = IF Valid THEN "accepted" ELSE "refused"
  /\ UNCHANGED <<read, cfg, bad, expansion>>

-----------------------------------------------------------------------------
(* An image is loaded.                                                      *)

LoadImage(w) ==
  /\ phase = "accepted"
  /\ UNCHANGED parser
  /\ GetSizes!Call(w)

Expand == UNCHANGED parser /\ GetSizes!Next

Next ==
  \/ \E l \in Lines : ReadLine(l) \/ RefuseLine(l)
  \/ EndOfFile
  \/ \E w \in Widths : LoadImage(w)
  \/ Expand

Spec == Init /\ [][Next]_vars

\* The loop of a running thread makes its iterations.
FairSpec == Spec /\ WF_vars(Expand)

-----------------------------------------------------------------------------
(* What the example file, asset-server.cfg, says that a file may say, and   *)
(* what it means: texts with their values.                                  *)

Text(n) ==
  LET text[m \in 0..n] ==
        IF m < 10 THEN <<DigitChars[m + 1]>>
        ELSE Append(text[m \div 10], DigitChars[(m % 10) + 1])
  IN text[n]

SpecText(spec) ==
  IF spec.decrement = 0 THEN Text(spec.fixed_value)
  ELSE Text(spec.fixed_value) \o <<":">> \o Text(spec.decrement)
       \o (IF spec.decrement_is_pct THEN <<"%">> ELSE <<"p", "x">>)

Integer(limit) == {<<Text(n), n>> : n \in 1..limit}
Documented ==
  [listen_port |-> Integer(ShortRange - 1),
   processing_timeout_secs |-> Integer(IntMax),
   socket_kill_timeout_secs |-> Integer(IntMax),
   thread_pool_size |-> Integer(IntMax),
   upload_limit |-> {v \in {<<Append(Text(n), f), n * Factor[f]>> :
                              n \in 1..IntMax \div Kilo, f \in DOMAIN Factor} :
                       v[2] < UnsignedRange},
   sizes |-> {<<SpecText(s), <<s>>>> : s \in SpecSet} \cup
             {<<SpecText(s) \o <<",">> \o SpecText(t), <<s, t>>>> : s, t \in SpecSet}]

\* What it gives as the values of what a file does not say.  The number of
\* threads and the token have none.
DocumentedDefaults ==
  [listen_host |-> <<"127.0.0.1">>,
   listen_port |-> DefaultPort,
   processing_timeout_secs |-> 15,
   socket_kill_timeout_secs |-> 20,
   thread_pool_size |-> None,
   upload_limit |-> 20 * Factor["M"],
   auth_token |-> <<>>]

TimeoutFields == {"processing_timeout_secs", "socket_kill_timeout_secs"}

-----------------------------------------------------------------------------
(* Properties.                                                              *)

\* Every variable has its type.
TypeOK ==
  /\ phase \in {"reading", "accepted", "refused"}
  /\ read \in SUBSET Lines
  /\ bad \in Lines \cup {None}
  /\ cfg.listen_port \in 0..ShortRange - 1
  /\ \A f \in {"processing_timeout_secs", "socket_kill_timeout_secs", "upload_limit"} :
       cfg[f] \in 0..UnsignedRange - 1
  /\ GetSizes!TypeOK

Absent(f) == \A l \in read : l.key[1] # f

\* Whatever order its lines come in, an accepted file means what the example
\* file says: a documented value is taken as it is written, and what is not in
\* the file has the documented default, all but the two timeouts, which have
\* others ("All commented values are optional, and their default values are
\* provided").
AsWritten ==
  phase = "accepted" =>
    /\ \A l \in read, f \in DOMAIN Documented :
         l.key = <<f>> => \A v \in Documented[f] : l.value = v[1] => cfg[f] = v[2]
    /\ \A f \in DOMAIN DocumentedDefaults :
         Absent(f) => (cfg[f] = DocumentedDefaults[f] <=> f \notin TimeoutFields)

\* A file is refused for a reason: a line that the example file does not
\* allow, a key that is there twice, a storage key before storage.type,
\* something that has to be there and is not, or the timeouts.  A file that is
\* accepted gives none of the latter reasons.
Undocumented(l) ==
  CASE Len(l.key) = 1 /\ l.key[1] \in DOMAIN Documented ->
         l.value \notin {v[1] : v \in Documented[l.key[1]]}
    [] Len(l.key) = 2 /\ l.key[1] = "formats" -> l.value = <<>>
    [] OTHER -> <<l.key, l.value>> # <<<<"storage", "type">>, <<"fs">>>>
                /\ l.key \notin {<<"storage", "data_dir">>, <<"storage", "temp_dir">>,
                                 <<"listen_host">>, <<"auth_token">>}

Incomplete ==
  \/ \E key \in {<<"sizes">>, <<"storage", "type">>, <<"storage", "data_dir">>,
                 <<"storage", "temp_dir">>} : \A l \in read : l.key # key \/ l.value = <<>>
  \/ \A l \in read : l.key[1] # "formats"

Timeouts == cfg.processing_timeout_secs \notin 1..cfg.socket_kill_timeout_secs - 1

Verdict ==
  /\ phase = "refused" =>
       IF bad = None THEN Incomplete \/ Timeouts
       ELSE \/ Undocumented(bad)
            \/ \E l \in read : l.key = bad.key
            \/ bad.key[1] = "storage" /\ <<"storage", "type">> \notin Keys(read)
  /\ phase = "accepted" =>
       ~Incomplete /\ ~Timeouts /\ Cardinality(Keys(read)) = Cardinality(read)

\* The sizes of an image are what the comment on size_spec describes.
SizesAsDescribed == GetSizes!SizesAsDescribed

\* They are found, whatever was accepted, unless it has a percentage with the
\* limit 0: at the width 0 that loop goes on without end.
NeverEnds(spec) == spec.decrement_is_pct /\ spec.fixed_value = 0
SizesFound ==
  k > 0 ~> k > Len(cfg.sizes) \/ \E n \in DOMAIN cfg.sizes : NeverEnds(cfg.sizes[n])
=============================================================================
