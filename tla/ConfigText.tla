----------------------------- MODULE ConfigText -----------------------------
(***************************************************************************)
(* How the values of a configuration file are read: string_view_to_int of  *)
(* src/utils.hpp, parse_bytes, size_spec::parse and size_specs::parse of   *)
(* src/config.hpp.                                                         *)
(*                                                                         *)
(* A text is a sequence of characters; a name that nothing looks into is   *)
(* one of them.  A function that may throw gives the set of its results:   *)
(* one, or none when it throws.                                            *)
(*                                                                         *)
(* The widths are scaled: 1024 is Kilo, 2^16 is ShortRange, and 2^32 is,   *)
(* as in the code, four times what the suffix G stands for.                *)
(***************************************************************************)
EXTENDS Integers, Sequences, SequencesExt

CONSTANTS Kilo, ShortRange

ASSUME TextAssumption == Kilo \in Nat \ {0} /\ ShortRange \in Nat \ {0}

Factor == [B |-> 1, k |-> Kilo, K |-> Kilo, M |-> Kilo * Kilo, G |-> Kilo * Kilo * Kilo]

UnsignedRange == 4 * Factor["G"]
IntMax == UnsignedRange \div 2 - 1
LongRange == UnsignedRange * UnsignedRange

Short(n) == n % ShortRange
Unsigned(n) == n % UnsignedRange
Long(n) == n % LongRange

DigitChars == <<"0", "1", "2", "3", "4", "5", "6", "7", "8", "9">>
DigitValue == [c \in Range(DigitChars) |-> (CHOOSE i \in 1..10 : DigitChars[i] = c) - 1]

\* The digits a text begins with, and the number they are.
Digits(s) ==
  SubSeq(s, 1, SelectInSeq(Append(s, "end"), LAMBDA c : c \notin DOMAIN DigitValue) - 1)
Number(s) ==
  LET value[k \in 0..Len(s)] ==
        IF k = 0 THEN 0 ELSE 10 * value[k - 1] + DigitValue[s[k]]
  IN value[Len(s)]

(***************************************************************************)
(* from_chars takes an optional sign and the digits, and leaves the rest   *)
(* of the text alone: so does string_view_to_int.                          *)
(***************************************************************************)
StringViewToInt(s) ==
  LET negative == s # <<>> /\ Head(s) = "-"
      digits == Digits(IF negative THEN Tail(s) ELSE s)
      n == IF negative THEN -Number(digits) ELSE Number(digits)
  IN IF digits = <<>> \/ n \notin (-IntMax - 1)..IntMax THEN {} ELSE {n}

\* The product is taken after the wrap, and wraps again.
ParseBytes(s) ==
  IF Len(s) = Len(Digits(s)) + 1 /\ Last(s) \in DOMAIN Factor
  THEN {Unsigned(Unsigned(Number(Digits(s))) * Factor[Last(s)])}
  ELSE {}

\* The pieces that end where these indices are, in their order.
Pieces(s, ends) ==
  LET end == [k \in 1..Cardinality(ends) |->
                CHOOSE e \in ends : Cardinality({f \in ends : f <= e}) = k]
  IN [k \in DOMAIN end |-> SubSeq(s, IF k = 1 THEN 1 ELSE end[k - 1] + 1, end[k] - 1)]

\* The pieces between commas; there is none after a comma at the end.
Commas(s) == {i \in DOMAIN s : s[i] = ","}
SplitStopsAtTheLastComma(s) == Pieces(s, Commas(s))
Split(s) ==
  Pieces(s, Commas(s) \cup (IF s # <<>> /\ Last(s) # "," THEN {Len(s) + 1} ELSE {}))

SizeSpec(fixed, decrement, is_pct) ==
  [fixed_value |-> fixed, decrement |-> decrement, decrement_is_pct |-> is_pct]

FixedSpec(s) == {SizeSpec(Long(n), 0, FALSE) : n \in StringViewToInt(s)}

PercentSpec(limit, s) ==
  {SizeSpec(Long(n), d, TRUE) : n \in StringViewToInt(limit),
                                d \in {Long(e) : e \in StringViewToInt(s)} \cap 1..99}

PixelSpec(limit, s) ==
  {SizeSpec(Long(n), d, FALSE) : n \in StringViewToInt(limit),
                                 d \in {Long(e) : e \in StringViewToInt(s)} \ {0}}

\* The unit "px" is an x, or a q (the character before which is p), and
\* whatever precedes it.  Without a decrement it does not matter which
\* character back() finds: there is no number.
Parse(s) ==
  LET colon == SelectInSeq(s, LAMBDA c : c = ":")
      limit == SubSeq(s, 1, colon - 1)
      rest == SubSeq(s, colon + 1, Len(s))
      unit == IF rest = <<>> THEN ":" ELSE Last(rest)
  IN CASE colon = 0 -> FixedSpec(s)
       [] colon # 0 /\ unit = "%" -> PercentSpec(limit, Front(rest))
       [] colon # 0 /\ unit \in {"x", "q"} -> PixelSpec(limit, SubSeq(rest, 1, Len(rest) - 2))
       [] OTHER -> {}

ParseSpecs(s) ==
  LET parsed == [k \in DOMAIN Split(s) |-> Parse(Split(s)[k])]
  IN IF {} \in Range(parsed) THEN {}
     ELSE {[k \in DOMAIN parsed |-> CHOOSE spec \in parsed[k] : TRUE]}
=============================================================================
