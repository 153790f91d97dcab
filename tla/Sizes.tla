-------------------------------- MODULE Sizes --------------------------------
(***************************************************************************)
(* Which widths an image is resized to: size_specs::get_sizes and          *)
(* size_spec::get_sizes of src/config.hpp, with div_round_up of            *)
(* src/utils.hpp, against what the comment on size_spec says the result    *)
(* is.  The loop is modelled iteration by iteration, because it does not   *)
(* end for every specification that parse accepts.                         *)
(*                                                                         *)
(* The products stay far below the range of dimension_t (64 bits).  The    *)
(* subtraction is that of the integers: a width below 0 is a wrapped one.  *)
(***************************************************************************)
EXTENDS Integers, Sequences

VARIABLES specs,     \* the configured size_specs
          original,  \* original_width
          k,         \* the specification being expanded
          looping,   \* whether its while loop was entered
          width,     \* the local variable width
          result

locals == <<k, looping, width, result>>

Init ==
  /\ original = 0 /\ k = 0
  /\ looping = FALSE /\ width = 0
  /\ result = {}

\* get_sizes is called for an image.
Call(w) ==
  /\ k = 0
  /\ original' = w /\ k' = 1
  /\ UNCHANGED <<specs, looping, width, result>>

-----------------------------------------------------------------------------
DivRoundDown(a, b) == a \div b
DivRoundUp(a, b) == (a + b - 1) \div b

Decrement(s, w) ==
  IF s.decrement_is_pct THEN DivRoundUp(w * s.decrement, 100) ELSE s.decrement

AtSpec == k \in DOMAIN specs
NextSpec == k' = k + 1 /\ looping' = FALSE /\ width' = 0

\* A fixed size is inserted whatever the image, even if it is larger.
Fixed ==
  /\ AtSpec
  /\ specs[k].decrement = 0
  /\ result' = result \cup {specs[k].fixed_value}
  /\ NextSpec
  /\ UNCHANGED <<specs, original>>

EnterLoop ==
  /\ AtSpec
  /\ specs[k].decrement # 0 /\ ~looping
  /\ looping' = TRUE
  /\ width' = original
  /\ UNCHANGED <<specs, original, k, result>>

LeaveLoop ==
  /\ AtSpec
  /\ looping /\ width < specs[k].fixed_value
  /\ NextSpec
  /\ UNCHANGED <<specs, original, result>>

IterateUnguarded ==
  /\ AtSpec
  /\ looping /\ width >= specs[k].fixed_value
  /\ result' = result \cup {width}
  /\ width' = width - Decrement(specs[k], width)
  /\ UNCHANGED <<specs, original, k, looping>>
\* One iteration; the break avoids an underflow.
Iterate ==
  /\ AtSpec
  /\ looping /\ width >= specs[k].fixed_value
  /\ result' = result \cup {width}
  /\ LET d == Decrement(specs[k], width)
     IN IF d > width THEN NextSpec
                     ELSE width' = width - d /\ UNCHANGED <<k, looping>>
  /\ UNCHANGED <<specs, original>>

Next == Fixed \/ EnterLoop \/ LeaveLoop \/ Iterate

-----------------------------------------------------------------------------
(* What the comment on size_spec says the sizes are.                        *)

CeilPercent(w, p) == CHOOSE n \in 0..w : 100 * n >= w * p /\ 100 * (n - 1) < w * p

Reduced(s, v) ==
  v - IF s.decrement_is_pct THEN CeilPercent(v, s.decrement) ELSE s.decrement

\* The original size, then each time the previous one less the decrement.
Sequence(s, w) ==
  LET size[n \in 0..w] == IF n = 0 THEN w ELSE Reduced(s, size[n - 1])
  IN {size[n] : n \in 0..w}

Described(s, w) ==
  IF s.decrement = 0 THEN {s.fixed_value}
  ELSE {v \in Sequence(s, w) : v >= s.fixed_value}

-----------------------------------------------------------------------------
(* Properties.                                                              *)

\* Every variable has its type; in particular no width is below 0.
TypeOK ==
  /\ original \in Nat
  /\ k \in 0 .. Len(specs) + 1
  /\ looping \in BOOLEAN
  /\ width \in Nat
  /\ result \in SUBSET Nat

\* "the sequence is the original image size, and then each next size
\* decremented by ceil(prev_size * decrement / 100) until (not including) the
\* value is < fixed_value", or "repeatedly subtracting decrement".
SizesAsDescribed ==
  k > Len(specs) =>
    result = UNION {Described(specs[n], original) : n \in DOMAIN specs}
=============================================================================
