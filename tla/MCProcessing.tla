---------------------------- MODULE MCProcessing ----------------------------
(***************************************************************************)
(* Small instances of Processing.                                          *)
(***************************************************************************)
EXTENDS Processing, TLC

CONSTANTS s1, s2, f1, f2

OneSize == <<s1>>
TwoSizes == <<s1, s2>>
OneFormat == <<f1>>
TwoFormats == <<f1, f2>>
\* Workers, uploads and images are interchangeable.
ProcessingSymmetry ==
  Permutations(Workers) \cup Permutations(Procs) \cup Permutations(Images)
=============================================================================
