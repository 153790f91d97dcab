----------------------------- MODULE MCVariants -----------------------------
(***************************************************************************)
(* Small instances of Variants: a PNG, and an image that libmagic does not *)
(* know.  A format with a dot is configured for GIF, and one for PNG that  *)
(* all images get.                                                         *)
(***************************************************************************)
EXTENDS Variants

CONSTANTS i1, i2, i3

T(word) == << <<word>> >>
MCSuggested == {T("photo"), << <<"photo">>, <<"old">>, <<"jpg">> >>, << <<>>, <<"gz">> >>}
MCUnknown == T("???")
MCDetected == (i1 :> T("png")) @@ (i2 :> MCUnknown) @@ (i3 :> T("gif"))
MCSizesOf == (i1 :> {1, 2}) @@ (i2 :> {2, 3}) @@ (i3 :> {2})
MCExtent == (i1 :> <<2, 1>>) @@ (i2 :> <<3, 6>>) @@ (i3 :> <<2, 4>>)
MCHeight == [i \in {i1, i2, i3} |-> [w \in 1..3 |-> IF i = i1 THEN 1 ELSE 2 * w]]
MCFormatsOf == (T("png") :> <<T("png"), T("webp")>>) @@ (T("jpg") :> <<T("webp"), T("jpeg")>>)
               @@ (T("gif") :> << << <<"tar">>, <<"gif">> >> >>)
MCAllFormats == <<T("webp")>>
MCGarbage == {T("?")}
=============================================================================
