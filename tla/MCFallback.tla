------------------------------ MODULE MCFallback ------------------------------
EXTENDS Fallback

ThreeTypes  == <<"cx53", "ccx33", "cpx51">>
OneLocation == <<"fsn1">>

(* The order of the README's example, which the run is too small for.      *)
ASSUME OrderOfReadme ==
    Order(<<"cx53", "ccx33">>, <<"fsn1", "nbg1">>) =
        <<<<"cx53", "fsn1">>, <<"cx53", "nbg1">>, <<"ccx33", "fsn1">>, <<"ccx33", "nbg1">>>>
================================================================================
