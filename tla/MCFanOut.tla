------------------------------ MODULE MCFanOut ------------------------------
(* Five blocks, two at a time: one with the address twice in an output     *)
(* list and again in the next transaction, one that only the filter        *)
(* matched, one without transactions of interest before a match.           *)
EXTENDS FanOut

MCRelevant == << << <<"a", "a">>, <<"b">>, <<"b", "a">> >>,
                 << <<"b">> >>,
                 << <<"b">>, <<"a">> >>,
                 << <<"a">> >>,
                 << <<"b">>, <<>>, <<"a", "b", "a">> >> >>
=============================================================================
