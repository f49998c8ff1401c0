--------------------------- MODULE MCWicHandshake ---------------------------
(* Values of WicHandshake's constants for TLC. *)
EXTENDS WicHandshake

Header(name, value) == [name |-> name, value |-> value]

\* The headers of a good response, in other cases of letters where that must
\* not matter, one with the hash in the wrong case, a location, and one that
\* has no value.
AHeaders ==
    {Header(<<"U", "p">>, <<"W">>), Header(<<"a">>, <<"h">>),
     Header(<<"a">>, <<"H">>), Header(<<"l">>, <<"u", "p">>),
     Header(<<"u">>, <<>>)}

\* Nothing, text without an end, and an empty string behind a whole one.
ThePayloads == {<<>>, <<"w", "w", "w">>, <<"w", Nul, Nul>>}
=============================================================================
