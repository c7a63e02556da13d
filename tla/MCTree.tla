-------------------------------- MODULE MCTree --------------------------------
(* An instance of Tree for TLC.                                               *)
EXTENDS Tree

\* "a+" is "a" in decomposed form.
MCNfc == [s \in {"a", "a+", "b", "c", "", ".", ".."} |-> IF s = "a+" THEN "a" ELSE s]

\* a, b, a/b and a/b/c in the forms callers write them, and refused ones.
MCRaw == {<<"a+">>, <<".", "b">>, <<"a", "", "b">>, <<"a", "b", "c", "">>,
          <<"a", "..", "b">>, <<"", "a">>, <<"">>, <<".", ".">>}

MCPath == UNION {[1..n -> Segment] : n \in 1..MaxDepth}
===============================================================================
