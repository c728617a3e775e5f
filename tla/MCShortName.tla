---------------------------- MODULE MCShortName ----------------------------
(***************************************************************************)
(* Instances of ShortName: every name of up to three characters out of a   *)
(* letter, the dot and the space, and longer ones at the limits of the     *)
(* fields, which have two characters each.                                 *)
(***************************************************************************)
EXTENDS ShortName

Short == UNION {[1 .. k -> {"a", DOT, SPACE}] : k \in 1 .. 3}

MCNames ==
    (Short \ {<<DOT>>})
    \cup {<<"a", "a", DOT, "a">>, <<"a", "a", "a", DOT, "a">>,
          <<"a", "a", DOT, "a", "a">>, <<"a", "a", DOT, "a", "a", "a">>,
          <<SPACE, SPACE, "a", "a">>, <<"a", SPACE, DOT, "a">>,
          <<"a", "+">>, <<"a", ":">>}
=============================================================================
