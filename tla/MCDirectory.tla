-------------------------- MODULE MCDirectory --------------------------
(***************************************************************************)
(* A small directory: two short names, which are the aliases tried for one *)
(* long name, and a long name with a space in its extension, whose alias   *)
(* is read as one of the short names.                                      *)
(***************************************************************************)
EXTENDS Directory

MCShort == {"L1", "L2"}
MCLong  == {"la", "lb"}
MCParts == [n \in MCLong |-> IF n = "la" THEN 2 ELSE 1]
MCTails == [n \in MCLong |-> IF n = "la" THEN <<"L1", "L2">> ELSE <<"L2 d">>]
MCCut   == [a \in {"L2 d"} |-> "L2"]
\* All aliases read back as they were tried.
MCUncut == [a \in {} |-> a]
=============================================================================
