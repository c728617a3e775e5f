----------------------------- MODULE MCFatfs -----------------------------
(***************************************************************************)
(* Instances of Fatfs: two names, a file of one piece and one that needs a *)
(* cluster and a piece of a second one, and the paths that tell the ways a *)
(* path can go apart: to an entry of the current directory, down into a    *)
(* directory, up again, to the root, and to the places that only seem to   *)
(* be there.                                                               *)
(***************************************************************************)
EXTENDS Fatfs

CONSTANTS a, b

MCNames == {a, b}
MCContents == {"short", "long"}
MCLength == [c \in MCContents |-> IF c = "short" THEN 1 ELSE ClusterSlots + 1]

Rel(s) == [abs |-> FALSE, names |-> s]
Abs(s) == [abs |-> TRUE, names |-> s]

MCPaths ==
    {Rel(<<".">>), Rel(<<"..">>), Root}
    \cup {Rel(<<n>>) : n \in Names}
    \cup {Rel(<<n, d>>) : n \in Names, d \in {".", ".."}}
    \cup {Abs(<<n, m>>) : <<n, m>> \in {<<a, b>>, <<b, a>>}}

\* Nothing tells the two names apart.
Symmetry == Permutations(Names)
=============================================================================
