----------------------------- MODULE FileTree -----------------------------
(***************************************************************************)
(* What the calls of fatfs promise of an image: a tree of directories and  *)
(* files.  A tree is a function from paths, sequences of names from the    *)
(* root, to "dir" or the contents of a file.  A call changes one node at   *)
(* most, and every other file keeps its contents.                          *)
(***************************************************************************)
EXTENDS Sequences

CONSTANTS
    Names,      \* names of files and directories
    Contents    \* contents of files

VARIABLE tree

Empty == [p \in {<<>>} |-> "dir"]

\* The image is no tree any more, it has lost its root.
Broken == [p \in {<<>>} |-> "broken"]

IsDir(p)  == p \in DOMAIN tree /\ tree[p] = "dir"
IsFile(p) == p \in DOMAIN tree /\ tree[p] # "dir"
IsLeaf(p) == \A n \in Names : Append(p, n) \notin DOMAIN tree

\* The tree with x at p.
With(p, x) == [q \in DOMAIN tree \cup {p} |-> IF q = p THEN x ELSE tree[q]]

Init == tree = Empty

MakeDir(p, n) ==
    /\ IsDir(p) /\ Append(p, n) \notin DOMAIN tree
    /\ tree' = With(Append(p, n), "dir")

\* A file of that name is replaced.
WriteFile(p, n, x) ==
    /\ IsDir(p) /\ ~IsDir(Append(p, n))
    /\ tree' = With(Append(p, n), x)

\* Deleting a file or an empty directory; writing that fails may take away the
\* file that was to be replaced.
Remove(p) ==
    /\ p # <<>> /\ (IsFile(p) \/ (IsDir(p) /\ IsLeaf(p)))
    /\ tree' = [q \in DOMAIN tree \ {p} |-> tree[q]]

\* The image can break; when, is said beside the specification that implements
\* this one.
Break == tree' = Broken

Next ==
    /\ IsDir(<<>>)
    /\ \/ \E p \in DOMAIN tree, n \in Names :
            MakeDir(p, n) \/ \E x \in Contents : WriteFile(p, n, x)
       \/ \E p \in DOMAIN tree : Remove(p)
       \/ Break

Spec == Init /\ [][Next]_tree
=============================================================================
