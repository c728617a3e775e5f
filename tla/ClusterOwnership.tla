------------------------ MODULE ClusterOwnership ------------------------
(***************************************************************************)
(* What the callers of the file allocation table rely on: every file or    *)
(* directory owns a set of clusters, a cluster is granted to one owner at  *)
(* a time, and it stays with that owner until the owner is deleted.  An    *)
(* owner is named by its start cluster.                                    *)
(***************************************************************************)
CONSTANT Cluster

VARIABLE owns   \* the clusters of each owner

Owners == DOMAIN owns
Owned  == UNION {owns[o] : o \in Owners}

Init == owns = [o \in {} |-> {}]

\* A new owner appears with a cluster nobody owns.
Open(c) ==
    /\ c \in Cluster \ Owned
    /\ owns' = [o \in Owners \cup {c} |-> IF o = c THEN {c} ELSE owns[o]]

\* An owner is granted one more cluster nobody owns.
Grow(o, c) ==
    /\ c \in Cluster \ Owned
    /\ owns' = [owns EXCEPT ![o] = @ \cup {c}]

\* An owner is deleted and all its clusters with it.
Close(o) == owns' = [p \in Owners \ {o} |-> owns[p]]

Next ==
    \/ \E c \in Cluster : Open(c)
    \/ \E o \in Owners, c \in Cluster : Grow(o, c)
    \/ \E o \in Owners : Close(o)

Spec == Init /\ [][Next]_owns
=============================================================================
