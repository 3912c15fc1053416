------------------------------ MODULE MCDagGet ------------------------------
(* All graphs without cycles on four nodes, 1 being the root.               *)
EXTENDS Paths, FiniteSets

Nodes == 1 .. 4

Acyclic == {g \in [Nodes -> SUBSET Nodes] : \A c \in Nodes : \A d \in g[c] : c < d}

\* A path as the set of its nodes: each of them but the first is linked to by
\* the greatest of those before it.
IsPath(g, P, c) ==
  /\ {1, c} \subseteq P
  /\ \A d \in P \ {1} : \E b \in P : d \in g[b] /\ ~\E e \in P : b < e /\ e < d
  /\ \A d \in P : d <= c

\* PathsThrough counts these paths, in every graph.
ASSUME PathsCounted ==
  \A g \in Acyclic : \A c \in Nodes :
    PathsThrough(g)[4][c] = Cardinality({P \in SUBSET Nodes : IsPath(g, P, c)})
=============================================================================
