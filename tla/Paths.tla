------------------------------- MODULE Paths -------------------------------
(***************************************************************************)
(* How much work fetchGraph does.  m (crawler/worker.go:397-422) forgets a *)
(* CID once its node is loaded, so a node that several nodes link to can   *)
(* be loaded again: what bounds the loads is the number of paths that lead *)
(* to it, not the number of nodes.                                         *)
(*                                                                         *)
(* The IPLD graph under a root has no cycles, so its nodes can be numbered *)
(* such that links lead to greater numbers; they are taken to be their     *)
(* numbers.                                                                *)
(***************************************************************************)
EXTENDS DagGet

CONSTANT N

ASSUME NumberingAssumption ==
  /\ N \in Nat
  /\ CID = 1 .. N
  /\ \A g \in Graphs : \A c \in CID : \A d \in g[c] : c < d

\* PathsThrough(g)[k][c]: the number of paths in the graph g from the root to c
\* whose links all start from nodes up to k.
PathsThrough(g) ==
  LET paths[k \in 0 .. N] ==
        IF k = 0 THEN [c \in CID |-> IF c = Root THEN 1 ELSE 0]
        ELSE LET before == paths[k - 1]
             IN [c \in CID |-> before[c] + (IF c \in g[k] THEN before[k] ELSE 0)]
  IN paths

PathsTo(c) == PathsThrough(links)[N][c]

\* A node is loaded at most once per path that leads to it from the root, a
\* number that can grow exponentially with the depth of the graph
\* (worker.go:416-419: m forgets what was loaded).  A walk that succeeds loads
\* each node of the graph at least once.
LoadsWithinPaths ==
  \A c \in CID :
    /\ ret[c] <= PathsTo(c)
    /\ result = "ok" => (ret[c] = 0 <=> PathsTo(c) = 0)
=============================================================================
