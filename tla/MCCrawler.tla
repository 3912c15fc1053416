----------------------------- MODULE MCCrawler -----------------------------
(* Instances of Crawler for TLC. *)
EXTENDS Crawler, TLC

CONSTANTS p1, p2, a, b, f

\* Two peers.  p1 publishes store a and then b (and may go back to a); p2's
\* store is b as well, so a root can be common to two peers.  Both stores
\* contain the file f.
SharedRoots == p1 :> {a, b} @@ p2 :> {b}

\* One peer that replaces its store, or publishes an older one again.
OnePeer == p1 :> {a, b}

Files == a :> {a, f} @@ b :> {b, f} @@ f :> {f}

Symmetry == Permutations(Worker) \cup Permutations(Sender) \cup Permutations(Unpinner)
              \cup Permutations(Node)
=============================================================================
