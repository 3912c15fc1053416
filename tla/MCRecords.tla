----------------------------- MODULE MCRecords -----------------------------
(* Instance of Records for TLC: the graphs of two crawls, each with a CID   *)
(* that the other lacks; the peers and the workers are interchangeable.     *)
EXTENDS Records, TLC

CONSTANTS a, b, c

CIDs == {a, b, c}
Found == {{a, b}, {b, c}}

Symmetry == Permutations(Peer) \cup Permutations(Worker)
=============================================================================
