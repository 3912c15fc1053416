------------------------------ MODULE CIDRows ------------------------------
(***************************************************************************)
(* The CIDRecord table (repo/models.go:21-26) as the transaction of        *)
(* processJob sees it: the live rows of each peer, as the set of their     *)
(* CIDs, and what a crawl makes of them (crawler/worker.go:226-265).       *)
(***************************************************************************)
CONSTANTS
  Peer,
  CID,
  Graphs,     \* the graphs a crawl can come with
  Worker,
  Nobody,     \* the holder of a free mutex
  NoJob,      \* the job of a worker that has none
  NoCID,      \* the CID of a worker that looks at none
  NoAnswer    \* the answer to a call that is still running

\* The crawl: whose it is and what it found.
Job == [peer : Peer, graph : Graphs]

\* What processJob has when Update returns: the error, and its unpin list, which
\* it does not look at after an error.
Answer == [err : BOOLEAN, toUnpin : SUBSET CID]

ASSUME CIDRowsAssumption ==
  /\ Graphs \subseteq SUBSET CID
  /\ Nobody \notin Worker
  /\ NoJob \notin Job
  /\ NoCID \notin CID
  /\ NoAnswer \notin Answer

Failed == [err |-> TRUE, toUnpin |-> {}]

\* The rows that are left: those of the old ones that were not deleted, and one
\* for each CID of the graph.
Replaced(table, p, deleted, graph) == [table EXCEPT ![p] = (@ \ deleted) \cup graph]

\* The CIDs no other peer has a row for.
Unshared(table, p, dropped) == dropped \ UNION {table[q] : q \in Peer \ {p}}
=============================================================================
