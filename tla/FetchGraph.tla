----------------------------- MODULE FetchGraph -----------------------------
(***************************************************************************)
(* fetchGraph (crawler/worker.go:396-423): a work-set walk of the IPLD     *)
(* graph under a root, loading one node at a time.  m holds the CIDs to    *)
(* load, ret what is returned.  Nothing remembers what was loaded, so a    *)
(* node with several parents may be loaded several times.                  *)
(*                                                                         *)
(* links is the graph.  It never changes: a CID fixes its node's links.    *)
(***************************************************************************)
EXTENDS Naturals

CONSTANTS
  CID,
  Root,
  Graphs      \* the graphs considered: functions from CID to sets of CIDs

ASSUME GraphAssumption ==
  /\ Root \in CID
  /\ Graphs \subseteq [CID -> SUBSET CID]

VARIABLES
  links,      \* the links of each node (external)
  m,          \* the map m: CIDs still to be loaded
  ret,        \* how often each CID occurs in the slice ret
  result      \* "none" while walking, then "ok" or "error"

vars == <<links, m, ret, result>>

TypeOK ==
  /\ links \in Graphs
  /\ m \subseteq CID
  /\ ret \in [CID -> Nat]
  /\ result \in {"none", "ok", "error"}
  /\ result = "ok" => m = {}

Init ==
  /\ links \in Graphs
  /\ m = {Root}
  /\ ret = [c \in CID |-> 0]
  /\ result = "none"

Appended(c) == ret' = [ret EXCEPT ![c] = @ + 1]

\* dagGet returns the node of c: c leaves m and its links enter it.  range over
\* a Go map visits the keys in any order, and may or may not visit one that was
\* added on the way; the outer loop starts over until m is empty.
Load(c) ==
  /\ result = "none"
  /\ c \in m
  /\ Appended(c)
  /\ m' = (m \ {c}) \cup links[c]
  /\ UNCHANGED <<links, result>>

\* dagGet times out: ret is returned as it is, with c in it.
LoadFails(c) ==
  /\ result = "none"
  /\ c \in m
  /\ Appended(c)
  /\ result' = "error"
  /\ UNCHANGED <<links, m>>

\* The outer loop ends when m is empty.
Return ==
  /\ result = "none"
  /\ m = {}
  /\ result' = "ok"
  /\ UNCHANGED <<links, m, ret>>

Next == (\E c \in CID : Load(c) \/ LoadFails(c)) \/ Return

Spec == Init /\ [][Next]_vars

-----------------------------------------------------------------------------
Returned == {c \in CID : ret[c] > 0}

\* S holds the root and everything its members link to.
Closed(S) == Root \in S /\ \A c \in S : links[c] \subseteq S

\* The graph under the root: what every closed set has in common.
Reachable == {c \in CID : \A S \in SUBSET CID : Closed(S) => c \in S}

\* A walk that ends without an error returned the whole graph under the root
\* and nothing else; one that failed returned a part of it, the root included
\* (worker.go:194-199 records the part all the same).
Complete ==
  /\ result = "ok" => Returned = Reachable
  /\ result = "error" => Root \in Returned /\ Returned \subseteq Reachable
=============================================================================
