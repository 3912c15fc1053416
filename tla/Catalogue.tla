----------------------------- MODULE Catalogue -----------------------------
(***************************************************************************)
(* What the crawl pipeline amounts to while nothing goes wrong             *)
(* (crawler/worker.go:18-316): a crawl replaces the recorded content of    *)
(* its peer and changes the roots that are kept, all at once.  It keeps    *)
(* the root it crawled, lets go of what the peer has dropped unless        *)
(* another peer has it too, and touches nothing else.                      *)
(***************************************************************************)
CONSTANTS
  Peer,
  CID,
  Published,   \* Published[p]: the roots that p's records ever point to
  Graph        \* Graph[c]: the CIDs reachable from c, c included

VARIABLES
  content,     \* content[p]: the CIDs recorded for p
  kept,        \* the roots pinned for good
  sound        \* nothing has gone wrong so far

vars == <<content, kept, sound>>

Init ==
  /\ content = [p \in Peer |-> {}]
  /\ kept = {}
  /\ sound = TRUE

\* What nobody has any more once p's content is graph.
LetGo(p, graph) == content[p] \ (graph \cup UNION {content[q] : q \in Peer \ {p}})

Crawl(p) ==
  /\ sound
  /\ \E root \in Published[p] : \E graph \in SUBSET Graph[root] :
       /\ root \in graph
       /\ content' = [content EXCEPT ![p] = graph]
       /\ kept' = (kept \ LetGo(p, graph)) \cup {root}
  /\ sound'

\* After the first mishap nothing is promised.
GoesWrong == ~sound'

Next == GoesWrong \/ \E p \in Peer : Crawl(p)

Spec == Init /\ [][Next]_vars
=============================================================================
