------------------------------ MODULE CIDTable ------------------------------
(***************************************************************************)
(* What the transaction of processJob promises (crawler/worker.go:         *)
(* 221-270): it happens all at once.  The rows of the peer are replaced,   *)
(* and the unpin list is what no other peer has at that moment.  The rows  *)
(* that were not found, or could not be deleted, stay.  Crawler takes the  *)
(* transaction as such a step: Succeed is its Commit, Fail its             *)
(* CommitUnanswered and its CrawlFails.                                    *)
(***************************************************************************)
EXTENDS CIDRows

VARIABLES
  table,    \* the live rows of each peer
  call,     \* call[w]: the crawl worker w is storing
  answer    \* answer[w]: what Update told it

vars == <<table, call, answer>>

Init ==
  /\ table = [p \in Peer |-> {}]
  /\ call = [w \in Worker |-> NoJob]
  /\ answer = [w \in Worker |-> NoAnswer]

Request(w) ==
  /\ call[w] = NoJob
  /\ \E j \in Job : call' = [call EXCEPT ![w] = j]
  /\ UNCHANGED <<table, answer>>

Running(w) == call[w] # NoJob /\ answer[w] = NoAnswer

\* The rows are those of w's crawl now, given the old rows it found and those it
\* could not delete.
Stored(w, old, undeleted) ==
  /\ old \in {table[call[w].peer], {}}
  /\ undeleted \subseteq old \ call[w].graph
  /\ table' = Replaced(table, call[w].peer, (old \ call[w].graph) \ undeleted, call[w].graph)

Succeed(w) ==
  /\ Running(w)
  /\ \E old \in SUBSET CID, undeleted \in SUBSET CID :
       /\ Stored(w, old, undeleted)
       /\ answer' = [answer EXCEPT ![w] =
            [err |-> FALSE,
             toUnpin |-> Unshared(table, call[w].peer, old \ call[w].graph)]]
  /\ UNCHANGED call

Fail(w) ==
  /\ Running(w)
  /\ \/ UNCHANGED table
     \/ \E old \in SUBSET CID, undeleted \in SUBSET CID : Stored(w, old, undeleted)
  /\ answer' = [answer EXCEPT ![w] = Failed]
  /\ UNCHANGED call

Return(w) ==
  /\ answer[w] # NoAnswer
  /\ call' = [call EXCEPT ![w] = NoJob]
  /\ answer' = [answer EXCEPT ![w] = NoAnswer]
  /\ UNCHANGED table

Crash ==
  /\ call' = [w \in Worker |-> NoJob]
  /\ answer' = [w \in Worker |-> NoAnswer]
  /\ UNCHANGED table

Next == (\E w \in Worker : Request(w) \/ Succeed(w) \/ Fail(w) \/ Return(w)) \/ Crash

Spec == Init /\ [][Next]_vars
=============================================================================
