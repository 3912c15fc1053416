--------------------------- MODULE Crawler_proofs ---------------------------
(***************************************************************************)
(* Type correctness, PinnedIsRecorded, UnpinSparesRecorded,                *)
(* ContentRetained, and the refinement of Catalogue (CrawlsAreAtomic), for *)
(* any number of peers, nodes, CIDs, workers, blocked goroutines and unpin *)
(* loops, every way in which stores share content, and every choice of the *)
(* optional events.                                                        *)
(***************************************************************************)
EXTENDS Crawler, TLAPS

-----------------------------------------------------------------------------
(* Type correctness *)

LEMMA InitTyping == Init => TypeOK
BY ConstantsAssumption
DEF Init, TypeOK, Types, JobInHand, Row, NoRow, Loop, NoLoop, Mishaps, PCs, Busy

\* The rows the handlers write are rows.
LEMMA RowUpdates ==
  ASSUME NEW r \in Row, NEW v \in CID \cup {NoRec}, NEW b \in BOOLEAN
  PROVE  /\ [r EXCEPT !.known = TRUE, !.seen = TRUE, !.live = TRUE, !.rec = v] \in Row
         /\ [r EXCEPT !.known = TRUE, !.seen = TRUE] \in Row
         /\ [r EXCEPT !.known = TRUE, !.banned = b] \in Row
         /\ [r EXCEPT !.due = b] \in Row
         /\ [r EXCEPT !.live = b] \in Row
         /\ [r EXCEPT !.seen = b] \in Row
BY DEF Row

\* The steps that put a job in a slot or change a row of the Peer table.
LEMMA RequestTyping ==
  ASSUME TypeOK, NEW p \in Peer,
         \/ \E s \in Sender : CrawlNode(s, p)
         \/ \E s \in Sender : \E v \in Published[p] : Publish(s, p, v)
         \/ \E s \in Sender : \E v \in Published[p] : PublishUnsaved(s, p, v)
         \/ Connected(p) \/ Elapse(p) \/ BanUnanswered(p) \/ UnbanNode(p)
  PROVE  TypeOK'
<1> USE ConstantsAssumption
<1>1. Published[p] \subseteq CID
  OBVIOUS
<1>2. peers[p] \in Row
  BY DEF TypeOK, Types
<1>3. \A v \in CID \cup {NoRec}, b \in BOOLEAN : [peer |-> p, rec |-> v, fetch |-> b] \in Job
  BY DEF Job
<1>4. peers' \in [Peer -> Row]
  <2> USE <1>2, RowUpdates DEF TypeOK, Types
  <2>1. ASSUME NEW s \in Sender, NEW v \in Published[p], Publish(s, p, v)
        PROVE  peers' \in [Peer -> Row]
    <3> DEFINE r == [peers[p] EXCEPT !.known = TRUE, !.seen = TRUE, !.live = TRUE, !.rec = v]
    <3>1. r \in Row
      BY <1>1
    <3>2. peers' = [peers EXCEPT ![p] = r]
      BY <2>1 DEF Publish
    <3> HIDE DEF r
    <3> QED
      BY <3>1, <3>2
  <2>2. CASE Connected(p)
    <3>1. [peers[p] EXCEPT !.known = TRUE, !.seen = TRUE] \in Row
      OBVIOUS
    <3> QED
      BY <2>2, <3>1 DEF Connected
  <2>3. CASE BanUnanswered(p) \/ UnbanNode(p)
    <3>1. \A b \in BOOLEAN : [peers[p] EXCEPT !.known = TRUE, !.banned = b] \in Row
      OBVIOUS
    <3>2. PICK b \in BOOLEAN :
            peers' = [peers EXCEPT ![p] = [peers[p] EXCEPT !.known = TRUE, !.banned = b]]
      <4>1. CASE BanUnanswered(p)
        BY <4>1 DEF BanUnanswered
      <4>2. CASE UnbanNode(p)
        BY <4>2 DEF UnbanNode
      <4> QED
        BY <2>3, <4>1, <4>2
    <3> DEFINE r == [peers[p] EXCEPT !.known = TRUE, !.banned = b]
    <3>3. r \in Row /\ peers' = [peers EXCEPT ![p] = r]
      BY <3>1, <3>2
    <3> HIDE DEF r
    <3> QED
      BY <3>3
  <2>4. CASE Elapse(p)
    <3>1. [peers[p] EXCEPT !.due = TRUE] \in Row
      OBVIOUS
    <3>2. [peers[p] EXCEPT !.live = FALSE] \in Row
      OBVIOUS
    <3>3. [peers[p] EXCEPT !.seen = FALSE] \in Row
      OBVIOUS
    <3>4. PICK r \in Row : peers' = [peers EXCEPT ![p] = r]
      <4>1. CASE peers' = [peers EXCEPT ![p].due = TRUE]
        BY <4>1, <3>1
      <4>2. CASE peers' = [peers EXCEPT ![p].live = FALSE]
        BY <4>2, <3>2
      <4>3. CASE peers' = [peers EXCEPT ![p].seen = FALSE]
        BY <4>3, <3>3
      <4> QED
        BY <2>4, <4>1, <4>2, <4>3 DEF Elapse
    <3> QED
      BY <3>4
  <2>5. CASE \/ \E s \in Sender : CrawlNode(s, p)
             \/ \E s \in Sender : \E v \in Published[p] : PublishUnsaved(s, p, v)
    BY <2>5 DEF CrawlNode, PublishUnsaved, durable, history
  <2> QED
    BY <2>1, <2>2, <2>3, <2>4, <2>5
<1>5. sender' \in [Sender -> SUBSET Job]
  <2> USE <1>1, <1>3 DEF TypeOK, Types
  <2>1. ASSUME NEW s \in Sender, CrawlNode(s, p) PROVE sender' \in [Sender -> SUBSET Job]
    BY <2>1 DEF CrawlNode
  <2>2. ASSUME NEW s \in Sender, NEW v \in Published[p], Publish(s, p, v)
        PROVE  sender' \in [Sender -> SUBSET Job]
    <3> DEFINE j == [peer |-> p, rec |-> v, fetch |-> FALSE]
    <3>1. UNCHANGED sender \/ sender' = [sender EXCEPT ![s] = {j}]
      BY <2>2 DEF Publish
    <3>2. j \in Job
      OBVIOUS
    <3> HIDE DEF j
    <3> QED
      BY <3>1, <3>2
  <2>3. ASSUME NEW s \in Sender, NEW v \in Published[p], PublishUnsaved(s, p, v)
        PROVE  sender' \in [Sender -> SUBSET Job]
    BY <2>3 DEF PublishUnsaved
  <2>4. CASE Connected(p) \/ Elapse(p) \/ BanUnanswered(p) \/ UnbanNode(p)
    BY <2>4 DEF Connected, Elapse, BanUnanswered, UnbanNode
  <2> QED
    BY <2>1, <2>2, <2>3, <2>4
<1>6. UNCHANGED <<cids, pins, pc, job, todo, unpinner, mishaps, exposed>>
  BY DEF CrawlNode, Publish, PublishUnsaved, Connected, Elapse, BanUnanswered, UnbanNode,
         durable, crawl, history
<1> QED
  BY <1>4, <1>5, <1>6 DEF TypeOK, Types, JobInHand, Busy

LEMMA OldNodesTyping ==
  ASSUME TypeOK, NEW s \in Sender, OldNodes(s)
  PROVE  TypeOK'
<1>1. PICK ps \in SUBSET Peer :
        sender' = [sender EXCEPT ![s] =
                     {[peer |-> p, rec |-> peers[p].rec, fetch |-> TRUE] : p \in ps}]
  BY DEF OldNodes
<1>2. \A p \in ps : [peer |-> p, rec |-> peers[p].rec, fetch |-> TRUE] \in Job
  BY DEF TypeOK, Types, Row, Job
<1>3. sender' \in [Sender -> SUBSET Job]
  BY <1>1, <1>2 DEF TypeOK, Types
<1> QED
  BY <1>3 DEF OldNodes, TypeOK, Types, JobInHand, Busy, durable, crawl, history

LEMMA TakeTyping ==
  ASSUME TypeOK, NEW w \in Worker, NEW s \in Sender, Take(w, s)
  PROVE  TypeOK'
<1>1. PICK j \in sender[s] : /\ sender' = [sender EXCEPT ![s] = @ \ {j}]
                             /\ job' = [job EXCEPT ![w] = j]
  BY DEF Take
<1>2. j \in Job
  BY <1>1 DEF TypeOK, Types
<1>3. mishaps' \subseteq Mishaps
  BY DEF Take, Note, Mishaps, TypeOK, Types
<1>4. Types'
  BY <1>1, <1>2, <1>3 DEF Take, TypeOK, Types, PCs, durable, history
<1>5. JobInHand'
  BY <1>1, <1>2 DEF Take, TypeOK, Types, JobInHand, Busy
<1> QED
  BY <1>4, <1>5 DEF TypeOK

\* The steps of a crawl up to its transaction.
LEMMA FetchTyping ==
  ASSUME TypeOK, NEW w \in Worker,
         UseRecord(w) \/ FetchNew(w) \/ FetchUnchanged(w) \/ FetchFails(w) \/ CrawlFails(w)
  PROVE  TypeOK'
<1> USE ConstantsAssumption DEF TypeOK
<1>1. CASE UseRecord(w)
  BY <1>1 DEF UseRecord, NeedsFetch, Types, JobInHand, PCs, Busy, Job, durable, history
<1>2. CASE FetchNew(w)
  <2>1. job[w] \in Job
    BY <1>2 DEF FetchNew, JobInHand, Busy
  <2>2. PICK v \in Published[job[w].peer] : job' = [job EXCEPT ![w].rec = v]
    BY <1>2 DEF FetchNew
  <2>3. v \in CID
    BY <2>1, <2>2 DEF Job
  <2>4. [job[w] EXCEPT !.rec = v] \in Job /\ [job[w] EXCEPT !.rec = v].rec = v
    BY <2>1, <2>3 DEF Job
  <2>5. Types'
    BY <1>2, <2>2, <2>4 DEF FetchNew, Types, PCs, durable, history
  <2>6. JobInHand'
    BY <1>2, <2>2, <2>3, <2>4 DEF FetchNew, Types, JobInHand, Busy, durable, history
  <2> QED
    BY <2>5, <2>6
<1>3. CASE FetchUnchanged(w) \/ FetchFails(w) \/ CrawlFails(w)
  BY <1>3 DEF FetchUnchanged, FetchFails, CrawlFails, Types, JobInHand, PCs, Busy, durable,
       history
<1> QED
  BY <1>1, <1>2, <1>3

\* A transaction that commits, whatever processJob is told.
Commits(w) == Commit(w) \/ CommitUnanswered(w)

\* What it changes for the job of w, given its graph, the old rows it could load,
\* those it could not delete, and whether its commit is answered.
Writes(w, graph, old, undeleted, answered) ==
  /\ Transaction(w, graph, old, undeleted, answered)
  /\ todo' = IF answered THEN [todo EXCEPT ![w] = ToUnpin(job[w].peer, Dropped(old, graph))]
                         ELSE todo
  /\ pc' = [pc EXCEPT ![w] = IF answered THEN "pin" ELSE "finish"]

\* The graph of a transaction lies under the root of its record and holds it.
LEMMA CommitWrites ==
  ASSUME TypeOK, NEW w \in Worker, Commits(w)
  PROVE  /\ pc[w] = "load" /\ UNCHANGED <<peers, pins, sender, job, unpinner>>
         /\ \E graph \in SUBSET CID, old \in SUBSET CID, undeleted \in SUBSET CID :
              /\ job[w].rec \in graph
              /\ graph \subseteq Graph[job[w].rec]
              /\ old = cids[job[w].peer] \/ old = {}
              /\ undeleted \subseteq Dropped(old, graph)
              /\ \E answered \in BOOLEAN : Writes(w, graph, old, undeleted, answered)
<1> USE ConstantsAssumption DEF TypeOK, Commits
<1>1. pc[w] = "load" /\ UNCHANGED <<peers, pins, sender, job, unpinner>>
  BY DEF Commit, CommitUnanswered
<1>2. job[w] \in Job /\ job[w].rec \in CID /\ job[w].peer \in Peer
  BY <1>1 DEF JobInHand, Busy, Job
<1>3. cids[job[w].peer] \subseteq CID /\ Graph[job[w].rec] \subseteq CID
  BY <1>2 DEF Types
<1>4. PICK graph \in Crawled(job[w].rec), old \in {cids[job[w].peer], {}},
           undeleted \in SUBSET cids[job[w].peer] :
        \E answered \in BOOLEAN : Writes(w, graph, old, undeleted, answered)
  <2>1. CASE Commit(w)
    <3>1. PICK graph \in Crawled(job[w].rec), old \in {cids[job[w].peer], {}},
               undeleted \in SUBSET cids[job[w].peer] :
            /\ Transaction(w, graph, old, undeleted, TRUE)
            /\ todo' = [todo EXCEPT ![w] = ToUnpin(job[w].peer, Dropped(old, graph))]
      BY <2>1 DEF Commit
    <3>2. Writes(w, graph, old, undeleted, TRUE)
      BY <2>1, <3>1 DEF Writes, Commit
    <3> QED
      BY <3>1, <3>2
  <2>2. CASE CommitUnanswered(w)
    <3>1. PICK graph \in Crawled(job[w].rec), old \in {cids[job[w].peer], {}},
               undeleted \in SUBSET cids[job[w].peer] :
            Transaction(w, graph, old, undeleted, FALSE)
      BY <2>2 DEF CommitUnanswered
    <3>2. Writes(w, graph, old, undeleted, FALSE)
      BY <2>2, <3>1 DEF Writes, CommitUnanswered
    <3> QED
      BY <3>1, <3>2
  <2> QED
    BY <2>1, <2>2
<1>5. undeleted \subseteq Dropped(old, graph)
  BY <1>4 DEF Writes, Transaction
<1>6. graph \in SUBSET CID /\ old \in SUBSET CID /\ undeleted \in SUBSET CID
  BY <1>3 DEF Crawled
<1>7. job[w].rec \in graph /\ graph \subseteq Graph[job[w].rec]
  BY DEF Crawled
<1> HIDE DEF TypeOK, Commits
<1> QED
  BY <1>1, <1>4, <1>5, <1>6, <1>7

LEMMA CommitTyping ==
  ASSUME TypeOK, NEW w \in Worker, Commits(w)
  PROVE  TypeOK'
<1>1. PICK graph \in SUBSET CID, old \in SUBSET CID, undeleted \in SUBSET CID,
           answered \in BOOLEAN : Writes(w, graph, old, undeleted, answered)
  BY CommitWrites
<1>2. pc[w] = "load" /\ UNCHANGED <<peers, pins, sender, job, unpinner>>
  BY CommitWrites
<1>3. job[w] \in Job /\ job[w].rec \in CID /\ job[w].peer \in Peer
  BY <1>2 DEF JobInHand, Busy, Job, TypeOK
<1>4. cids' \in [Peer -> SUBSET CID]
  BY <1>1, <1>3 DEF Writes, Transaction, RowsAfter, Dropped, TypeOK, Types
<1>5. todo' \in [Worker -> SUBSET (Node \X CID)]
  BY <1>1, <1>3 DEF Writes, ToUnpin, Dropped, TypeOK, Types
<1>6. mishaps' \subseteq Mishaps /\ exposed' \subseteq CID
  BY <1>1, <1>3 DEF Writes, Transaction, Note, Mishaps, TypeOK, Types
<1>7. pc' = [pc EXCEPT ![w] = IF answered THEN "pin" ELSE "finish"]
  BY <1>1 DEF Writes
<1>8. Types'
  BY <1>2, <1>4, <1>5, <1>6, <1>7 DEF TypeOK, Types, PCs
<1>9. JobInHand'
  BY <1>1, <1>2, <1>3, <1>7 DEF Writes, TypeOK, Types, JobInHand, Busy
<1> QED
  BY <1>8, <1>9 DEF TypeOK

\* The steps of a crawl after its transaction.
LEMMA PinningTyping ==
  ASSUME TypeOK, NEW w \in Worker,
         \/ Pin(w) \/ PinSkipped(w) \/ NoCoreAPI(w)
         \/ UnpinOld(w) \/ UnpinAgain(w) \/ UnpinDone(w) \/ Finish(w)
  PROVE  TypeOK'
<1> USE ConstantsAssumption DEF TypeOK
<1>1. CASE Pin(w)
  BY <1>1 DEF Pin, Types, JobInHand, PCs, Busy
<1>2. CASE PinSkipped(w)
  BY <1>2 DEF PinSkipped, Types, JobInHand, PCs, Busy, durable, history, Mishaps
<1>3. CASE NoCoreAPI(w)
  BY <1>3 DEF NoCoreAPI, Types, JobInHand, PCs, Busy, durable, history, Mishaps, Note
<1>4. CASE UnpinOld(w)
  <2>1. PICK x \in todo[w] :
          /\ todo' = [todo EXCEPT ![w] = @ \ {x}]
          /\ pins' = [pins EXCEPT ![x[1]] = @ \ {x[2]}] \/ UNCHANGED pins
    BY <1>4 DEF UnpinOld, Rm
  <2>2. pins' \in [Node -> SUBSET CID] /\ todo' \in [Worker -> SUBSET (Node \X CID)]
    BY <2>1 DEF Types
  <2>3. mishaps' \subseteq Mishaps
    BY <1>4 DEF UnpinOld, Types, Mishaps
  <2>4. UNCHANGED <<peers, cids, sender, pc, job, unpinner, exposed>>
    BY <1>4 DEF UnpinOld
  <2> QED
    BY <2>1, <2>2, <2>3, <2>4 DEF Types, JobInHand, Busy
<1>5. CASE UnpinAgain(w)
  <2>1. pins' \in [Node -> SUBSET CID]
    BY <1>5 DEF UnpinAgain, Rm, Types
  <2> QED
    BY <1>5, <2>1 DEF UnpinAgain, Types, JobInHand, Busy, crawl, history
<1>6. CASE UnpinDone(w)
  BY <1>6 DEF UnpinDone, Types, JobInHand, PCs, Busy, durable, history
<1>7. CASE Finish(w)
  <2>1. job[w].peer \in Peer
    BY <1>7 DEF Finish, JobInHand, Busy, Job
  <2>2. peers' \in [Peer -> Row]
    <3>1. \A b \in BOOLEAN : [peers[job[w].peer] EXCEPT !.due = b] \in Row
      BY <2>1, RowUpdates DEF Types
    <3>2. (peers[job[w].peer].due /\ ~peers[job[w].peer].known) \in BOOLEAN
      OBVIOUS
    <3>3. PICK b \in BOOLEAN :
            UNCHANGED peers \/ peers' = [peers EXCEPT ![job[w].peer].due = b]
      BY <1>7, <3>2 DEF Finish
    <3> DEFINE r == [peers[job[w].peer] EXCEPT !.due = b]
    <3>4. r \in Row /\ (UNCHANGED peers \/ peers' = [peers EXCEPT ![job[w].peer] = r])
      BY <3>1, <3>3
    <3> HIDE DEF r
    <3> QED
      BY <3>4 DEF Types
  <2> QED
    BY <1>7, <2>2 DEF Finish, Types, JobInHand, PCs, Busy, history
<1> QED
  BY <1>1, <1>2, <1>3, <1>4, <1>5, <1>6, <1>7

\* Bans, the unpin ticker and their loops.
LEMMA LoopTyping ==
  ASSUME TypeOK, NEW u \in Unpinner,
         \/ \E p \in Peer : BanNode(u, p) \/ LoadRows(u, p)
         \/ UnPinTick(u) \/ Unpin(u) \/ UnpinRowAgain(u)
  PROVE  TypeOK'
<1> USE ConstantsAssumption DEF TypeOK
<1>0. unpinner[u] \in Loop
  BY DEF Types
<1>1. ASSUME NEW p \in Peer, BanNode(u, p) PROVE TypeOK'
  <2>1. [peers |-> {}, calls |-> Node \X cids[p]] \in Loop
    BY DEF Types, Loop
  <2>2. peers' \in [Peer -> Row]
    <3>1. [peers[p] EXCEPT !.known = TRUE, !.banned = TRUE] \in Row
      BY RowUpdates DEF Types
    <3> QED
      BY <1>1, <3>1 DEF BanNode, Types
  <2> QED
    BY <1>1, <2>1, <2>2 DEF BanNode, Purge, Types, JobInHand, Busy, Mishaps, Note, crawl, history
<1>2. ASSUME NEW p \in Peer, LoadRows(u, p) PROVE TypeOK'
  <2>1. [peers |-> unpinner[u].peers \ {p}, calls |-> Node \X cids[p]] \in Loop
    BY <1>0 DEF Types, Loop
  <2> QED
    BY <1>2, <2>1 DEF LoadRows, Purge, Types, JobInHand, Busy, Mishaps, Note, crawl, history,
         durable
<1>3. CASE UnPinTick(u)
  <2>1. PICK ps \in SUBSET Peer :
          unpinner' = [unpinner EXCEPT ![u] = [peers |-> ps, calls |-> {}]]
    BY <1>3 DEF UnPinTick
  <2>2. [peers |-> ps, calls |-> {}] \in Loop
    BY DEF Loop
  <2> QED
    BY <1>3, <2>1, <2>2 DEF UnPinTick, Types, JobInHand, Busy, crawl, history, durable
<1>4. CASE Unpin(u)
  <2>1. pins' \in [Node -> SUBSET CID]
    BY <1>4 DEF Unpin, Rm, Types
  <2>2. unpinner' \in [Unpinner -> Loop]
    BY <1>0, <1>4 DEF Unpin, Types, Loop
  <2> QED
    BY <1>4, <2>1, <2>2 DEF Unpin, Types, JobInHand, Busy, crawl, history
<1>5. CASE UnpinRowAgain(u)
  <2>1. pins' \in [Node -> SUBSET CID]
    BY <1>0, <1>5 DEF UnpinRowAgain, Rm, Types, Loop
  <2> QED
    BY <1>5, <2>1 DEF UnpinRowAgain, Types, JobInHand, Busy, crawl, history
<1> QED
  BY <1>1, <1>2, <1>3, <1>4, <1>5

LEMMA RestartTyping ==
  ASSUME TypeOK, Restart
  PROVE  TypeOK'
BY DEF Restart, TypeOK, Types, JobInHand, Busy, PCs, Loop, NoLoop, Mishaps, Note, durable, history

LEMMA NextTyping == TypeOK /\ [Next]_vars => TypeOK'
<1> SUFFICES ASSUME TypeOK, [Next]_vars PROVE TypeOK'
  OBVIOUS
<1>1. CASE UNCHANGED vars
  BY <1>1 DEF vars, TypeOK, Types, JobInHand, Busy
<1> QED
  BY <1>1, RequestTyping, OldNodesTyping, TakeTyping, FetchTyping, CommitTyping, PinningTyping,
     LoopTyping, RestartTyping DEF Next, WorkerStep, LoopStep, Commits

\* Type correctness, and every worker past the fetch has a job with a record and
\* unpins only after its transaction (worker.go:18-301).
THEOREM TypeCorrect == Spec => []TypeOK
BY InitTyping, NextTyping, PTL DEF Spec

-----------------------------------------------------------------------------
(* PinnedIsRecorded.  On its own it is not inductive: pinning a root keeps it *)
(* only because the worker's own transaction recorded the root, and nobody    *)
(* else can delete that row as long as no two workers are on one peer.        *)

\* No two workers are on one peer, unless the history says so.
OnePerPeer ==
  "overlap" \notin mishaps =>
    \A v, w \in Worker : v # w /\ Busy(v) /\ Busy(w) => job[v].peer # job[w].peer

\* The root a worker is about to pin is recorded.
RootRecorded ==
  "overlap" \notin mishaps =>
    \A w \in Worker : pc[w] = "pin" => job[w].rec \in cids[job[w].peer]

IInv == TypeOK /\ OnePerPeer /\ RootRecorded /\ PinnedIsRecorded

LEMMA InitIInv == Init => IInv
BY InitTyping DEF Init, IInv, OnePerPeer, RootRecorded, PinnedIsRecorded, Busy

\* Steps that leave the workers and the CID table alone, and at most unpin.
LEMMA OtherSteps ==
  ASSUME IInv, TypeOK', UNCHANGED <<cids, pc, job, todo>>,
         mishaps \subseteq mishaps', \A n \in Node : pins'[n] \subseteq pins[n]
  PROVE  IInv'
BY DEF IInv, OnePerPeer, RootRecorded, PinnedIsRecorded, Recorded, Busy

\* Steps of a worker that stay on its peer and do not reach its pin.
LEMMA MovesOn ==
  ASSUME IInv, TypeOK', NEW w \in Worker, Busy(w),
         NEW x \in PCs \ {"pin"}, pc' = [pc EXCEPT ![w] = x],
         \A v \in Worker : Busy(v)' => job'[v].peer = job[v].peer,
         \A v \in Worker \ {w} : job'[v] = job[v],
         mishaps \subseteq mishaps', UNCHANGED <<cids, pins>>,
         \/ UNCHANGED todo
         \/ /\ todo' = [todo EXCEPT ![w] = {}]
            /\ todo[w] # {} => "unpin" \in mishaps'
  PROVE  IInv'
<1> USE DEF IInv
<1>1. \A v \in Worker : Busy(v)' => Busy(v)
  BY DEF Busy, TypeOK, Types
<1>2. OnePerPeer'
  BY <1>1 DEF OnePerPeer
<1>3. RootRecorded'
  BY DEF RootRecorded, TypeOK, Types
<1>4. PinnedIsRecorded'
  BY DEF PinnedIsRecorded, Recorded, TypeOK, Types
<1> QED
  BY <1>2, <1>3, <1>4

LEMMA TakeStep ==
  ASSUME IInv, NEW w \in Worker, NEW s \in Sender, Take(w, s)
  PROVE  IInv'
<1> USE DEF IInv
<1>1. TypeOK'
  BY TakeTyping
<1>2. PICK j \in sender[s] :
        /\ job' = [job EXCEPT ![w] = j]
        /\ mishaps' = mishaps \cup Note("overlap", \E v \in Worker : OnPeer(v, j.peer))
  BY DEF Take
<1>3. /\ pc[w] = "idle" /\ pc' = [pc EXCEPT ![w] = "fetch"]
      /\ UNCHANGED <<cids, pins, todo>>
      /\ mishaps \subseteq mishaps'
  BY <1>2 DEF Take, durable, history
<1>4. OnePerPeer'
  <2> SUFFICES ASSUME "overlap" \notin mishaps', NEW u \in Worker, NEW v \in Worker,
                      u # v, Busy(u)', Busy(v)'
               PROVE  job'[u].peer # job'[v].peer
    BY DEF OnePerPeer
  <2>1. \A x \in Worker : ~OnPeer(x, j.peer)
    BY <1>2 DEF Note
  <2>2. job'[w] = j /\ \A x \in Worker \ {w} : job'[x] = job[x]
    BY <1>2 DEF TypeOK, Types
  <2>3. \A x \in Worker \ {w} : Busy(x)' => Busy(x)
    BY <1>3 DEF Busy, TypeOK, Types
  <2>4. "overlap" \notin mishaps
    BY <1>3
  <2> QED
    BY <2>1, <2>2, <2>3, <2>4 DEF OnePerPeer, OnPeer
<1>5. RootRecorded'
  BY <1>2, <1>3 DEF RootRecorded, TypeOK, Types
<1>6. PinnedIsRecorded'
  BY <1>3 DEF PinnedIsRecorded, Recorded
<1> QED
  BY <1>1, <1>4, <1>5, <1>6

LEMMA CommitStep ==
  ASSUME IInv, NEW w \in Worker, Commits(w)
  PROVE  IInv'
<1> USE DEF IInv
<1>1. TypeOK'
  BY CommitTyping
<1>2. PICK graph \in SUBSET CID, old \in SUBSET CID, undeleted \in SUBSET CID,
           answered \in BOOLEAN :
        /\ job[w].rec \in graph
        /\ old = cids[job[w].peer] \/ old = {}
        /\ undeleted \subseteq Dropped(old, graph)
        /\ Writes(w, graph, old, undeleted, answered)
  BY CommitWrites
<1> DEFINE p == job[w].peer
           dropped == old \ graph
<1>3. p \in Peer
  BY CommitWrites DEF TypeOK, JobInHand, Busy, Job
<1>4. /\ cids' = [cids EXCEPT ![p] = (cids[p] \ (dropped \ undeleted)) \cup graph]
      /\ IF answered
         THEN todo' = [todo EXCEPT ![w] =
                          Node \X (dropped \ UNION {cids[q] : q \in Peer \ {p}})]
         ELSE UNCHANGED todo /\ "unanswered" \in mishaps'
      /\ mishaps \subseteq mishaps'
  BY <1>2 DEF Writes, Transaction, Dropped, RowsAfter, ToUnpin, Note
<1>5. /\ pc[w] = "load" /\ pc' = [pc EXCEPT ![w] = IF answered THEN "pin" ELSE "finish"]
      /\ UNCHANGED <<pins, job>>
  BY <1>2, CommitWrites DEF Writes
<1> HIDE DEF p
<1>6. OnePerPeer'
  BY <1>4, <1>5 DEF OnePerPeer, Busy, TypeOK, Types
<1>7. RootRecorded'
  <2> SUFFICES ASSUME "overlap" \notin mishaps', NEW v \in Worker, pc'[v] = "pin"
               PROVE  job'[v].rec \in cids'[job'[v].peer]
    BY DEF RootRecorded
  <2>1. CASE v = w
    BY <1>2, <1>3, <1>4, <1>5, <2>1 DEF p, TypeOK, Types
  <2>2. CASE v # w
    <3>1. job[v].peer # p /\ job[v].peer \in Peer
      BY <1>4, <1>5, <2>2 DEF OnePerPeer, Busy, TypeOK, Types, JobInHand, Job, p
    <3>2. job[v].rec \in cids[job[v].peer]
      BY <1>4, <1>5, <2>2 DEF RootRecorded, TypeOK, Types
    <3> QED
      BY <1>3, <1>4, <1>5, <3>1, <3>2 DEF TypeOK, Types
  <2> QED
    BY <2>1, <2>2
<1>8. PinnedIsRecorded'
  <2> SUFFICES ASSUME mishaps' \cap {"overlap", "restart", "unanswered", "unpin"} = {},
                      NEW n \in Node, NEW c \in pins[n]
               PROVE  Recorded(c)' \/ \E v \in Worker : <<n, c>> \in todo'[v]
    BY <1>5 DEF PinnedIsRecorded
  <2>0. answered
    BY <1>4
  <2>1. Recorded(c) \/ \E v \in Worker : <<n, c>> \in todo[v]
    BY <1>4 DEF PinnedIsRecorded
  <2>2. CASE \E v \in Worker : <<n, c>> \in todo[v]
    <3>1. todo[w] = {}
      BY <1>5 DEF TypeOK, JobInHand
    <3> QED
      BY <1>4, <2>0, <2>2, <3>1 DEF TypeOK, Types
  <2>3. ASSUME NEW q \in Peer \ {p}, c \in cids[q] PROVE Recorded(c)'
    <3>1. cids'[q] = cids[q]
      BY <1>3, <1>4 DEF TypeOK, Types
    <3> QED
      BY <2>3, <3>1 DEF Recorded
  <2>4. CASE c \in cids[p] /\ \A q \in Peer \ {p} : c \notin cids[q]
    <3>1. CASE c \in dropped
      <4>1. c \notin UNION {cids[q] : q \in Peer \ {p}}
        BY <2>4
      <4>2. <<n, c>> \in todo'[w]
        BY <1>4, <2>0, <3>1, <4>1 DEF TypeOK, Types
      <4> QED
        BY <4>2
    <3>2. CASE c \notin dropped
      <4>1. c \in cids'[p]
        BY <1>3, <1>4, <2>4, <3>2 DEF TypeOK, Types
      <4> QED
        BY <1>3, <4>1 DEF Recorded
    <3> QED
      BY <3>1, <3>2
  <2> QED
    BY <2>1, <2>2, <2>3, <2>4 DEF Recorded
<1> QED
  BY <1>1, <1>6, <1>7, <1>8

LEMMA PinStep ==
  ASSUME IInv, NEW w \in Worker, Pin(w)
  PROVE  IInv'
<1> USE DEF IInv
<1>1. TypeOK'
  BY PinningTyping
<1>2. PICK m \in Node : pins' = [pins EXCEPT ![m] = @ \cup {job[w].rec}]
  BY DEF Pin
<1>3. /\ pc[w] = "pin" /\ pc' = [pc EXCEPT ![w] = "unpin"]
      /\ UNCHANGED <<cids, job, todo, mishaps>>
  BY DEF Pin
<1>4. OnePerPeer' /\ RootRecorded'
  BY <1>3 DEF OnePerPeer, RootRecorded, Busy, TypeOK, Types
<1>5. PinnedIsRecorded'
  <2>1. job[w].peer \in Peer
    BY <1>3 DEF TypeOK, JobInHand, Busy, Job
  <2>2. "overlap" \notin mishaps => Recorded(job[w].rec)
    BY <1>3, <2>1 DEF RootRecorded, Recorded
  <2>3. \A n \in Node : pins'[n] \subseteq pins[n] \cup {job[w].rec}
    BY <1>2 DEF TypeOK, Types
  <2> QED
    BY <1>3, <2>2, <2>3 DEF PinnedIsRecorded, Recorded
<1> QED
  BY <1>1, <1>4, <1>5

LEMMA UnpinOldStep ==
  ASSUME IInv, NEW w \in Worker, UnpinOld(w)
  PROVE  IInv'
<1> USE DEF IInv
<1>1. TypeOK'
  BY PinningTyping
<1>2. PICK x \in todo[w] :
        /\ todo' = [todo EXCEPT ![w] = @ \ {x}]
        /\ \/ pins' = [pins EXCEPT ![x[1]] = @ \ {x[2]}]
           \/ "unpin" \in mishaps' /\ UNCHANGED pins
  BY DEF UnpinOld, Rm
<1>3. x = <<x[1], x[2]>> /\ x[1] \in Node
  BY <1>2 DEF TypeOK, Types
<1>4. /\ UNCHANGED <<cids, pc, job>>
      /\ mishaps \subseteq mishaps'
  BY DEF UnpinOld
<1>5. OnePerPeer' /\ RootRecorded'
  BY <1>4 DEF OnePerPeer, RootRecorded, Busy
<1>6. PinnedIsRecorded'
  <2> SUFFICES ASSUME mishaps' \cap {"overlap", "restart", "unanswered", "unpin"} = {},
                      NEW n \in Node, NEW c \in pins'[n]
               PROVE  Recorded(c)' \/ \E v \in Worker : <<n, c>> \in todo'[v]
    BY DEF PinnedIsRecorded
  <2>1. pins' = [pins EXCEPT ![x[1]] = @ \ {x[2]}]
    BY <1>2
  <2>2. c \in pins[n] /\ <<n, c>> # x
    BY <1>3, <2>1 DEF TypeOK, Types
  <2>3. Recorded(c) \/ \E v \in Worker : <<n, c>> \in todo[v]
    BY <1>4, <2>2 DEF PinnedIsRecorded
  <2>4. \A v \in Worker : <<n, c>> \in todo[v] => <<n, c>> \in todo'[v]
    BY <1>2, <2>2 DEF TypeOK, Types
  <2> QED
    BY <1>4, <2>3, <2>4 DEF Recorded
<1> QED
  BY <1>1, <1>5, <1>6

LEMMA RestartStep ==
  ASSUME IInv, Restart
  PROVE  IInv'
<1> USE DEF IInv
<1>1. TypeOK'
  BY RestartTyping
<1>2. /\ pc' = [w \in Worker |-> "idle"] /\ todo' = [w \in Worker |-> {}]
      /\ UNCHANGED <<cids, pins>>
      /\ mishaps' = mishaps \cup Note("restart", \E w \in Worker : pc[w] \in {"pin", "unpin"})
  BY DEF Restart, durable, history
<1>3. OnePerPeer' /\ RootRecorded'
  BY <1>2 DEF OnePerPeer, RootRecorded, Busy
<1>4. PinnedIsRecorded'
  BY <1>2 DEF PinnedIsRecorded, Recorded, Note, TypeOK, JobInHand
<1> QED
  BY <1>1, <1>3, <1>4

LEMMA NextIInv == IInv /\ [Next]_vars => IInv'
<1> SUFFICES ASSUME IInv, [Next]_vars PROVE IInv'
  OBVIOUS
<1>1. TypeOK'
  BY NextTyping DEF IInv
<1> USE <1>1
<1>2. ASSUME NEW p \in Peer,
             \/ \E s \in Sender : CrawlNode(s, p)
             \/ \E s \in Sender : \E v \in Published[p] : Publish(s, p, v)
             \/ \E s \in Sender : \E v \in Published[p] : PublishUnsaved(s, p, v)
             \/ Connected(p) \/ Elapse(p) \/ BanUnanswered(p) \/ UnbanNode(p)
      PROVE  IInv'
  <2>1. UNCHANGED <<cids, pins, pc, job, todo, mishaps>>
    BY <1>2 DEF CrawlNode, Publish, PublishUnsaved, Connected, Elapse, BanUnanswered, UnbanNode,
         durable, crawl, history
  <2> QED
    BY <2>1, OtherSteps
<1>3. ASSUME NEW s \in Sender, OldNodes(s) PROVE IInv'
  BY <1>3, OtherSteps DEF OldNodes, durable, crawl, history
<1>4. ASSUME NEW w \in Worker, WorkerStep(w) \/ UnpinAgain(w) PROVE IInv'
  <2>1. CASE UseRecord(w) \/ FetchUnchanged(w) \/ FetchFails(w) \/ CrawlFails(w)
    <3>1. PICK x \in {"load", "finish"} : pc' = [pc EXCEPT ![w] = x]
      BY <2>1 DEF UseRecord, FetchUnchanged, FetchFails, CrawlFails
    <3>2. Busy(w) /\ UNCHANGED <<cids, pins, job, todo, mishaps>>
      BY <2>1 DEF UseRecord, FetchUnchanged, FetchFails, CrawlFails, Busy, durable, history
    <3>3. x \in PCs \ {"pin"}
      BY DEF PCs
    <3> QED
      BY <3>1, <3>2, <3>3, MovesOn
  <2>2. CASE FetchNew(w)
    <3>1. /\ Busy(w) /\ UNCHANGED <<cids, pins, todo, mishaps>>
          /\ pc' = [pc EXCEPT ![w] = "load"]
      BY <2>2 DEF FetchNew, Busy, durable, history
    <3>2. job[w] \in Job
      BY <3>1 DEF IInv, TypeOK, JobInHand
    <3>3. PICK v : job' = [job EXCEPT ![w] = [@ EXCEPT !.rec = v]]
      BY <2>2 DEF FetchNew
    <3>4. [job[w] EXCEPT !.rec = v].peer = job[w].peer
      BY <3>2 DEF Job
    <3>5. job'[w].peer = job[w].peer /\ \A v_1 \in Worker \ {w} : job'[v_1] = job[v_1]
      BY <3>3, <3>4 DEF IInv, TypeOK, Types
    <3>6. "load" \in PCs \ {"pin"}
      BY DEF PCs
    <3> QED
      BY <3>1, <3>5, <3>6, MovesOn
  <2>3. CASE PinSkipped(w) \/ UnpinDone(w)
    <3>1. PICK x \in {"unpin", "finish"} : pc' = [pc EXCEPT ![w] = x]
      BY <2>3 DEF PinSkipped, UnpinDone
    <3>2. Busy(w) /\ UNCHANGED <<cids, pins, job, todo>> /\ mishaps \subseteq mishaps'
      BY <2>3 DEF PinSkipped, UnpinDone, Busy, durable, history
    <3>3. x \in PCs \ {"pin"}
      BY DEF PCs
    <3> QED
      BY <3>1, <3>2, <3>3, MovesOn
  <2>4. CASE NoCoreAPI(w)
    <3>1. /\ Busy(w) /\ UNCHANGED <<cids, pins, job>> /\ mishaps \subseteq mishaps'
          /\ pc' = [pc EXCEPT ![w] = "finish"]
          /\ todo' = [todo EXCEPT ![w] = {}]
          /\ todo[w] # {} => "unpin" \in mishaps'
      BY <2>4 DEF NoCoreAPI, Busy, durable, history, Note
    <3>2. "finish" \in PCs \ {"pin"}
      BY DEF PCs
    <3> QED
      BY <3>1, <3>2, MovesOn
  <2>5. CASE Finish(w)
    <3>1. /\ Busy(w) /\ UNCHANGED <<cids, pins, todo, mishaps>>
          /\ pc' = [pc EXCEPT ![w] = "idle"]
          /\ job' = [job EXCEPT ![w] = NoJob]
      BY <2>5 DEF Finish, Busy, history
    <3>2. "idle" \in PCs \ {"pin"}
      BY DEF PCs
    <3>3. \A v \in Worker \ {w} : job'[v] = job[v]
      BY <3>1 DEF IInv, TypeOK, Types
    <3>4. ~Busy(w)'
      BY <3>1 DEF IInv, TypeOK, Types, Busy
    <3> QED
      BY <3>1, <3>2, <3>3, <3>4, MovesOn
  <2>6. CASE UnpinAgain(w)
    <3>1. \A n \in Node : pins'[n] \subseteq pins[n]
      BY <2>6 DEF UnpinAgain, Rm, IInv, TypeOK, Types
    <3> QED
      BY <2>6, <3>1, OtherSteps DEF UnpinAgain, crawl, history
  <2> QED
    BY <1>4, <2>1, <2>2, <2>3, <2>4, <2>5, <2>6, CommitStep, PinStep, UnpinOldStep
    DEF WorkerStep, Commits
<1>5. ASSUME NEW u \in Unpinner, NEW p \in Peer,
             BanNode(u, p) \/ LoadRows(u, p)
      PROVE  IInv'
  <2>1. UNCHANGED <<cids, pins, pc, job, todo>> /\ mishaps \subseteq mishaps'
    BY <1>5 DEF BanNode, LoadRows, Purge, durable, crawl, history
  <2> QED
    BY <2>1, OtherSteps
<1>6. ASSUME NEW u \in Unpinner, Unpin(u) \/ UnpinRowAgain(u) PROVE IInv'
  <2>1. \A n \in Node : pins'[n] \subseteq pins[n]
    BY <1>6 DEF Unpin, UnpinRowAgain, Rm, IInv, TypeOK, Types
  <2>2. UNCHANGED <<cids, pc, job, todo, mishaps>>
    BY <1>6 DEF Unpin, UnpinRowAgain, crawl, history
  <2> QED
    BY <2>1, <2>2, OtherSteps
<1>7. ASSUME NEW u \in Unpinner, UnPinTick(u) PROVE IInv'
  BY <1>7, OtherSteps DEF UnPinTick, durable, crawl, history
<1>8. CASE UNCHANGED vars
  BY <1>8, OtherSteps DEF vars
<1> QED
  BY <1>2, <1>3, <1>4, <1>5, <1>6, <1>7, <1>8, TakeStep, RestartStep DEF Next, LoopStep

LEMMA Inductive == Spec => []IInv
BY InitIInv, NextIInv, PTL DEF Spec

\* No pin is orphaned, for any number of peers, nodes and workers, unless two
\* crawls of one peer overlapped, the process ended in between, a transaction
\* committed and was answered by an error, or an unpin failed.
THEOREM NoPinOrphaned == Spec => []PinnedIsRecorded
BY Inductive, PTL DEF IInv

-----------------------------------------------------------------------------
(* Only the transaction writes the CID table. *)

LEMMA OnlyCommitWritesRows ==
  ASSUME TypeOK, [Next]_vars, \A w \in Worker : ~Commits(w)
  PROVE  UNCHANGED cids /\ mishaps \subseteq mishaps'
BY DEF Next, vars, WorkerStep, LoopStep, durable, history, CrawlNode, Publish, PublishUnsaved,
       OldNodes,
       Connected, Elapse, BanUnanswered, UnbanNode, BanNode, UnPinTick, Take, UseRecord, FetchNew,
       FetchUnchanged, FetchFails, CrawlFails, Pin, PinSkipped, NoCoreAPI, UnpinOld, UnpinAgain,
       UnpinDone, Finish, LoadRows, Purge, Unpin, UnpinRowAgain, Restart, Commits

-----------------------------------------------------------------------------
(* UnpinSparesRecorded.  The check for other peers' rows is made in the        *)
(* transaction, the unpinning follows it.  What carries the check over is that *)
(* a CID on somebody's list can come to be recorded, or stay so, only by an    *)
(* event that exposes it, and that no pin ends its exposure while it is        *)
(* listed.                                                                     *)

\* Jobs and rows are about roots the peer published.
RecordsPublished ==
  /\ \A p \in Peer : peers[p].rec \in Published[p] \cup {NoRec}
  /\ \A s \in Sender : \A j \in sender[s] : j.rec \in Published[j.peer] \cup {NoRec}
  /\ \A w \in Worker : Busy(w) => job[w].rec \in Published[job[w].peer] \cup {NoRec}

\* What a worker is about to unpin is recorded only if it is exposed.
ListsSpare ==
  \A w \in Worker : \A x \in todo[w] : Recorded(x[2]) => x[2] \in exposed

\* What a loop of a ban or of the ticker is about to unpin is exposed.
LoopsNoted == \A u \in Unpinner : \A x \in unpinner[u].calls : x[2] \in exposed

\* Nothing is exposed before something has gone wrong.
ExposureNoted == mishaps = {} => exposed = {}

SInv ==
  /\ TypeOK
  /\ RecordsPublished
  /\ ListsSpare
  /\ LoopsNoted
  /\ ExposureNoted

LEMMA InitSInv == Init => SInv
BY InitTyping
DEF Init, SInv, RecordsPublished, ListsSpare, LoopsNoted, ExposureNoted, NoRow, NoLoop, Busy

LEMMA RecordUpdates ==
  ASSUME NEW r \in Row, NEW v \in CID \cup {NoRec}, NEW b \in BOOLEAN
  PROVE  /\ [r EXCEPT !.known = TRUE, !.seen = TRUE, !.live = TRUE, !.rec = v].rec = v
         /\ [r EXCEPT !.known = TRUE, !.seen = TRUE].rec = r.rec
         /\ [r EXCEPT !.known = TRUE, !.banned = b].rec = r.rec
         /\ [r EXCEPT !.due = b].rec = r.rec
         /\ [r EXCEPT !.live = b].rec = r.rec
         /\ [r EXCEPT !.seen = b].rec = r.rec
BY DEF Row

\* The record in a row changes only when one is published.
LEMMA RecordsInRows ==
  ASSUME TypeOK, RecordsPublished, [Next]_vars
  PROVE  \A p \in Peer : peers'[p].rec \in Published[p] \cup {NoRec}
<1> USE RecordUpdates, ConstantsAssumption DEF TypeOK, Types
<1> DEFINE RecordKept == \A q \in Peer : peers'[q].rec = peers[q].rec
<1>1. CASE UNCHANGED peers
  BY <1>1 DEF RecordsPublished
<1>2. ASSUME NEW s \in Sender, NEW p \in Peer, NEW v \in Published[p], Publish(s, p, v)
      PROVE  \A q \in Peer : peers'[q].rec \in Published[q] \cup {NoRec}
  <2> DEFINE r == [peers[p] EXCEPT !.known = TRUE, !.seen = TRUE, !.live = TRUE, !.rec = v]
  <2>1. r.rec = v
    OBVIOUS
  <2>2. peers' = [peers EXCEPT ![p] = r]
    BY <1>2 DEF Publish
  <2> HIDE DEF r
  <2> QED
    BY <2>1, <2>2 DEF RecordsPublished
<1>3. ASSUME NEW p \in Peer, Connected(p) PROVE RecordKept
  <2>1. [peers[p] EXCEPT !.known = TRUE, !.seen = TRUE].rec = peers[p].rec
    OBVIOUS
  <2> QED
    BY <1>3, <2>1 DEF Connected
<1>4. ASSUME NEW p \in Peer, BanUnanswered(p) \/ UnbanNode(p) PROVE RecordKept
  <2>1. \A b \in BOOLEAN :
          [peers[p] EXCEPT !.known = TRUE, !.banned = b].rec = peers[p].rec
    OBVIOUS
  <2>2. CASE BanUnanswered(p)
    BY <2>1, <2>2 DEF BanUnanswered
  <2>3. CASE UnbanNode(p)
    BY <2>1, <2>3 DEF UnbanNode
  <2> QED
    BY <1>4, <2>2, <2>3
<1>5. ASSUME NEW p \in Peer, NEW u \in Unpinner, BanNode(u, p) PROVE RecordKept
  <2>1. [peers[p] EXCEPT !.known = TRUE, !.banned = TRUE].rec = peers[p].rec
    OBVIOUS
  <2> QED
    BY <1>5, <2>1 DEF BanNode
<1>6. ASSUME NEW p \in Peer, Elapse(p) PROVE RecordKept
  <2>1. /\ [peers[p] EXCEPT !.due = TRUE].rec = peers[p].rec
        /\ [peers[p] EXCEPT !.live = FALSE].rec = peers[p].rec
        /\ [peers[p] EXCEPT !.seen = FALSE].rec = peers[p].rec
    OBVIOUS
  <2>2. PICK r \in {[peers[p] EXCEPT !.due = TRUE], [peers[p] EXCEPT !.live = FALSE],
                    [peers[p] EXCEPT !.seen = FALSE]} : peers' = [peers EXCEPT ![p] = r]
    BY <1>6 DEF Elapse
  <2>3. r.rec = peers[p].rec
    BY <2>1
  <2> QED
    BY <2>2, <2>3
<1>7. ASSUME NEW w \in Worker, Finish(w) PROVE RecordKept
  <2>1. job[w].peer \in Peer
    BY <1>7 DEF Finish, JobInHand, Busy, Job
  <2> DEFINE b == peers[job[w].peer].due /\ ~peers[job[w].peer].known
  <2> DEFINE r == [peers[job[w].peer] EXCEPT !.due = b]
  <2>2. r.rec = peers[job[w].peer].rec
    <3>1. b \in BOOLEAN
      OBVIOUS
    <3> HIDE DEF b
    <3> QED
      BY <2>1, <3>1
  <2>3. UNCHANGED peers \/ peers' = [peers EXCEPT ![job[w].peer] = r]
    BY <1>7 DEF Finish
  <2> HIDE DEF r
  <2> QED
    BY <2>1, <2>2, <2>3
<1> HIDE DEF TypeOK
<1>8. \/ UNCHANGED peers
      \/ \E s \in Sender, p \in Peer : \E v \in Published[p] : Publish(s, p, v)
      \/ \E p \in Peer : Connected(p) \/ BanUnanswered(p) \/ UnbanNode(p) \/ Elapse(p)
      \/ \E p \in Peer, u \in Unpinner : BanNode(u, p)
      \/ \E w \in Worker : Finish(w)
  BY DEF Next, vars, WorkerStep, LoopStep, durable, history, CrawlNode, PublishUnsaved, OldNodes,
         UnPinTick, Take, UseRecord, FetchNew, FetchUnchanged, FetchFails, CrawlFails, Commit,
         CommitUnanswered,
         Pin, PinSkipped, NoCoreAPI, UnpinOld, UnpinAgain, UnpinDone, LoadRows, Unpin,
         UnpinRowAgain, Restart
<1> QED
  BY <1>1, <1>2, <1>3, <1>4, <1>5, <1>6, <1>7, <1>8 DEF RecordsPublished

\* A job waiting to be sent is about a root its peer published.
LEMMA RecordsInSenders ==
  ASSUME TypeOK, RecordsPublished, [Next]_vars
  PROVE  \A s \in Sender : \A j \in sender'[s] : j.rec \in Published[j.peer] \cup {NoRec}
<1> USE DEF TypeOK, Types
<1> DEFINE Good(j) == j.rec \in Published[j.peer] \cup {NoRec}
<1>1. CASE \A s \in Sender : sender'[s] \subseteq sender[s]
  BY <1>1 DEF RecordsPublished
<1>2. ASSUME NEW t \in Sender, NEW js,
             sender' = [sender EXCEPT ![t] = js], \A j \in js : Good(j)
      PROVE  \A s \in Sender : \A j \in sender'[s] : Good(j)
  BY <1>2 DEF RecordsPublished
<1>3. ASSUME NEW s \in Sender, OldNodes(s)
      PROVE  \A t \in Sender : \A j \in sender'[t] : Good(j)
  <2>1. PICK ps \in SUBSET Peer :
          sender' = [sender EXCEPT ![s] =
                       {[peer |-> p, rec |-> peers[p].rec, fetch |-> TRUE] : p \in ps}]
    BY <1>3 DEF OldNodes
  <2>2. \A j \in {[peer |-> p, rec |-> peers[p].rec, fetch |-> TRUE] : p \in ps} : Good(j)
    BY DEF RecordsPublished
  <2> HIDE DEF Good
  <2> QED
    BY <2>1, <2>2, <1>2
<1>4. ASSUME NEW s \in Sender, NEW p \in Peer, CrawlNode(s, p)
      PROVE  \A t \in Sender : \A j \in sender'[t] : Good(j)
  <2> DEFINE js == {[peer |-> p, rec |-> NoRec, fetch |-> TRUE]}
  <2>1. sender' = [sender EXCEPT ![s] = js] /\ \A j \in js : Good(j)
    BY <1>4 DEF CrawlNode
  <2> HIDE DEF js, Good
  <2> QED
    BY <2>1, <1>2
<1>5. ASSUME NEW s \in Sender, NEW p \in Peer, NEW v \in Published[p],
             Publish(s, p, v) \/ PublishUnsaved(s, p, v)
      PROVE  \A t \in Sender : \A j \in sender'[t] : Good(j)
  <2> DEFINE js == {[peer |-> p, rec |-> v, fetch |-> FALSE]}
  <2>1. UNCHANGED sender \/ sender' = [sender EXCEPT ![s] = js]
    BY <1>5 DEF Publish, PublishUnsaved
  <2>2. \A j \in js : Good(j)
    OBVIOUS
  <2> HIDE DEF js
  <2> QED
    BY <2>1, <2>2, <1>1, <1>2
<1>6. ASSUME NEW s \in Sender, NEW w \in Worker, Take(w, s)
      PROVE  \A t \in Sender : sender'[t] \subseteq sender[t]
  <2>1. PICK j \in sender[s] : sender' = [sender EXCEPT ![s] = @ \ {j}]
    BY <1>6 DEF Take
  <2> QED
    BY <2>1
<1>7. CASE Restart
  BY <1>1, <1>7 DEF Restart
<1> HIDE DEF TypeOK
<1>8. \/ UNCHANGED sender
      \/ Restart
      \/ \E s \in Sender : OldNodes(s) \/ \E w \in Worker : Take(w, s)
      \/ \E s \in Sender, p \in Peer :
           \/ CrawlNode(s, p)
           \/ \E v \in Published[p] : Publish(s, p, v) \/ PublishUnsaved(s, p, v)
  BY DEF Next, vars, WorkerStep, LoopStep, Connected, Elapse, BanUnanswered, UnbanNode, BanNode,
         UnPinTick,
         UseRecord, FetchNew, FetchUnchanged, FetchFails, CrawlFails, Commit, CommitUnanswered,
         Pin, PinSkipped,
         NoCoreAPI, UnpinOld, UnpinAgain, UnpinDone, Finish, LoadRows, Unpin, UnpinRowAgain,
         crawl, history
<1> QED
  BY <1>1, <1>3, <1>4, <1>5, <1>6, <1>7, <1>8

\* A worker's job changes when it takes one, fetches a record, or ends.
LEMMA JobChanges ==
  ASSUME TypeOK, [Next]_vars, NEW w \in Worker, Busy(w)'
  PROVE  \/ Busy(w) /\ job'[w] = job[w]
         \/ FetchNew(w)
         \/ \E s \in Sender : Take(w, s)
<1> USE DEF TypeOK, Types
<1>1. CASE UNCHANGED <<pc, job>>
  BY <1>1 DEF Busy
<1>2. CASE Restart
  BY <1>2 DEF Restart, Busy
<1>3. ASSUME NEW v \in Worker, NEW s \in Sender, Take(v, s), v # w
      PROVE  Busy(w) /\ job'[w] = job[w]
  BY <1>3 DEF Take, Busy
<1>4. ASSUME NEW v \in Worker, FetchNew(v), v # w
      PROVE  Busy(w) /\ job'[w] = job[w]
  BY <1>4 DEF FetchNew, Busy
<1>5. ASSUME NEW v \in Worker, Finish(v)
      PROVE  Busy(w) /\ job'[w] = job[w]
  BY <1>5 DEF Finish, Busy
<1>6. ASSUME NEW v \in Worker, UNCHANGED job, pc[v] # "idle",
             \E x \in PCs : pc' = [pc EXCEPT ![v] = x]
      PROVE  Busy(w) /\ job'[w] = job[w]
  BY <1>6 DEF Busy
<1>7. ASSUME NEW v \in Worker, WorkerStep(v) \/ UnpinAgain(v), ~FetchNew(v), ~Finish(v)
      PROVE  \/ UNCHANGED <<pc, job>>
             \/ UNCHANGED job /\ pc[v] # "idle" /\ \E x \in PCs : pc' = [pc EXCEPT ![v] = x]
  BY <1>7 DEF WorkerStep, UseRecord, FetchUnchanged, FetchFails, CrawlFails, Commit,
       CommitUnanswered,
     Pin, PinSkipped, NoCoreAPI, UnpinOld, UnpinAgain, UnpinDone, crawl, history, PCs
<1> HIDE DEF TypeOK
<1>8. \/ UNCHANGED <<pc, job>>
      \/ Restart
      \/ \E v \in Worker : WorkerStep(v) \/ UnpinAgain(v) \/ \E s \in Sender : Take(v, s)
  BY DEF Next, vars, LoopStep, CrawlNode, Publish, PublishUnsaved, OldNodes, Connected, Elapse,
         BanUnanswered, UnbanNode, BanNode, UnPinTick, LoadRows, Unpin, UnpinRowAgain, crawl,
         history
<1> QED
  BY <1>1, <1>2, <1>3, <1>4, <1>5, <1>6, <1>7, <1>8

LEMMA RecordsInJobs ==
  ASSUME TypeOK, RecordsPublished, [Next]_vars
  PROVE  \A w \in Worker : Busy(w)' => job'[w].rec \in Published[job'[w].peer] \cup {NoRec}
<1> SUFFICES ASSUME NEW w \in Worker, Busy(w)'
             PROVE  job'[w].rec \in Published[job'[w].peer] \cup {NoRec}
  OBVIOUS
<1>1. CASE Busy(w) /\ job'[w] = job[w]
  BY <1>1 DEF RecordsPublished
<1>2. CASE FetchNew(w)
  <2>1. job[w] \in Job
    BY <1>2 DEF FetchNew, TypeOK, JobInHand, Busy
  <2>2. PICK v \in Published[job[w].peer] : job'[w] = [job[w] EXCEPT !.rec = v]
    BY <1>2 DEF FetchNew, TypeOK, Types
  <2>3. [job[w] EXCEPT !.rec = v].rec = v /\ [job[w] EXCEPT !.rec = v].peer = job[w].peer
    BY <2>1 DEF Job
  <2> QED
    BY <2>2, <2>3
<1>3. ASSUME NEW s \in Sender, Take(w, s)
      PROVE  job'[w].rec \in Published[job'[w].peer] \cup {NoRec}
  <2>1. PICK j \in sender[s] : job' = [job EXCEPT ![w] = j]
    BY <1>3 DEF Take
  <2>2. job'[w] = j
    BY <2>1 DEF TypeOK, Types
  <2> QED
    BY <2>2 DEF RecordsPublished
<1> QED
  BY <1>1, <1>2, <1>3, JobChanges

\* Only the transaction adds to an unpin list.
LEMMA ListsShrink ==
  ASSUME TypeOK, [Next]_vars, NEW w \in Worker, ~Commits(w)
  PROVE  todo'[w] \subseteq todo[w]
<1> USE DEF TypeOK, Types
<1>1. CASE UNCHANGED todo
  BY <1>1
<1>2. ASSUME NEW v \in Worker, UnpinOld(v) PROVE todo'[w] \subseteq todo[w]
  <2>1. PICK x \in todo[v] : todo' = [todo EXCEPT ![v] = @ \ {x}]
    BY <1>2 DEF UnpinOld
  <2> QED
    BY <2>1
<1>3. ASSUME NEW v \in Worker, NoCoreAPI(v) PROVE todo'[w] \subseteq todo[w]
  BY <1>3 DEF NoCoreAPI
<1>4. ASSUME NEW v \in Worker, Commits(v), v # w PROVE todo'[w] \subseteq todo[w]
  <2>1. PICK calls : UNCHANGED todo \/ todo' = [todo EXCEPT ![v] = calls]
    BY <1>4, CommitWrites DEF Writes
  <2> QED
    BY <1>4, <2>1
<1>5. CASE Restart
  BY <1>5 DEF Restart
<1> HIDE DEF TypeOK
<1>6. \/ UNCHANGED todo \/ Restart
      \/ \E v \in Worker : UnpinOld(v) \/ NoCoreAPI(v) \/ Commits(v)
  BY DEF Next, vars, WorkerStep, LoopStep, CrawlNode, Publish, PublishUnsaved, OldNodes,
         Connected, Elapse, BanUnanswered, UnbanNode, BanNode, UnPinTick, Take, UseRecord,
         FetchNew,
         FetchUnchanged, FetchFails, CrawlFails, Pin, PinSkipped, UnpinAgain, UnpinDone, Finish,
         LoadRows, Unpin, UnpinRowAgain, Commits, crawl, history
<1> QED
  BY <1>1, <1>2, <1>3, <1>4, <1>5, <1>6

\* What a transaction does to rows, and to what is on a list.
LEMMA CommitExposes ==
  ASSUME TypeOK, NEW w \in Worker, Commits(w)
  PROVE  /\ job[w].peer \in Peer
         /\ exposed \subseteq exposed'
         /\ \A q \in Peer \ {job[w].peer} : cids'[q] = cids[q]
         /\ \A x \in todo'[w], q \in Peer : x[2] \in cids'[q] => x[2] \in exposed'
         /\ \A v \in Worker \ {w} : \A x \in todo[v] :
              x[2] \in cids'[job[w].peer] => x[2] \in cids[job[w].peer] \cup exposed'
<1> DEFINE p == job[w].peer
<1>1. PICK graph \in SUBSET CID, old \in SUBSET CID, undeleted \in SUBSET CID,
           answered \in BOOLEAN :
        /\ old = cids[p] \/ old = {}
        /\ Writes(w, graph, old, undeleted, answered)
  BY CommitWrites
<1>2. p \in Peer
  BY CommitWrites DEF TypeOK, JobInHand, Busy, Job
<1>3. cids' = [cids EXCEPT ![p] = (cids[p] \ ((old \ graph) \ undeleted)) \cup graph]
  BY <1>1 DEF Writes, Transaction, Dropped, RowsAfter
<1>4. exposed \cup undeleted \cup (graph \cap ListedByOthers(w)) \subseteq exposed'
  BY <1>1 DEF Writes, Transaction
<1>5. todo'[w] \subseteq Node \X ((old \ graph) \ UNION {cids[q] : q \in Peer \ {p}})
  <2>1. todo[w] = {}
    BY CommitWrites DEF TypeOK, JobInHand
  <2> QED
    BY <1>1, <2>1 DEF Writes, Dropped, ToUnpin, TypeOK, Types
<1>6. cids'[p] = (cids[p] \ ((old \ graph) \ undeleted)) \cup graph
  BY <1>2, <1>3 DEF TypeOK, Types
<1>7. \A q \in Peer \ {p} : cids'[q] = cids[q]
  BY <1>2, <1>3 DEF TypeOK, Types
<1> HIDE DEF p
<1>8. ASSUME NEW x \in todo'[w], NEW q \in Peer, x[2] \in cids'[q]
      PROVE  x[2] \in exposed'
  <2>1. x[2] \in old \ graph /\ x[2] \notin UNION {cids[r] : r \in Peer \ {p}}
    BY <1>5
  <2>2. q = p
    BY <1>7, <1>8, <2>1
  <2>3. x[2] \in undeleted
    BY <1>6, <1>8, <2>1, <2>2
  <2> QED
    BY <1>4, <2>3
<1>9. ASSUME NEW v \in Worker \ {w}, NEW x \in todo[v], x[2] \in cids'[p]
      PROVE  x[2] \in cids[p] \cup exposed'
  <2>1. x[2] \in ListedByOthers(w)
    BY DEF ListedByOthers
  <2> QED
    BY <1>4, <1>6, <1>9, <2>1
<1> QED
  BY <1>2, <1>4, <1>7, <1>8, <1>9 DEF p

\* The history only grows.
LEMMA HistoryGrows == ASSUME [Next]_vars PROVE mishaps \subseteq mishaps'
<1>1. ASSUME NEW w \in Worker, WorkerStep(w) PROVE mishaps \subseteq mishaps'
  BY <1>1 DEF WorkerStep, UseRecord, FetchNew, FetchUnchanged, FetchFails, CrawlFails,
       Commit, CommitUnanswered, Transaction, Pin, PinSkipped, NoCoreAPI, UnpinOld, UnpinDone,
       Finish, durable, history
<1>2. ASSUME NEW u \in Unpinner, LoopStep(u) PROVE mishaps \subseteq mishaps'
  BY <1>2 DEF LoopStep, LoadRows, Purge, Unpin, durable, history
<1>3. ASSUME (\E w \in Worker : UnpinAgain(w) \/ \E s \in Sender : Take(w, s))
             \/ (\E u \in Unpinner : UnpinRowAgain(u))
      PROVE  mishaps \subseteq mishaps'
  BY <1>3 DEF Take, UnpinAgain, UnpinRowAgain, durable, history
<1> QED
  BY <1>1, <1>2, <1>3 DEF Next, vars, CrawlNode, Publish, PublishUnsaved, OldNodes, Connected,
       Elapse, BanUnanswered, UnbanNode, BanNode, Purge, UnPinTick, Restart, durable, crawl,
       history

\* What is exposed stays so, until a crawl pins it and nobody has it on a list.
LEMMA ExposedStays ==
  ASSUME TypeOK, [Next]_vars, NEW c \in exposed
  PROVE  \/ c \in exposed'
         \/ ~Listed(c) /\ \E w \in Worker : Pin(w) /\ job[w].rec = c
<1>1. ASSUME NEW w \in Worker, Pin(w)
      PROVE  c \in exposed' \/ (~Listed(c) /\ job[w].rec = c)
  BY <1>1 DEF Pin
<1>2. ASSUME NEW w \in Worker, Commits(w) PROVE c \in exposed'
  BY <1>2, CommitExposes
<1>3. CASE \E w \in Worker : WorkerStep(w) /\ ~Pin(w) /\ ~Commits(w)
  BY <1>3 DEF WorkerStep, UseRecord, FetchNew, FetchUnchanged, FetchFails, CrawlFails, Commits,
     PinSkipped, NoCoreAPI, UnpinOld, UnpinDone, Finish, durable, history
<1>4. CASE ~\E w \in Worker : WorkerStep(w)
  BY <1>4 DEF Next, vars, LoopStep, CrawlNode, Publish, PublishUnsaved, OldNodes, Connected,
     Elapse, BanUnanswered, UnbanNode, BanNode, UnPinTick, Take, UnpinAgain, LoadRows, Purge,
     Unpin, UnpinRowAgain, Restart, durable, crawl, history
<1> QED
  BY <1>1, <1>2, <1>3, <1>4

LEMMA NextListsSpare ==
  ASSUME SInv, [Next]_vars
  PROVE  ListsSpare'
<1> USE DEF SInv
<1> SUFFICES ASSUME NEW w \in Worker, NEW x \in todo'[w], NEW q \in Peer, x[2] \in cids'[q]
             PROVE  x[2] \in exposed'
  BY DEF ListsSpare, Recorded
<1>1. CASE Commits(w)
  BY <1>1, CommitExposes
<1>2. CASE ~Commits(w)
  <2>1. x \in todo[w]
    BY <1>2, ListsShrink
  <2>2. CASE Recorded(x[2])
    <3>1. x[2] \in exposed
      BY <2>1, <2>2 DEF ListsSpare
    <3>2. x \in Node \X CID
      BY <2>1 DEF TypeOK, Types
    <3>3. Listed(x[2])
      BY <2>1, <3>2 DEF Listed
    <3> QED
      BY <3>1, <3>3, ExposedStays
  <2>3. CASE ~Recorded(x[2])
    <3>1. x[2] \notin cids[q]
      BY <2>3 DEF Recorded
    <3>2. PICK v \in Worker : Commits(v)
      BY <3>1, OnlyCommitWritesRows
    <3>3. q = job[v].peer /\ v # w
      BY <1>2, <3>1, <3>2, CommitExposes
    <3> QED
      BY <2>1, <3>1, <3>2, <3>3, CommitExposes
  <2> QED
    BY <2>2, <2>3
<1> QED
  BY <1>1, <1>2

\* How the list of calls of a loop changes.
LEMMA CallsChange ==
  ASSUME TypeOK, [Next]_vars, NEW u \in Unpinner
  PROVE  \/ unpinner'[u].calls \subseteq unpinner[u].calls
         \/ \E p \in Peer : unpinner'[u].calls = Node \X cids[p] /\ Purge(cids[p])
<1> USE DEF TypeOK, Types
<1>1. CASE UNCHANGED unpinner
  BY <1>1
<1>2. CASE Restart
  BY <1>2 DEF Restart, NoLoop
<1>3. ASSUME NEW t \in Unpinner, NEW p \in Peer, BanNode(t, p) \/ LoadRows(t, p)
      PROVE  \/ unpinner'[u].calls = unpinner[u].calls
             \/ unpinner'[u].calls = Node \X cids[p] /\ Purge(cids[p])
  <2>1. PICK ps : unpinner' = [unpinner EXCEPT ![t] = [peers |-> ps, calls |-> Node \X cids[p]]]
    BY <1>3 DEF BanNode, LoadRows
  <2>2. Purge(cids[p])
    BY <1>3 DEF BanNode, LoadRows
  <2> QED
    BY <2>1, <2>2
<1>4. ASSUME NEW t \in Unpinner, UnPinTick(t)
      PROVE  unpinner'[u].calls \subseteq unpinner[u].calls
  <2>1. PICK ps : unpinner' = [unpinner EXCEPT ![t] = [peers |-> ps, calls |-> {}]]
    BY <1>4 DEF UnPinTick
  <2> QED
    BY <2>1
<1>5. ASSUME NEW t \in Unpinner, Unpin(t)
      PROVE  unpinner'[u].calls \subseteq unpinner[u].calls
  <2>1. PICK x \in unpinner[t].calls : unpinner' = [unpinner EXCEPT ![t].calls = @ \ {x}]
    BY <1>5 DEF Unpin
  <2>2. unpinner[t] \in Loop
    OBVIOUS
  <2>3. [unpinner[t] EXCEPT !.calls = @ \ {x}].calls = unpinner[t].calls \ {x}
    BY <2>2 DEF Loop
  <2> QED
    BY <2>1, <2>3
<1> HIDE DEF TypeOK
<1>6. \/ UNCHANGED unpinner \/ Restart
      \/ \E t \in Unpinner : Unpin(t) \/ UnPinTick(t)
                             \/ \E p \in Peer : BanNode(t, p) \/ LoadRows(t, p)
  BY DEF Next, vars, WorkerStep, LoopStep, CrawlNode, Publish, PublishUnsaved, OldNodes,
         Connected, Elapse, BanUnanswered, UnbanNode, Take, UseRecord, FetchNew, FetchUnchanged,
         FetchFails, CrawlFails, Commit, CommitUnanswered, Pin, PinSkipped, NoCoreAPI, UnpinOld,
         UnpinAgain, UnpinDone, Finish, UnpinRowAgain
<1> QED
  BY <1>1, <1>2, <1>3, <1>4, <1>5, <1>6

LEMMA NextLoopsNoted ==
  ASSUME SInv, [Next]_vars
  PROVE  LoopsNoted'
<1> USE DEF SInv
<1> SUFFICES ASSUME NEW u \in Unpinner, NEW x \in unpinner'[u].calls
             PROVE  x[2] \in exposed'
  BY DEF LoopsNoted
<1>1. CASE \E p \in Peer : unpinner'[u].calls = Node \X cids[p] /\ Purge(cids[p])
  <2>1. PICK p \in Peer : x \in Node \X cids[p] /\ exposed' = exposed \cup cids[p]
    BY <1>1 DEF Purge
  <2> QED
    BY <2>1
<1>2. CASE x \in unpinner[u].calls
  <2>1. x = <<x[1], x[2]>> /\ x[1] \in Node
    BY <1>2 DEF TypeOK, Types, Loop
  <2>2. Listed(x[2])
    <3>1. <<x[1], x[2]>> \in unpinner[u].calls
      BY <1>2, <2>1
    <3> QED
      BY <2>1, <3>1 DEF Listed
  <2>3. x[2] \in exposed
    BY <1>2 DEF LoopsNoted
  <2> QED
    BY <2>2, <2>3, ExposedStays
<1> QED
  BY <1>1, <1>2, CallsChange

\* Whatever exposes a CID is noted.
LEMMA NextExposureNoted ==
  ASSUME SInv, [Next]_vars
  PROVE  ExposureNoted'
<1> USE DEF SInv
<1> SUFFICES ASSUME mishaps' = {} PROVE exposed' = {}
  BY DEF ExposureNoted
<1>0. exposed = {}
  BY HistoryGrows DEF ExposureNoted
<1>1. ASSUME NEW w \in Worker, Commits(w) PROVE exposed' = {}
  <2>1. PICK graph \in SUBSET CID, old \in SUBSET CID, undeleted \in SUBSET CID,
             answered \in BOOLEAN : Transaction(w, graph, old, undeleted, answered)
    BY <1>1, CommitWrites DEF Writes
  <2> QED
    BY <1>0, <2>1 DEF Transaction, Note
<1>2. ASSUME NEW w \in Worker, WorkerStep(w), ~Commits(w) PROVE exposed' = {}
  BY <1>0, <1>2 DEF WorkerStep, UseRecord, FetchNew, FetchUnchanged, FetchFails, CrawlFails,
     Commits, Pin, PinSkipped, NoCoreAPI, UnpinOld, UnpinDone, Finish, durable, history
<1>3. ASSUME NEW rows, Purge(rows) PROVE exposed' = {}
  BY <1>0, <1>3 DEF Purge, Note
<1>4. CASE Restart
  BY <1>0, <1>4 DEF Restart, Note
<1>5. CASE ~\E w \in Worker : WorkerStep(w)
  <2>1. UNCHANGED exposed \/ Restart \/ \E p \in Peer : Purge(cids[p])
    BY <1>5 DEF Next, vars, LoopStep, CrawlNode, Publish, PublishUnsaved, OldNodes, Connected,
       Elapse, BanUnanswered, UnbanNode, BanNode, UnPinTick, Take, UnpinAgain, LoadRows, Unpin,
       UnpinRowAgain, durable, crawl, history
  <2> QED
    BY <1>0, <1>3, <1>4, <2>1
<1> QED
  BY <1>1, <1>2, <1>5

LEMMA NextSInv == SInv /\ [Next]_vars => SInv'
<1> SUFFICES ASSUME SInv, [Next]_vars PROVE SInv'
  OBVIOUS
<1>1. TypeOK'
  BY NextTyping DEF SInv
<1>2. RecordsPublished'
  BY RecordsInRows, RecordsInSenders, RecordsInJobs DEF SInv, RecordsPublished
<1>3. ListsSpare' /\ LoopsNoted' /\ ExposureNoted'
  BY NextListsSpare, NextLoopsNoted, NextExposureNoted
<1> QED
  BY <1>1, <1>2, <1>3 DEF SInv

\* A pinned root that is recorded stays pinned, unless it is exposed.
LEMMA RecordedStaysPinned ==
  ASSUME SInv, Next, NEW n \in Node, NEW c \in pins[n] \ pins'[n], Recorded(c)
  PROVE  c \in exposed
<1> USE DEF SInv, TypeOK, Types
<1>1. ASSUME NEW x, Rm(x[1], x[2]) PROVE c = x[2]
  BY <1>1 DEF Rm
<1>2. ASSUME NEW w \in Worker, UnpinOld(w) \/ UnpinAgain(w) PROVE c \in exposed
  <2>1. \E x \in todo[w] : Rm(x[1], x[2])
    BY <1>2 DEF UnpinOld, UnpinAgain
  <2> QED
    BY <1>1, <2>1 DEF ListsSpare
<1>3. ASSUME NEW u \in Unpinner, Unpin(u) \/ UnpinRowAgain(u) PROVE c \in exposed
  <2>1. \E x \in unpinner[u].calls : Rm(x[1], x[2])
    BY <1>3 DEF Unpin, UnpinRowAgain
  <2> QED
    BY <1>1, <2>1 DEF LoopsNoted
<1>4. ASSUME NEW w \in Worker, Pin(w) PROVE FALSE
  <2>1. PICK m \in Node : pins' = [pins EXCEPT ![m] = @ \cup {job[w].rec}]
    BY <1>4 DEF Pin
  <2> QED
    BY <2>1
<1> HIDE DEF SInv
<1>5. \/ UNCHANGED pins
      \/ \E w \in Worker : UnpinOld(w) \/ UnpinAgain(w) \/ Pin(w)
      \/ \E u \in Unpinner : Unpin(u) \/ UnpinRowAgain(u)
  BY DEF Next, WorkerStep, LoopStep, CrawlNode, Publish, PublishUnsaved, OldNodes, Connected,
         Elapse, BanUnanswered, UnbanNode, BanNode, UnPinTick, Take, UseRecord, FetchNew,
         FetchUnchanged, FetchFails, CrawlFails, Commit, CommitUnanswered, PinSkipped, NoCoreAPI,
         UnpinDone, Finish, LoadRows, Restart, durable
<1> QED
  BY <1>2, <1>3, <1>4, <1>5

\* The check "no other peer has this CID" still holds when the unpinning runs,
\* however the crawls, the bans and the ticker interleave: a root somebody's rows
\* name is only ever unpinned if it is exposed, because a loop of a ban or of the
\* ticker listed it, or its row was written while another crawl had it on its
\* list, or could not be deleted (worker.go:252-301, crawler.go:204-213, 343-361).
THEOREM UnpinIsSparing == Spec => UnpinSparesRecorded
<1>1. SInv /\ [Next]_vars =>
        [\A n \in Node : \A c \in pins[n] \ pins'[n] : Recorded(c) => c \in exposed]_vars
  BY RecordedStaysPinned
<1> QED
  BY <1>1, InitSInv, NextSInv, PTL DEF Spec, UnpinSparesRecorded

-----------------------------------------------------------------------------
(* ContentRetained.  Content stays because a pinned root of the same peer     *)
(* keeps it, or because the worker that recorded it is about to pin its root; *)
(* and the root stays pinned because it is itself recorded, or else it is     *)
(* exposed.                                                                   *)

KeptFor(p, c) == \E root \in cids[p] : \E n \in Node : root \in pins[n] /\ c \in Graph[root]

AboutToPin(w, p, c) ==
  /\ pc[w] = "pin"
  /\ job[w].peer = p
  /\ job[w].rec \in cids[p]
  /\ c \in Graph[job[w].rec]

KeptOrPending ==
  \A p \in Peer : \A c \in cids[p] :
    KeptFor(p, c) \/ Lost(p, c) \/ \E w \in Worker : AboutToPin(w, p, c)

\* A worker stays at its pin until it pins, or its root is exposed.
LEMMA PendingStays ==
  ASSUME TypeOK, Next, NEW w \in Worker, pc[w] = "pin", ~Pin(w)
  PROVE  (pc'[w] = "pin" /\ job'[w] = job[w]) \/ job[w].rec \in exposed'
<1> USE DEF TypeOK, Types
<1> DEFINE Waits == pc'[w] = "pin" /\ job'[w] = job[w]
<1>1. CASE UNCHANGED <<pc, job>>
  BY <1>1
<1>2. CASE Restart
  BY <1>2 DEF Restart
<1>3. ASSUME NEW v \in Worker, PinSkipped(v) \/ NoCoreAPI(v)
      PROVE  Waits \/ job[w].rec \in exposed'
  BY <1>3 DEF PinSkipped, NoCoreAPI
<1>4. ASSUME NEW v \in Worker, NEW s \in Sender, Take(v, s)
      PROVE  Waits
  BY <1>4 DEF Take
<1>5. ASSUME NEW v \in Worker, v # w, NEW x, pc' = [pc EXCEPT ![v] = x], job'[w] = job[w]
      PROVE  Waits
  BY <1>5
<1>6. ASSUME NEW v \in Worker, FetchNew(v)
      PROVE  Waits
  BY <1>6 DEF FetchNew
<1>7. ASSUME NEW v \in Worker,
             \/ UseRecord(v) \/ FetchUnchanged(v) \/ FetchFails(v) \/ CrawlFails(v)
             \/ Commits(v) \/ UnpinDone(v) \/ Finish(v)
      PROVE  Waits
  <2>1. v # w
    BY <1>7 DEF UseRecord, FetchUnchanged, FetchFails, CrawlFails, Commits, Commit,
         CommitUnanswered, UnpinDone, Finish
  <2>2. job'[w] = job[w] /\ \E x : pc' = [pc EXCEPT ![v] = x]
    BY <1>7, <2>1 DEF UseRecord, FetchUnchanged, FetchFails, CrawlFails, Commits, Commit,
         CommitUnanswered, UnpinDone, Finish
  <2> QED
    BY <1>5, <2>1, <2>2
<1>8. ASSUME NEW v \in Worker, Pin(v)
      PROVE  Waits
  BY <1>8 DEF Pin
<1> HIDE DEF TypeOK
<1>9. \/ UNCHANGED <<pc, job>>
      \/ Restart
      \/ \E v \in Worker :
           \/ PinSkipped(v) \/ NoCoreAPI(v) \/ FetchNew(v) \/ Pin(v)
           \/ UseRecord(v) \/ FetchUnchanged(v) \/ FetchFails(v) \/ CrawlFails(v)
           \/ Commits(v) \/ UnpinDone(v) \/ Finish(v)
           \/ \E s \in Sender : Take(v, s)
  BY DEF Next, WorkerStep, LoopStep, CrawlNode, Publish, PublishUnsaved, OldNodes, Connected,
         Elapse, BanUnanswered, UnbanNode, BanNode, UnPinTick, UnpinOld, UnpinAgain, LoadRows,
         Unpin, UnpinRowAgain, Commits, crawl, history
<1> QED
  BY <1>1, <1>2, <1>3, <1>4, <1>6, <1>7, <1>8, <1>9

\* What a transaction records lies under the root that is pinned next, unless
\* it is exposed, or was recorded before and the old rows could not be loaded.
LEMMA CommitRecords ==
  ASSUME TypeOK, NEW w \in Worker, Commits(w)
  PROVE  /\ job[w].peer \in Peer
         /\ (pc'[w] = "pin" /\ job'[w] = job[w]) \/ job[w].rec \in exposed'
         /\ job[w].rec \in cids'[job[w].peer]
         /\ \A q \in Peer \ {job[w].peer} : cids'[q] = cids[q]
         /\ \/ cids'[job[w].peer] \subseteq Graph[job[w].rec] \cup exposed'
            \/ /\ cids[job[w].peer] \subseteq cids'[job[w].peer]
               /\ cids'[job[w].peer] \subseteq cids[job[w].peer] \cup Graph[job[w].rec]
<1> DEFINE p == job[w].peer
<1>1. PICK graph \in SUBSET CID, old \in SUBSET CID, undeleted \in SUBSET CID,
           answered \in BOOLEAN :
        /\ job[w].rec \in graph
        /\ graph \subseteq Graph[job[w].rec]
        /\ old = cids[p] \/ old = {}
        /\ Writes(w, graph, old, undeleted, answered)
  BY CommitWrites
<1>2. p \in Peer
  BY CommitWrites DEF TypeOK, JobInHand, Busy, Job
<1>3. /\ cids' = [cids EXCEPT ![p] = (cids[p] \ ((old \ graph) \ undeleted)) \cup graph]
      /\ undeleted \subseteq exposed'
      /\ answered \/ job[w].rec \in exposed'
  BY <1>1 DEF Writes, Transaction, Dropped, RowsAfter
<1>4. cids'[p] = (cids[p] \ ((old \ graph) \ undeleted)) \cup graph
  BY <1>2, <1>3 DEF TypeOK, Types
<1>5. \A q \in Peer \ {p} : cids'[q] = cids[q]
  BY <1>2, <1>3 DEF TypeOK, Types
<1>6. \/ cids'[p] \subseteq Graph[job[w].rec] \cup exposed'
      \/ cids[p] \subseteq cids'[p] /\ cids'[p] \subseteq cids[p] \cup Graph[job[w].rec]
  BY <1>1, <1>3, <1>4
<1>7. (pc'[w] = "pin" /\ job'[w] = job[w]) \/ job[w].rec \in exposed'
  BY <1>1, <1>3, CommitWrites DEF Writes, TypeOK, Types
<1> QED
  BY <1>1, <1>2, <1>4, <1>5, <1>6, <1>7

LEMMA NextKeptOrPending ==
  ASSUME SInv, KeptOrPending, [Next]_vars
  PROVE  KeptOrPending'
<1> DEFINE Accounted(p, c) ==
      KeptFor(p, c) \/ Lost(p, c) \/ \E w \in Worker : AboutToPin(w, p, c)
<1> SUFFICES ASSUME NEW p \in Peer, NEW c \in cids'[p]
             PROVE  Accounted(p, c)'
  BY DEF KeptOrPending
<1>0. TypeOK
  BY DEF SInv
<1>1. CASE UNCHANGED vars
  <2>1. Accounted(p, c)
    BY <1>1 DEF KeptOrPending, vars
  <2> QED
    BY <1>1, <2>1 DEF KeptFor, Lost, AboutToPin, vars
\* A pin keeps what lies under its root.
<1>2. ASSUME NEW w \in Worker, Pin(w), NEW root \in cids'[p], job[w].rec = root,
             c \in Graph[root]
      PROVE  KeptFor(p, c)'
  <2>1. PICK n \in Node : pins' = [pins EXCEPT ![n] = @ \cup {root}]
    BY <1>2 DEF Pin
  <2>2. root \in pins'[n]
    BY <1>0, <2>1 DEF TypeOK, Types
  <2> QED
    BY <1>2, <2>2 DEF KeptFor
\* What was lost stays so until its root is pinned again.
<1>3. ASSUME Next, Lost(p, c), cids[p] \subseteq cids'[p]
      PROVE  Accounted(p, c)'
  <2>1. PICK root \in cids[p] \cap exposed : c \in Graph[root]
    BY <1>3 DEF Lost
  <2>2. CASE root \in exposed'
    BY <1>3, <2>1, <2>2 DEF Lost
  <2>3. ASSUME NEW w \in Worker, Pin(w), job[w].rec = root PROVE KeptFor(p, c)'
    BY <1>2, <1>3, <2>1, <2>3
  <2> QED
    BY <1>0, <1>3, <2>1, <2>2, <2>3, ExposedStays
\* What was kept stays so as long as its root is recorded, or it is lost.
<1>4. ASSUME Next, KeptFor(p, c), cids[p] \subseteq cids'[p]
      PROVE  Accounted(p, c)'
  <2>1. PICK root \in cids[p], n \in Node : root \in pins[n] /\ c \in Graph[root]
    BY <1>4 DEF KeptFor
  <2>2. CASE root \in pins'[n]
    BY <1>4, <2>1, <2>2 DEF KeptFor
  <2>3. CASE root \notin pins'[n]
    <3>1. Recorded(root)
      BY <2>1 DEF Recorded
    <3>2. root \in exposed
      BY <1>4, <2>1, <2>3, <3>1, RecordedStaysPinned
    <3>3. Lost(p, c)
      BY <2>1, <3>2 DEF Lost
    <3> QED
      BY <1>3, <1>4, <3>3
  <2> QED
    BY <2>2, <2>3
\* So does what was pending, except for the worker that pins or fails to.
<1>5. ASSUME Next, NEW w \in Worker, AboutToPin(w, p, c), cids[p] \subseteq cids'[p]
      PROVE  Accounted(p, c)'
  <2>1. CASE Pin(w)
    BY <1>2, <1>5, <2>1 DEF AboutToPin
  <2>2. CASE pc'[w] = "pin" /\ job'[w] = job[w]
    <3>1. AboutToPin(w, p, c)'
      BY <1>5, <2>2 DEF AboutToPin
    <3> QED
      BY <3>1
  <2>3. CASE job[w].rec \in exposed'
    BY <1>5, <2>3 DEF AboutToPin, Lost
  <2> QED
    BY <1>0, <1>5, <2>1, <2>2, <2>3, PendingStays DEF AboutToPin
<1>6. ASSUME Next, c \in cids[p], cids[p] \subseteq cids'[p]
      PROVE  Accounted(p, c)'
  <2>1. Accounted(p, c)
    BY <1>6 DEF KeptOrPending
  <2> HIDE DEF Accounted
  <2>2. KeptFor(p, c) \/ Lost(p, c) \/ \E w \in Worker : AboutToPin(w, p, c)
    BY <2>1 DEF Accounted
  <2> QED
    BY <1>3, <1>4, <1>5, <1>6, <2>2
<1>7. ASSUME Next, NEW w \in Worker, Commits(w)
      PROVE  Accounted(p, c)'
  <2> DEFINE rec == job[w].rec
  <2>0. /\ rec \in cids'[job[w].peer]
        /\ (pc'[w] = "pin" /\ job'[w] = job[w]) \/ rec \in exposed'
    BY <1>0, <1>7, CommitRecords
  <2>1. CASE p # job[w].peer
    <3>1. cids'[p] = cids[p]
      BY <1>0, <1>7, <2>1, CommitRecords
    <3> QED
      BY <1>6, <1>7, <3>1
  <2>2. CASE p = job[w].peer /\ c \in Graph[rec]
    BY <2>0, <2>2 DEF AboutToPin, Lost
  <2>3. CASE c \in exposed'
    <3>1. c \in CID
      BY <1>0, NextTyping DEF TypeOK, Types
    <3> QED
      BY <2>3, <3>1, ConstantsAssumption DEF Lost
  <2>4. CASE p = job[w].peer /\ c \notin Graph[rec] /\ c \notin exposed'
    <3>1. cids[p] \subseteq cids'[p] /\ c \in cids[p]
      BY <1>0, <1>7, <2>4, CommitRecords
    <3> QED
      BY <1>6, <1>7, <3>1
  <2> QED
    BY <2>1, <2>2, <2>3, <2>4
<1>8. ASSUME Next, \A w \in Worker : ~Commits(w)
      PROVE  Accounted(p, c)'
  <2>1. cids' = cids
    BY <1>0, <1>8, OnlyCommitWritesRows
  <2> QED
    BY <1>6, <1>8, <2>1
<1> QED
  BY <1>1, <1>7, <1>8

\* Outside the moments between a transaction and its pin, everything recorded for
\* a peer is kept by a recursive pin, for any number of workers, however their
\* crawls, the bans and the ticker interleave; only a root that is exposed may
\* leave its content unkept, until a crawl pins it again
\* (worker.go:238-301, crawler.go:204-213, 343-361).
THEOREM ContentIsRetained == Spec => []ContentRetained
<1>1. Init => KeptOrPending
  BY DEF Init, KeptOrPending
<1>2. SInv /\ KeptOrPending /\ [Next]_vars => KeptOrPending'
  BY NextKeptOrPending
<1>3. SInv /\ KeptOrPending => ContentRetained
  <2> SUFFICES ASSUME SInv, KeptOrPending, NEW p \in Peer,
                      \A w \in Worker : ~(OnPeer(w, p) /\ pc[w] = "pin"), NEW c \in cids[p],
                      ~Lost(p, c)
               PROVE  c \in Retained
    BY DEF ContentRetained
  <2>1. KeptFor(p, c)
    BY DEF KeptOrPending, AboutToPin, OnPeer, Busy
  <2>2. PICK root \in cids[p], n \in Node : root \in pins[n] /\ c \in Graph[root]
    BY <2>1 DEF KeptFor
  <2>3. root \in UNION {pins[m] : m \in Node}
    BY <2>2
  <2> QED
    BY <2>2, <2>3 DEF Retained
<1> QED
  BY <1>1, <1>2, <1>3, InitSInv, NextSInv, PTL DEF Spec

-----------------------------------------------------------------------------
(* CrawlsAreAtomic.  The transaction is the crawl of Catalogue.  What it puts *)
(* on its list nobody records without a mishap, and what another worker is    *)
(* about to pin is recorded, so it is not on the list.                        *)

\* A root that stays pinned at a node.
Stays(n, c) == c \in pins[n] /\ \A w \in Worker : <<n, c>> \notin todo[w]

Lasting == {c \in CID : \E n \in Node : Stays(n, c)}

\* The roots about to be pinned.
Awaited == {job[w].rec : w \in {v \in Worker : pc[v] = "pin"}}

LEMMA KeptIs == Kept = Lasting \cup Awaited /\ Kept' = Lasting' \cup Awaited'
BY DEF Kept, Lasting, Stays, Awaited

\* Only the transaction brings a worker to its pin.
LEMMA OnlyCommitReachesPin ==
  ASSUME TypeOK, Next, NEW w \in Worker, ~Commit(w), pc'[w] = "pin"
  PROVE  pc[w] = "pin" /\ job'[w] = job[w]
<1> USE DEF TypeOK, Types
<1>1. pc[w] = "pin"
  <2>1. CASE UNCHANGED pc
    BY <2>1
  <2>2. CASE Restart
    BY <2>2 DEF Restart
  <2>3. ASSUME NEW v \in Worker, NEW x, pc' = [pc EXCEPT ![v] = x], v # w \/ x # "pin"
        PROVE  pc[w] = "pin"
    BY <2>3
  <2>4. ASSUME NEW v \in Worker, WorkerStep(v) \/ UnpinAgain(v) \/ \E s \in Sender : Take(v, s)
        PROVE  \/ UNCHANGED pc
               \/ Commit(v)
               \/ \E x : pc' = [pc EXCEPT ![v] = x] /\ x # "pin"
    <3>1. CASE UnpinOld(v) \/ UnpinAgain(v)
      BY <3>1 DEF UnpinOld, UnpinAgain, crawl, history
    <3>2. \/ UseRecord(v) \/ FetchNew(v) \/ FetchUnchanged(v) \/ FetchFails(v)
          \/ CrawlFails(v) \/ CommitUnanswered(v)
          => \E x : pc' = [pc EXCEPT ![v] = x] /\ x # "pin"
      BY DEF UseRecord, FetchNew, FetchUnchanged, FetchFails, CrawlFails, CommitUnanswered
    <3>3. CASE Pin(v) \/ PinSkipped(v) \/ NoCoreAPI(v) \/ UnpinDone(v) \/ Finish(v)
      BY <3>3 DEF Pin, PinSkipped, NoCoreAPI, UnpinDone, Finish
    <3>4. CASE \E s \in Sender : Take(v, s)
      BY <3>4 DEF Take
    <3> HIDE DEF TypeOK, Types
    <3> QED
      BY <2>4, <3>1, <3>2, <3>3, <3>4 DEF WorkerStep
  <2>5. ASSUME NEW v \in Worker, Commit(v) PROVE pc[w] = "pin"
    <3>1. v # w
      BY <2>5
    <3>2. pc' = [pc EXCEPT ![v] = "pin"]
      BY <2>5 DEF Commit
    <3> QED
      BY <2>3, <3>1, <3>2
  <2> HIDE DEF TypeOK
  <2>6. \/ UNCHANGED pc \/ Restart
        \/ \E v \in Worker : WorkerStep(v) \/ UnpinAgain(v) \/ \E s \in Sender : Take(v, s)
    BY DEF Next, LoopStep, CrawlNode, Publish, PublishUnsaved, OldNodes, Connected, Elapse,
           BanUnanswered, UnbanNode, BanNode, UnPinTick, LoadRows, Unpin, UnpinRowAgain, crawl,
           history
  <2> QED
    BY <2>1, <2>2, <2>3, <2>4, <2>5, <2>6
<1>2. job'[w] = job[w]
  BY <1>1, JobChanges DEF Busy, FetchNew, Take
<1> QED
  BY <1>1, <1>2

\* Between transactions the pins that stay are the same, but for the one that a
\* worker adds.
LEMMA OthersStay ==
  ASSUME SInv, Next, mishaps' = {}, mishaps = {},
         \A w \in Worker : ~Commits(w) /\ ~Pin(w), NEW n \in Node, NEW c
  PROVE  Stays(n, c)' <=> Stays(n, c)
<1> USE DEF SInv, TypeOK, Types
<1>1. CASE UNCHANGED <<pins, todo>>
  BY <1>1 DEF Stays
<1>2. ASSUME NEW w \in Worker, UnpinOld(w) PROVE Stays(n, c)' <=> Stays(n, c)
  <2>1. PICK x \in todo[w] :
          /\ todo' = [todo EXCEPT ![w] = @ \ {x}]
          /\ pins' = [pins EXCEPT ![x[1]] = @ \ {x[2]}]
    BY <1>2 DEF UnpinOld, Rm
  <2>2. x = <<x[1], x[2]>> /\ x[1] \in Node
    BY <2>1
  <2>3. CASE <<n, c>> = x
    BY <2>1, <2>3 DEF Stays
  <2>4. CASE <<n, c>> # x
    <3>1. c \in pins'[n] <=> c \in pins[n]
      BY <2>1, <2>2, <2>4
    <3>2. \A v \in Worker : <<n, c>> \in todo'[v] <=> <<n, c>> \in todo[v]
      BY <2>1, <2>4
    <3> QED
      BY <3>1, <3>2 DEF Stays
  <2> QED
    BY <2>3, <2>4
<1>3. ASSUME NEW w \in Worker, UnpinAgain(w) PROVE Stays(n, c)' <=> Stays(n, c)
  <2>1. PICK x \in todo[w] : pins' = [pins EXCEPT ![x[1]] = @ \ {x[2]}]
    BY <1>3 DEF UnpinAgain, Rm
  <2>2. x = <<x[1], x[2]>> /\ x[1] \in Node /\ UNCHANGED todo
    BY <1>3, <2>1 DEF UnpinAgain, crawl, history
  <2>3. <<n, c>> # x => (c \in pins'[n] <=> c \in pins[n])
    BY <2>1, <2>2
  <2> QED
    BY <2>1, <2>2, <2>3 DEF Stays
<1>4. CASE Restart
  <2>1. \A w \in Worker : pc[w] \notin {"pin", "unpin"}
    BY <1>4 DEF Restart, Note
  <2>2. \A w \in Worker : todo[w] = {} /\ todo'[w] = {}
    BY <1>4, <2>1 DEF Restart, JobInHand
  <2> QED
    BY <1>4, <2>2 DEF Restart, durable, history, Stays
<1>5. \A u \in Unpinner : unpinner[u].calls = {}
  BY DEF LoopsNoted, ExposureNoted
<1>6. \A u \in Unpinner : ~Unpin(u) /\ ~UnpinRowAgain(u)
  BY <1>5 DEF Unpin, UnpinRowAgain
<1>7. \A w \in Worker : ~PinSkipped(w) /\ ~NoCoreAPI(w)
  BY DEF PinSkipped, NoCoreAPI
<1> HIDE DEF SInv
<1>8. \/ UNCHANGED <<pins, todo>> \/ Restart
      \/ \E w \in Worker : UnpinOld(w) \/ UnpinAgain(w)
  BY <1>6, <1>7
  DEF Next, WorkerStep, LoopStep, CrawlNode, Publish, PublishUnsaved, OldNodes, Connected,
      Elapse, BanUnanswered, UnbanNode, BanNode, UnPinTick, Take, UseRecord, FetchNew,
      FetchUnchanged,
      FetchFails, CrawlFails, UnpinDone, Finish, LoadRows, Commits, durable, crawl, history
<1> QED
  BY <1>1, <1>2, <1>3, <1>4, <1>8

\* A step that is no transaction keeps what is kept.
LEMMA OtherStepsKeep ==
  ASSUME SInv, IInv, Next, mishaps' = {}, mishaps = {}, \A w \in Worker : ~Commits(w)
  PROVE  UNCHANGED <<cids, Kept>>
<1> USE DEF SInv, TypeOK, Types
<1>1. UNCHANGED cids
  BY OnlyCommitWritesRows
<1>0. exposed = {} /\ exposed' = {}
  BY NextSInv DEF ExposureNoted
<1>2. CASE \A w \in Worker : ~Pin(w)
  <2>1. \A n \in Node, c \in CID : Stays(n, c)' <=> Stays(n, c)
    BY <1>2, OthersStay
  <2>2. \A w \in Worker : pc[w] = "pin" <=> pc'[w] = "pin"
    BY <1>0, <1>2, PendingStays, OnlyCommitReachesPin DEF Commits
  <2>3. \A w \in Worker : pc[w] = "pin" => job'[w] = job[w]
    BY <1>0, <1>2, PendingStays
  <2>4. Awaited' = Awaited
    BY <2>2, <2>3 DEF Awaited
  <2>5. Lasting' = Lasting
    BY <2>1 DEF Lasting
  <2> QED
    BY <1>1, <2>4, <2>5, KeptIs
<1>3. ASSUME NEW w \in Worker, Pin(w) PROVE UNCHANGED Kept
  <2> DEFINE r == job[w].rec
  <2>1. PICK m \in Node : pins' = [pins EXCEPT ![m] = @ \cup {r}]
    BY <1>3 DEF Pin
  <2>2. /\ pc[w] = "pin" /\ pc' = [pc EXCEPT ![w] = "unpin"]
        /\ UNCHANGED <<cids, job, todo>>
    BY <1>3 DEF Pin
  <2>3. r \in CID /\ job[w].peer \in Peer
    BY <2>2 DEF JobInHand, Busy, Job
  <2>4. Recorded(r)
    BY <2>2, <2>3 DEF IInv, RootRecorded, Recorded
  <2>5. \A n \in Node, v \in Worker : <<n, r>> \notin todo[v]
    BY <1>0, <2>4 DEF ListsSpare
  <2> HIDE DEF r
  <2>6. ASSUME NEW n \in Node, NEW c \in CID
        PROVE  Stays(n, c)' <=> Stays(n, c) \/ (n = m /\ c = r)
    BY <2>1, <2>2, <2>5 DEF Stays
  <2>7. Awaited = Awaited' \cup {r}
    BY <2>2 DEF Awaited, r
  <2>8. Lasting' = Lasting \cup {r}
    BY <2>3, <2>6 DEF Lasting
  <2> QED
    BY <2>7, <2>8, KeptIs
<1> QED
  BY <1>1, <1>2, <1>3

\* The transaction is the crawl of its peer.
LEMMA CommitIsCrawl ==
  ASSUME SInv, IInv, NEW w \in Worker, Commits(w), mishaps' = {}, mishaps = {}
  PROVE  job[w].peer \in Peer /\ Atomic!Crawl(job[w].peer)
<1>0. TypeOK
  BY DEF SInv
<1> DEFINE p == job[w].peer
           root == job[w].rec
<1>1. PICK graph \in SUBSET CID, old \in SUBSET CID, undeleted \in SUBSET CID,
           answered \in BOOLEAN :
        /\ root \in graph
        /\ graph \subseteq Graph[root]
        /\ Writes(w, graph, old, undeleted, answered)
  BY <1>0, CommitWrites
<1> USE DEF SInv, TypeOK, Types
<1>2. p \in Peer /\ root \in Published[p] /\ root \in CID
  BY CommitWrites, ConstantsAssumption DEF JobInHand, Busy, Job, RecordsPublished
<1>3. old = cids[p] /\ undeleted = {} /\ answered
  BY <1>1 DEF Writes, Transaction, Note
<1> DEFINE gone == cids[p] \ (graph \cup UNION {cids[q] : q \in Peer \ {p}})
<1>4. cids' = [cids EXCEPT ![p] = graph]
  BY <1>1, <1>3 DEF Writes, Transaction, RowsAfter, Dropped
<1>5. todo' = [todo EXCEPT ![w] = Node \X gone]
  BY <1>1, <1>3 DEF Writes, ToUnpin, Dropped
<1>6. /\ pc[w] = "load" /\ pc' = [pc EXCEPT ![w] = "pin"] /\ todo[w] = {}
      /\ UNCHANGED <<pins, job>>
  BY <1>1, <1>3, CommitWrites DEF Writes, JobInHand
<1>7. ASSUME NEW v \in Worker, pc[v] = "pin" PROVE job[v].rec \notin gone
  <2>1. job[v].peer \in Peer \ {p}
    BY <1>6, <1>7 DEF IInv, OnePerPeer, Busy, JobInHand, Job
  <2>2. job[v].rec \in cids[job[v].peer]
    BY <1>7 DEF IInv, RootRecorded
  <2> QED
    BY <2>1, <2>2
<1> HIDE DEF p, root, gone
<1>8. ASSUME NEW n \in Node, NEW c \in CID
      PROVE  Stays(n, c)' <=> Stays(n, c) /\ c \notin gone
  BY <1>5, <1>6 DEF Stays
<1>9. Awaited' = Awaited \cup {root}
  BY <1>6 DEF Awaited, root
<1>10. Awaited \cap gone = {}
  BY <1>7 DEF Awaited
<1>11. Lasting' = Lasting \ gone
  BY <1>8 DEF Lasting
<1>12. Kept' = (Kept \ gone) \cup {root}
  BY <1>9, <1>10, <1>11, KeptIs
<1>13. gone = Atomic!LetGo(p, graph)
  BY DEF gone, Atomic!LetGo
<1>14. Atomic!Crawl(p)
  BY <1>1, <1>2, <1>4, <1>12, <1>13 DEF Atomic!Crawl
<1> QED
  BY <1>2, <1>14 DEF p

LEMMA NextIsAtomic == SInv /\ IInv /\ [Next]_vars => [Atomic!Next]_(Atomic!vars)
<1> SUFFICES ASSUME SInv, IInv, [Next]_vars PROVE [Atomic!Next]_(Atomic!vars)
  OBVIOUS
<1> USE DEF Atomic!Next, Atomic!vars
<1>1. CASE UNCHANGED vars
  BY <1>1 DEF vars, Kept
<1>2. CASE mishaps' # {}
  BY <1>2 DEF Atomic!GoesWrong
<1>3. CASE Next /\ mishaps' = {}
  <2>1. mishaps = {}
    BY <1>3, HistoryGrows
  <2>2. CASE \A w \in Worker : ~Commits(w)
    BY <1>3, <2>1, <2>2, OtherStepsKeep
  <2>3. ASSUME NEW w \in Worker, Commits(w) PROVE \E p \in Peer : Atomic!Crawl(p)
    BY <1>3, <2>1, <2>3, CommitIsCrawl
  <2> QED
    BY <2>2, <2>3
<1> QED
  BY <1>1, <1>2, <1>3

\* As long as nothing goes wrong, the workers, their pinning and their unpinning
\* implement crawls that happen all at once: for any number of peers, nodes and
\* workers, a root is kept exactly if a crawl has put it there and no later one
\* has let it go.
THEOREM AtomicCrawls == Spec => CrawlsAreAtomic
<1>1. Init => Atomic!Init
  BY DEF Init, Atomic!Init, Kept
<1> QED
  BY <1>1, NextIsAtomic, InitSInv, NextSInv, Inductive, PTL
  DEF Spec, CrawlsAreAtomic, Atomic!Spec
=============================================================================
