------------------------------ MODULE Crawler ------------------------------
(***************************************************************************)
(* The crawl pipeline of obcrawler (crawler/crawler.go, worker.go and the  *)
(* job-producing end of pubsub.go): the Peer and CIDRecord tables, the     *)
(* goroutines waiting to send a job on workChan, the workers running       *)
(* processJob, the pin sets of the IPFS nodes, and the two loops that      *)
(* unpin content outside a crawl (BanNode and the hourly unpin ticker).    *)
(*                                                                         *)
(* An IPNS record is represented by its value, the root CID it points to:  *)
(* the code compares records by value only.  The file graph under a root   *)
(* is immutable, so it is a constant.  The goroutines blocked on workChan  *)
(* and those running an unpin loop occupy slots (Sender, Unpinner); the    *)
(* number of slots bounds a model, the code has no such bound.             *)
(***************************************************************************)
EXTENDS Naturals, FiniteSets

CONSTANTS
  Peer,        \* OpenBazaar peers
  Node,        \* IPFS nodes embedded in the crawler
  CID,         \* content identifiers
  Worker,      \* worker goroutines
  Sender,      \* slots for goroutines blocked in c.workChan <- job
  Unpinner,    \* slots for goroutines running an unpin loop
  Published,   \* Published[p]: the roots that p's records ever point to
  Graph,       \* Graph[c]: the CIDs reachable from c, c included
  Limit,       \* the LIMIT of the two ticker queries (10 in the code)
  PinFiles,    \* !cfg.DisableFilePinning
  Events,      \* the optional events a model includes, see AllEvents
  NoRec,       \* a nil IPNSRecord
  NoJob        \* the job of an idle worker

AllEvents == {"ban", "oldnodes", "sweep", "elapse", "connect", "restart", "ipfs", "db"}

Job == [peer : Peer, rec : CID \cup {NoRec}, fetch : BOOLEAN]

ASSUME ConstantsAssumption ==
  /\ Published \in [Peer -> SUBSET CID]
  /\ Graph \in [CID -> SUBSET CID]
  /\ \A c \in CID : c \in Graph[c]
  /\ \A c \in CID : \A d \in Graph[c] : Graph[d] \subseteq Graph[c]
  /\ Limit \in Nat
  /\ PinFiles \in BOOLEAN
  /\ Events \subseteq AllEvents
  /\ NoRec \notin CID
  /\ NoJob \notin Job

VARIABLES
  peers,     \* the Peer table, the columns a query reads
  cids,      \* the CIDRecord table: the live rows of each peer
  pins,      \* pins[n]: the CIDs pinned recursively at node n (external)
  sender,    \* sender[s]: the jobs the goroutine in slot s has yet to send
  pc,        \* where each worker is in processJob
  job,       \* the job each worker is processing
  todo,      \* todo[w]: the unpin calls worker w has yet to make (toUnpin)
  unpinner,  \* unpinner[u]: the unpin loop running in slot u
  mishaps,   \* history: what happened so far that can harm the bookkeeping
  exposed    \* history: the recorded CIDs that may have lost their pin, or never
             \* got it, and that no crawl has pinned since

durable == <<peers, cids, pins>>
crawl == <<pc, job, todo>>
history == <<mishaps, exposed>>
vars == <<peers, cids, pins, sender, pc, job, todo, unpinner, mishaps, exposed>>

-----------------------------------------------------------------------------
(* The tables and the slots *)

\* A row of the Peer table.  Times are kept as what the queries ask of them:
\* live: IPNSExpiration is ahead; due: LastCrawled is more than a week back;
\* seen: LastSeen is less than 90 days back.  known: the row exists.
Row == [known : BOOLEAN, banned : BOOLEAN, rec : CID \cup {NoRec},
        live : BOOLEAN, due : BOOLEAN, seen : BOOLEAN]

NoRow == [known |-> FALSE, banned |-> FALSE, rec |-> NoRec,
          live |-> FALSE, due |-> TRUE, seen |-> FALSE]

\* An unpin loop: the peers whose rows it has yet to load, and the calls
\* Pin().Rm it has yet to make, one per node and CID.
Loop == [peers : SUBSET Peer, calls : SUBSET (Node \X CID)]
NoLoop == [peers |-> {}, calls |-> {}]

\* What the history variable can hold; each action says when it adds one.
Mishaps == {"overlap", "race", "restart", "unanswered", "unpin", "pin", "purge",
            "unloaded", "undeleted"}

Note(mishap, happened) == IF happened THEN {mishap} ELSE {}

PCs == {"idle", "fetch", "load", "pin", "unpin", "finish"}

Types ==
  /\ peers \in [Peer -> Row]
  /\ cids \in [Peer -> SUBSET CID]
  /\ pins \in [Node -> SUBSET CID]
  /\ sender \in [Sender -> SUBSET Job]
  /\ pc \in [Worker -> PCs]
  /\ job \in [Worker -> Job \cup {NoJob}]
  /\ todo \in [Worker -> SUBSET (Node \X CID)]
  /\ unpinner \in [Unpinner -> Loop]
  /\ mishaps \subseteq Mishaps
  /\ exposed \subseteq CID

Busy(w) == pc[w] # "idle"
OnPeer(w, p) == Busy(w) /\ job[w].peer = p

\* The CIDs the workers other than w are about to unpin, and those anybody is.
ListedByOthers(w) == UNION {{x[2] : x \in todo[v]} : v \in Worker \ {w}}
Listed(c) ==
  \E n \in Node :
    \/ \E w \in Worker : <<n, c>> \in todo[w]
    \/ \E u \in Unpinner : <<n, c>> \in unpinner[u].calls

\* A worker at work has a job, with a record once it is past the fetch; and it
\* has unpin calls to make only between its transaction and its end.
JobInHand ==
  \A w \in Worker :
    /\ Busy(w) => job[w] \in Job
    /\ pc[w] \in {"load", "pin"} => job[w].rec \in CID
    /\ todo[w] # {} => pc[w] \in {"pin", "unpin"}

TypeOK == Types /\ JobInHand

Init ==
  /\ peers = [p \in Peer |-> NoRow]
  /\ cids = [p \in Peer |-> {}]
  /\ pins = [n \in Node |-> {}]
  /\ sender = [s \in Sender |-> {}]
  /\ pc = [w \in Worker |-> "idle"]
  /\ job = [w \in Worker |-> NoJob]
  /\ todo = [w \in Worker |-> {}]
  /\ unpinner = [u \in Unpinner |-> NoLoop]
  /\ mishaps = {}
  /\ exposed = {}

-----------------------------------------------------------------------------
(* Who puts a peer in the pipeline.  Each handler checks the ban and spawns *)
(* a goroutine that blocks on workChan: from then on nothing checks again.  *)

\* CrawlNode: the row may be missing, a banned peer is refused.
CrawlNode(s, p) ==
  /\ sender[s] = {}
  /\ ~peers[p].banned
  /\ sender' = [sender EXCEPT ![s] = {[peer |-> p, rec |-> NoRec, fetch |-> TRUE]}]
  /\ UNCHANGED <<durable, crawl, unpinner, history>>

\* The pubsub handler for a valid, not recently seen message carrying v: one
\* transaction upserts the row and reads the ban; unless banned, a job is sent.
Publish(s, p, v) ==
  /\ peers' = [peers EXCEPT ![p] = [@ EXCEPT !.known = TRUE, !.seen = TRUE,
                                             !.live = TRUE, !.rec = v]]
  /\ IF peers[p].banned
     THEN UNCHANGED sender
     ELSE /\ sender[s] = {}
          /\ sender' = [sender EXCEPT ![s] = {[peer |-> p, rec |-> v, fetch |-> FALSE]}]
  /\ UNCHANGED <<cids, pins, crawl, unpinner, history>>

\* The same handler when the transaction fails: the error is only logged.  If
\* the row could not even be read, banned keeps its initial value FALSE.
PublishUnsaved(s, p, v) ==
  /\ "db" \in Events
  /\ sender[s] = {}
  /\ sender' = [sender EXCEPT ![s] = {[peer |-> p, rec |-> v, fetch |-> FALSE]}]
  /\ UNCHANGED <<durable, crawl, unpinner, history>>

\* What a ticker query with LIMIT returns from the rows that match.  The order
\* of the rows is left open, so the goroutine's list is a set.
LimitedTo(matching, result) ==
  /\ result \subseteq matching
  /\ Cardinality(result) <= Limit
  /\ result = matching \/ Cardinality(result) = Limit

OldNodesIgnoringBan(s) ==
  /\ "oldnodes" \in Events
  /\ sender[s] = {}
  /\ \E p \in Peer :
       /\ peers[p].known /\ peers[p].live /\ peers[p].due /\ peers[p].seen
       /\ sender' = [sender EXCEPT ![s] = {[peer |-> p, rec |-> peers[p].rec, fetch |-> TRUE]}]
  /\ UNCHANGED <<durable, crawl, unpinner, history>>

\* The case of oldNodeTicker: live, unbanned peers not crawled for a week.
OldNodes(s) ==
  LET matching == {p \in Peer : /\ peers[p].known /\ ~peers[p].banned /\ peers[p].live
                                /\ peers[p].due /\ peers[p].seen}
  IN /\ "oldnodes" \in Events
     /\ sender[s] = {}
     /\ matching # {}
     /\ \E ps \in SUBSET matching :
          /\ LimitedTo(matching, ps)
          /\ sender' = [sender EXCEPT ![s] =
                {[peer |-> p, rec |-> peers[p].rec, fetch |-> TRUE] : p \in ps}]
     /\ UNCHANGED <<durable, crawl, unpinner, history>>

\* updatePeer, called by libp2p when a connection opens or closes.
Connected(p) ==
  /\ "connect" \in Events
  /\ peers' = [peers EXCEPT ![p] = [@ EXCEPT !.known = TRUE, !.seen = TRUE]]
  /\ UNCHANGED <<cids, pins, sender, crawl, unpinner, history>>

\* Time passes one of the thresholds the queries compare with.
Elapse(p) ==
  /\ "elapse" \in Events
  /\ peers[p].known
  /\ \/ peers' = [peers EXCEPT ![p].due = TRUE]
     \/ peers' = [peers EXCEPT ![p].live = FALSE]
     \/ peers' = [peers EXCEPT ![p].seen = FALSE]
  /\ UNCHANGED <<cids, pins, sender, crawl, unpinner, history>>

-----------------------------------------------------------------------------
(* processJob *)

\* The select of worker(): receive a job from any goroutine blocked on workChan.
Take(w, s) ==
  /\ pc[w] = "idle"
  /\ \E j \in sender[s] :
       /\ sender' = [sender EXCEPT ![s] = @ \ {j}]
       /\ job' = [job EXCEPT ![w] = j]
       /\ mishaps' = mishaps \cup Note("overlap", \E v \in Worker : OnPeer(v, j.peer))
  /\ pc' = [pc EXCEPT ![w] = "fetch"]
  /\ UNCHANGED <<durable, todo, unpinner, exposed>>

NeedsFetch(j) == j.fetch \/ j.rec = NoRec

\* The job carries a record and does not ask for a newer one.
UseRecord(w) ==
  /\ pc[w] = "fetch"
  /\ ~NeedsFetch(job[w])
  /\ pc' = [pc EXCEPT ![w] = "load"]
  /\ UNCHANGED <<durable, sender, job, todo, unpinner, history>>

FetchNewDropped(w) ==
  /\ pc[w] = "fetch"
  /\ NeedsFetch(job[w])
  /\ Published[job[w].peer] \ {job[w].rec} # {}
  /\ pc' = [pc EXCEPT ![w] = "load"]
  /\ UNCHANGED <<durable, sender, job, todo, unpinner, history>>

\* fetchIPNSRecord may return any record of the peer, since the quorum does
\* not promise the latest one.
FetchNew(w) ==
  /\ pc[w] = "fetch"
  /\ NeedsFetch(job[w])
  /\ \E v \in Published[job[w].peer] \ {job[w].rec} : job' = [job EXCEPT ![w].rec = v]
  /\ pc' = [pc EXCEPT ![w] = "load"]
  /\ UNCHANGED <<durable, sender, todo, unpinner, history>>

\* The fetched record has the value the job already carries: the crawl ends.
FetchUnchanged(w) ==
  /\ pc[w] = "fetch"
  /\ NeedsFetch(job[w])
  /\ job[w].rec \in Published[job[w].peer]
  /\ pc' = [pc EXCEPT ![w] = "finish"]
  /\ UNCHANGED <<durable, sender, job, todo, unpinner, history>>

\* No record is found, or its expiration cannot be read.
FetchFails(w) ==
  /\ pc[w] = "fetch"
  /\ NeedsFetch(job[w])
  /\ pc' = [pc EXCEPT ![w] = "finish"]
  /\ UNCHANGED <<durable, sender, job, todo, unpinner, history>>

\* The root node cannot be loaded (dagGet times out), its links cannot be
\* resolved, or the transaction on the CID table is rolled back, by a failing
\* statement or a failing commit.
CrawlFails(w) ==
  /\ pc[w] = "load"
  /\ pc' = [pc EXCEPT ![w] = "finish"]
  /\ UNCHANGED <<durable, sender, job, todo, unpinner, history>>

\* What ends up in graph: everything under the root, or, when fetchGraph fails
\* midway, some of it.  The root itself is always appended.
Crawled(root) ==
  {g \in SUBSET Graph[root] : root \in g /\ (g = Graph[root] \/ "ipfs" \in Events)}

\* The diff of the transaction: old rows whose CID is not in the new graph.
DroppedIgnoringNew(old, graph) == old
Dropped(old, graph) == old \ graph

\* The rows p is left with: a row per CID of the graph is saved, and the row of
\* every dropped CID is deleted.
RowsAfter(p, deleted, graph) == (cids[p] \ deleted) \cup graph

\* toUnpin: the dropped CIDs no other peer has a row for.  Each is unpinned at
\* every node.
ToUnpinAll(p, dropped) == Node \X dropped
ToUnpinOwnRows(p, dropped) == Node \X (dropped \ UNION {cids[q] : q \in Peer})
ToUnpin(p, dropped) == Node \X (dropped \ UNION {cids[q] : q \in Peer \ {p}})

\* The transaction on the CID table, with the graph that was crawled, the old
\* rows it could load and the rows it could not delete: both failures are only
\* logged.  It may record what another worker has found to be nobody's and is
\* about to unpin; and unless its commit is answered, nobody will pin its root.
Transaction(w, graph, old, undeleted, answered) ==
  LET p == job[w].peer
      races == graph \cap ListedByOthers(w)
  IN /\ undeleted \subseteq Dropped(old, graph)
     /\ old # cids[p] \/ undeleted # {} => "db" \in Events
     /\ cids' = [cids EXCEPT ![p] = RowsAfter(p, Dropped(old, graph) \ undeleted, graph)]
     /\ mishaps' = mishaps \cup Note("unloaded", old # cids[p])
                          \cup Note("undeleted", undeleted # {})
                          \cup Note("race", races # {})
                          \cup Note("unanswered", ~answered)
     /\ exposed' = exposed \cup undeleted \cup races
                          \cup (IF answered THEN {} ELSE {job[w].rec})

\* It commits, and processJob goes on with the CIDs it is to unpin.
Commit(w) ==
  /\ pc[w] = "load"
  /\ LET p == job[w].peer
     IN \E graph \in Crawled(job[w].rec), old \in {cids[p], {}}, undeleted \in SUBSET cids[p] :
          /\ Transaction(w, graph, old, undeleted, TRUE)
          /\ todo' = [todo EXCEPT ![w] = ToUnpin(p, Dropped(old, graph))]
  /\ pc' = [pc EXCEPT ![w] = "pin"]
  /\ UNCHANGED <<peers, pins, sender, job, unpinner>>

\* It commits, but Update returns an error, such as a lost connection: processJob
\* returns, although the rows are the new ones, and its list is lost.
CommitUnanswered(w) ==
  /\ pc[w] = "load"
  /\ "db" \in Events
  /\ LET p == job[w].peer
     IN \E graph \in Crawled(job[w].rec), old \in {cids[p], {}}, undeleted \in SUBSET cids[p] :
          Transaction(w, graph, old, undeleted, FALSE)
  /\ pc' = [pc EXCEPT ![w] = "finish"]
  /\ UNCHANGED <<peers, pins, sender, job, todo, unpinner>>

\* Pin the root recursively at the node drawn for this job.
Pin(w) ==
  /\ pc[w] = "pin"
  /\ PinFiles
  /\ \E n \in Node : pins' = [pins EXCEPT ![n] = @ \cup {job[w].rec}]
  /\ pc' = [pc EXCEPT ![w] = "unpin"]
  /\ exposed' = {c \in exposed : c # job[w].rec \/ Listed(c)}
  /\ UNCHANGED <<peers, cids, sender, job, todo, unpinner, mishaps>>

\* Pinning is disabled, or it times out, which is only logged.
PinSkipped(w) ==
  /\ pc[w] = "pin"
  /\ PinFiles => "ipfs" \in Events
  /\ pc' = [pc EXCEPT ![w] = "unpin"]
  /\ mishaps' = mishaps \cup {"pin"}
  /\ exposed' = exposed \cup {job[w].rec}
  /\ UNCHANGED <<durable, sender, job, todo, unpinner>>

\* NewCoreAPI fails: processJob returns, neither pinning nor unpinning.
NoCoreAPI(w) ==
  /\ pc[w] = "pin"
  /\ "ipfs" \in Events
  /\ pc' = [pc EXCEPT ![w] = "finish"]
  /\ todo' = [todo EXCEPT ![w] = {}]
  /\ mishaps' = mishaps \cup {"pin"} \cup Note("unpin", todo[w] # {})
  /\ exposed' = exposed \cup {job[w].rec}
  /\ UNCHANGED <<durable, sender, job, unpinner>>

\* One Pin().Rm call: it removes the recursive pin of c at n, if there is one.
Rm(n, c) == pins' = [pins EXCEPT ![n] = @ \ {c}]

\* The loop over toUnpin, one Rm call at a time; errors are ignored.
UnpinOld(w) ==
  /\ pc[w] = "unpin"
  /\ \E x \in todo[w] :
       /\ todo' = [todo EXCEPT ![w] = @ \ {x}]
       /\ \/ Rm(x[1], x[2]) /\ UNCHANGED mishaps
          \/ /\ "ipfs" \in Events
             /\ mishaps' = mishaps \cup {"unpin"}
             /\ UNCHANGED pins
  /\ UNCHANGED <<peers, cids, sender, pc, job, unpinner, exposed>>

\* The same CID again: every crawl that carries a CID forward inserts one more
\* row for it, and toUnpin has an entry per row.  Rows are kept as a set here,
\* so how often a call is repeated is left open.
UnpinAgain(w) ==
  /\ pc[w] = "unpin"
  /\ \E x \in todo[w] : Rm(x[1], x[2])
  /\ UNCHANGED <<peers, cids, sender, crawl, unpinner, history>>

UnpinAbandoned(w) ==
  /\ pc[w] = "unpin"
  /\ pc' = [pc EXCEPT ![w] = "finish"]
  /\ UNCHANGED <<durable, sender, job, todo, unpinner, history>>

\* The loop is over once every call has been made.
UnpinDone(w) ==
  /\ pc[w] = "unpin"
  /\ todo[w] = {}
  /\ pc' = [pc EXCEPT ![w] = "finish"]
  /\ UNCHANGED <<durable, sender, job, todo, unpinner, history>>

\* The deferred function.  LastCrawled is saved in the row the query found;
\* for a peer without a row the save goes to a row with an empty PeerID, which
\* no query of the crawler selects.
Finish(w) ==
  /\ pc[w] = "finish"
  /\ \/ peers' = [peers EXCEPT ![job[w].peer].due = @ /\ ~peers[job[w].peer].known]
     \/ "db" \in Events /\ UNCHANGED peers
  /\ pc' = [pc EXCEPT ![w] = "idle"]
  /\ job' = [job EXCEPT ![w] = NoJob]
  /\ UNCHANGED <<cids, pins, sender, todo, unpinner, history>>

-----------------------------------------------------------------------------
(* Bans and the unpin ticker *)

\* A loop has loaded the rows it will unpin.
Purge(rows) ==
  /\ mishaps' = mishaps \cup Note("purge", rows # {})
  /\ exposed' = exposed \cup rows

BanNodeDeletingRows(u, p) ==
  /\ "ban" \in Events
  /\ unpinner[u] = NoLoop
  /\ peers' = [peers EXCEPT ![p] = [@ EXCEPT !.known = TRUE, !.banned = TRUE]]
  /\ unpinner' = [unpinner EXCEPT ![u] = [peers |-> {}, calls |-> Node \X cids[p]]]
  /\ cids' = [cids EXCEPT ![p] = {}]
  /\ Purge(cids[p])
  /\ UNCHANGED <<pins, sender, crawl>>

BanNodeLoadingAll(u, p) ==
  /\ "ban" \in Events
  /\ unpinner[u] = NoLoop
  /\ peers' = [peers EXCEPT ![p] = [@ EXCEPT !.known = TRUE, !.banned = TRUE]]
  /\ unpinner' = [unpinner EXCEPT ![u] = [peers |-> {},
                                         calls |-> Node \X UNION {cids[q] : q \in Peer}]]
  /\ Purge(cids[p])
  /\ UNCHANGED <<cids, pins, sender, crawl>>

\* BanNode: one transaction marks the row, creating it if need be, and loads
\* the peer's CIDs; the loop over them runs after the commit.
BanNode(u, p) ==
  /\ "ban" \in Events
  /\ unpinner[u] = NoLoop
  /\ peers' = [peers EXCEPT ![p] = [@ EXCEPT !.known = TRUE, !.banned = TRUE]]
  /\ unpinner' = [unpinner EXCEPT ![u] = [peers |-> {}, calls |-> Node \X cids[p]]]
  /\ Purge(cids[p])
  /\ UNCHANGED <<cids, pins, sender, crawl>>

\* The same when the commit is answered by an error: BanNode returns it, and the
\* banned peer keeps its pins.
BanUnanswered(p) ==
  /\ "ban" \in Events
  /\ peers' = [peers EXCEPT ![p] = [@ EXCEPT !.known = TRUE, !.banned = TRUE]]
  /\ UNCHANGED <<cids, pins, sender, crawl, unpinner, history>>

UnbanNode(p) ==
  /\ "ban" \in Events
  /\ peers' = [peers EXCEPT ![p] = [@ EXCEPT !.known = TRUE, !.banned = FALSE]]
  /\ UNCHANGED <<cids, pins, sender, crawl, unpinner, history>>

\* The case of unPinTicker: the peers its query selects are those with an
\* unexpired record that were seen in the last 90 days.
UnPinTick(u) ==
  LET matching == {p \in Peer : peers[p].known /\ peers[p].live /\ peers[p].seen}
  IN /\ "sweep" \in Events
     /\ unpinner[u] = NoLoop
     /\ matching # {}
     /\ \E ps \in SUBSET matching :
          /\ LimitedTo(matching, ps)
          /\ unpinner' = [unpinner EXCEPT ![u] = [peers |-> ps, calls |-> {}]]
     /\ UNCHANGED <<durable, sender, crawl, history>>

LoadRowsOfAll(u, p) ==
  /\ unpinner[u].calls = {}
  /\ p \in unpinner[u].peers
  /\ unpinner' = [unpinner EXCEPT ![u] = [peers |-> @.peers \ {p},
                                         calls |-> Node \X UNION {cids[q] : q \in Peer}]]
  /\ Purge(cids[p])
  /\ UNCHANGED <<durable, sender, crawl>>

\* The ticker's goroutine moves to its next peer and loads the peer's rows.
LoadRows(u, p) ==
  /\ unpinner[u].calls = {}
  /\ p \in unpinner[u].peers
  /\ unpinner' = [unpinner EXCEPT ![u] = [peers |-> @.peers \ {p}, calls |-> Node \X cids[p]]]
  /\ Purge(cids[p])
  /\ UNCHANGED <<durable, sender, crawl>>

\* The next Rm call of an unpin loop; its error is ignored.
Unpin(u) ==
  /\ \E x \in unpinner[u].calls :
       /\ unpinner' = [unpinner EXCEPT ![u].calls = @ \ {x}]
       /\ Rm(x[1], x[2]) \/ ("ipfs" \in Events /\ UNCHANGED pins)
  /\ UNCHANGED <<peers, cids, sender, crawl, history>>

\* A call repeated for a CID that has several rows.
UnpinRowAgain(u) ==
  /\ \E x \in unpinner[u].calls : Rm(x[1], x[2])
  /\ UNCHANGED <<peers, cids, sender, crawl, unpinner, history>>

-----------------------------------------------------------------------------
\* The process crashes, or Stop is called and main exits (it waits for no
\* goroutine), and it is started again: only the tables and the pins survive.
Restart ==
  /\ "restart" \in Events
  /\ sender' = [s \in Sender |-> {}]
  /\ pc' = [w \in Worker |-> "idle"]
  /\ job' = [w \in Worker |-> NoJob]
  /\ todo' = [w \in Worker |-> {}]
  /\ unpinner' = [u \in Unpinner |-> NoLoop]
  /\ mishaps' = mishaps \cup Note("restart", \E w \in Worker : pc[w] \in {"pin", "unpin"})
  /\ exposed' = exposed \cup {job[w].rec : w \in {v \in Worker : pc[v] = "pin"}}
  /\ UNCHANGED durable

WorkerStep(w) ==
  \/ UseRecord(w) \/ FetchNew(w) \/ FetchUnchanged(w) \/ FetchFails(w)
  \/ CrawlFails(w) \/ Commit(w) \/ CommitUnanswered(w)
  \/ Pin(w) \/ PinSkipped(w) \/ NoCoreAPI(w)
  \/ UnpinOld(w) \/ UnpinDone(w) \/ Finish(w)

LoopStep(u) == Unpin(u) \/ \E p \in Peer : LoadRows(u, p)

Next ==
  \/ \E s \in Sender, p \in Peer : CrawlNode(s, p)
  \/ \E s \in Sender, p \in Peer : \E v \in Published[p] : Publish(s, p, v)
  \/ \E s \in Sender, p \in Peer : \E v \in Published[p] : PublishUnsaved(s, p, v)
  \/ \E s \in Sender : OldNodes(s)
  \/ \E p \in Peer : Connected(p) \/ Elapse(p) \/ BanUnanswered(p) \/ UnbanNode(p)
  \/ \E u \in Unpinner, p \in Peer : BanNode(u, p)
  \/ \E u \in Unpinner : UnPinTick(u)
  \/ \E w \in Worker, s \in Sender : Take(w, s)
  \/ \E w \in Worker : WorkerStep(w) \/ UnpinAgain(w)
  \/ \E u \in Unpinner : LoopStep(u) \/ UnpinRowAgain(u)
  \/ Restart

Spec == Init /\ [][Next]_vars

\* A goroutine scheduled by the Go runtime keeps running, and every call it
\* makes returns: cat, dagGet and Pin().Add have a timeout, the DHT and listing
\* calls of the libraries end by themselves, and notifySubscribers has nobody
\* to wait for (no subscription is open in this module).  Goroutines blocked on a
\* channel are served first in, first out, so a slot cannot be overtaken for
\* ever: strong fairness per slot.  A CID has finitely many rows, so no
\* fairness is given to the repeated calls.
Fairness ==
  /\ \A w \in Worker : WF_vars(WorkerStep(w))
  /\ \A s \in Sender : SF_vars(\E w \in Worker : Take(w, s))
  /\ \A u \in Unpinner : WF_vars(LoopStep(u))

FairSpec == Spec /\ Fairness

-----------------------------------------------------------------------------
(* Safety *)

Recorded(c) == \E p \in Peer : c \in cids[p]
Retained == UNION {Graph[c] : c \in UNION {pins[n] : n \in Node}}

\* No pin is orphaned: whatever a node pins has a row in the CIDRecord table or
\* is on a worker's unpin list, so that some later crawl can still unpin it.
\* Only four events can leave an orphan behind: two crawls of one peer at a
\* time, the process ending between the transaction and the last Rm call, a
\* transaction that commits and is answered by an error, and a failing unpin
\* (worker.go:214-301).
PinnedIsRecorded ==
  mishaps \cap {"overlap", "restart", "unanswered", "unpin"} = {} =>
    \A n \in Node : \A c \in pins[n] :
      Recorded(c) \/ \E w \in Worker : <<n, c>> \in todo[w]

\* p has recorded c under a root that is exposed.
Lost(p, c) == \E root \in cids[p] \cap exposed : c \in Graph[root]

\* Nothing recorded is lost: outside the moments between a transaction and its
\* pin, and however the crawls of one peer, or of peers that share content,
\* interleave, all the content recorded for a peer is kept by a recursive pin.
\* Only a root of that content that is exposed may leave it unkept, and only until
\* a crawl pins that root again: a ban or the ticker listed it, a pin failed or
\* the process ended before it, the answer to its commit was missing, its row
\* could not be deleted, or it was recorded while another crawl was about to
\* unpin it (worker.go:238-301, crawler.go:204-213, 343-361).
ContentRetained ==
  \A p \in Peer :
    (\A w \in Worker : ~(OnPeer(w, p) /\ pc[w] = "pin")) =>
      \A c \in cids[p] : c \in Retained \/ Lost(p, c)

\* A root somebody's rows name is not unpinned, however the crawls, the bans and
\* the ticker interleave, unless it is exposed: a loop of a ban or of the ticker
\* found it among the rows of its own peer, or its row came between the check that
\* found it to be nobody's and the call, or outlived its deletion
\* (worker.go:252-262, 291-301, crawler.go:204-213, 343-361).
UnpinSparesRecorded ==
  [][\A n \in Node : \A c \in pins[n] \ pins'[n] : Recorded(c) => c \in exposed]_vars

-----------------------------------------------------------------------------
(* The abstract specification *)

\* A root is kept if some node pins it and no worker is about to unpin it there,
\* or if a worker is about to pin it.
Kept ==
  {c \in CID : \E n \in Node : c \in pins[n] /\ \A w \in Worker : <<n, c>> \notin todo[w]}
    \cup {job[w].rec : w \in {v \in Worker : pc[v] = "pin"}}

\* Until the first mishap, a crawl behaves as if it happened at the commit of its
\* transaction: whatever the other workers do meanwhile, pinning the new root
\* and unpinning the dropped ones adds or removes nothing more
\* (worker.go:214-301).
Atomic == INSTANCE Catalogue WITH content <- cids, kept <- Kept, sound <- (mishaps = {})

CrawlsAreAtomic == Atomic!Spec

-----------------------------------------------------------------------------
(* Liveness, under FairSpec *)

\* A ban takes hold: once a peer stays banned, the jobs accepted for it before
\* the ban run out and it is never crawled again (crawler.go:163, 297;
\* pubsub.go:120).
BanTakesHold ==
  \A p \in Peer :
    <>[]peers[p].banned => <>[](\A w \in Worker : ~OnPeer(w, p))

\* A pin nobody's rows name any more does not stay: it is removed, or some crawl
\* records its root again.  The same four events as above can make it stay
\* (worker.go:218-219, 291-301).
StalePinsGo ==
  \A n \in Node, c \in CID :
    c \in pins[n] /\ ~Recorded(c) ~>
      \/ c \notin pins[n] \/ Recorded(c)
      \/ mishaps \cap {"overlap", "restart", "unanswered", "unpin"} # {}

-----------------------------------------------------------------------------
(* What comments of the code claim and the code does not do.  Each is the    *)
(* property of one run that TLC must find violated.                          *)

\* worker.go:218: "Unpin any CIDs that are not carrying forward.  This will make
\* them available to be garbage collected."  When no worker is in a job, every
\* pin has a row.
NoOrphanPins ==
  (\A w \in Worker : ~Busy(w)) => \A n \in Node : \A c \in pins[n] : Recorded(c)

\* repo/config.go:72: "By default the crawler will download, cache, and seed node
\* data".  A crawl stops at an unchanged record only if that record's root has
\* been crawled, or another job of the peer is still to be processed.
UnchangedWasCrawled ==
  [][\A w \in Worker : FetchUnchanged(w) =>
       \/ job[w].rec \in cids[job[w].peer]
       \/ \E s \in Sender : \E j \in sender[s] : j.peer = job[w].peer
       \/ \E v \in Worker \ {w} : OnPeer(v, job[w].peer)]_vars
=============================================================================
