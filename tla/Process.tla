------------------------------ MODULE Process ------------------------------
(***************************************************************************)
(* The life of the process (obcrawler.go:13-43): LoadConfig and NewCrawler *)
(* as in Startup; Start; the loop and the workers as in Dispatch; Stop     *)
(* after a signal (crawler/crawler.go:260-265, 373-389), while the pubsub  *)
(* handler closes its subscriptions (crawler/pubsub.go:51-57); the exit.   *)
(* The next process finds the files and the tables as they were left.      *)
(***************************************************************************)
EXTENDS Startup, Dispatch

CONSTANT Node    \* the IPFS nodes

VARIABLE running    \* the nodes that have been started and not stopped

vars == <<phase, files, dispatchVars, running>>

TypeOK ==
  /\ FilesTypeOK
  /\ DispatchTypeOK
  /\ running \subseteq Node
  /\ running # {} => phase \in {"up", "stopping"}
  /\ (loop = "ended" \/ \E w \in Worker : at[w] = "ended") => phase = "stopping"

Init ==
  /\ FilesInit
  /\ DispatchInit
  /\ running = {}

\* The process is gone, and with it every goroutine.
End ==
  /\ phase' = "down"
  /\ running' = {}
  /\ Fresh
  /\ UNCHANGED <<files, table>>

-----------------------------------------------------------------------------
Load ==
  /\ LoadStep
  /\ UNCHANGED <<dispatchVars, running>>

\* Start: every node, the select loop, the workers, and listenPubsub last.
Start ==
  /\ NewCrawlerSucceeds
  /\ phase' = "up"
  /\ running' = Node
  /\ UNCHANGED <<files, dispatchVars>>

\* A node does not take the pubsub subscription: log.Fatal ends the process.
StartFails ==
  /\ NewCrawlerSucceeds
  /\ phase' = "down"
  /\ UNCHANGED <<files, dispatchVars, running>>

\* The goroutines of Dispatch run from Start until the process ends.
Runs(step) ==
  /\ phase \in {"up", "stopping"}
  /\ step
  /\ UNCHANGED <<phase, files, running>>

\* A signal: Stop closes the channel shutdown.
Signal ==
  /\ phase = "up"
  /\ phase' = "stopping"
  /\ UNCHANGED <<files, dispatchVars, running>>

\* The loop and the workers see it when they next come to their select.
Retire ==
  /\ phase = "stopping"
  /\ LoopEnds \/ \E w \in Worker : WorkerEnds(w)
  /\ UNCHANGED <<phase, files, running>>

StopNode(n) ==
  /\ phase = "stopping"
  /\ n \in running
  /\ running' = running \ {n}
  /\ UNCHANGED <<phase, files, dispatchVars>>

\* A node cannot be stopped: Stop returns its error and leaves the others.
StopNodeFails ==
  /\ phase = "stopping"
  /\ running # {}
  /\ End

Exit ==
  /\ phase = "stopping"
  /\ running = {}
  /\ End

\* The pubsub handler sees the shutdown too.  The slice of subscriptions it ranges
\* over starts with nil entries, numPubsub of them: the first Close panics, which
\* ends the process wherever Stop is.
HandlerPanics ==
  /\ phase = "stopping"
  /\ End

Killed ==
  /\ phase \in {"up", "stopping"}
  /\ End

Next ==
  \/ Load \/ Start \/ StartFails
  \/ Runs(DispatchStep) \/ Retire
  \/ Signal \/ (\E n \in Node : StopNode(n)) \/ StopNodeFails \/ Exit
  \/ HandlerPanics \/ Killed

Spec == Init /\ [][Next]_vars

\* Goroutines keep running; a crawl ends, since each of its calls has a timeout
\* or ends by itself, and so does FindPeer (external).  select chooses at random
\* among the cases that are ready, so that a case that is ready again and again
\* is taken: strong fairness for the ticker.  The transaction that saves a peer
\* does not fail for ever.
Fairness ==
  /\ SF_vars(Runs(OldNodeTick))
  /\ WF_vars(Runs(FindPeerReturns))
  /\ \A w \in Worker : WF_vars(Runs(Take(w) \/ Crawl(w) \/ Save(w) \/ SaveFails(w)))
  /\ \A p \in Peer : SF_vars(Runs(\E w \in Worker : busy[w] = p /\ Save(w)))

FairSpec == Spec /\ Fairness

-----------------------------------------------------------------------------
\* No peer starves: while the crawler is up, a peer that is due is crawled, and
\* LastCrawled saved, however many peers are ahead of it, whether their crawls
\* fail, and however far the ticker runs ahead of the workers
\* (crawler.go:294-329, worker.go:60-86).
DueIsCrawled ==
  \A p \in Peer : phase = "up" /\ Due(p) ~> phase # "up" \/ ~Due(p)

\* No job is passed over: whatever a goroutine has to send, for the ticker, for
\* CrawlNode or for the pubsub handler, comes to a worker, although it lines up
\* behind all the others after each job of its list (crawler.go:309-329,
\* worker.go:42-51).
QueuedIsCrawled ==
  \A p \in Peer : phase = "up" /\ Queued(p) ~> phase # "up" \/ InCrawl(p)
=============================================================================
