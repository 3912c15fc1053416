------------------------------ MODULE Dispatch ------------------------------
(***************************************************************************)
(* Who is crawled when: the select loop of Start with its tickers          *)
(* (crawler/crawler.go:266-372), the goroutines that each offer a list of  *)
(* jobs on the unbuffered workChan, and the workers (crawler/worker.go:    *)
(* 42-86).                                                                 *)
(*                                                                         *)
(* The peers are those the query of oldNodeTicker can select: unbanned,    *)
(* with a live record, seen lately.  Of LastCrawled it asks the order and  *)
(* whether it is more than a week back; the peers for which it is are the  *)
(* first in the order.                                                     *)
(***************************************************************************)
EXTENDS Naturals, FiniteSets, Sequences, SequencesExt

CONSTANTS
  Peer,
  Worker,
  Limit,       \* the LIMIT of the query, 10 in the code
  MaxSenders,  \* bound: goroutines that wait to send, none in the code
  NoPeer

ASSUME DispatchAssumption ==
  /\ IsFiniteSet(Peer)
  /\ Limit \in Nat \ {0}
  /\ MaxSenders \in Nat
  /\ NoPeer \notin Peer

VARIABLES
  byAge,     \* the peers, those crawled longest ago first (the Peer table)
  ndue,      \* how many of them are due: crawled more than a week ago
  loop,      \* the select loop
  senders,   \* the goroutines blocked on workChan, each with its list of peers
  busy,      \* busy[w]: the peer w crawls
  at         \* where w is

table == <<byAge, ndue>>
volatile == <<loop, senders, busy, at>>
dispatchVars == <<table, volatile>>

Due(p) == \E i \in 1 .. ndue : byAge[i] = p

DispatchTypeOK ==
  /\ byAge \in SetToSeqs(Peer)
  /\ ndue \in 0 .. Len(byAge)
  /\ loop \in {"select", "findpeer", "ended"}
  /\ Len(senders) <= MaxSenders
  /\ \A i \in DOMAIN senders :
       senders[i] # <<>> /\ \A j \in DOMAIN senders[i] : senders[i][j] \in Peer
  /\ busy \in [Worker -> Peer \cup {NoPeer}]
  /\ at \in [Worker -> {"select", "crawl", "save", "ended"}]
  /\ \A w \in Worker : busy[w] = NoPeer <=> at[w] \in {"select", "ended"}

\* Start: the loop and the workers come up.
Fresh ==
  /\ loop' = "select"
  /\ senders' = <<>>
  /\ busy' = [w \in Worker |-> NoPeer]
  /\ at' = [w \in Worker |-> "select"]

DispatchInit ==
  /\ byAge \in SetToSeqs(Peer)
  /\ ndue = 0
  /\ loop = "select"
  /\ senders = <<>>
  /\ busy = [w \in Worker |-> NoPeer]
  /\ at = [w \in Worker |-> "select"]

-----------------------------------------------------------------------------
(* The select loop *)

\* A week has passed since the next peer in the order was crawled.
Age ==
  /\ ndue < Len(byAge)
  /\ ndue' = ndue + 1
  /\ UNCHANGED <<byAge, volatile>>

\* Order("last_crawled asc").Limit(10)
Selected == SubSeq(byAge, 1, IF ndue < Limit THEN ndue ELSE Limit)

Queued(p) == \E i \in DOMAIN senders : Contains(senders[i], p)
InCrawl(p) == \E w \in Worker : busy[w] = p

\* oldNodeTicker fires: a goroutine sets out to send a job for each peer found,
\* whatever the goroutines of earlier ticks are still waiting with.
OldNodeTick ==
  /\ loop = "select"
  /\ Selected # <<>>
  /\ Len(senders) < MaxSenders
  /\ senders' = Append(senders, Selected)
  /\ UNCHANGED <<table, loop, busy, at>>

\* CrawlNode, or the pubsub handler, starts a goroutine with one job.  The bound
\* leaves a place to the ticker, whose goroutine nothing holds back in the code.
OtherJob(p) ==
  /\ Len(senders) + 1 < MaxSenders
  /\ senders' = Append(senders, <<p>>)
  /\ UNCHANGED <<table, loop, busy, at>>

\* crawlTicker fires: FindPeer runs in the loop itself, with a context nobody
\* cancels.
CrawlTick ==
  /\ loop = "select"
  /\ loop' = "findpeer"
  /\ UNCHANGED <<table, senders, busy, at>>

FindPeerReturns ==
  /\ loop = "findpeer"
  /\ loop' = "select"
  /\ UNCHANGED <<table, senders, busy, at>>

LoopEnds ==
  /\ loop = "select"
  /\ loop' = "ended"
  /\ UNCHANGED <<table, senders, busy, at>>

-----------------------------------------------------------------------------
(* The workers *)

TakeOnlyFirst(w) ==
  /\ at[w] = "select"
  /\ senders # <<>>
  /\ busy' = [busy EXCEPT ![w] = Head(Head(senders))]
  /\ at' = [at EXCEPT ![w] = "crawl"]
  /\ senders' = Tail(senders)
  /\ UNCHANGED <<table, loop>>

TakeRequeueing(w) ==
  /\ at[w] = "select"
  /\ senders # <<>>
  /\ busy' = [busy EXCEPT ![w] = Head(Head(senders))]
  /\ at' = [at EXCEPT ![w] = "crawl"]
  /\ senders' = Append(Tail(senders), Tail(Head(senders)))
  /\ UNCHANGED <<table, loop>>

\* A worker receives from the goroutine that has waited longest; the goroutine
\* lines up again with its next job, if it has one.
Take(w) ==
  LET rest == Tail(Head(senders))
  IN /\ at[w] = "select"
     /\ senders # <<>>
     /\ busy' = [busy EXCEPT ![w] = Head(Head(senders))]
     /\ at' = [at EXCEPT ![w] = "crawl"]
     /\ senders' = IF rest = <<>> THEN Tail(senders) ELSE Append(Tail(senders), rest)
     /\ UNCHANGED <<table, loop>>

Leave(w) ==
  /\ busy' = [busy EXCEPT ![w] = NoPeer]
  /\ at' = [at EXCEPT ![w] = "select"]
  /\ UNCHANGED <<loop, senders>>

CrawlSavingOnSuccess(w) ==
  /\ at[w] = "crawl"
  /\ \/ at' = [at EXCEPT ![w] = "save"] /\ UNCHANGED <<loop, senders, busy>>
     \/ Leave(w)
  /\ UNCHANGED table

\* processJob comes to one of its returns, whether the crawl succeeded or not.
Crawl(w) ==
  /\ at[w] = "crawl"
  /\ at' = [at EXCEPT ![w] = "save"]
  /\ UNCHANGED <<table, loop, senders, busy>>

\* The peer has been crawled just now.
Renew(p) ==
  /\ \E i \in DOMAIN byAge : byAge[i] = p /\ byAge' = Append(RemoveAt(byAge, i), p)
  /\ ndue' = IF Due(p) THEN ndue - 1 ELSE ndue

\* The deferred function saves LastCrawled.
Save(w) ==
  /\ at[w] = "save"
  /\ Renew(busy[w])
  /\ Leave(w)

\* The transaction fails, which is only logged.
SaveFails(w) ==
  /\ at[w] = "save"
  /\ UNCHANGED table
  /\ Leave(w)

WorkerEnds(w) ==
  /\ at[w] = "select"
  /\ at' = [at EXCEPT ![w] = "ended"]
  /\ UNCHANGED <<table, loop, senders, busy>>

DispatchStep ==
  \/ Age \/ OldNodeTick \/ CrawlTick \/ FindPeerReturns
  \/ \E p \in Peer : OtherJob(p)
  \/ \E w \in Worker : Take(w) \/ Crawl(w) \/ Save(w) \/ SaveFails(w)
=============================================================================
