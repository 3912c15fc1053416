# A TLA+ model of obcrawler

obcrawler embeds a number of IPFS nodes, learns which OpenBazaar peers exist,
downloads and pins their stores, streams profiles and listings to gRPC clients,
and unpins what is out of date. Everything interesting about it is bookkeeping
done by many goroutines at once: what is pinned at the nodes, what the database
says is pinned, and who may still change either.

Paths below are relative to `src/`.

## 1. The system

| Component | State | Operations | Talks to |
|---|---|---|---|
| Job sources (`crawler/crawler.go`, `crawler/pubsub.go`) | the handler's `recentMessages`, one timer per entry; otherwise they read and write the `Peer` table | `CrawlNode`, the pubsub readers and handler, the old-node ticker, `updatePeer` on connections | `Peer` table in a transaction; each spawns a goroutine that blocks in `c.workChan <- job` |
| Workers (`crawler/worker.go`) | the job in hand, `toUnpin` | `worker`, `processJob` | receive from `workChan`; both tables; pins; `notifySubscribers` |
| `fetchGraph`, `dagGet`, `cat` (`crawler/worker.go`) | the map `m`, the slice `ret`; a helper goroutine and the channel `catDone` per call | a walk with one `dagGet` per node; a handshake with the helper before each return | called by `processJob`; the helper listens to `shutdown` |
| Bans and the unpin ticker (`crawler/crawler.go`) | the rows each loop has loaded | `BanNode`, `UnbanNode`, the hourly unpin loop, `unpinCID` | both tables; pins |
| Subscriptions (`crawler/crawler.go`, `rpc/server.go`, `rpc/subscription.go`) | `c.subs`, `subMtx`, one unbuffered channel per subscription | `Subscribe`, `Close`, `notifySubscribers`, the streaming RPC handler | workers on one side, gRPC clients on the other |
| Database (`repo/database.go`, `repo/models.go`) | tables `Peer` and `CIDRecord`, one mutex | `View`, `Update` | everybody |
| Start and stop (`obcrawler.go`, `Crawler.Start`/`Stop`) | `shutdown`, the IPFS nodes, the select loop | signal handling, the tickers, stopping the nodes one by one | everybody |
| Configuration (`repo/config.go`, `repo/appdata.go`) | the config file, `rpc.cert`, `rpc.key` | `LoadConfig`, `createDefaultConfigFile`, `genCertPair` | start-up only; `newGrpcServer` loads the pair |
| Resolver (`crawler/resolver.go`) | none | one read of the `Peer` table per request | HTTP clients |
| gRPC set-up (`crawler/rpc.go`), generated code, version, file limits | | | |

IPFS itself (pins, the DHT, the block store) and gorm are libraries; they are
modelled from how the code uses them and marked external in `PROJECT.json`.

### What is hard here

* **Nothing keeps two workers off one peer.** Jobs for a peer are queued by four
  sources that do not know of each other.
* **Rows and pins change at different times.** The transaction of `processJob`
  replaces the rows of a peer and computes `toUnpin`; the root is pinned after
  it, the old roots are unpinned after that, one call per node and CID. In
  between, other crawls, bans and the hourly loop run, and `toUnpin` is lost
  when the process ends.
* **Checks are made long before they matter.** The ban is read before the job is
  queued; "no other peer has this CID" is read in the transaction and used in
  the unpin loop; the rows a ban unpins may have been replaced meanwhile.
* **Steps fail one at a time.** Loading or deleting rows, pinning, unpinning,
  `NewCoreAPI`, the fetch of the record or of the graph can each fail, and
  the code mostly logs and goes on. A commit can take effect and be answered by
  an error: `processJob` then returns without pinning or unpinning anything.
* **A read lock is held across a send on an unbuffered channel.**
* **A handshake needs a partner who may not be there.** `dagGet` and `cat` send on
  an unbuffered `catDone` in a deferred function; the helper that should receive
  is not started when `NewCoreAPI` fails, and is gone when it saw the shutdown.
* **Messages come from several readers and are told apart by memory alone.** The
  handler drops copies for one minute; it compares no sequence numbers.
* **The ticker does not wait for the workers.** Each minute it may start one more
  goroutine with the same peers.
* **A start writes three files, one after the other,** and a stop waits for nobody.

### What each component has to guarantee

* Workers, bans, ticker: a pin has a row that will get it removed; recorded
  content is pinned; rows describe one crawl; unpinning spares what others have;
  a ban takes hold; old pins go away.
* `fetchGraph`: it returns the whole graph, or says that it failed; it ends,
  unless a handshake has lost its partner.
* Subscriptions: no send on a closed channel; every object goes to every
  subscription; nobody waits for ever.
* Database: a transaction is atomic for its caller, the long one of `processJob`
  included, and gives the mutex back whatever fails.
* Pubsub: a record is not replaced by an older one; a banned peer gets no job.
* Dispatch: no peer starves, and no job that waits for a worker is passed over.
* Start and stop: a failed start leaves files the next one can use.

## 2. The modules

| Module | Models | Extends |
|---|---|---|
| `Crawler` | the pipeline: tables, job sources, workers, pins, bans, ticker, restart | |
| `Catalogue` | what the pipeline amounts to while nothing goes wrong: a crawl is one step; implemented by `Crawler` | |
| `MCCrawler` | values of its constants | `Crawler` |
| `CIDRows` | rows of the `CIDRecord` table and what a crawl makes of them | |
| `CIDTable` | what the transaction of `processJob` promises: one step, as `Crawler` takes it | `CIDRows` |
| `Records` | the transaction of `processJob`, statement by statement; implements `CIDTable` | `CIDRows` |
| `MCRecords` | values of its constants | `Records` |
| `Subscriptions` | `notifySubscribers`, `Subscribe`, `Close`, the RPC handler | |
| `Broadcast` | what `notifySubscribers` and `Subscribe` promise together; implemented by `Subscriptions` | |
| `FetchGraph` | the graph walk, one node per step | |
| `DagGet` | the walk with `dagGet` taken apart; implements `FetchGraph` | `FetchGraph` |
| `Paths` | the number of paths to a node, which bounds its loads | `DagGet` |
| `MCDagGet` | the graphs TLC tries; compares `PathsThrough` with a count of explicit paths | `Paths` |
| `PeerRows` | rows of the `Peer` table and what each transaction does to them | |
| `PeerTable` | what `View` and `Update` promise: one atomic step | `PeerRows` |
| `Database` | the mutex and the transactions, statement by statement; implements `PeerTable` | `PeerRows` |
| `Pubsub` | readers, handler, memory and timers, composed with the database | `Database` |
| `MCPubsub` | symmetry | `Pubsub` |
| `Startup` | the files a start finds and leaves behind | |
| `Dispatch` | the select loop, the goroutines on `workChan`, the workers | |
| `Process` | the life of the process, from start to exit and again | `Startup`, `Dispatch` |
| `Crawler_proofs`, `Records_proofs`, `Subscriptions_proofs`, `FetchGraph_proofs`, `Database_proofs`, `Pubsub_proofs`, `Process_proofs` | the theorems, section 4 | the module they are named for |
| `DagGet_proofs` | the theorems about `DagGet` and `Paths` | `Paths`, `FetchGraph_proofs` |

The Peer table appears three times, each time as what its readers ask of it:
`Crawler` keeps the answers to the queries next to the CID rows, with a
transaction as one step; `Database` and `Pubsub` justify that step, and keep a
record's sequence number; `Dispatch` keeps the order by `LastCrawled`. The
`CIDRecord` table appears twice: `Crawler` replaces the rows of a peer in one
step, and `Records` justifies that step.

### Crawler

| Variable | In the code |
|---|---|
| `peers` | the `Peer` table. Times are kept as the answers to the queries: `live` (`ip_ns_expiration > now`), `due` (`last_crawled < now - 7 days`), `seen` (`last_seen > now - 90 days`); `Elapse` lets time change them |
| `cids` | the rows of `CIDRecord` that are not soft-deleted, as a set per peer |
| `pins` | the recursive pins of each IPFS node (external) |
| `sender` | the goroutines blocked in `c.workChan <- job`, with the jobs each still has to send |
| `pc`, `job`, `todo` | where each worker is in `processJob`, its job, its `toUnpin` |
| `unpinner` | the unpin loops of `BanNode` and of the ticker |
| `mishaps` | history, see below |
| `exposed` | history: the recorded CIDs that may have lost their pin, or never got it, and that no crawl has pinned since, see below |

Actions are the code's atomic pieces: one per database transaction, channel
operation, network call or pin call. `Publish`, `CrawlNode`, `OldNodes` end with
the job in a goroutine; `Take` is the receive of `worker`; the worker's actions
follow `processJob` from fetch (`UseRecord`, `FetchNew`, `FetchUnchanged`,
`FetchFails`) over load (`CrawlFails`, `Commit`, `CommitUnanswered`) and pin (`Pin`, `PinSkipped`,
`NoCoreAPI`) to the unpin loop (`UnpinOld`, `UnpinAgain`, `UnpinDone`) and the
deferred save (`Finish`). `CommitUnanswered` is the commit that takes effect
although `Update` returns an error: the rows are the new ones, the list is lost
and nothing is pinned. `BanUnanswered` is the same for `BanNode`.

Abstractions, and why they are sound for the properties:

* A transaction is one step, which `Database` and `Records` show to be what the
  code does.
* An IPNS record is its value, a root CID: the code compares nothing else. The
  graph under a CID is a constant, since a CID is a hash of its content.
* A listing index is assumed to name listings that lie under the root, as
  OpenBazaar writes it. With `cacheData` off, the rows are the root and the files
  looked at, a part of the graph, which is what `Crawled` allows under `"ipfs"`.
* Rows are a set. The code inserts one more row per crawl for a CID that is
  carried forward, and so may unpin a CID several times: `UnpinAgain` and
  `UnpinRowAgain` allow any number of repetitions.
* An unpin error at one node also skips the remaining nodes in the code. Here
  each call fails or succeeds on its own, which includes that outcome.
* A ticker's `LIMIT` returns any `Limit` of the matching rows: the order by
  `last_crawled` is in `Dispatch`. Left out are `LastPinned`, which nothing reads, and
  `PutRecordToRouting`, which changes no state of the crawler.
* `Stop` waits for no goroutine and `main` exits after it, so for tables and
  pins a stop is a crash: both are `Restart`.
* `Sender` and `Unpinner` are slots for goroutines; the code starts as many as it
  likes, so their number is a bound of an instance.
* `FetchNew` may return any record the peer ever published. The DHT's quorum does
  not promise the latest one.

**`mishaps` and `exposed`.** The bookkeeping does not survive everything, and the
question is what spoils what. Two history variables say so. No action's guard and no
change of another variable reads them, so they restrict nothing.

* `mishaps` has a word for each kind of event that happened: two crawls of one peer
  overlap, the process ends while a worker is between its transaction and its last
  unpin, a commit is answered by an error, a pin or an unpin fails, rows cannot be
  loaded or deleted, a crawl records what another one is about to unpin (*race*), a
  ban or the ticker lists a peer's rows (*purge*). A property that names some of
  these says: it holds, unless exactly one of them happened. `PinnedIsRecorded` and
  `StalePinsGo` name four, `CrawlsAreAtomic` ends with the first.
* `exposed` goes by CID. A CID is put there when a ban or the ticker lists it, when
  a transaction records it while another worker has it on its unpin list, when
  deleting its row fails, and when a crawl of it gets no pin although its rows are
  committed. A crawl that pins it takes it out again, unless somebody still has
  it on a list. `ContentRetained` and `UnpinSparesRecorded` have no other exemption:
  whatever else goes wrong and however crawls overlap, only exposed roots may lose
  their pin, and only what lies under them may be unkept.

*Refinement mapping to `Catalogue`:* `content` is `cids`; `sound` is `mishaps = {}`;
`kept` is `Kept`, the roots that are pinned at a node and on no worker's list
for it, together with those a worker is about to pin. `Commit` is `Crawl`, every other
step stutters: `Pin` turns a root that was about to be pinned into a pinned one,
and `UnpinOld` removes a pin that did not count any more. After the first
mishap `Catalogue` promises nothing; which mishap spoils which property is said
by the invariants of `Crawler`.

### Subscriptions

`sync.RWMutex` is modelled by what it does: a `Lock` that has announced itself
keeps new readers out and waits for those inside, other writers wait behind it.
`Register` and `Close` are the sections under the write lock. `Deliver` is the
rendezvous of `sub.Out <- obj` with the select of the handler. A client may
disconnect at any point; `SendFails` is the error of `stream.Send`. `Block` and
`Resume` are gRPC's flow control: `Send` waits as long as a client stays connected
and does not read.
*Refinement mapping to `Broadcast`:* its `members` are `subs`, `gone` is `closed`, `active`
the `readers`, `served` is `got`. `Register`, `Close`, `RLock`, `Deliver` and `RUnlock` are `Join`,
`Leave`, `Start`, `Serve` and `Finish`; the rest stutters.

### FetchGraph and DagGet

In `FetchGraph`, `m` and `ret` are as in the code, with one `dagGet` per step. `range` over a Go map that
changes underneath is any order, with or without the new keys, and the outer
loop starts over, so each step takes any member of `m`.

`DagGet` takes the call apart: `Call` appends the CID and enters `dagGet`;
`NewAPI` starts the helper (`NewAPIFails` does not); `Get` ends with a node or
an error; `HelperSeesShutdown` is the other branch of the helper's select; the
deferred send is the guard `HandShake` of `ReturnNode` and `ReturnError`.
*Refinement mapping:* `links`, `m` and `result` are themselves; `ret` is `RetBar`,
which leaves out the CID in hand, because the code appends it before it loads
it. Only `ReturnNode`, `ReturnError` and `End` are steps of `FetchGraph`.
`Paths` numbers the nodes such that links lead upwards, which every finite graph
without cycles allows, so that paths can be counted along the numbers.
`cat` has the same structure around `Unixfs().Get` and no walk around it.

### CIDRows, CIDTable and Records

`pc[w]` is where worker `w` is in `Update`: waiting for `d.mtx` (`Lock`), at the
`Find` of the old rows (`Load`), in the loop that saves a row per CID of the graph
(`Save`), in the loop over the old rows with its `Delete` and its `Find` of other
peers' rows, at the commit or the rollback, at the deferred unlock. `LoadFails` and
a failing `Delete` are only logged; any other error leads to `Rollback`. A statement
reads the committed table, which no other transaction of this process can change
while the mutex is held. `Crash` may come at any point.
*Refinement mapping:* the identity on `table`, `call` and `answer`. `Commit` is
`Succeed`; `CommitFails`, which may have taken effect, and `Rollback` are `Fail`.
`Crawler` uses these promises: `Succeed` is its `Commit`, `Fail` its `CommitUnanswered`
or its `CrawlFails`.

### PeerRows, PeerTable and Database

`txpc[c]` is where goroutine `c` is in `View` or `Update`: waiting for `d.mtx`
(`Lock`), at its `First`, at its `Save`, at the commit or the rollback, at the deferred
unlock. `row[c]` is the struct its function has loaded, all of whose columns
`Save` writes back; this is what two overlapping updates would lose. `Save` takes effect at
the commit, since nobody can see it before. `KeyOf` is the key gorm saves under:
empty for the deferred save of a peer without a row, because that function
does not set `PeerID`. `Insertable` is the primary key that rejects a second such row.
A commit that fails may have happened all the same (`CommitFails`).
`crawl` is the call of `CrawlNode`, whose function returns an error for a banned
peer (`Refused`) and is rolled back; `resolve` is the read of the resolver.
*Refinement mapping:* the identity on `table`, `call` and `reply`. `Commit`
is `Succeed`, `CommitFails` and `Rollback` are `Fail`, the rest stutters.

### Pubsub

`inbox[n]` is what the network still has for node `n`; it may be lost (`Lose`) or read
in any order (`ReadNext`). `hand[n]` is the message whose reader is blocked on
`messageChan`. `Receive` is the handler's select with the check of
`recentMessages`; `Invalid` and `Valid` are the two outcomes of the checks;
`StartJob` and `SkipBanned` are what follows the transaction. `Forget` is the
timer. `OtherCalls` lets another goroutine ban, unban and save the same rows, and
`Transaction` is a step of `Database`. `mishaps` is again history: *disorder* for
a loss, a reordering, or a message forgotten while a copy is under way; *unread*
and *overtaken* for the two ways a ban can be missed. A restart loses the memory
and, with the subscriptions of the nodes, what was under way to them: `Restart` empties
`inbox` too, so a copy that reaches the new process although the old one had taken
the message is not considered by `NeverRegresses` and `TakenOnce`.

### Startup, Dispatch and Process

`Startup` follows the files: `conf`, `cert`, `key` are missing, torn or whole, `phase` is
how far a start has come. Each write can fail or be cut short by the end of the
process, and so can the removal of the certificate after a failed write of the key
(`WriteKeyFails`). `garbled` is a configuration the parser rejects.

`Dispatch` has the peers in the order of `LastCrawled` (`byAge`), of which the first
`ndue` are due; the tick takes `Limit` from the front (`Selected`) and starts a
goroutine, an entry of `senders`, that offers them one by one. `Take` serves the
goroutine that has waited longest, which lines up again behind the others: Go
serves blocked senders first in, first out. `Save` puts the peer at the end
of the order. `FindPeerReturns` ends the time in which the select loop is inside
`FindPeer` and serves nothing else.

`Process` composes the two: `Load` is any step of a start, `Runs(DispatchStep)` any
step of the goroutines. `Signal` closes `shutdown`; loop and workers retire (`Retire`) while
`StopNode` stops the nodes one by one, and `Exit` waits for the nodes only.
`HandlerPanics` is the pubsub handler at shutdown: `pubsub.go:24` makes the
slice of subscriptions with `numPubsub` nil entries before it appends the real
ones, so that the first `Close` panics, at any moment between the signal
and the exit.

Abstractions: a file is what its reader can tell; peers of `Dispatch` are those
the query can select, since the others do not move in the order. `OtherJob` leaves
one slot to the ticker: in the code no number of goroutines holds the ticker back, and
under the bound it must not either.

## 3. What TLC checks

| Run | Instance | Shows |
|---|---|---|
| `pipeline` | 2 workers, 2 peers that share content, 2 nodes, no optional events | `ContentRetained` and `UnpinSparesRecorded` under every interleaving of two crawls, of one peer or of two: what is recorded while another crawl is about to unpin it is all that can be lost; `PinnedIsRecorded` until two crawls of one peer overlap; `CrawlsAreAtomic` (the refinement of `Catalogue`) until they do, or one records what the other is about to unpin |
| `failures` | 1 worker, 1 peer, 1 node, failing pins, unpins and database calls, commits answered by an error, restarts | `TypeOK`, `PinnedIsRecorded`, `ContentRetained`: what each kind of failure can spoil, and what it cannot |
| `bans` | 1 worker, 2 peers, bans, unbans, unpin ticker | `PinnedIsRecorded`, `ContentRetained`, `UnpinSparesRecorded` while a ban or the ticker unpins call by call: each takes away only what it listed, and what a crawl has pinned since stays |
| `records` | 2 workers, 2 peers, 2 graphs, failing statements and commits, crashes | `TypeOK` with the mutex, `RowsFromOneCrawl`, `OneStep` (the refinement of `CIDTable`) |
| `schedule` | 1 worker, 1 peer, all job sources, bans, time passing; fair | `BanTakesHold`, `StalePinsGo` |
| `notify` | 2 notifiers, 2 clients; fair | `TypeOK`, `NoSendOnClosed`, `NotifyReachesAll`, `KeepsPromise` (the refinement of `Broadcast`), `NotifyEnds` |
| `walk` | all 64 acyclic graphs on four numbered nodes; fair | `WalkTypeOK`, `Complete`, `LoadsWithinPaths`, `WalksTheGraph` (the refinement), `EndsOrHangs` |
| `ingest` | 1 peer with 2 records, 2 pubsub nodes, the handler and one other database client | `TypeOK`, `MutexHeldInside`, `EmptyKeyIsInert`, `AtomicTransactions` (the refinement), `NeverRegresses`, `TakenOnce`, `BannedGetNoJob` |
| `process` | 3 peers, 1 worker, 1 node, `Limit` 2, 2 waiting goroutines; fair | `TypeOK`, `FilesSound`, `DueIsCrawled`, `QueuedIsCrawled` |
| `orphan` | violation | `NoOrphanPins`: overlapping crawls leave a pin without a row |
| `never_retried` | violation | `UnchangedWasCrawled`: after a failed crawl the record counts as unchanged |
| `disconnect` | violation, fair | `HandlerReturns`: a leaving client and a sending worker block each other for ever |

`failures` has 2.6 million distinct states, `pipeline` 2.5, `bans` 1.4, `ingest` 0.8; `records`
has 182,000, `schedule` 160,000 and `process` 108,000, the last two slow because of their
liveness properties. Each run takes between a few seconds and two minutes.

### Bounds

* *Stores.* Peer `p1` publishes roots `a` and `b`, in any order and as often as it
  likes, `p2` publishes `b`; both contain the file `f`. So there is a root to
  replace, an older record that comes back, a root two peers have in common, and
  a file that stays when the root goes. A third root would add no new relation
  between an old and a new row.
* *Workers.* Two are needed for an overlap, and every statement of the code
  relates the rows of one peer to those of the others, so two peers suffice.
* *Nodes.* Two in `pipeline`: a root is pinned at the one drawn for its job and has to be
  unpinned at both. Elsewhere what happens at one node does not depend on the
  others.
* *Slots.* One blocked goroutine at a time can hold any job, and the worker
  that took it frees the slot, so any order of jobs is possible; more slots
  only allow more jobs to wait. The theorems have no such bound.
* *`Limit`* is 1 so that the limit of 10 is met by two matching peers.
* *`Events`* selects the optional actions of a run, to keep each state space
  small enough; `pipeline`, `failures`, `bans` and `schedule` together fire every
  action. The theorems hold for every choice of `Events`, all of them included.
* *Walk.* Four nodes in any acyclic graph give a node with two and with three
  parents, and paths of every length up to three. Every graph is tried.
* *Ingest.* One peer suffices, since a transaction touches one row and the
  memory is kept per message; the row under the empty key is the second one. Two
  records give an older and a newer one, two nodes a copy that comes late. The
  other client makes the calls `ban`, `unban` and `crawled` (`OtherKinds`): what
  the remaining kinds do to a row, these do too. The theorems hold for all kinds.
* *Process.* Three peers and `Limit` 2: a peer may be left out by the LIMIT, and a
  goroutine has a second job with which it lines up again. Two waiting
  goroutines: the ticker can run ahead of the one worker, which is slower.
* *Notify.* A third client or notifier would queue behind the same lock.
* *Records.* Two workers that may store crawls of one peer or of two, and two graphs
  that have a CID in common and one each of their own: there is a row to keep, one
  to drop, and one that another peer may have.

Symmetry is used for workers, nodes and slots in the three safety runs of
`Crawler`, for the pubsub nodes in `ingest`, and for peers and workers in `records`. The formulas do not tell these
apart. The runs with liveness have none.

`CHECK_DEADLOCK FALSE` is set for `walk`, which ends, and for `notify` and
`disconnect`: each client comes once, and the deadlock of a leaving client is
real. It is the subject of `disconnect`. `notify` shows that a notifier can wait for
ever in two ways only (`HeldUp`): the handler it sends to waits for the write lock, or
is itself inside `stream.Send` to a client that stays connected and does not read.

### Fairness

* `Crawler`: a worker and an unpin loop keep going (weak): every call they make
  returns. `cat`, `dagGet` and `Pin().Add` run under a timeout of 30 seconds; the
  lookups and publications in the DHT, `GetListingByCID` and `Pin().Rm` are
  library calls without one and are assumed to end. (Two calls may really hang:
  `notifySubscribers`, which is the subject of `Subscriptions`, and `cat` or
  `dagGet` without its helper, the subject of `DagGet`. Neither is part of the
  run with liveness.) A goroutine blocked on
  `workChan` is served eventually (strong): Go serves blocked senders first in,
  first out. No fairness for users, peers, messages, time or failures, nor for a
  repeated unpin call, since a CID has finitely many rows.
* `Subscriptions`: strong for lock calls and notifiers, since an `RWMutex`
  queues writers and admits waiting readers after each of them, and channels are
  first in, first out; strong for the handler's own steps, so that a client that
  reads again and again gets what `stream.Send` has for it. None for clients: they may
  stay, leave, and stop reading for good, and then `Send` does not return.
* `DagGet`: weak for the worker (`FetchStep`), since `Get` has a timeout of 30
  seconds. None for the shutdown, and none for the helper: it is left open
  whether it sees the shutdown before the worker hands it the end signal.
* `Process`: weak for each worker, whose crawls end (as in `Crawler`: the two calls
  that may hang are assumed away here, too), and for the
  return of `FindPeer`, a library call. Strong for the old-node tick: a Go select
  picks at random among the cases that are ready, so one that is ready again
  and again is taken. Strong for the save of each peer: a database that rejects
  a peer's save for ever would leave it at the head of the queue. None for users,
  signals, starts or time.

## 4. What is proved

For any number of peers, nodes, CIDs, workers, clients and slots, any contents of
stores, any graph, any `Limit` and any choice of events; the only assumptions are the
named ASSUMEs of the modules (types of the constants, that the markers such as
`NoPeer` are not members of the sets they stand beside, that `Peer` is finite in
`Dispatch`, that `Graph` of `Crawler` is reflexive and transitive, and for
`LoadsFollowPaths` alone that the nodes are numbered along the links, which is a
choice of names in any finite graph without cycles).

| Theorem | Says |
|---|---|
| `Crawler_proofs!TypeCorrect` | `Spec => []TypeOK` |
| `Crawler_proofs!NoPinOrphaned` | `Spec => []PinnedIsRecorded` |
| `Crawler_proofs!UnpinIsSparing` | `Spec => UnpinSparesRecorded` |
| `Crawler_proofs!ContentIsRetained` | `Spec => []ContentRetained` |
| `Crawler_proofs!AtomicCrawls` | `Spec => CrawlsAreAtomic`: the refinement |
| `Records_proofs!TypeCorrect`, `OneCrawl` | `TypeOK`, `RowsFromOneCrawl` |
| `Records_proofs!StepIsAtomic` | `Spec => OneStep`: the refinement |
| `Subscriptions_proofs!TypeCorrect`, `ChannelSafety`, `ServesAll` | `TypeOK`, `NoSendOnClosed`, `NotifyReachesAll` |
| `Subscriptions_proofs!BroadcastKept` | `Spec => KeepsPromise`: the refinement |
| `FetchGraph_proofs!TypeCorrect`, `Completeness` | `TypeOK`, `Complete` |
| `DagGet_proofs!FetchGraphWalks` | `WalkSpec => WalksTheGraph`: the refinement |
| `DagGet_proofs!WalkTypeCorrect`, `WalkIsComplete` | `WalkTypeOK`, `Complete` |
| `DagGet_proofs!LoadsFollowPaths` | `WalkSpec => []LoadsWithinPaths` |
| `Database_proofs!TransactionsAreAtomic` | `DBSpec => AtomicTransactions`: the refinement |
| `Pubsub_proofs!TypeCorrect`, `MutexNotLeaked`, `EmptyKeyStaysInert`, `IngestIsAtomic` | `TypeOK`, `MutexHeldInside`, `EmptyKeyIsInert`, `AtomicTransactions` |
| `Pubsub_proofs!RecordsNeverRegress`, `BannedPeersGetNoJob` | `NeverRegresses`, `BannedGetNoJob` |
| `Pubsub_proofs!RecordsTakenOnce` | `Spec => TakenOnce` |
| `Process_proofs!TypeCorrect`, `FilesStaySound` | `TypeOK`, `FilesSound` |

The arguments:

* *Types.* `TypeOK` alone is not inductive: `Pin` writes `job[w].rec` into a set of
  CIDs, which is one only because the worker is past its fetch. `JobInHand`, a part
  of `TypeOK`, says what a worker holds at each point. It also says that `toUnpin` is
  empty outside the pin and unpin stages, which is what makes `NoCoreAPI`, `Restart`
  and `CommitUnanswered` the only actions that lose it.
* *`NoPinOrphaned`.* The pin of a worker is covered because its own transaction
  recorded the root (`RootRecorded`) and no other crawl can have deleted that row
  since, as no two workers are on one peer (`OnePerPeer`) without `"overlap"`. A row
  is deleted only by a commit. `Commit` puts its CID on `todo` unless another peer has
  it, so whatever was covered stays covered; `CommitUnanswered` does not, which is
  the fourth of the events that excuse an orphan.
* *Records.* `OldIsCurrent`: the rows a worker has loaded are still those in the table
  when it deletes them. `Rest` says how far its loop is: the rows it has deleted and
  the CIDs on its list are those of `oldCIDs` outside the graph that it has been
  through. At the commit this is all of them, so the peer is left with exactly its
  graph (`OneCrawl`), and the list is what nobody else has at that moment
  (`StepIsAtomic`). Both need that nobody else is inside `Update`, the last conjunct
  of `TypeOK`.
* *`UnpinIsSparing`.* The check of the other peers' rows is made in the transaction
  and used later. `ListsSpare` carries it over: a CID on a list is recorded only if it is
  exposed. A transaction lists nothing that is left recorded but rows it could not
  delete, and exposes what it records of the others' lists (`CommitExposes`); and what is
  on a list does not leave `exposed` (`ExposedStays`), whatever crawls pin
  meanwhile. For bans and the ticker, `LoopsNoted`: what their loops are about to
  unpin is exposed.
* *`ContentIsRetained`.* The property speaks of what is pinned now; the invariant has to
  cover the time between a transaction and its pin as well. `KeptOrPending`: each
  recorded CID lies under a root that the same peer has recorded and some
  node has pinned (`KeptFor`), or the worker that recorded it is about to pin its
  root (`AboutToPin`), or a root of the peer above it is exposed (`Lost`). A kept
  root is recorded, so by `RecordedStaysPinned`, the lemma behind `UnpinIsSparing`, it
  is unpinned only when exposed; and a worker leaves its pin only by pinning or by
  exposing its root (`PendingStays`). Overlapping crawls of one peer need no
  assumption here: a transaction that deletes the row of a root another worker is
  about to pin leaves only rows of its own graph, and those it could not delete.
* *`AtomicCrawls`.* Nothing is exposed before the first mishap (`ExposureNoted`); otherwise
  all of the above at once. At a commit, no root another worker is about to pin is
  dropped: it is recorded (`RootRecorded`) for another peer (`OnePerPeer`), and the
  transaction spares what others have. At the pin, the root is on no list, since it is
  recorded and no recorded CID is on a list (`ListsSpare`). So the list of a transaction is
  exactly what its crawl lets go of, and what follows the commit is already accounted
  for, for crawls of peers that share content, too.
* *Subscriptions.* `Visiting`: a notifier inside its loop is among the readers and
  visits only what is registered; a writer, who waits for the readers, finds no
  notifier in its loop. `ClosedAreGone`: a closed channel is out of the map. For
  `BroadcastKept`, `Visiting` also says what a notifier has left to visit: the members
  it has not served; and `Registered`, that who is subscribed is known from where
  its handler is, so that nobody joins twice.
* *FetchGraph.* `LinksPending`: what was returned has its links returned or in `m`, so
  when `m` is empty the result is closed. `WithinReach`: nothing else gets in.

* *DagGet.* Under `RetBar` a call of `dagGet` stutters until it returns; `WalkTypeOK`
  says that the CID in hand is in `m` and has been appended, which is what makes
  the subtraction in `RetBar` undo exactly that. `WalkIsComplete` is the theorem
  of `FetchGraph` carried over along the mapping.
* *`LoadsFollowPaths`.* How often a node is asked for is bounded by how often those
  that link to it were loaded, plus one for the root (`LoadsAsked`, the inductive
  invariant). That this is at most the number of paths follows by induction over the
  numbering, and so do the equations of the recursive function that counts them.
  The library's induction theorems take an operator as a parameter, which the
  provers cannot instantiate; `NatSetInduction` and `PrimitiveRecursion` state them
  for sets and functions instead, and are proved from the well-foundedness of the
  strict subset ordering of finite sets.
* *Database.* What the mutex is for is `RowIsCurrent`: the struct a function works on
  is still the row in the table. With it, a commit that writes the struct is
  the step of `PeerTable` that reads and writes at once. `MutexHeldInside` is
  part of the invariant, since only the holder commits. For `EmptyKeyIsInert`, a
  row that is not there is the zero struct (`UnknownIsBlank`).
* *`RecordsNeverRegress`.* `Remembered`: a message that came from one node and is still
  under way from another is in memory. `OldestFirst`: a reader holds the oldest of
  its node. `Passed`: what is under way and older than what is stored or handled is
  in memory, so the handler drops it; hence `NotOlder`, the handler handles
  nothing older than what is stored. For `RecordsTakenOnce` both speak of what is
  as old as the stored record, too: a copy of it is in memory. All four hold until the first *disorder*.
* *`BannedPeersGetNoJob`.* `BanRead`: the answer the handler holds is the ban in the
  table, unless a mishap of this message is noted.
* *Process.* `PairInv` adds to `FilesSound` what holds between the two writes.
  `TypeOK` says that the order is one of all the peers, each in one place: `Save` moves
  a peer to the end and shifts those behind it by one place (`RenewMoves`).

Only model-checked: the liveness properties `BanTakesHold`, `StalePinsGo`,
`NotifyEnds`, `EndsOrHangs`, `DueIsCrawled` and `QueuedIsCrawled`, since temporal reasoning with fairness is
out of the prover's reach. That `PathsThrough` counts paths, in the sense of a
set of paths, is compared by TLC in `walk`. Every invariant, action property and
refinement of a passing run is proved.

## 5. Findings

1. *Overlapping crawls leave orphans* (`orphan`). A crawl's rows can be deleted by
   another crawl of the peer before its root is pinned.
2. *A failed crawl is not repeated* (`never_retried`). The record is stored before
   it is crawled, and the later old-node crawl finds it unchanged.
3. *A leaving client can stop the crawler* (`disconnect`). The worker sends to the
   client under the read lock; the handler needs the write lock to leave.

Met while modelling, without a run of their own:

* A ban, and the unpin ticker, unpin every CID of a peer, also a root that another
  peer has rows for; `processJob` looks for such rows first (`worker.go:252`). The
  comment on `BanNode` (`crawler.go:181`) promises no more: it "unpins any content of
  that node that the crawler is seeding". The other peer's root is pinned again by its next crawl
  that gets as far as its pin: one started by `CrawlNode`, which carries no record, or
  by a pubsub message, which skips the comparison. A crawl of the old-node ticker that finds
  the record unchanged stops before (`worker.go:98`). This is one way in which
  a CID gets into `exposed`.
* A crawl can record a CID that another one has found to be nobody's and is about
  to unpin; the pin it makes may then be removed at once (*race*).
* A transaction of `processJob` that commits and is answered by an error leaves the
  new rows, with nothing pinned and the old roots on no list (`CommitUnanswered`).
* A client that stays connected and does not read holds up the worker that sends to
  it and, with it, every other one: `stream.Send` has no deadline (`HeldUp`).
* A job queued before a ban is still crawled (`BanTakesHold` is therefore an
  eventual property, whereas `crawler.go:185` says "Once a node is banned it will no
  longer be crawled going forward"). A ban unpins but keeps the rows, and a crawl in
  flight may pin afterwards (`rpc/server.go:187-188`: "purge all cached/pinned
  files"). The unpin ticker logs "dead peer" but selects live ones.
* A database error in the pubsub handler lets a banned peer through
  (`PublishUnsaved`; *unread* in `BannedGetNoJob`).
* The deferred save of a peer without a row writes a row with an empty key
  (`EmptyKeyIsInert` shows that it does no harm), and the second one fails.
* No sequence number is compared: a pubsub message that arrives late replaces
  a newer record (*disorder* in `NeverRegresses`). `processJob` never stores the
  record it fetched, nor its expiration; only the pubsub handler does.
* `dagGet` and `cat` hang in their deferred send when `NewCoreAPI` fails, or when
  the helper has seen the shutdown (`Hangs` in `EndsOrHangs`). The first takes a worker
  away for good.
* `pubsub.go:24` makes the slice of subscriptions with `numPubsub` nil entries; the
  `Close` of the first panics at shutdown (`HandlerPanics`), so that a stop is
  clean only when it wins that race.
* `Stop` returns at the first node that cannot be stopped (`StopNodeFails`).
* A certificate or key that was cut short is never written again, nor is a key whose
  certificate could not be removed (`FilesSound`).
* `config.go:101` says "Command line options always take precedence"; the
  command line is parsed before the file, whose values then replace those of
  the command line. Logging is set up before the log directory gets its default.
* `newGrpcServer` returns inside its loop, so only the first listener is served.

## 6. Not modelled, and why

* The values of the options, their precedence and checks, and the expansion of
  paths: a sequential computation on data, made once before anything else runs.
* The resolver's HTTP server, the gRPC listeners, TLS and the token comparison in each
  request: they keep no state. What they need from the rest is modelled: the
  resolver's read of a row (the call `resolve` of `Database`), and the certificate pair.
* Protobuf code, version, paths, the embedded sample configuration and the file
  limit: generated code, or functions of the platform. That the limit cannot be
  set is one of the failures of `NewCrawlerFails`.
* Garbage collection: it only calls into IPFS. The crawl ticker's `FindPeer` is in
  `Dispatch`; what it brings about appears as `Connected` in `Crawler`.
* How many rows a CID has: each crawl inserts another one, but no decision
  depends on their number; a repeated unpin call is `UnpinAgain`.
* A pubsub reader that ends on an error of `sub.Next` reads nothing more. That is a
  behaviour of `Pubsub` in which `ReadNext(n)` is not taken again: it is stated
  without fairness.
* `PinRecord` and the publication of records in the DHT: they change no state
  of the crawler.

## 7. Plan

Done, in this order: `Crawler` and its safety proofs, `Subscriptions`, `FetchGraph`;
then `Database` with `PeerTable`, `Pubsub`, `DagGet`, `Startup`, `Dispatch`, `Process`, their
proofs, and `ContentRetained`; then the abstract specifications `Catalogue` and `Broadcast`,
the bound on the loads of a walk, and the action property `TakenOnce`, each with its
proof; then `Records` with `CIDTable`, commits that are answered by an error, bans
beside crawls, overlapping crawls (`exposed`), and clients that do not read. Left, most important first:

1. `Crawler` with `Subscriptions`: the stall of one client spreading to every
   worker. Each is modelled; their composition would need a smaller instance
   of both. The safety half can be proved: while a handler waits to leave and a
   notifier sends to it, no other notifier gets past its lock.
2. What `Catalogue` guarantees on its own (content lies under kept roots, kept roots
   are recorded), proved there once.
3. The safety halves of the liveness properties: which states a walk that hangs, or
   a notifier that waits, can be in.
4. Several records under way in `Dispatch`, so that the age of a record and the
   age of a crawl meet in one module.
