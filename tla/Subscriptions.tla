--------------------------- MODULE Subscriptions ---------------------------
(***************************************************************************)
(* How crawled objects reach the gRPC clients: notifySubscribers, called   *)
(* by a worker for every profile and listing (crawler/crawler.go:391-397), *)
(* Subscribe and the Close closure it returns (235-258), and the handler   *)
(* of the streaming RPC (rpc/server.go:34-176).  They share the map c.subs *)
(* under the RWMutex subMtx, and one unbuffered channel per subscription.  *)
(*                                                                         *)
(* sync.RWMutex is external and modelled by what it does: a Lock call that *)
(* has announced itself keeps new readers out, waits for the readers that  *)
(* are inside, and other Lock calls wait behind it.  A section that holds  *)
(* the write lock is one step, since nothing else can run inside it.       *)
(***************************************************************************)
EXTENDS Naturals

CONSTANTS
  Client,     \* calls of the Subscribe RPC, each with a subscription of its own
  Notifier,   \* workers, in the part of processJob that notifies
  NoClient

ASSUME NoClientAssumption == NoClient \notin Client

VARIABLES
  subs,       \* the keys of c.subs
  closed,     \* subscriptions whose channel Out is closed
  handler,    \* handler[c]: where the RPC handler of c is
  offline,    \* clients whose stream context is done
  announced,  \* the Lock call that has announced itself (external)
  readers,    \* the notifiers inside RLock (external)
  pc,         \* pc[n]: where n is in notifySubscribers
  left,       \* left[n]: the subscriptions the range loop has yet to finish
  target,     \* target[n]: the subscription n is sending to
  got         \* history: who received the object n is sending

vars == <<subs, closed, handler, offline, announced, readers, pc, left, target, got>>
server == <<subs, closed, handler, offline>>
loop == <<pc, left, target, got>>

HandlerStates == {"new", "subscribe", "select", "send", "blocked", "close", "gone"}

TypeOK ==
  /\ subs \subseteq Client /\ closed \subseteq Client /\ offline \subseteq Client
  /\ handler \in [Client -> HandlerStates]
  /\ announced \in Client \cup {NoClient}
  /\ readers \subseteq Notifier
  /\ pc \in [Notifier -> {"idle", "rlock", "range", "send"}]
  /\ left \in [Notifier -> SUBSET Client]
  /\ target \in [Notifier -> Client \cup {NoClient}]
  /\ got \in [Notifier -> SUBSET Client]
  /\ \A n \in Notifier : target[n] # NoClient <=> pc[n] = "send"

Init ==
  /\ subs = {} /\ closed = {} /\ offline = {}
  /\ handler = [c \in Client |-> "new"]
  /\ announced = NoClient
  /\ readers = {}
  /\ pc = [n \in Notifier |-> "idle"]
  /\ left = [n \in Notifier |-> {}]
  /\ target = [n \in Notifier |-> NoClient]
  /\ got = [n \in Notifier |-> {}]

-----------------------------------------------------------------------------
(* The RPC handler *)

Goto(c, from, to) ==
  /\ handler[c] = from
  /\ handler' = [handler EXCEPT ![c] = to]

\* A client opens the stream; the handler calls Crawler.Subscribe.
Open(c) ==
  /\ Goto(c, "new", "subscribe")
  /\ UNCHANGED <<subs, closed, offline, announced, readers, loop>>

\* The client goes away, at any point of the handler.
Disconnect(c) ==
  /\ handler[c] \notin {"new", "gone"}
  /\ offline' = offline \cup {c}
  /\ UNCHANGED <<subs, closed, handler, announced, readers, loop>>

\* Lock, called by Subscribe and by Close, announces itself (external).
Announce(c) ==
  /\ handler[c] \in {"subscribe", "close"}
  /\ announced = NoClient
  /\ announced' = c
  /\ UNCHANGED <<server, readers, loop>>

Holds(c) == announced = c /\ readers = {}

\* Crawler.Subscribe: register the subscription under the write lock.
Register(c) ==
  /\ Holds(c)
  /\ Goto(c, "subscribe", "select")
  /\ subs' = subs \cup {c}
  /\ announced' = NoClient
  /\ UNCHANGED <<closed, offline, readers, loop>>

\* The handler streamed the object to its client, or dropped it because a
\* timestamp could not be converted.
Streamed(c) ==
  /\ Goto(c, "send", "select")
  /\ UNCHANGED <<subs, closed, offline, announced, readers, loop>>

\* stream.Send waits while the client, still there, does not read what it was
\* sent before (gRPC's flow control, external); a client that reads lets it go on.
Block(c) ==
  /\ c \notin offline
  /\ Goto(c, "send", "blocked")
  /\ UNCHANGED <<subs, closed, offline, announced, readers, loop>>

Resume(c) ==
  /\ Goto(c, "blocked", "send")
  /\ UNCHANGED <<subs, closed, offline, announced, readers, loop>>

\* stream.Send returns an error, as it does at last for a client that went away:
\* so does the handler, after the deferred Close.
SendFails(c) ==
  /\ \/ Goto(c, "send", "close")
     \/ c \in offline /\ Goto(c, "blocked", "close")
  /\ UNCHANGED <<subs, closed, offline, announced, readers, loop>>

DoneWithoutClose(c) ==
  /\ c \in offline
  /\ Goto(c, "select", "gone")
  /\ UNCHANGED <<subs, closed, offline, announced, readers, loop>>

\* The select takes the branch of the stream's context.
Done(c) ==
  /\ c \in offline
  /\ Goto(c, "select", "close")
  /\ UNCHANGED <<subs, closed, offline, announced, readers, loop>>

\* The Close closure, once it has the write lock.
Close(c) ==
  /\ Holds(c)
  /\ Goto(c, "close", "gone")
  /\ closed' = closed \cup (subs \cap {c})
  /\ subs' = subs \ {c}
  /\ announced' = NoClient
  /\ UNCHANGED <<offline, readers, loop>>

-----------------------------------------------------------------------------
(* notifySubscribers *)

\* A deferred call of processJob.
Notify(n) ==
  /\ pc[n] = "idle"
  /\ pc' = [pc EXCEPT ![n] = "rlock"]
  /\ UNCHANGED <<server, announced, readers, left, target, got>>

\* A copy of the map is taken and the lock given back before the first send.
RLockToCopy(n) ==
  /\ pc[n] = "rlock"
  /\ announced = NoClient
  /\ pc' = [pc EXCEPT ![n] = "range"]
  /\ left' = [left EXCEPT ![n] = subs]
  /\ got' = [got EXCEPT ![n] = {}]
  /\ UNCHANGED <<server, announced, readers, target>>

RLock(n) ==
  /\ pc[n] = "rlock"
  /\ announced = NoClient
  /\ readers' = readers \cup {n}
  /\ pc' = [pc EXCEPT ![n] = "range"]
  /\ left' = [left EXCEPT ![n] = subs]
  /\ got' = [got EXCEPT ![n] = {}]
  /\ UNCHANGED <<server, announced, target>>

\* The next subscription of the range, in any order: n starts to send to it.
Pick(n) ==
  /\ pc[n] = "range"
  /\ \E c \in left[n] : target' = [target EXCEPT ![n] = c]
  /\ pc' = [pc EXCEPT ![n] = "send"]
  /\ UNCHANGED <<server, announced, readers, left, got>>

DeliverKeepingTarget(n) ==
  /\ pc[n] = "send"
  /\ Goto(target[n], "select", "send")
  /\ got' = [got EXCEPT ![n] = @ \cup {target[n]}]
  /\ pc' = [pc EXCEPT ![n] = "range"]
  /\ UNCHANGED <<subs, closed, offline, announced, readers, left, target>>

\* sub.Out <- obj meets the receive of the handler's select.
Deliver(n) ==
  /\ pc[n] = "send"
  /\ Goto(target[n], "select", "send")
  /\ got' = [got EXCEPT ![n] = @ \cup {target[n]}]
  /\ left' = [left EXCEPT ![n] = @ \ {target[n]}]
  /\ target' = [target EXCEPT ![n] = NoClient]
  /\ pc' = [pc EXCEPT ![n] = "range"]
  /\ UNCHANGED <<subs, closed, offline, announced, readers>>

RUnlock(n) ==
  /\ pc[n] = "range"
  /\ left[n] = {}
  /\ readers' = readers \ {n}
  /\ pc' = [pc EXCEPT ![n] = "idle"]
  /\ UNCHANGED <<server, announced, left, target, got>>

-----------------------------------------------------------------------------
HandlerStep(c) == Streamed(c) \/ SendFails(c) \/ Done(c)
LockStep(c) == Announce(c) \/ Register(c) \/ Close(c)
NotifierStep(n) == RLock(n) \/ Pick(n) \/ Deliver(n) \/ RUnlock(n)

Next ==
  \/ \E c \in Client : Open(c) \/ Disconnect(c) \/ Block(c) \/ Resume(c)
                       \/ HandlerStep(c) \/ LockStep(c)
  \/ \E n \in Notifier : Notify(n) \/ NotifierStep(n)

Spec == Init /\ [][Next]_vars

\* Goroutines keep running.  Lock calls queue up first in, first out, and an
\* Unlock lets every waiting reader in before the next writer; goroutines
\* blocked on a channel are served in order, and a stream.Send takes the room that
\* a client makes by reading: strong fairness for each of these.  No fairness for
\* clients: they may stay for ever, need not come and need not read.
Fairness ==
  /\ \A c \in Client : SF_vars(HandlerStep(c)) /\ SF_vars(LockStep(c))
  /\ \A n \in Notifier : SF_vars(NotifierStep(n))

FairSpec == Spec /\ Fairness

-----------------------------------------------------------------------------
(* Properties *)

\* A notifier never sends on a closed channel, which would panic and take the
\* whole crawler down: whatever it is about to visit is registered and open,
\* although its handler may be leaving at the same time (crawler.go:239-250,
\* 391-397).
NoSendOnClosed ==
  \A n \in Notifier :
    /\ left[n] \cap closed = {}
    /\ pc[n] = "send" => target[n] \in subs \ closed

\* An object goes once to each subscription: when a notifier is done with one,
\* those who received it are exactly those registered (crawler.go:391-397).
NotifyReachesAll ==
  [][\A n \in Notifier : pc[n] = "range" /\ pc'[n] = "idle" => got[n] = subs]_vars

\* Subscribe, Close and notifySubscribers keep the promise of Broadcast: the read
\* lock, held over all the sends of an object, fixes its audience, and whoever
\* closes waits for them (crawler.go:235-258, 391-397).
Promise == INSTANCE Broadcast
             WITH members <- subs, gone <- closed, active <- readers, served <- got

KeepsPromise == Promise!Spec

\* A notifier gets rid of its object, unless from some time on it waits for a
\* handler that has left its select to close the subscription, or one whose
\* stream.Send waits for a client that stays and does not read: the two ways in
\* which one subscriber can hold up the crawler (crawler.go:391-397,
\* rpc/server.go:158, 168).
HeldUp(n) ==
  /\ pc[n] = "send"
  /\ \/ handler[target[n]] = "close"
     \/ handler[target[n]] = "blocked" /\ target[n] \notin offline

NotifyEnds == \A n \in Notifier : []<>(pc[n] # "send") \/ <>[]HeldUp(n)

\* rpc/server.go:172-173: "case <-stream.Context().Done(): return nil // client
\* disconnected".  A handler that starts to close its subscription returns.
HandlerReturns == \A c \in Client : handler[c] = "close" ~> handler[c] = "gone"
=============================================================================
