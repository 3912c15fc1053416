------------------------------- MODULE Pubsub -------------------------------
(***************************************************************************)
(* listenPubsub (crawler/pubsub.go): one reader goroutine per pubsub node, *)
(* all sending on the unbuffered messageChan; the handler that receives    *)
(* from it, remembers each message for a minute, checks it, stores its     *)
(* record in a transaction and starts a goroutine with a job; the timers   *)
(* that forget messages.  The transactions are those of Database, where    *)
(* other goroutines ban, unban and update the same rows.                   *)
(*                                                                         *)
(* The network (external) brings every message to every pubsub node.  It   *)
(* may lose messages and bring them out of order.  The messages of a peer  *)
(* are numbered as it publishes them.                                      *)
(***************************************************************************)
EXTENDS Database

CONSTANTS
  Node,        \* the IPFS nodes that listen on pubsub, c.nodes[:c.numPubsub]
  Handler,     \* the handler goroutine, as a client of the database
  OtherKinds,  \* the calls of the other database clients, a bound of the instance
  NoMsg

Msg == [peer : Peer, seq : 1 .. MaxSeq]

ASSUME PubsubAssumption ==
  /\ Handler \in Client
  /\ OtherKinds \subseteq Kinds \ {"record"}
  /\ NoMsg \notin Msg

VARIABLES
  published,  \* published[p]: the number of records p has published (external)
  inbox,      \* inbox[n]: the messages on their way to node n (external)
  hand,       \* hand[n]: the message n's reader goroutine is sending
  at,         \* where the handler is
  cur,        \* the message it is handling
  recent,     \* recentMessages: each has a timer, started with AfterFunc
  mishaps     \* history: disorder among the messages for good; what the handler
              \* missed, until it is done with its message

handling == <<at, cur>>
network == <<published, inbox>>
vars == <<dbVars, published, inbox, hand, at, cur, recent, mishaps>>

Older(m, k) == m.peer = k.peer /\ m.seq < k.seq

\* A copy of m is still to come from node n.
UnderWay(n) == inbox[n] \cup {m \in {hand[n]} : m # NoMsg}

TypeOK ==
  /\ DBTypeOK
  /\ published \in [Peer -> 0 .. MaxSeq]
  /\ inbox \in [Node -> SUBSET Msg]
  /\ hand \in [Node -> Msg \cup {NoMsg}]
  /\ at \in {"select", "check", "update"}
  /\ cur \in Msg \cup {NoMsg}
  /\ cur = NoMsg <=> at = "select"
  /\ recent \subseteq Msg
  /\ mishaps \subseteq {"disorder", "unread", "overtaken"}

Init ==
  /\ DBInit
  /\ published = [p \in Peer |-> 0]
  /\ inbox = [n \in Node |-> {}]
  /\ hand = [n \in Node |-> NoMsg]
  /\ at = "select"
  /\ cur = NoMsg
  /\ recent = {}
  /\ mishaps = {}

Note(mishap, happened) == IF happened THEN {mishap} ELSE {}

-----------------------------------------------------------------------------
(* The network *)

\* p publishes a record: a message to every pubsub node.
Publish(p) ==
  /\ published[p] < MaxSeq
  /\ published' = [published EXCEPT ![p] = @ + 1]
  /\ inbox' = [n \in Node |-> inbox[n] \cup {[peer |-> p, seq |-> published[p] + 1]}]
  /\ UNCHANGED <<dbVars, hand, handling, recent, mishaps>>

Lose(n) ==
  /\ \E m \in inbox[n] : inbox' = [inbox EXCEPT ![n] = @ \ {m}]
  /\ mishaps' = mishaps \cup {"disorder"}
  /\ UNCHANGED <<dbVars, published, hand, handling, recent>>

-----------------------------------------------------------------------------
(* The reader goroutines and the handler *)

\* sub.Next returns a message; the reader blocks in messageChan <- message.
ReadNext(n) ==
  /\ hand[n] = NoMsg
  /\ \E m \in inbox[n] :
       /\ inbox' = [inbox EXCEPT ![n] = @ \ {m}]
       /\ hand' = [hand EXCEPT ![n] = m]
       /\ mishaps' = mishaps \cup Note("disorder", \E k \in inbox[n] : Older(k, m))
  /\ UNCHANGED <<dbVars, published, handling, recent>>

ReceiveUnchecked(n) ==
  /\ at = "select"
  /\ hand[n] # NoMsg
  /\ hand' = [hand EXCEPT ![n] = NoMsg]
  /\ cur' = hand[n]
  /\ recent' = recent \cup {hand[n]}
  /\ at' = "check"
  /\ UNCHANGED <<dbVars, network, mishaps>>

\* The handler receives a message.  One that is remembered is dropped; any other
\* is remembered, and AfterFunc starts a timer that forgets it.
Receive(n) ==
  /\ at = "select"
  /\ hand[n] # NoMsg
  /\ hand' = [hand EXCEPT ![n] = NoMsg]
  /\ IF hand[n] \in recent
     THEN UNCHANGED <<handling, recent>>
     ELSE /\ cur' = hand[n]
          /\ recent' = recent \cup {hand[n]}
          /\ at' = "check"
  /\ UNCHANGED <<dbVars, network, mishaps>>

\* A minute has passed and the timer fires.  The mishap: a copy of the message
\* is still under way.
Forget(m) ==
  /\ m \in recent
  /\ recent' = recent \ {m}
  /\ mishaps' = mishaps \cup Note("disorder", \E n \in Node : m \in UnderWay(n))
  /\ UNCHANGED <<dbVars, network, hand, handling>>

InvalidKeepingMessage ==
  /\ at = "check"
  /\ at' = "select"
  /\ UNCHANGED <<dbVars, network, hand, cur, recent, mishaps>>

\* The message does not parse, its sender's key cannot be extracted, the record
\* is invalid (which includes expired), or its EOL cannot be read.
Invalid ==
  /\ at = "check"
  /\ at' = "select"
  /\ cur' = NoMsg
  /\ UNCHANGED <<dbVars, network, hand, recent, mishaps>>

\* A valid message: the handler calls Update.
Valid ==
  /\ at = "check"
  /\ Request(Handler, [kind |-> "record", peer |-> cur.peer, rec |-> cur.seq])
  /\ at' = "update"
  /\ UNCHANGED <<network, hand, cur, recent, mishaps>>

\* Update has returned, its error is only logged, and the handler turns to the
\* next message.
UpdateReturned ==
  /\ at = "update"
  /\ Return(Handler)
  /\ at' = "select"
  /\ cur' = NoMsg
  /\ mishaps' = mishaps \ {"unread", "overtaken"}
  /\ UNCHANGED <<network, hand, recent>>

StartJobDespiteBan == UpdateReturned

\* Unless the ban was read, it starts a goroutine with a job first, which blocks
\* on workChan (what becomes of the job is in Crawler).
StartJob == UpdateReturned /\ ~reply[Handler].banned

SkipBanned == UpdateReturned /\ reply[Handler].banned

-----------------------------------------------------------------------------
(* The other goroutines that use the database, and the end of the process *)

OtherCalls(c) ==
  /\ c # Handler
  /\ \/ \E kind \in OtherKinds, p \in Peer : Request(c, [kind |-> kind, peer |-> p, rec |-> 0])
     \/ Return(c)
  /\ UNCHANGED <<network, hand, handling, recent, mishaps>>

\* A step of View or Update.  Mishaps: the handler cannot read the row; the row
\* changes after the handler's transaction, before it uses what it read.
Transaction(c) ==
  /\ Lock(c) \/ TxStep(c)
  /\ mishaps' = mishaps
       \cup Note("unread", c = Handler /\ txpc[c] = "first" /\ StatementFails(c))
       \cup Note("overtaken", c # Handler /\ reply[Handler] # NoReply /\ table' # table)
  /\ UNCHANGED <<network, hand, handling, recent>>

\* A new process subscribes anew and remembers nothing; only the tables survive.
Restart ==
  /\ DBCrash
  /\ inbox' = [n \in Node |-> {}]
  /\ hand' = [n \in Node |-> NoMsg]
  /\ at' = "select"
  /\ cur' = NoMsg
  /\ recent' = {}
  /\ mishaps' = mishaps \ {"unread", "overtaken"}
  /\ UNCHANGED published

Next ==
  \/ \E p \in Peer : Publish(p)
  \/ \E n \in Node : Lose(n) \/ ReadNext(n) \/ Receive(n)
  \/ Invalid \/ Valid \/ StartJob \/ SkipBanned
  \/ \E m \in Msg : Forget(m)
  \/ \E c \in Client : OtherCalls(c) \/ Transaction(c)
  \/ Restart

Spec == Init /\ [][Next]_vars

-----------------------------------------------------------------------------
\* A stored record is replaced by an older one only if the network lost or
\* reordered messages, or a message was forgotten although another node had
\* yet to deliver it: nothing else keeps the records in order, since no
\* sequence number is compared (pubsub.go:53-63, 95-116).
NeverRegresses ==
  [][\A p \in Peer : table'[p].rec < table[p].rec =>
        "disorder" \in mishaps]_vars

\* The handler takes a message to the database, and crawls its sender, only if it
\* is newer than what is stored: the copies that the other nodes bring are dropped,
\* unless the network lost or reordered messages or the message was forgotten while
\* a copy was under way (pubsub.go:53-63, 95-116).
TakenOnce ==
  [][Valid => table[cur.peer].rec < cur.seq \/ "disorder" \in mishaps]_vars

\* The handler starts a job for a banned peer only if its transaction could not
\* read the row, or the ban came after the transaction (pubsub.go:99-121).
BannedGetNoJob ==
  [][StartJob /\ table[cur.peer].banned => mishaps \cap {"unread", "overtaken"} # {}]_vars
=============================================================================
