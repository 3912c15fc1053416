---------------------------- MODULE Pubsub_proofs ----------------------------
(***************************************************************************)
(* The pubsub handler: what it stores never goes back, and whom it crawls  *)
(* is not banned, for any number of peers, messages, nodes and clients of  *)
(* the database.                                                           *)
(*                                                                         *)
(* The steps of listenPubsub and of the other goroutines are steps of the  *)
(* database or leave it alone, so that the invariant of Database and its   *)
(* refinement carry over.                                                  *)
(***************************************************************************)
EXTENDS Pubsub, Database_proofs

RecordOf(m) == [kind |-> "record", peer |-> m.peer, rec |-> m.seq]

\* Only the handler stores records, and what it stores is the message it handles.
HandlerCall ==
  /\ at # "update" => call[Handler] = NoCall
  /\ at = "update" => call[Handler] = RecordOf(cur)
  /\ \A c \in Client \ {Handler} : call[c] # NoCall => call[c].kind # "record"

\* Nothing is on its way or stored that was not published.
Numbered ==
  /\ \A n \in Node : \A m \in UnderWay(n) : m.seq <= published[m.peer]
  /\ cur # NoMsg => cur.seq <= published[cur.peer]
  /\ \A p \in Peer : table[p].rec <= published[p]

\* A message that has reached the handler from one node and not from another is
\* remembered.
Remembered ==
  \A n, k \in Node : \A m \in UnderWay(n) : m \notin UnderWay(k) => m \in recent

\* A reader holds the oldest of the messages of a peer at its node.
OldestFirst ==
  \A n \in Node : \A m \in inbox[n] : hand[n] # NoMsg => ~Older(m, hand[n])

NotNewer(m, k) == m.peer = k.peer /\ m.seq <= k.seq

\* What is still under way and not newer than what is stored, or is being handled,
\* is remembered, so that the handler will drop it.
Passed ==
  \A n \in Node : \A m \in UnderWay(n) :
    m.seq <= table[m.peer].rec \/ (cur # NoMsg /\ NotNewer(m, cur)) => m \in recent

\* What the handler handles is newer than what is stored, until it stores it.
NotOlder ==
  /\ cur # NoMsg => table[cur.peer].rec <= cur.seq
  /\ at = "check" => table[cur.peer].rec < cur.seq

Ordered == Remembered /\ OldestFirst /\ Passed /\ NotOlder

\* The ban the handler read is the one in the table, unless a mishap is noted.
BanRead ==
  /\ txpc[Handler] = "rollback" =>
       row[Handler] = table[cur.peer] \/ "unread" \in mishaps
  /\ reply[Handler] # NoReply =>
       reply[Handler].banned = table[cur.peer].banned \/ mishaps \cap {"unread", "overtaken"} # {}

IInv ==
  /\ TypeOK
  /\ DBInv
  /\ HandlerCall
  /\ Numbered
  /\ "disorder" \notin mishaps => Ordered
  /\ BanRead

-----------------------------------------------------------------------------
(* The database *)

\* The handler's call is a call.
LEMMA RecordOfIsCall ==
  ASSUME NEW m \in Msg
  PROVE  RecordOf(m) \in Call /\ m.peer \in Peer /\ m.seq \in 1 .. MaxSeq
BY RowsAssumption DEF Msg, RecordOf, Call, Kinds

\* Every step is a step of the database, or none.
LEMMA DatabaseStep == TypeOK /\ [Next]_vars => [DBNext]_dbVars
<1> SUFFICES ASSUME TypeOK, [Next]_vars PROVE [DBNext]_dbVars
  OBVIOUS
<1> USE PubsubAssumption DEF DBNext
<1>1. ASSUME NEW p \in Peer, Publish(p) PROVE UNCHANGED dbVars
  BY <1>1 DEF Publish
<1>2. ASSUME NEW n \in Node, Lose(n) \/ ReadNext(n) \/ Receive(n) PROVE UNCHANGED dbVars
  BY <1>2 DEF Lose, ReadNext, Receive
<1>3. ASSUME NEW m \in Msg, Forget(m) PROVE UNCHANGED dbVars
  BY <1>3 DEF Forget
<1>4. CASE Invalid
  BY <1>4 DEF Invalid
<1>5. CASE Valid
  <2>1. cur \in Msg
    BY <1>5 DEF Valid, TypeOK
  <2> QED
    BY <1>5, <2>1, RecordOfIsCall DEF Valid, RecordOf
<1>6. CASE StartJob \/ SkipBanned
  BY <1>6 DEF StartJob, SkipBanned, UpdateReturned
<1>7. ASSUME NEW c \in Client, OtherCalls(c) PROVE DBNext
  <2>1. ASSUME NEW kind \in OtherKinds, NEW p \in Peer
        PROVE  [kind |-> kind, peer |-> p, rec |-> 0] \in Call
    BY RowsAssumption DEF Call
  <2> QED
    BY <1>7, <2>1 DEF OtherCalls
<1>8. ASSUME NEW c \in Client, Transaction(c) PROVE DBNext
  BY <1>8 DEF Transaction
<1>9. CASE Restart
  BY <1>9 DEF Restart
<1>10. CASE UNCHANGED vars
  BY <1>10 DEF vars
<1> QED
  BY <1>1, <1>2, <1>3, <1>4, <1>5, <1>6, <1>7, <1>8, <1>9, <1>10 DEF Next

\* The table changes when a client commits, in one row; the record of that row
\* changes only if the client stores one, and then the ban does not.
LEMMA TableChange ==
  ASSUME DBInv, NEW c \in Client, Commit(c) \/ CommitFails(c)
  PROVE  /\ call[c] \in Call
         /\ \A p \in Peer : \/ table'[p].rec = table[p].rec
                            \/ /\ call[c].kind = "record" /\ p = call[c].peer
                               /\ table'[p].rec = call[c].rec
         /\ call[c].kind = "record" =>
              \A p \in Peer : table'[p].banned = table[p].banned
<1> DEFINE k == call[c]
           r == table[k.peer]
<1>1. /\ txpc[c] = "commit"
      /\ table' \in {table, Updated(table, k, row[c])}
  BY DEF Commit, CommitFails
<1>2. k \in Call /\ row[c] = r
  BY <1>1, CallInside DEF DBInv, RowIsCurrent
<1>3. k.peer \in Peer /\ r \in Row /\ table \in [Key -> Row]
  BY <1>2, RowsAssumption DEF Call, Key, DBInv, DBTypeOK
<1>4. Saved(k, r).rec = IF k.kind = "record" THEN k.rec ELSE r.rec
  BY <1>3 DEF Saved, Row
<1>5. k.kind = "record" => Saved(k, r).banned = r.banned
  BY <1>3 DEF Saved, Row
<1>6. CASE table' = table
  BY <1>2, <1>6
<1>7. CASE k.kind \notin ReadOnly /\ table' = [table EXCEPT ![KeyOf(k, r)] = Saved(k, r)]
  <2>1. \A p \in Peer : p # k.peer => table'[p] = table[p]
    BY <1>3, <1>7, RowsAssumption DEF KeyOf, Key
  <2>2. table'[k.peer] \in {r, Saved(k, r)}
    BY <1>3, <1>7, RowsAssumption DEF KeyOf, Key
  <2> QED
    BY <1>2, <1>3, <1>4, <1>5, <2>1, <2>2
<1> QED
  BY <1>1, <1>2, <1>6, <1>7 DEF Updated

-----------------------------------------------------------------------------
(* IInv is inductive: the network, the readers and the timers *)

LEMMA InitIInv == Init => IInv
<1> SUFFICES ASSUME Init PROVE IInv
  OBVIOUS
<1> USE RowsAssumption, PubsubAssumption DEF Init
<1>1. DBInv
  BY DBInitInv
<1>2. TypeOK
  BY <1>1 DEF TypeOK, DBInv
<1>3. \A n \in Node : UnderWay(n) = {}
  BY DEF UnderWay
<1>4. HandlerCall
  BY DEF HandlerCall, DBInit
<1>5. Numbered
  BY <1>3 DEF Numbered, DBInit, Key, Blank
<1>6. Ordered
  BY <1>3 DEF Ordered, Remembered, OldestFirst, Passed, NotOlder
<1>7. BanRead
  BY DEF BanRead, DBInit
<1> QED
  BY <1>1, <1>2, <1>4, <1>5, <1>6, <1>7 DEF IInv

\* A step that leaves the database, the handler and what it missed alone keeps
\* the parts of IInv about them.
LEMMA DatabaseKept ==
  ASSUME IInv, UNCHANGED <<dbVars, at>>,
         cur' = cur \/ at # "update",
         mishaps \subseteq mishaps'
  PROVE  /\ DBInv'
         /\ cur' = cur => HandlerCall' /\ BanRead'
         /\ at # "update" => reply[Handler] = NoReply /\ txpc[Handler] = "idle"
<1> USE PubsubAssumption DEF IInv, dbVars
<1>1. DBInv'
  BY DBStepInv
<1>2. cur' = cur => HandlerCall' /\ BanRead'
  BY DEF HandlerCall, BanRead
<1>3. at # "update" => reply[Handler] = NoReply /\ txpc[Handler] = "idle"
  BY DEF HandlerCall, DBInv, InCall
<1> QED
  BY <1>1, <1>2, <1>3

LEMMA PublishInv ==
  ASSUME IInv, NEW p \in Peer, Publish(p)
  PROVE  IInv'
<1> DEFINE new == [peer |-> p, seq |-> published[p] + 1]
<1> USE RowsAssumption DEF IInv, Publish
<1>1. DBInv' /\ HandlerCall' /\ BanRead'
  BY DatabaseKept DEF handling
<1>2. new \in Msg /\ published'[p] = published[p] + 1
  BY DEF TypeOK, Msg
<1>3. TypeOK'
  BY <1>1, <1>2 DEF TypeOK, DBInv, handling
<1>4. \A n \in Node : UnderWay(n)' = UnderWay(n) \cup {new}
  BY DEF UnderWay, TypeOK
<1>5. \A n \in Node : new \notin UnderWay(n)
  BY DEF Numbered, TypeOK
<1>6. \A q \in Peer : published[q] <= published'[q] /\ published[q] \in Nat /\ published'[q] \in Nat
  BY DEF TypeOK
<1>7. \A n \in Node : UnderWay(n) \subseteq Msg
  BY DEF TypeOK, UnderWay
<1>8. Numbered'
  <2>1. \A n \in Node : \A m \in UnderWay(n)' : m.seq <= published'[m.peer]
    BY <1>2, <1>4, <1>6, <1>7 DEF Numbered, Msg
  <2>2. cur' # NoMsg => cur'.seq <= published'[cur'.peer]
    BY <1>6 DEF Numbered, TypeOK, Msg, handling
  <2>3. \A q \in Peer : table'[q].rec <= published'[q]
    <3>1. \A q \in Peer : table[q].rec \in Nat
      BY DEF DBInv, DBTypeOK, Key, Row
    <3> QED
      BY <3>1, <1>6 DEF Numbered, dbVars
  <2> QED
    BY <2>1, <2>2, <2>3 DEF Numbered
<1>9. ASSUME "disorder" \notin mishaps' PROVE Ordered'
  <2>1. Remembered'
    BY <1>4, <1>9 DEF Ordered, Remembered
  <2>2. OldestFirst'
    <3>1. \A n \in Node : hand[n] # NoMsg => ~Older(new, hand[n])
      <4> SUFFICES ASSUME NEW n \in Node, hand[n] # NoMsg PROVE ~Older(new, hand[n])
        OBVIOUS
      <4>1. hand[n] \in UnderWay(n) /\ hand[n] \in Msg
        BY DEF UnderWay, TypeOK
      <4> QED
        BY <4>1, <1>6 DEF Numbered, Older, Msg
    <3> QED
      BY <1>9, <3>1 DEF Ordered, OldestFirst, Older
  <2>3. Passed'
    <3>1. ~(new.seq <= table[p].rec)
      <4>1. table[p].rec \in Nat /\ table[p].rec <= published[p]
        BY DEF DBInv, DBTypeOK, Key, Row, Numbered
      <4> QED
        BY <4>1, <1>6
    <3>2. cur # NoMsg => ~NotNewer(new, cur)
      BY <1>6 DEF Numbered, NotNewer, TypeOK, Msg
    <3> QED
      BY <1>4, <1>9, <3>1, <3>2 DEF Ordered, Passed, dbVars, handling, NotNewer
  <2>4. NotOlder'
    BY <1>9 DEF Ordered, NotOlder, dbVars, handling
  <2> QED
    BY <2>1, <2>2, <2>3, <2>4 DEF Ordered
<1> QED
  BY <1>1, <1>3, <1>8, <1>9

LEMMA LoseInv ==
  ASSUME IInv, NEW n \in Node, Lose(n)
  PROVE  IInv'
<1> USE DEF IInv, Lose
<1>1. DBInv' /\ HandlerCall' /\ BanRead'
  BY DatabaseKept DEF handling
<1>2. TypeOK'
  BY <1>1 DEF TypeOK, DBInv, handling
<1>3. \A k \in Node : UnderWay(k)' \subseteq UnderWay(k)
  BY DEF UnderWay, TypeOK
<1>4. Numbered'
  BY <1>3 DEF Numbered, handling, dbVars
<1> QED
  BY <1>1, <1>2, <1>4

\* A message passes from the inbox of a node to the hand of its reader.
LEMMA ReadNextInv ==
  ASSUME IInv, NEW n \in Node, ReadNext(n)
  PROVE  IInv'
<1> USE PubsubAssumption DEF IInv, ReadNext
<1>1. DBInv' /\ HandlerCall' /\ BanRead'
  BY DatabaseKept DEF handling
<1>2. TypeOK'
  BY <1>1 DEF TypeOK, DBInv, handling, Note
<1>3. \A k \in Node : UnderWay(k)' = UnderWay(k)
  BY DEF UnderWay, TypeOK
<1>4. Numbered'
  BY <1>3 DEF Numbered, handling, dbVars
<1>5. ASSUME "disorder" \notin mishaps' PROVE Ordered'
  <2>1. "disorder" \notin mishaps
    BY <1>5
  <2>2. Remembered' /\ Passed' /\ NotOlder'
    BY <1>3, <2>1 DEF Ordered, Remembered, Passed, NotOlder, handling, dbVars
  <2>3. OldestFirst'
    BY <1>5, <2>1 DEF Ordered, OldestFirst, Note, TypeOK
  <2> QED
    BY <2>2, <2>3 DEF Ordered
<1> QED
  BY <1>1, <1>2, <1>4, <1>5

LEMMA ReceiveInv ==
  ASSUME IInv, NEW n \in Node, Receive(n)
  PROVE  IInv'
<1> DEFINE w == hand[n]
<1> USE PubsubAssumption DEF IInv, Receive
<1>1. DBInv'
  BY DBStepInv
<1>2. w \in Msg /\ w \in UnderWay(n) /\ cur = NoMsg
  BY DEF TypeOK, UnderWay
<1>3. TypeOK'
  BY <1>1, <1>2 DEF TypeOK, DBInv, handling, network
<1>4. HandlerCall'
  BY DEF HandlerCall, dbVars, handling
<1>5. reply[Handler] = NoReply /\ txpc[Handler] = "idle"
  BY DEF HandlerCall, DBInv, InCall
<1>6. BanRead'
  BY <1>5 DEF BanRead, dbVars
<1>7. \A k \in Node : /\ UnderWay(k)' \subseteq UnderWay(k)
                      /\ UnderWay(k) \subseteq UnderWay(k)' \cup {w}
                      /\ k # n => UnderWay(k)' = UnderWay(k)
  BY DEF UnderWay, TypeOK, network
<1>8. Numbered'
  BY <1>2, <1>7 DEF Numbered, handling, dbVars, network
<1>9. ASSUME "disorder" \notin mishaps' PROVE Ordered'
  <2>1. Ordered
    BY <1>9
  <2>2. recent \subseteq recent' /\ w \in recent'
    BY DEF handling
  <2>3. Remembered'
    BY <1>7, <2>1, <2>2 DEF Ordered, Remembered
  <2>4. OldestFirst'
    BY <2>1 DEF Ordered, OldestFirst, network, TypeOK
  <2>5. CASE w \in recent
    BY <1>2, <1>7, <2>1, <2>3, <2>4, <2>5 DEF Ordered, Passed, NotOlder, handling, dbVars
  <2>6. CASE w \notin recent
    <3>1. cur' = w
      BY <2>6
    <3>2. \A k \in Node : \A m \in UnderWay(k)' : NotNewer(m, w) => m \in recent'
      <4> SUFFICES ASSUME NEW k \in Node, NEW m \in UnderWay(k)', NotNewer(m, w), m # w
                   PROVE  m \in recent
        BY <2>2
      <4>1. m \in UnderWay(k) /\ m \in Msg
        BY <1>7 DEF UnderWay, TypeOK
      <4>3. Older(m, w)
        BY <1>2, <4>1 DEF NotNewer, Older, Msg
      <4>2. m \notin UnderWay(n)
        BY <1>2, <2>1, <4>3 DEF Ordered, OldestFirst, UnderWay
      <4> QED
        BY <2>1, <4>1, <4>2 DEF Ordered, Remembered
    <3>3. Passed'
      BY <1>7, <2>1, <2>2, <3>1, <3>2 DEF Ordered, Passed, dbVars
    <3>4. NotOlder'
      <4>1. ~(w.seq <= table[w.peer].rec)
        BY <1>2, <2>1, <2>6 DEF Ordered, Passed
      <4>2. w.seq \in Nat /\ table[w.peer].rec \in Nat
        BY <1>2, RowsAssumption DEF Msg, DBInv, DBTypeOK, Key, Row
      <4> QED
        BY <3>1, <4>1, <4>2 DEF NotOlder, dbVars
    <3> QED
      BY <2>3, <2>4, <3>3, <3>4 DEF Ordered
  <2> QED
    BY <2>5, <2>6
<1> QED
  BY <1>1, <1>3, <1>4, <1>6, <1>8, <1>9

LEMMA ForgetInv ==
  ASSUME IInv, NEW f \in Msg, Forget(f)
  PROVE  IInv'
<1> USE DEF IInv, Forget
<1>1. DBInv' /\ HandlerCall' /\ BanRead'
  BY DatabaseKept DEF handling
<1>2. TypeOK'
  BY <1>1 DEF TypeOK, DBInv, handling, network, Note
<1>3. \A k \in Node : UnderWay(k)' = UnderWay(k)
  BY DEF UnderWay, network
<1>4. Numbered'
  BY <1>3 DEF Numbered, handling, dbVars, network
<1>5. ASSUME "disorder" \notin mishaps' PROVE Ordered'
  <2>1. Ordered /\ \A k \in Node : f \notin UnderWay(k)
    BY <1>5 DEF Note
  <2> QED
    BY <1>3, <2>1 DEF Ordered, Remembered, OldestFirst, Passed, NotOlder, handling, dbVars, network
<1> QED
  BY <1>1, <1>2, <1>4, <1>5

-----------------------------------------------------------------------------
(* IInv is inductive: the handler *)

\* The parts of IInv about messages, when none is received or lost and the table
\* does not change.
LEMMA MessagesKept ==
  ASSUME IInv, UNCHANGED <<table, network, hand, recent>>, cur' \in {cur, NoMsg},
         at' = "check" => UNCHANGED <<at, cur>>,
         "disorder" \in mishaps => "disorder" \in mishaps'
  PROVE  Numbered' /\ ("disorder" \notin mishaps' => Ordered')
<1>1. \A k \in Node : UnderWay(k)' = UnderWay(k)
  BY DEF UnderWay, network
<1>2. Numbered'
  BY <1>1 DEF IInv, Numbered, network
<1>3. ASSUME "disorder" \notin mishaps' PROVE Ordered'
  BY <1>1, <1>3 DEF IInv, Ordered, Remembered, OldestFirst, Passed, NotOlder, network
<1> QED
  BY <1>2, <1>3

LEMMA InvalidInv ==
  ASSUME IInv, Invalid
  PROVE  IInv'
<1> USE PubsubAssumption DEF IInv, Invalid
<1>1. DBInv'
  BY DBStepInv
<1>2. TypeOK'
  BY <1>1 DEF TypeOK, DBInv, network
<1>3. HandlerCall'
  BY DEF HandlerCall, dbVars
<1>4. BanRead'
  BY DEF BanRead, HandlerCall, DBInv, InCall, dbVars
<1>5. Numbered' /\ ("disorder" \notin mishaps' => Ordered')
  BY MessagesKept DEF dbVars
<1> QED
  BY <1>1, <1>2, <1>3, <1>4, <1>5

LEMMA ValidInv ==
  ASSUME IInv, Valid
  PROVE  IInv'
<1> USE PubsubAssumption DEF IInv, Valid
<1>1. cur \in Msg /\ cur # NoMsg
  BY DEF TypeOK
<1>2. Request(Handler, RecordOf(cur)) /\ RecordOf(cur) \in Call
  BY <1>1, RecordOfIsCall DEF RecordOf
<1>3. DBInv'
  BY <1>2, RequestInv
<1>4. TypeOK'
  BY <1>1, <1>3 DEF TypeOK, DBInv, network
<1>5. HandlerCall'
  BY <1>2 DEF HandlerCall, Request, DBInv, DBTypeOK
<1>6. BanRead'
  BY <1>2 DEF BanRead, Request, DBInv, DBTypeOK, InCall
<1>7. Numbered' /\ ("disorder" \notin mishaps' => Ordered')
  BY MessagesKept DEF Request
<1> QED
  BY <1>3, <1>4, <1>5, <1>6, <1>7

LEMMA UpdateReturnedInv ==
  ASSUME IInv, UpdateReturned
  PROVE  IInv'
<1> USE PubsubAssumption DEF IInv, UpdateReturned
<1>1. DBInv'
  BY ReturnInv
<1>2. TypeOK'
  BY <1>1 DEF TypeOK, DBInv, network
<1>3. HandlerCall'
  BY DEF HandlerCall, Return, DBInv, DBTypeOK
<1>4. BanRead'
  BY DEF BanRead, Return, DBInv, DBTypeOK
<1>5. Numbered' /\ ("disorder" \notin mishaps' => Ordered')
  BY MessagesKept DEF Return
<1> QED
  BY <1>1, <1>2, <1>3, <1>4, <1>5

-----------------------------------------------------------------------------
(* IInv is inductive: the other clients, the transactions and the restart *)

LEMMA OtherCallsInv ==
  ASSUME IInv, NEW c \in Client, OtherCalls(c)
  PROVE  IInv'
<1> USE PubsubAssumption DEF IInv, OtherCalls
<1>0. c # Handler
  OBVIOUS
<1>1. DBInv' /\ Numbered' /\ ("disorder" \notin mishaps' => Ordered')
  <2>1. [DBNext]_dbVars
    <3>1. ASSUME NEW kind \in OtherKinds, NEW p \in Peer
          PROVE  [kind |-> kind, peer |-> p, rec |-> 0] \in Call
      BY RowsAssumption DEF Call
    <3> QED
      BY <3>1 DEF DBNext
  <2>2. UNCHANGED table
    BY DEF Request, Return
  <2> QED
    BY <2>1, <2>2, DBStepInv, MessagesKept DEF handling
<1>2. TypeOK'
  BY <1>1 DEF TypeOK, DBInv, network, handling
<1>3. CASE Return(c)
  <2>1. HandlerCall'
    BY <1>0, <1>3 DEF HandlerCall, Return, DBInv, DBTypeOK, handling
  <2>2. BanRead'
    BY <1>0, <1>3 DEF BanRead, Return, DBInv, DBTypeOK, handling
  <2> QED
    BY <1>1, <1>2, <2>1, <2>2
<1>4. ASSUME NEW kind \in OtherKinds, NEW p \in Peer,
             Request(c, [kind |-> kind, peer |-> p, rec |-> 0])
      PROVE  IInv'
  <2>1. HandlerCall'
    BY <1>0, <1>4 DEF HandlerCall, Request, DBInv, DBTypeOK, handling
  <2>2. BanRead'
    BY <1>0, <1>4 DEF BanRead, Request, DBInv, DBTypeOK, handling
  <2> QED
    BY <1>1, <1>2, <2>1, <2>2
<1> QED
  BY <1>3, <1>4

\* The handler is in an update whenever it is inside View or Update.
LEMMA HandlerInside ==
  ASSUME IInv, txpc[Handler] # "idle"
  PROVE  at = "update" /\ cur \in Msg /\ call[Handler] = RecordOf(cur)
BY PubsubAssumption DEF IInv, HandlerCall, TypeOK, DBInv, InCall

\* A step of View or Update that does not commit.
LEMMA UncommittedInv ==
  ASSUME IInv, NEW c \in Client, Transaction(c), ~Commit(c), ~CommitFails(c)
  PROVE  IInv'
<1> USE PubsubAssumption DEF IInv
<1>0. \/ Lock(c) \/ First(c) \/ Save(c) \/ StatementFails(c) \/ Rollback(c) \/ Unlock(c)
  BY DEF Transaction, TxStep
<1>1. UNCHANGED <<table, call, network, hand, at, cur, recent>>
  BY <1>0 DEF Transaction, handling, Lock, First, Save, StatementFails, Rollback, Unlock
<1>2. mishaps \subseteq mishaps' /\ mishaps' \subseteq mishaps \cup {"unread", "overtaken"}
  BY DEF Transaction, Note
<1>3. DBInv' /\ Numbered' /\ ("disorder" \notin mishaps' => Ordered')
  <2>1. DBNext
    BY DEF Transaction, DBNext
  <2> QED
    BY <1>1, <1>2, <2>1, DBStepInv, MessagesKept
<1>4. TypeOK'
  BY <1>1, <1>2, <1>3 DEF TypeOK, DBInv, network
<1>5. HandlerCall'
  BY <1>1 DEF HandlerCall
<1>6. BanRead'
  <2>1. CASE c # Handler
    BY <1>0, <1>1, <1>2, <2>1
       DEF BanRead, Lock, First, Save, StatementFails, Rollback, Unlock, Answer, DBInv, DBTypeOK
  <2>2. CASE c = Handler /\ (Lock(c) \/ First(c) \/ Save(c))
    <3>1. txpc'[Handler] # "rollback"
      <4>1. CASE First(c)
        <5>1. call[c].kind = "record"
          BY <2>2, <4>1, HandlerInside DEF First, RecordOf
        <5> QED
          BY <2>2, <4>1, <5>1 DEF First, Refused, DBInv, DBTypeOK
      <4>2. CASE Lock(c) \/ Save(c)
        BY <2>2, <4>2 DEF Lock, Save, DBInv, DBTypeOK
      <4> QED
        BY <2>2, <4>1, <4>2
    <3>2. reply'[Handler] = reply[Handler] /\ reply[Handler] = NoReply
      BY <2>2 DEF Lock, First, Save, DBInv, InCall
    <3> QED
      BY <3>1, <3>2 DEF BanRead
  <2>3. CASE c = Handler /\ StatementFails(c)
    <3>1. CASE txpc[c] = "first"
      BY <1>1, <2>3, <3>1 DEF BanRead, StatementFails, Transaction, Note, DBInv, DBTypeOK, InCall
    <3>2. CASE txpc[c] = "save"
      <4>1. row[c] = table[cur.peer]
        BY <2>3, <3>2, HandlerInside DEF DBInv, RowIsCurrent, RecordOf
      <4> QED
        BY <1>1, <2>3, <3>2, <4>1 DEF BanRead, StatementFails, DBInv, DBTypeOK, InCall
    <3> QED
      BY <2>3, <3>1, <3>2 DEF StatementFails
  <2>4. CASE c = Handler /\ Rollback(c)
    BY <1>1, <1>2, <2>4 DEF BanRead, Rollback, Answer, DBInv, DBTypeOK, InCall
  <2>5. CASE c = Handler /\ Unlock(c)
    BY <1>1, <1>2, <2>5 DEF BanRead, Unlock, DBInv, DBTypeOK
  <2> QED
    BY <1>0, <2>1, <2>2, <2>3, <2>4, <2>5
<1> QED
  BY <1>3, <1>4, <1>5, <1>6

\* The only record a commit can change is that of the message being handled.
LEMMA RecordStored ==
  ASSUME IInv, NEW c \in Client, Commit(c) \/ CommitFails(c)
  PROVE  \A p \in Peer : \/ table'[p].rec = table[p].rec
                         \/ /\ at = "update" /\ cur \in Msg
                            /\ p = cur.peer /\ table'[p].rec = cur.seq
<1>1. txpc[c] = "commit" /\ DBInv
  BY DEF Commit, CommitFails, IInv
<1>2. CASE c = Handler
  BY <1>1, <1>2, HandlerInside, TableChange DEF RecordOf
<1>3. CASE c # Handler
  BY <1>1, <1>3, TableChange DEF IInv, HandlerCall, DBInv, InCall
<1> QED
  BY <1>2, <1>3

LEMMA CommittedInv ==
  ASSUME IInv, NEW c \in Client, Transaction(c), Commit(c) \/ CommitFails(c)
  PROVE  IInv'
<1> USE PubsubAssumption DEF IInv
<1>1. /\ txpc[c] = "commit" /\ txpc' = [txpc EXCEPT ![c] = "unlock"]
      /\ UNCHANGED <<call, row, network, hand, at, cur, recent>>
      /\ \E err \in BOOLEAN : Answer(c, err)
  BY DEF Transaction, handling, Commit, CommitFails
<1>2. mishaps \subseteq mishaps' /\ mishaps' \subseteq mishaps \cup {"unread", "overtaken"}
  BY DEF Transaction, Note
<1>3. DBInv'
  BY CommitInv
<1>4. TypeOK'
  BY <1>1, <1>2, <1>3 DEF TypeOK, DBInv, network
<1>5. HandlerCall'
  BY <1>1 DEF HandlerCall
<1>6. \A k \in Node : UnderWay(k)' = UnderWay(k)
  BY <1>1 DEF UnderWay, network
<1>7. \A p \in Peer : \/ table'[p].rec = table[p].rec
                      \/ /\ at = "update" /\ cur \in Msg
                         /\ p = cur.peer /\ table'[p].rec = cur.seq
  BY RecordStored
<1>8. Numbered'
  BY <1>1, <1>6, <1>7 DEF Numbered, TypeOK, network
<1>9. ASSUME "disorder" \notin mishaps' PROVE Ordered'
  <2>1. Ordered
    BY <1>2, <1>9
  <2>2. Remembered' /\ OldestFirst'
    BY <1>1, <1>6, <2>1 DEF Ordered, Remembered, OldestFirst, network
  <2>3. Passed'
    <3> SUFFICES ASSUME NEW k \in Node, NEW m \in UnderWay(k),
                        m.seq <= table'[m.peer].rec \/ (cur # NoMsg /\ NotNewer(m, cur))
                 PROVE  m \in recent
      BY <1>1, <1>6 DEF Passed
    <3>1. m \in Msg
      BY DEF UnderWay, TypeOK
    <3>2. m.seq <= table[m.peer].rec \/ (cur # NoMsg /\ NotNewer(m, cur))
      BY <1>7, <3>1 DEF NotNewer, Msg, TypeOK
    <3> QED
      BY <2>1, <3>2 DEF Ordered, Passed
  <2>4. NotOlder'
    <3>1. cur # NoMsg => cur.peer \in Peer /\ cur.seq \in Nat
      BY DEF TypeOK, Msg
    <3>2. at = "check" => cur # NoMsg
      BY DEF TypeOK
    <3> QED
      BY <1>1, <1>7, <2>1, <3>1, <3>2 DEF Ordered, NotOlder
  <2> QED
    BY <2>2, <2>3, <2>4 DEF Ordered
<1>10. BanRead'
  <2>1. CASE c = Handler
    <3>1. cur \in Msg /\ cur.peer \in Peer /\ call[c] = RecordOf(cur)
      BY <1>1, <2>1, HandlerInside, RecordOfIsCall
    <3>2. row[c] = table[cur.peer] /\ table'[cur.peer].banned = table[cur.peer].banned
      BY <1>1, <3>1, TableChange DEF DBInv, RowIsCurrent, RecordOf
    <3> QED
      BY <1>1, <2>1, <3>2 DEF BanRead, Answer, DBInv, DBTypeOK
  <2>2. CASE c # Handler
    <3>1. txpc[Handler] \notin Locked
      BY <1>1, <2>2, Alone DEF Locked
    <3>2. reply'[Handler] = reply[Handler] /\ txpc'[Handler] = txpc[Handler]
      BY <1>1, <2>2 DEF Answer, DBInv, DBTypeOK
    <3>3. table' # table /\ reply[Handler] # NoReply => "overtaken" \in mishaps'
      BY <2>2 DEF Transaction, Note
    <3> QED
      BY <1>1, <1>2, <3>1, <3>2, <3>3 DEF BanRead, Locked
  <2> QED
    BY <2>1, <2>2
<1> QED
  BY <1>3, <1>4, <1>5, <1>8, <1>9, <1>10

LEMMA RestartInv ==
  ASSUME IInv, Restart
  PROVE  IInv'
<1> USE PubsubAssumption DEF IInv, Restart
<1>1. DBInv'
  BY DBCrashInv
<1>2. TypeOK'
  BY <1>1 DEF TypeOK, DBInv
<1>3. HandlerCall' /\ BanRead'
  BY DEF HandlerCall, BanRead, DBCrash
<1>4. \A k \in Node : UnderWay(k)' = {}
  BY DEF UnderWay
<1>5. Numbered'
  BY <1>4 DEF Numbered, DBCrash
<1>6. Ordered'
  BY <1>4 DEF Ordered, Remembered, OldestFirst, Passed, NotOlder
<1> QED
  BY <1>1, <1>2, <1>3, <1>5, <1>6

LEMMA NextIInv == IInv /\ [Next]_vars => IInv'
<1> SUFFICES ASSUME IInv, [Next]_vars PROVE IInv'
  OBVIOUS
<1>1. CASE StartJob \/ SkipBanned
  BY <1>1, UpdateReturnedInv DEF StartJob, SkipBanned
<1>2. ASSUME NEW c \in Client, Transaction(c) PROVE IInv'
  BY <1>2, UncommittedInv, CommittedInv
<1>3. CASE UNCHANGED vars
  <2>1. UNCHANGED <<dbVars, published, inbox, hand, at, cur, recent, mishaps>>
    BY <1>3 DEF vars
  <2>2. DBInv'
    BY <2>1, DBStepInv DEF IInv
  <2>3. TypeOK' /\ HandlerCall' /\ BanRead'
    BY <2>1, <2>2 DEF IInv, TypeOK, DBInv, HandlerCall, BanRead, dbVars
  <2>4. Numbered' /\ ("disorder" \notin mishaps' => Ordered')
    BY <2>1, MessagesKept DEF network, dbVars
  <2> QED
    BY <2>2, <2>3, <2>4 DEF IInv
<1> QED
  BY <1>1, <1>2, <1>3, PublishInv, LoseInv, ReadNextInv, ReceiveInv, ForgetInv,
     InvalidInv, ValidInv, OtherCallsInv, RestartInv DEF Next

LEMMA Inductive == Spec => []IInv
BY InitIInv, NextIInv, PTL DEF Spec

-----------------------------------------------------------------------------
\* Type correctness of the handler and of the database under it.
THEOREM TypeCorrect == Spec => []TypeOK
BY Inductive, PTL DEF IInv

\* With the handler among its clients too, the mutex is held exactly by the
\* client that is between Lock and Unlock.
THEOREM MutexNotLeaked == Spec => []MutexHeldInside
<1>1. IInv => MutexHeldInside
  BY DEF IInv, DBInv
<1> QED
  BY <1>1, Inductive, PTL

\* The row under the empty key stays without a record and unbanned.
THEOREM EmptyKeyStaysInert == Spec => []EmptyKeyIsInert
<1>1. IInv => EmptyKeyIsInert
  BY DEF IInv, DBInv
<1> QED
  BY <1>1, Inductive, PTL

\* The handler and the other goroutines see one-step transactions.
THEOREM IngestIsAtomic == Spec => AtomicTransactions
<1>1. Init => Atomic!Init
  BY DBInitAtomic DEF Init
<1>2. IInv /\ [Next]_vars => [Atomic!Next]_(Atomic!vars)
  BY DatabaseStep, DBStepAtomic DEF IInv
<1> QED
  BY <1>1, <1>2, Inductive, PTL DEF Spec, AtomicTransactions, Atomic!Spec

\* A stored record is replaced by an older one only after a disorder among the
\* messages: remembering a message for a minute is what keeps the records in
\* order, and nothing else does.
THEOREM RecordsNeverRegress == Spec => NeverRegresses
<1> DEFINE Step == \A p \in Peer : table'[p].rec < table[p].rec => "disorder" \in mishaps
<1>1. IInv /\ [Next]_vars => Step
  <2> SUFFICES ASSUME IInv, [Next]_vars, NEW p \in Peer,
                      table'[p].rec < table[p].rec, "disorder" \notin mishaps
               PROVE  FALSE
    OBVIOUS
  <2> USE PubsubAssumption DEF IInv
  <2>1. table[p].rec \in Nat
    BY RowsAssumption DEF DBInv, DBTypeOK, Key, Row
  <2>2. PICK c \in Client : Commit(c) \/ CommitFails(c)
    <3>1. table' # table
      BY <2>1
    <3>2. DBNext
      BY <3>1, DatabaseStep DEF dbVars
    <3> QED
      BY <3>1, <3>2 DEF DBNext, TxStep, Request, Lock, First, Save, StatementFails,
                        Rollback, Unlock, Return, DBCrash
  <2>3. cur \in Msg /\ p = cur.peer /\ table'[p].rec = cur.seq
    BY <2>1, <2>2, RecordStored
  <2>4. table[p].rec <= cur.seq
    BY <2>3 DEF Ordered, NotOlder
  <2> QED
    BY <2>1, <2>3, <2>4 DEF Msg
<1> QED
  BY <1>1, Inductive, PTL DEF Spec, NeverRegresses

\* No stored record is taken to the database a second time: the copies that the other
\* nodes bring are dropped.
THEOREM RecordsTakenOnce == Spec => TakenOnce
<1> DEFINE Step == Valid => table[cur.peer].rec < cur.seq \/ "disorder" \in mishaps
<1>1. IInv => Step
  BY DEF IInv, Ordered, NotOlder, Valid
<1> QED
  BY <1>1, Inductive, PTL DEF Spec, TakenOnce

\* No job is started for a banned peer, unless its row could not be read or the
\* ban came after the transaction.
THEOREM BannedPeersGetNoJob == Spec => BannedGetNoJob
<1> DEFINE Step == StartJob /\ table[cur.peer].banned => mishaps \cap {"unread", "overtaken"} # {}
<1>1. IInv => Step
  <2> SUFFICES ASSUME IInv, StartJob, table[cur.peer].banned
               PROVE  mishaps \cap {"unread", "overtaken"} # {}
    OBVIOUS
  <2>1. reply[Handler] # NoReply
    BY PubsubAssumption DEF StartJob, UpdateReturned, Return, IInv, DBInv, InCall
  <2> QED
    BY <2>1 DEF IInv, BanRead, StartJob
<1> QED
  BY <1>1, Inductive, PTL DEF Spec, BannedGetNoJob
=============================================================================
