--------------------------- MODULE Database_proofs ---------------------------
(***************************************************************************)
(* View and Update are atomic, whichever statement or commit fails and     *)
(* whenever the process ends, and no failure keeps the mutex.              *)
(*                                                                         *)
(* DBInv is stated for the variables of Database alone, and DBStep for one *)
(* step of it, so that a module built on the database can use them.        *)
(***************************************************************************)
EXTENDS Database, TLAPS

\* What a client has at each point of its call.
InCall ==
  \A c \in Client :
    /\ txpc[c] = "idle" <=> call[c] = NoCall
    /\ txpc[c] \in {"unlock", "done"} <=> reply[c] # NoReply
    /\ txpc[c] \in {"idle", "lock", "first", "done"} => row[c] = Blank

\* The struct a function works on is the row as it still is in the table: this is
\* what the mutex is for.
RowIsCurrent ==
  \A c \in Client :
    /\ txpc[c] \in {"save", "commit"} =>
         row[c] = table[call[c].peer] /\ ~Refused(call[c], row[c])
    /\ txpc[c] = "rollback" => row[c] \in {Blank, table[call[c].peer]}

\* A key without a row is the zero struct.
UnknownIsBlank == \A p \in Key : ~table[p].known => table[p] = Blank

DBInv ==
  /\ DBTypeOK
  /\ MutexHeldInside
  /\ InCall
  /\ RowIsCurrent
  /\ UnknownIsBlank
  /\ EmptyKeyIsInert

-----------------------------------------------------------------------------
(* The table *)

LEMMA BlankIsRow == Blank \in Row /\ ~Blank.known /\ ~Blank.banned
BY RowsAssumption DEF Blank, Row

LEMMA NamelessIsRow == Nameless \in Row
BY RowsAssumption DEF Nameless, Row

LEMMA SameRow ==
  ASSUME NEW a \in Row, NEW b \in Row, a.known = b.known, a.banned = b.banned, a.rec = b.rec
  PROVE  a = b
BY DEF Row

\* What a committed function does to the table.
LEMMA UpdatedTable ==
  ASSUME NEW t \in [Key -> Row], NEW k \in Call,
         \A p \in Key : ~t[p].known => t[p] = Blank,
         t[NoPeer] \in {Blank, Nameless}
  PROVE  LET u == Updated(t, k, t[k.peer])
         IN /\ u \in [Key -> Row]
            /\ \A p \in Key : ~u[p].known => u[p] = Blank
            /\ u[NoPeer] \in {Blank, Nameless}
<1> DEFINE r == t[k.peer]
           u == Updated(t, k, r)
<1>1. k.peer \in Key /\ k.peer # NoPeer /\ k.peer \in Peer
  BY RowsAssumption DEF Call, Key
<1>2. r \in Row
  BY <1>1
<1>3. Saved(k, r) \in Row /\ Saved(k, r).known
  BY <1>2 DEF Saved, Row, Call
<1>4. KeyOf(k, r) \in Key
  BY <1>1 DEF KeyOf, Key
<1>5. u \in [Key -> Row] /\ \A p \in Key : ~u[p].known => u[p] = Blank
  BY <1>3, <1>4 DEF Updated
<1>6. u[NoPeer] \in {Blank, Nameless}
  <2>1. CASE k.kind = "crawled" /\ ~r.known
    <3>1. r = Blank
      BY <1>1, <2>1
    <3>2. ((r.banned \/ k.kind = "ban") /\ k.kind # "unban") = FALSE
      BY <2>1, <3>1 DEF Blank
    <3>3. Saved(k, r) = [r EXCEPT !.known = TRUE, !.banned = FALSE, !.rec = r.rec]
      BY <2>1, <3>2 DEF Saved
    <3>4. Saved(k, r).known = TRUE /\ Saved(k, r).banned = FALSE /\ Saved(k, r).rec = r.rec
      BY <1>2, <3>3 DEF Row
    <3>5. r.rec = 0
      BY <3>1 DEF Blank
    <3>6. Saved(k, r) = Nameless
      <4>1. Nameless.known = TRUE /\ Nameless.banned = FALSE /\ Nameless.rec = 0
        BY DEF Nameless
      <4> QED
        BY <1>3, <3>4, <3>5, <4>1, SameRow, NamelessIsRow
    <3> QED
      BY <1>4, <2>1, <3>6 DEF Updated, KeyOf, Key
  <2>2. CASE ~(k.kind = "crawled" /\ ~r.known)
    BY <1>1, <2>2 DEF Updated, KeyOf, Key
  <2> QED
    BY <2>1, <2>2
<1> QED
  BY <1>5, <1>6

-----------------------------------------------------------------------------
(* DBInv is inductive *)

LEMMA DBInitInv == DBInit => DBInv
<1> SUFFICES ASSUME DBInit PROVE DBInv
  OBVIOUS
<1> USE RowsAssumption, BlankIsRow DEF DBInit
<1>1. DBTypeOK
  BY DEF DBTypeOK, TxPCs
<1>2. MutexHeldInside
  BY DEF MutexHeldInside, Locked
<1>3. InCall /\ RowIsCurrent
  BY DEF InCall, RowIsCurrent
<1>4. UnknownIsBlank /\ EmptyKeyIsInert
  BY DEF UnknownIsBlank, EmptyKeyIsInert, Key
<1> QED
  BY <1>1, <1>2, <1>3, <1>4 DEF DBInv

\* A step that leaves the table alone and changes one client.
LEMMA RequestInv ==
  ASSUME DBInv, NEW c \in Client, NEW k \in Call, Request(c, k)
  PROVE  DBInv'
<1> USE RowsAssumption DEF Request, DBInv
<1>1. DBTypeOK'
  BY DEF DBTypeOK, TxPCs
<1>2. MutexHeldInside'
  BY DEF MutexHeldInside, Locked, DBTypeOK
<1>3. InCall'
  BY DEF InCall, DBTypeOK
<1>4. RowIsCurrent'
  BY DEF RowIsCurrent, DBTypeOK
<1>5. UnknownIsBlank' /\ EmptyKeyIsInert'
  BY DEF UnknownIsBlank, EmptyKeyIsInert
<1> QED
  BY <1>1, <1>2, <1>3, <1>4, <1>5

LEMMA LockInv ==
  ASSUME DBInv, NEW c \in Client, Lock(c)
  PROVE  DBInv'
<1> USE RowsAssumption DEF Lock, DBInv
<1>1. DBTypeOK'
  BY DEF DBTypeOK, TxPCs, Locked
<1>2. MutexHeldInside'
  BY DEF MutexHeldInside, Locked, DBTypeOK
<1>3. InCall'
  BY DEF InCall, DBTypeOK
<1>4. RowIsCurrent'
  BY DEF RowIsCurrent, DBTypeOK
<1>5. UnknownIsBlank' /\ EmptyKeyIsInert'
  BY DEF UnknownIsBlank, EmptyKeyIsInert
<1> QED
  BY <1>1, <1>2, <1>3, <1>4, <1>5

LEMMA ReturnInv ==
  ASSUME DBInv, NEW c \in Client, Return(c)
  PROVE  DBInv'
<1> USE RowsAssumption DEF Return, DBInv
<1>1. DBTypeOK'
  BY DEF DBTypeOK, TxPCs
<1>2. MutexHeldInside'
  BY DEF MutexHeldInside, Locked, DBTypeOK
<1>3. InCall'
  BY DEF InCall, DBTypeOK
<1>4. RowIsCurrent'
  BY DEF RowIsCurrent, DBTypeOK
<1>5. UnknownIsBlank' /\ EmptyKeyIsInert'
  BY DEF UnknownIsBlank, EmptyKeyIsInert
<1> QED
  BY <1>1, <1>2, <1>3, <1>4, <1>5

\* The call of a client that is inside View or Update.
LEMMA CallInside ==
  ASSUME DBInv, NEW c \in Client, txpc[c] # "idle"
  PROVE  call[c] \in Call /\ call[c].peer \in Key
BY DEF DBInv, DBTypeOK, InCall, Call, Key

\* Nobody else is inside View or Update.
LEMMA Alone ==
  ASSUME DBInv, NEW c \in Client, NEW d \in Client, txpc[c] \in Locked, d # c
  PROVE  txpc[d] \notin Locked
BY DEF DBInv, MutexHeldInside

LEMMA FirstInv ==
  ASSUME DBInv, NEW c \in Client, First(c)
  PROVE  DBInv'
<1> USE RowsAssumption DEF First, DBInv
<1>0. call[c].peer \in Key
  BY CallInside
<1> DEFINE k == call[c]
           found == table[k.peer]
<1>a. PICK r \in {Blank, found}, x \in {"rollback", "commit", "save"} :
        /\ row' = [row EXCEPT ![c] = r]
        /\ txpc' = [txpc EXCEPT ![c] = x]
        /\ x # "rollback" => r = found /\ ~Refused(k, found)
  BY DEF Refused
<1>b. txpc[c] = "first" /\ UNCHANGED <<table, mtx, call, reply>>
  OBVIOUS
<1>c. r \in Row
  BY <1>0, BlankIsRow DEF DBTypeOK
<1> HIDE DEF First
<1>1. DBTypeOK'
  BY <1>a, <1>b, <1>c DEF DBTypeOK, TxPCs, Locked
<1>2. MutexHeldInside'
  BY <1>a, <1>b DEF MutexHeldInside, Locked, DBTypeOK
<1>3. InCall'
  BY <1>a, <1>b DEF InCall, DBTypeOK
<1>4. RowIsCurrent'
  BY <1>a, <1>b DEF RowIsCurrent, DBTypeOK
<1>5. UnknownIsBlank' /\ EmptyKeyIsInert'
  BY <1>b DEF UnknownIsBlank, EmptyKeyIsInert
<1> QED
  BY <1>1, <1>2, <1>3, <1>4, <1>5

LEMMA SaveInv ==
  ASSUME DBInv, NEW c \in Client, Save(c)
  PROVE  DBInv'
<1> USE RowsAssumption DEF Save, DBInv
<1>1. DBTypeOK'
  BY DEF DBTypeOK, TxPCs, Locked
<1>2. MutexHeldInside'
  BY DEF MutexHeldInside, Locked, DBTypeOK
<1>3. InCall'
  BY DEF InCall, DBTypeOK
<1>4. RowIsCurrent'
  BY DEF RowIsCurrent, DBTypeOK
<1>5. UnknownIsBlank' /\ EmptyKeyIsInert'
  BY DEF UnknownIsBlank, EmptyKeyIsInert
<1> QED
  BY <1>1, <1>2, <1>3, <1>4, <1>5

LEMMA StatementFailsInv ==
  ASSUME DBInv, NEW c \in Client, StatementFails(c)
  PROVE  DBInv'
<1> USE RowsAssumption DEF StatementFails, DBInv
<1>1. DBTypeOK'
  BY DEF DBTypeOK, TxPCs, Locked
<1>2. MutexHeldInside'
  BY DEF MutexHeldInside, Locked, DBTypeOK
<1>3. InCall'
  BY DEF InCall, DBTypeOK
<1>4. RowIsCurrent'
  BY DEF RowIsCurrent, InCall, DBTypeOK
<1>5. UnknownIsBlank' /\ EmptyKeyIsInert'
  BY DEF UnknownIsBlank, EmptyKeyIsInert
<1> QED
  BY <1>1, <1>2, <1>3, <1>4, <1>5

\* The answer of a client is a reply.
LEMMA Answered ==
  ASSUME DBInv, NEW c \in Client, NEW err \in BOOLEAN, Answer(c, err)
  PROVE  /\ reply' \in [Client -> Reply \cup {NoReply}]
         /\ reply'[c] # NoReply
         /\ \A d \in Client \ {c} : reply'[d] = reply[d]
<1>1. row[c] \in Row
  BY DEF DBInv, DBTypeOK
<1>2. [err |-> err, banned |-> row[c].banned] \in Reply
  BY <1>1 DEF Row, Reply
<1> QED
  BY <1>2, RowsAssumption DEF DBInv, DBTypeOK, Answer

\* Both ends of a commit: the table is updated or not, and the reply is there.
LEMMA CommitInv ==
  ASSUME DBInv, NEW c \in Client, Commit(c) \/ CommitFails(c)
  PROVE  DBInv'
<1> USE RowsAssumption DEF DBInv
<1>0. /\ txpc[c] = "commit"
      /\ txpc' = [txpc EXCEPT ![c] = "unlock"]
      /\ UNCHANGED <<mtx, call, row>>
      /\ table' \in {table, Updated(table, call[c], row[c])}
  BY DEF Commit, CommitFails
<1>1. PICK err \in BOOLEAN : Answer(c, err)
  BY DEF Commit, CommitFails
<1>2. call[c] \in Call /\ row[c] = table[call[c].peer]
  BY <1>0, CallInside DEF RowIsCurrent
<1>3. /\ table' \in [Key -> Row]
      /\ UnknownIsBlank'
      /\ EmptyKeyIsInert'
  BY <1>0, <1>2, UpdatedTable DEF DBTypeOK, UnknownIsBlank, EmptyKeyIsInert
<1>4. DBTypeOK'
  BY <1>0, <1>1, <1>3, Answered DEF DBTypeOK, TxPCs, Locked
<1>5. MutexHeldInside'
  BY <1>0 DEF MutexHeldInside, Locked, DBTypeOK
<1>6. InCall'
  BY <1>0, <1>1, Answered DEF InCall, DBTypeOK
<1>7. RowIsCurrent'
  <2>1. ASSUME NEW d \in Client, d # c
        PROVE  txpc'[d] \notin {"save", "commit", "rollback"}
    BY <1>0, <2>1, Alone DEF Locked, DBTypeOK
  <2> QED
    BY <1>0, <2>1 DEF RowIsCurrent, DBTypeOK
<1> QED
  BY <1>3, <1>4, <1>5, <1>6, <1>7

LEMMA RollbackInv ==
  ASSUME DBInv, NEW c \in Client, Rollback(c)
  PROVE  DBInv'
<1> USE RowsAssumption DEF Rollback, DBInv
<1>1. DBTypeOK'
  BY Answered DEF DBTypeOK, TxPCs, Locked
<1>2. MutexHeldInside'
  BY DEF MutexHeldInside, Locked, DBTypeOK
<1>3. InCall'
  BY Answered DEF InCall, DBTypeOK
<1>4. RowIsCurrent'
  BY DEF RowIsCurrent, DBTypeOK
<1>5. UnknownIsBlank' /\ EmptyKeyIsInert'
  BY DEF UnknownIsBlank, EmptyKeyIsInert
<1> QED
  BY <1>1, <1>2, <1>3, <1>4, <1>5

LEMMA UnlockInv ==
  ASSUME DBInv, NEW c \in Client, Unlock(c)
  PROVE  DBInv'
<1> USE RowsAssumption DEF Unlock, DBInv
<1>1. DBTypeOK'
  BY BlankIsRow DEF DBTypeOK, TxPCs
<1>2. MutexHeldInside'
  BY DEF MutexHeldInside, Locked, DBTypeOK
<1>3. InCall'
  BY DEF InCall, DBTypeOK
<1>4. RowIsCurrent'
  BY DEF RowIsCurrent, DBTypeOK
<1>5. UnknownIsBlank' /\ EmptyKeyIsInert'
  BY DEF UnknownIsBlank, EmptyKeyIsInert
<1> QED
  BY <1>1, <1>2, <1>3, <1>4, <1>5

LEMMA DBCrashInv ==
  ASSUME DBInv, DBCrash
  PROVE  DBInv'
<1> USE RowsAssumption, BlankIsRow DEF DBCrash, DBInv
<1>1. DBTypeOK'
  BY DEF DBTypeOK, TxPCs
<1>2. MutexHeldInside'
  BY DEF MutexHeldInside, Locked
<1>3. InCall' /\ RowIsCurrent'
  BY DEF InCall, RowIsCurrent
<1>4. UnknownIsBlank' /\ EmptyKeyIsInert'
  BY DEF UnknownIsBlank, EmptyKeyIsInert
<1> QED
  BY <1>1, <1>2, <1>3, <1>4

\* One step of the database keeps DBInv.
LEMMA DBStepInv == DBInv /\ [DBNext]_dbVars => DBInv'
<1> SUFFICES ASSUME DBInv, [DBNext]_dbVars PROVE DBInv'
  OBVIOUS
<1>1. ASSUME NEW c \in Client, TxStep(c) PROVE DBInv'
  BY <1>1, FirstInv, SaveInv, StatementFailsInv, CommitInv, RollbackInv, UnlockInv DEF TxStep
<1>2. CASE UNCHANGED dbVars
  BY <1>2 DEF dbVars, DBInv, DBTypeOK, MutexHeldInside, InCall, RowIsCurrent,
              UnknownIsBlank, EmptyKeyIsInert
<1> QED
  BY <1>1, <1>2, RequestInv, LockInv, ReturnInv, DBCrashInv DEF DBNext

-----------------------------------------------------------------------------
(* Every step of the database is one of PeerTable, or none *)

LEMMA DBInitAtomic == DBInit => Atomic!Init
BY DEF DBInit, Atomic!Init, Atomic!Key, Key, Atomic!Blank, Blank

\* PeerTable computes the new row as the database does.
LEMMA SameUpdate ==
  ASSUME NEW t, NEW k, NEW r
  PROVE  Atomic!Updated(t, k, r) = Updated(t, k, r)
BY DEF Atomic!Updated, Updated, Atomic!KeyOf, KeyOf, Atomic!Saved, Saved, Atomic!ReadOnly,
       ReadOnly

LEMMA CommitAtomic ==
  ASSUME DBInv, NEW c \in Client, Commit(c) \/ CommitFails(c)
  PROVE  Atomic!Succeed(c) \/ Atomic!Fail(c)
<1>1. txpc[c] = "commit" /\ row[c] = table[call[c].peer] /\ ~Refused(call[c], row[c])
  BY DEF Commit, CommitFails, DBInv, RowIsCurrent
<1>2. Atomic!Running(c) /\ Atomic!RowOf(c) = row[c]
  BY <1>1 DEF Atomic!Running, Atomic!RowOf, DBInv, InCall
<1>3. CASE Commit(c)
  <2>1. ~Atomic!Refused(call[c], Atomic!RowOf(c))
    BY <1>1, <1>2 DEF Atomic!Refused, Refused
  <2> QED
    BY <1>2, <1>3, <2>1, SameUpdate DEF Commit, Answer, Atomic!Succeed
<1>4. CASE CommitFails(c)
  BY <1>2, <1>4, SameUpdate DEF CommitFails, Answer, Atomic!Fail
<1> QED
  BY <1>3, <1>4

LEMMA RollbackAtomic ==
  ASSUME DBInv, NEW c \in Client, Rollback(c)
  PROVE  Atomic!Fail(c)
<1>1. txpc[c] = "rollback" /\ row[c] \in {Blank, table[call[c].peer]}
  BY DEF Rollback, DBInv, RowIsCurrent
<1>2. Atomic!Running(c)
  BY <1>1 DEF Atomic!Running, DBInv, InCall
<1>3. row[c].banned \in {FALSE, Atomic!RowOf(c).banned}
  <2>1. CASE row[c] = Blank
    BY <2>1, BlankIsRow, RowsAssumption DEF Blank
  <2>2. CASE row[c] = table[call[c].peer]
    BY <2>2 DEF Atomic!RowOf
  <2> QED
    BY <1>1, <2>1, <2>2
<1> QED
  BY <1>2, <1>3 DEF Rollback, Answer, Atomic!Fail

LEMMA DBStepAtomic == DBInv /\ [DBNext]_dbVars => [Atomic!Next]_(Atomic!vars)
<1> SUFFICES ASSUME DBInv, [DBNext]_dbVars PROVE [Atomic!Next]_(Atomic!vars)
  OBVIOUS
<1> USE DEF Atomic!vars, Atomic!Next
<1>1. ASSUME NEW c \in Client, NEW k \in Call, Request(c, k) PROVE Atomic!Next
  BY <1>1 DEF Request, Atomic!Request, Atomic!Call, Atomic!Kinds, Atomic!ReadOnly, Call, Kinds,
              ReadOnly, DBInv, InCall
<1>2. ASSUME NEW c \in Client, Lock(c) \/ First(c) \/ Save(c) \/ StatementFails(c) \/ Unlock(c)
      PROVE  UNCHANGED Atomic!vars
  BY <1>2 DEF Lock, First, Save, StatementFails, Unlock
<1>3. ASSUME NEW c \in Client, Commit(c) \/ CommitFails(c) \/ Rollback(c) PROVE Atomic!Next
  BY <1>3, CommitAtomic, RollbackAtomic
<1>4. ASSUME NEW c \in Client, Return(c) PROVE Atomic!Next
  BY <1>4 DEF Return, Atomic!Return, DBInv, InCall
<1>5. CASE DBCrash
  BY <1>5 DEF DBCrash, Atomic!Crash
<1>6. CASE UNCHANGED dbVars
  BY <1>6 DEF dbVars
<1> QED
  BY <1>1, <1>2, <1>3, <1>4, <1>5, <1>6 DEF DBNext, TxStep

-----------------------------------------------------------------------------
\* View and Update implement one-step transactions: the calls of a process, with
\* every failure and crash, behave as PeerTable allows.
THEOREM TransactionsAreAtomic == DBSpec => AtomicTransactions
<1>1. DBSpec => []DBInv
  BY DBInitInv, DBStepInv, PTL DEF DBSpec
<1> QED
  BY <1>1, DBInitAtomic, DBStepAtomic, PTL DEF DBSpec, AtomicTransactions, Atomic!Spec
=============================================================================
