------------------------------ MODULE Database ------------------------------
(***************************************************************************)
(* repo.Database: a mutex around gorm (repo/database.go).  View and Update *)
(* lock it, begin a transaction, run the caller's function statement by    *)
(* statement, commit or roll back, and unlock.  Save writes every column   *)
(* of the struct that was loaded, so two functions that overlapped would   *)
(* undo each other's changes.                                              *)
(*                                                                         *)
(* The clients are goroutines of one process; Crash ends them all.         *)
(***************************************************************************)
EXTENDS PeerRows

VARIABLES
  table,    \* the Peer table, committed
  mtx,      \* the goroutine that holds d.mtx
  txpc,     \* where each client is in View or Update
  call,     \* what it was called with
  row,      \* the struct its function loads the row into
  reply     \* what it returned

txVars == <<mtx, txpc, call, row, reply>>
dbVars == <<table, mtx, txpc, call, row, reply>>

Locked == {"first", "save", "commit", "rollback", "unlock"}
TxPCs == {"idle", "lock", "done"} \cup Locked

DBTypeOK ==
  /\ table \in [Key -> Row]
  /\ mtx \in Client \cup {Nobody}
  /\ txpc \in [Client -> TxPCs]
  /\ call \in [Client -> Call \cup {NoCall}]
  /\ row \in [Client -> Row]
  /\ reply \in [Client -> Reply \cup {NoReply}]

\* NewDatabase opens the database and creates its tables; no goroutine uses it.
DBInit ==
  /\ table = [p \in Key |-> Blank]
  /\ mtx = Nobody
  /\ txpc = [c \in Client |-> "idle"]
  /\ call = [c \in Client |-> NoCall]
  /\ row = [c \in Client |-> Blank]
  /\ reply = [c \in Client |-> NoReply]

-----------------------------------------------------------------------------
\* A goroutine calls View or Update with one of the functions.
Request(c, k) ==
  /\ txpc[c] = "idle"
  /\ txpc' = [txpc EXCEPT ![c] = "lock"]
  /\ call' = [call EXCEPT ![c] = k]
  /\ UNCHANGED <<table, mtx, row, reply>>

LockAnyway(c) ==
  /\ txpc[c] = "lock"
  /\ mtx' = c
  /\ txpc' = [txpc EXCEPT ![c] = "first"]
  /\ UNCHANGED <<table, call, row, reply>>

\* d.mtx.Lock() and Begin.  The error of Begin is not looked at: it comes back
\* from the first statement of the transaction.
Lock(c) ==
  /\ txpc[c] = "lock"
  /\ mtx = Nobody
  /\ mtx' = c
  /\ txpc' = [txpc EXCEPT ![c] = "first"]
  /\ UNCHANGED <<table, call, row, reply>>

\* Where(peer_id).First(&peer): a row that is missing, or that the resolver's
\* query leaves out, leaves the zero struct.
First(c) ==
  LET k == call[c]
      found == table[k.peer]
  IN /\ txpc[c] = "first"
     /\ row' = [row EXCEPT ![c] = IF k.kind = "resolve" /\ found.banned THEN Blank ELSE found]
     /\ txpc' = [txpc EXCEPT ![c] = IF Refused(k, found) THEN "rollback"
                                      ELSE IF k.kind \in ReadOnly THEN "commit" ELSE "save"]
     /\ UNCHANGED <<table, mtx, call, reply>>

Save(c) ==
  /\ txpc[c] = "save"
  /\ Insertable(call[c], row[c], table)
  /\ txpc' = [txpc EXCEPT ![c] = "commit"]
  /\ UNCHANGED <<table, mtx, call, row, reply>>

\* A statement returns an error, and so does the function.
StatementFails(c) ==
  /\ txpc[c] \in {"first", "save"}
  /\ txpc' = [txpc EXCEPT ![c] = "rollback"]
  /\ UNCHANGED <<table, mtx, call, row, reply>>

Answer(c, err) == reply' = [reply EXCEPT ![c] = [err |-> err, banned |-> row[c].banned]]

Commit(c) ==
  /\ txpc[c] = "commit"
  /\ table' = Updated(table, call[c], row[c])
  /\ Answer(c, FALSE)
  /\ txpc' = [txpc EXCEPT ![c] = "unlock"]
  /\ UNCHANGED <<mtx, call, row>>

\* Commit returns an error; the server may have committed all the same.
CommitFails(c) ==
  /\ txpc[c] = "commit"
  /\ table' \in {table, Updated(table, call[c], row[c])}
  /\ Answer(c, TRUE)
  /\ txpc' = [txpc EXCEPT ![c] = "unlock"]
  /\ UNCHANGED <<mtx, call, row>>

RollbackKeepingLock(c) ==
  /\ txpc[c] = "rollback"
  /\ Answer(c, TRUE)
  /\ txpc' = [txpc EXCEPT ![c] = "done"]
  /\ UNCHANGED <<table, mtx, call, row>>

Rollback(c) ==
  /\ txpc[c] = "rollback"
  /\ Answer(c, TRUE)
  /\ txpc' = [txpc EXCEPT ![c] = "unlock"]
  /\ UNCHANGED <<table, mtx, call, row>>

\* The deferred d.mtx.Unlock(); the function's struct goes out of scope.
Unlock(c) ==
  /\ txpc[c] = "unlock"
  /\ mtx' = Nobody
  /\ txpc' = [txpc EXCEPT ![c] = "done"]
  /\ row' = [row EXCEPT ![c] = Blank]
  /\ UNCHANGED <<table, call, reply>>

\* The caller goes on with what View or Update returned.
Return(c) ==
  /\ txpc[c] = "done"
  /\ txpc' = [txpc EXCEPT ![c] = "idle"]
  /\ call' = [call EXCEPT ![c] = NoCall]
  /\ reply' = [reply EXCEPT ![c] = NoReply]
  /\ UNCHANGED <<table, mtx, row>>

\* What a client does between its call and its return.
TxStep(c) ==
  \/ First(c) \/ Save(c) \/ StatementFails(c)
  \/ Commit(c) \/ CommitFails(c) \/ Rollback(c) \/ Unlock(c)

\* The process ends: transactions that have not committed are lost.
DBCrash ==
  /\ mtx' = Nobody
  /\ txpc' = [c \in Client |-> "idle"]
  /\ call' = [c \in Client |-> NoCall]
  /\ row' = [c \in Client |-> Blank]
  /\ reply' = [c \in Client |-> NoReply]
  /\ UNCHANGED table

DBNext ==
  \/ \E c \in Client : (\E k \in Call : Request(c, k)) \/ Lock(c) \/ TxStep(c) \/ Return(c)
  \/ DBCrash

DBSpec == DBInit /\ [][DBNext]_dbVars

-----------------------------------------------------------------------------
\* The transactions of the code are atomic: seen from the table and from the
\* callers, View and Update are what PeerTable says (repo/database.go:82-108).
Atomic == INSTANCE PeerTable WITH table <- table, call <- call, reply <- reply

AtomicTransactions == Atomic!Spec

\* Whatever statement fails, the mutex is given back: it is only ever held by a
\* goroutine that is still inside View or Update, and has work left to do there
\* (repo/database.go:85-93, 99-107).
MutexHeldInside == \A c \in Client : mtx = c <=> txpc[c] \in Locked

\* What the deferred save of processJob leaves under the empty key.
Nameless == [known |-> TRUE, banned |-> FALSE, rec |-> 0]

\* The row under the empty key, which the deferred save of a crawl of an unknown
\* peer leaves behind, never gets a record and is never banned, so that no
\* ticker and no request selects it (worker.go:70-81, crawler.go:297).
EmptyKeyIsInert == table[NoPeer] \in {Blank, Nameless}
=============================================================================
