------------------------------ MODULE Records ------------------------------
(***************************************************************************)
(* The transaction of processJob on the CIDRecord table, statement by      *)
(* statement (crawler/worker.go:226-270), as workers run it inside         *)
(* Database.Update (repo/database.go:98-108): load the peer's rows, save   *)
(* one per CID of the graph, delete each old row whose CID is not in it    *)
(* and look for that CID among the other peers' rows, commit.              *)
(*                                                                         *)
(* Crawl jobs of one peer are not kept apart: two workers may store two    *)
(* crawls of one peer at a time.  A statement sees the committed rows and  *)
(* its own transaction's writes.                                           *)
(***************************************************************************)
EXTENDS CIDRows

VARIABLES
  table,    \* the CIDRecord table, committed
  mtx,      \* the worker that holds d.mtx
  pc,       \* where each worker is in Update
  call,     \* the crawl it is storing
  old,      \* oldCIDs
  saved,    \* newCIDs: the rows its transaction has saved
  left,     \* the CIDs of oldCIDs the last loop has yet to look at
  cur,      \* the one it is looking at
  deleted,  \* the rows its transaction has deleted
  toUnpin,
  answer,   \* what Update returned
  losses    \* history: a transaction could not load or delete its old rows

tx == <<old, saved, left, cur, deleted, toUnpin>>
vars == <<table, mtx, pc, call, old, saved, left, cur, deleted, toUnpin, answer, losses>>

Locked == {"load", "save", "delete", "find", "commit", "rollback", "unlock"}
PCs == {"idle", "lock", "done"} \cup Locked

TypeOK ==
  /\ table \in [Peer -> SUBSET CID]
  /\ mtx \in Worker \cup {Nobody}
  /\ pc \in [Worker -> PCs]
  /\ call \in [Worker -> Job \cup {NoJob}]
  /\ old \in [Worker -> SUBSET CID]
  /\ saved \in [Worker -> SUBSET CID]
  /\ left \in [Worker -> SUBSET CID]
  /\ cur \in [Worker -> CID \cup {NoCID}]
  /\ deleted \in [Worker -> SUBSET CID]
  /\ toUnpin \in [Worker -> SUBSET CID]
  /\ answer \in [Worker -> Answer \cup {NoAnswer}]
  /\ losses \in BOOLEAN
  /\ \A w \in Worker : mtx = w <=> pc[w] \in Locked

Init ==
  /\ table = [p \in Peer |-> {}]
  /\ mtx = Nobody
  /\ pc = [w \in Worker |-> "idle"]
  /\ call = [w \in Worker |-> NoJob]
  /\ old = [w \in Worker |-> {}]
  /\ saved = [w \in Worker |-> {}]
  /\ left = [w \in Worker |-> {}]
  /\ cur = [w \in Worker |-> NoCID]
  /\ deleted = [w \in Worker |-> {}]
  /\ toUnpin = [w \in Worker |-> {}]
  /\ answer = [w \in Worker |-> NoAnswer]
  /\ losses = FALSE

Goto(w, x) == pc' = [pc EXCEPT ![w] = x]

-----------------------------------------------------------------------------
\* The graph is crawled and processJob calls Update.
Store(w, j) ==
  /\ pc[w] = "idle"
  /\ Goto(w, "lock")
  /\ call' = [call EXCEPT ![w] = j]
  /\ UNCHANGED <<table, mtx, tx, answer, losses>>

LockAnyway(w) ==
  /\ pc[w] = "lock"
  /\ mtx' = w
  /\ Goto(w, "load")
  /\ UNCHANGED <<table, call, tx, answer, losses>>

\* d.mtx.Lock() and Begin.
Lock(w) ==
  /\ pc[w] = "lock"
  /\ mtx = Nobody
  /\ mtx' = w
  /\ Goto(w, "load")
  /\ UNCHANGED <<table, call, tx, answer, losses>>

\* Find(&oldCIDs).
Load(w) ==
  /\ pc[w] = "load"
  /\ old' = [old EXCEPT ![w] = table[call[w].peer]]
  /\ Goto(w, "save")
  /\ UNCHANGED <<table, mtx, call, saved, left, cur, deleted, toUnpin, answer, losses>>

\* Its error is only logged.
LoadFails(w) ==
  /\ pc[w] = "load"
  /\ Goto(w, "save")
  /\ losses' = TRUE
  /\ UNCHANGED <<table, mtx, call, tx, answer>>

\* The loop over graph: one Save per CID.
Save(w) ==
  /\ pc[w] = "save"
  /\ \E c \in call[w].graph \ saved[w] : saved' = [saved EXCEPT ![w] = @ \cup {c}]
  /\ UNCHANGED <<table, mtx, pc, call, old, left, cur, deleted, toUnpin, answer, losses>>

\* An error of Save ends the function.
SaveFails(w) ==
  /\ pc[w] = "save"
  /\ call[w].graph \ saved[w] # {}
  /\ Goto(w, "rollback")
  /\ UNCHANGED <<table, mtx, call, tx, answer, losses>>

\* The loop over oldCIDs passes over the CIDs that were saved again.
Compare(w) ==
  /\ pc[w] = "save"
  /\ saved[w] = call[w].graph
  /\ left' = [left EXCEPT ![w] = old[w] \ saved[w]]
  /\ Goto(w, "delete")
  /\ UNCHANGED <<table, mtx, call, old, saved, cur, deleted, toUnpin, answer, losses>>

\* Delete the rows of the next CID; an error is only logged.
Delete(w) ==
  /\ pc[w] = "delete"
  /\ \E c \in left[w] :
       /\ cur' = [cur EXCEPT ![w] = c]
       /\ left' = [left EXCEPT ![w] = @ \ {c}]
       /\ \/ deleted' = [deleted EXCEPT ![w] = @ \cup {c}] /\ UNCHANGED losses
          \/ losses' = TRUE /\ UNCHANGED deleted
  /\ Goto(w, "find")
  /\ UNCHANGED <<table, mtx, call, old, saved, toUnpin, answer>>

\* Look for other peers' rows with that CID.
FindInAll(w) ==
  /\ pc[w] = "find"
  /\ toUnpin' = [toUnpin EXCEPT ![w] =
                   @ \cup ({cur[w]} \ UNION {table[q] : q \in Peer})]
  /\ cur' = [cur EXCEPT ![w] = NoCID]
  /\ Goto(w, "delete")
  /\ UNCHANGED <<table, mtx, call, old, saved, left, deleted, answer, losses>>

Find(w) ==
  /\ pc[w] = "find"
  /\ toUnpin' = [toUnpin EXCEPT ![w] = @ \cup Unshared(table, call[w].peer, {cur[w]})]
  /\ cur' = [cur EXCEPT ![w] = NoCID]
  /\ Goto(w, "delete")
  /\ UNCHANGED <<table, mtx, call, old, saved, left, deleted, answer, losses>>

\* Its error ends the function.
FindFails(w) ==
  /\ pc[w] = "find"
  /\ Goto(w, "rollback")
  /\ UNCHANGED <<table, mtx, call, tx, answer, losses>>

\* The function returns nil.
Compared(w) ==
  /\ pc[w] = "delete"
  /\ left[w] = {}
  /\ Goto(w, "commit")
  /\ UNCHANGED <<table, mtx, call, tx, answer, losses>>

\* The table with the writes of w's transaction.
Written(w) == Replaced(table, call[w].peer, deleted[w], saved[w])

Commit(w) ==
  /\ pc[w] = "commit"
  /\ table' = Written(w)
  /\ answer' = [answer EXCEPT ![w] = [err |-> FALSE, toUnpin |-> toUnpin[w]]]
  /\ Goto(w, "unlock")
  /\ UNCHANGED <<mtx, call, tx, losses>>

\* Commit returns an error; the server may have committed all the same.
CommitFails(w) ==
  /\ pc[w] = "commit"
  /\ table' \in {table, Written(w)}
  /\ answer' = [answer EXCEPT ![w] = Failed]
  /\ Goto(w, "unlock")
  /\ UNCHANGED <<mtx, call, tx, losses>>

CommitAfterError(w) ==
  /\ pc[w] = "rollback"
  /\ table' = Written(w)
  /\ answer' = [answer EXCEPT ![w] = Failed]
  /\ Goto(w, "unlock")
  /\ UNCHANGED <<mtx, call, tx, losses>>

Rollback(w) ==
  /\ pc[w] = "rollback"
  /\ answer' = [answer EXCEPT ![w] = Failed]
  /\ Goto(w, "unlock")
  /\ UNCHANGED <<table, mtx, call, tx, losses>>

\* The deferred d.mtx.Unlock().
Unlock(w) ==
  /\ pc[w] = "unlock"
  /\ mtx' = Nobody
  /\ Goto(w, "done")
  /\ UNCHANGED <<table, call, tx, answer, losses>>

\* processJob goes on, and its worker comes back with another crawl.
Return(w) ==
  /\ pc[w] = "done"
  /\ Goto(w, "idle")
  /\ call' = [call EXCEPT ![w] = NoJob]
  /\ old' = [old EXCEPT ![w] = {}]
  /\ saved' = [saved EXCEPT ![w] = {}]
  /\ deleted' = [deleted EXCEPT ![w] = {}]
  /\ left' = [left EXCEPT ![w] = {}]
  /\ cur' = [cur EXCEPT ![w] = NoCID]
  /\ toUnpin' = [toUnpin EXCEPT ![w] = {}]
  /\ answer' = [answer EXCEPT ![w] = NoAnswer]
  /\ UNCHANGED <<table, mtx, losses>>

\* The process ends: transactions that have not committed are lost.
Crash ==
  /\ mtx' = Nobody
  /\ pc' = [w \in Worker |-> "idle"]
  /\ call' = [w \in Worker |-> NoJob]
  /\ old' = [w \in Worker |-> {}]
  /\ saved' = [w \in Worker |-> {}]
  /\ left' = [w \in Worker |-> {}]
  /\ cur' = [w \in Worker |-> NoCID]
  /\ deleted' = [w \in Worker |-> {}]
  /\ toUnpin' = [w \in Worker |-> {}]
  /\ answer' = [w \in Worker |-> NoAnswer]
  /\ UNCHANGED <<table, losses>>

Statement(w) ==
  \/ Load(w) \/ LoadFails(w) \/ Save(w) \/ SaveFails(w) \/ Compare(w)
  \/ Delete(w) \/ Find(w) \/ FindFails(w) \/ Compared(w)

Next ==
  \/ \E w \in Worker : \E j \in Job : Store(w, j)
  \/ \E w \in Worker : Lock(w) \/ Statement(w) \/ Commit(w) \/ CommitFails(w)
                       \/ Rollback(w) \/ Unlock(w) \/ Return(w)
  \/ Crash

Spec == Init /\ [][Next]_vars

-----------------------------------------------------------------------------
\* However the crawls of one peer and of peers that share content interleave,
\* wherever a statement fails and the process ends: as long as every transaction
\* could load and delete its old rows, the rows of a peer are those of one crawl,
\* never a mixture of two and never part of one (worker.go:226-270).
RowsFromOneCrawl == ~losses => \A p \in Peer : table[p] \in Graphs \cup {{}}

\* The transaction is the step CIDTable takes it for: at its commit its unpin list
\* is still what no other peer has a row for (worker.go:221-270).
Atomic == INSTANCE CIDTable WITH table <- table, call <- call, answer <- answer

OneStep == Atomic!Spec
=============================================================================
