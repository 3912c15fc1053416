------------------------------ MODULE PeerRows ------------------------------
(***************************************************************************)
(* The Peer table as the transactions of the crawler see it: its rows      *)
(* (repo/models.go), the functions passed to Database.View and Update, and *)
(* the row each of them leaves behind.                                     *)
(*                                                                         *)
(* A record is represented by the sequence number its owner gave it; 0 is  *)
(* no record.  The time columns are left out.                              *)
(***************************************************************************)
EXTENDS Naturals

CONSTANTS
  Peer,
  MaxSeq,     \* bound: how many records a peer publishes
  NoPeer,     \* the empty primary key
  Client,     \* goroutines that use the database
  Nobody,     \* the holder of a free mutex
  NoCall,     \* the call of a client that has none
  NoReply     \* the reply to a call that is still running

\* The functions passed to View, by who passes them: CrawlNode, the resolver.
ReadOnly == {"crawl", "resolve"}

\* And those passed to Update: by BanNode, UnbanNode, updatePeer, the pubsub
\* handler, and the deferred function of processJob.
Kinds == ReadOnly \cup {"ban", "unban", "seen", "record", "crawled"}

Call == [kind : Kinds, peer : Peer, rec : 0 .. MaxSeq]

\* err: Update returned an error; banned: the ban read by the function, which
\* keeps its initial FALSE when the row could not be read.
Reply == [err : BOOLEAN, banned : BOOLEAN]

ASSUME RowsAssumption ==
  /\ MaxSeq \in Nat
  /\ NoPeer \notin Peer
  /\ Nobody \notin Client
  /\ NoCall \notin Call
  /\ NoReply \notin Reply

Key == Peer \cup {NoPeer}
Row == [known : BOOLEAN, banned : BOOLEAN, rec : 0 .. MaxSeq]
Blank == [known |-> FALSE, banned |-> FALSE, rec |-> 0]

\* CrawlNode's function returns an error for a banned peer; the resolver's query
\* finds only a peer that has a row and is not banned.
Refused(k, row) ==
  \/ k.kind = "crawl" /\ row.banned
  \/ k.kind = "resolve" /\ (row.banned \/ ~row.known)

\* The key Save writes to.  Five of the functions put the PeerID in the struct;
\* the deferred function of processJob does not, so for a peer without a row
\* gorm finds an empty primary key and inserts a row under it.
KeySetWhenFound(k, row) == IF row.known THEN k.peer ELSE NoPeer
KeyOf(k, row) == IF k.kind = "crawled" /\ ~row.known THEN NoPeer ELSE k.peer

\* Inserting a second row under the empty key violates the primary key.
Insertable(k, row, table) == KeyOf(k, row) = NoPeer => ~table[NoPeer].known

\* The struct that is saved, all of its columns: what was read, changed by the
\* function.
Saved(k, row) ==
  [row EXCEPT !.known = TRUE,
              !.banned = (@ \/ k.kind = "ban") /\ k.kind # "unban",
              !.rec = IF k.kind = "record" THEN k.rec ELSE @]

\* The table after a committed transaction that had read row.
Updated(table, k, row) ==
  IF k.kind \in ReadOnly THEN table ELSE [table EXCEPT ![KeyOf(k, row)] = Saved(k, row)]
=============================================================================
