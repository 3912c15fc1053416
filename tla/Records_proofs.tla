--------------------------- MODULE Records_proofs ---------------------------
(***************************************************************************)
(* The transaction of processJob is atomic, whichever statement or commit  *)
(* fails, whoever else stores a crawl and whenever the process ends; so    *)
(* the rows of a peer come from one crawl.                                 *)
(***************************************************************************)
EXTENDS Records, TLAPS

\* What a worker has at each point of its call.
InCall ==
  \A w \in Worker :
    /\ pc[w] = "idle" <=> call[w] = NoJob
    /\ pc[w] \in {"unlock", "done"} <=> answer[w] # NoAnswer
    /\ pc[w] = "find" => cur[w] # NoCID
    /\ pc[w] \in {"idle", "lock", "load", "save", "delete", "commit"} => cur[w] = NoCID
    /\ pc[w] \in {"idle", "lock", "load"} =>
         old[w] = {} /\ saved[w] = {} /\ left[w] = {} /\ deleted[w] = {} /\ toUnpin[w] = {}

\* The rows w has loaded are still those of its peer: this is what the mutex is for.
OldIsCurrent ==
  \A w \in Worker : pc[w] \in {"save", "delete", "find", "commit"} =>
    /\ old[w] \in {table[call[w].peer], {}}
    /\ ~losses => old[w] = table[call[w].peer]

SavesGraph ==
  \A w \in Worker :
    /\ pc[w] = "save" =>
         saved[w] \subseteq call[w].graph /\ left[w] = {} /\ deleted[w] = {} /\ toUnpin[w] = {}
    /\ pc[w] \in {"delete", "find", "commit"} => saved[w] = call[w].graph

\* The old rows that are to go, and those the loop has looked up.
Dropped(w) == old[w] \ call[w].graph
LookedUp(w) == Dropped(w) \ (left[w] \cup {cur[w]})

\* How far the loop over the old rows is: what it has deleted and put on the list.
Rest(w) ==
  pc[w] \in {"delete", "find", "commit"} =>
    /\ left[w] \subseteq Dropped(w)
    /\ cur[w] \in (Dropped(w) \ left[w]) \cup {NoCID}
    /\ deleted[w] \subseteq Dropped(w)
    /\ ~losses => deleted[w] = LookedUp(w) \cup ({cur[w]} \ {NoCID})
    /\ toUnpin[w] = Unshared(table, call[w].peer, LookedUp(w))
    /\ pc[w] = "commit" => left[w] = {}

DropsRest == \A w \in Worker : Rest(w)

Inv ==
  /\ TypeOK
  /\ InCall
  /\ OldIsCurrent
  /\ SavesGraph
  /\ DropsRest
  /\ RowsFromOneCrawl

-----------------------------------------------------------------------------
(* Inv is inductive *)

LEMMA FailedIsAnswer == Failed \in Answer /\ Failed # NoAnswer
<1>1. [err |-> TRUE, toUnpin |-> {}] \in [err : BOOLEAN, toUnpin : SUBSET CID]
  OBVIOUS
<1> QED
  BY <1>1, CIDRowsAssumption DEF Failed, Answer

LEMMA InitInv == Init => Inv
<1> SUFFICES ASSUME Init PROVE Inv
  OBVIOUS
<1> USE CIDRowsAssumption DEF Init
<1>1. TypeOK
  BY DEF TypeOK, PCs, Locked
<1>2. InCall
  BY DEF InCall
<1>3. OldIsCurrent /\ SavesGraph /\ DropsRest
  BY DEF OldIsCurrent, SavesGraph, DropsRest, Rest
<1>4. RowsFromOneCrawl
  BY DEF RowsFromOneCrawl
<1> QED
  BY <1>1, <1>2, <1>3, <1>4 DEF Inv

\* Nobody else is inside Update.
LEMMA Alone ==
  ASSUME TypeOK, NEW w \in Worker, NEW v \in Worker, pc[w] \in Locked, v # w
  PROVE  pc[v] \notin Locked
BY DEF TypeOK

\* The crawl of a worker that is storing one.
LEMMA CallOf ==
  ASSUME Inv, NEW w \in Worker, pc[w] # "idle"
  PROVE  /\ call[w] \in Job
         /\ call[w].peer \in Peer
         /\ call[w].graph \in Graphs
         /\ call[w].graph \subseteq CID
BY CIDRowsAssumption DEF Inv, TypeOK, InCall, Job

\* A step that leaves the transaction of a worker and the table alone.
LEMMA RestStays ==
  ASSUME Inv, NEW w \in Worker, losses => losses', UNCHANGED table,
         pc'[w] = pc[w], call'[w] = call[w], old'[w] = old[w], left'[w] = left[w],
         cur'[w] = cur[w], deleted'[w] = deleted[w], toUnpin'[w] = toUnpin[w]
  PROVE  Rest(w)'
BY DEF Inv, DropsRest, Rest, Dropped, LookedUp

LEMMA StoreInv ==
  ASSUME Inv, NEW w \in Worker, NEW j \in Job, Store(w, j)
  PROVE  Inv'
<1> USE CIDRowsAssumption DEF Store, Goto, tx, Inv
<1>1. TypeOK'
  BY DEF TypeOK, PCs, Locked
<1>2. InCall'
  BY DEF InCall, TypeOK
<1>3. OldIsCurrent' /\ SavesGraph'
  BY DEF OldIsCurrent, SavesGraph, InCall, TypeOK
<1>4. DropsRest'
  <2>1. ASSUME NEW v \in Worker \ {w} PROVE Rest(v)'
    BY RestStays DEF TypeOK
  <2>2. Rest(w)'
    BY DEF Rest, TypeOK
  <2> QED
    BY <2>1, <2>2 DEF DropsRest
<1>5. RowsFromOneCrawl'
  BY DEF RowsFromOneCrawl
<1> QED
  BY <1>1, <1>2, <1>3, <1>4, <1>5

LEMMA LockInv ==
  ASSUME Inv, NEW w \in Worker, Lock(w)
  PROVE  Inv'
<1> USE CIDRowsAssumption DEF Lock, Goto, tx, Inv
<1>a. /\ call[w] \in Job /\ call[w].peer \in Peer
      /\ call[w].graph \in Graphs /\ call[w].graph \subseteq CID
  BY CallOf
<1>1. TypeOK'
  BY <1>a DEF TypeOK, PCs, Locked
<1>2. InCall'
  BY DEF InCall, TypeOK
<1>3. OldIsCurrent' /\ SavesGraph'
  BY <1>a DEF OldIsCurrent, SavesGraph, InCall, TypeOK
<1>4. DropsRest'
  <2>1. ASSUME NEW v \in Worker \ {w} PROVE Rest(v)'
    BY RestStays DEF TypeOK
  <2>2. Rest(w)'
    BY DEF Rest, TypeOK
  <2> QED
    BY <2>1, <2>2 DEF DropsRest
<1>5. RowsFromOneCrawl'
  BY DEF RowsFromOneCrawl
<1> QED
  BY <1>1, <1>2, <1>3, <1>4, <1>5

LEMMA LoadInv ==
  ASSUME Inv, NEW w \in Worker, Load(w)
  PROVE  Inv'
<1> USE CIDRowsAssumption DEF Load, Goto, tx, Inv
<1>a. /\ call[w] \in Job /\ call[w].peer \in Peer
      /\ call[w].graph \in Graphs /\ call[w].graph \subseteq CID
  BY CallOf
<1>1. TypeOK'
  BY <1>a DEF TypeOK, PCs, Locked
<1>2. InCall'
  BY DEF InCall, TypeOK
<1>3. OldIsCurrent' /\ SavesGraph'
  BY <1>a DEF OldIsCurrent, SavesGraph, InCall, TypeOK
<1>4. DropsRest'
  <2>1. ASSUME NEW v \in Worker \ {w} PROVE Rest(v)'
    BY RestStays DEF TypeOK
  <2>2. Rest(w)'
    BY DEF Rest, TypeOK
  <2> QED
    BY <2>1, <2>2 DEF DropsRest
<1>5. RowsFromOneCrawl'
  BY DEF RowsFromOneCrawl
<1> QED
  BY <1>1, <1>2, <1>3, <1>4, <1>5

LEMMA LoadFailsInv ==
  ASSUME Inv, NEW w \in Worker, LoadFails(w)
  PROVE  Inv'
<1> USE CIDRowsAssumption DEF LoadFails, Goto, tx, Inv
<1>a. /\ call[w] \in Job /\ call[w].peer \in Peer
      /\ call[w].graph \in Graphs /\ call[w].graph \subseteq CID
  BY CallOf
<1>1. TypeOK'
  BY <1>a DEF TypeOK, PCs, Locked
<1>2. InCall'
  BY DEF InCall, TypeOK
<1>3. OldIsCurrent' /\ SavesGraph'
  BY <1>a DEF OldIsCurrent, SavesGraph, InCall, TypeOK
<1>4. DropsRest'
  <2>1. ASSUME NEW v \in Worker \ {w} PROVE Rest(v)'
    BY RestStays DEF TypeOK
  <2>2. Rest(w)'
    BY DEF Rest, TypeOK
  <2> QED
    BY <2>1, <2>2 DEF DropsRest
<1>5. RowsFromOneCrawl'
  BY DEF RowsFromOneCrawl
<1> QED
  BY <1>1, <1>2, <1>3, <1>4, <1>5

LEMMA SaveInv ==
  ASSUME Inv, NEW w \in Worker, Save(w)
  PROVE  Inv'
<1> USE CIDRowsAssumption DEF Save, Goto, tx, Inv
<1>a. /\ call[w] \in Job /\ call[w].peer \in Peer
      /\ call[w].graph \in Graphs /\ call[w].graph \subseteq CID
  BY CallOf
<1>1. TypeOK'
  BY <1>a DEF TypeOK, PCs, Locked
<1>2. InCall'
  BY DEF InCall, TypeOK
<1>3. OldIsCurrent' /\ SavesGraph'
  BY <1>a DEF OldIsCurrent, SavesGraph, InCall, TypeOK
<1>4. DropsRest'
  <2>1. ASSUME NEW v \in Worker \ {w} PROVE Rest(v)'
    BY RestStays DEF TypeOK
  <2>2. Rest(w)'
    BY DEF Rest, TypeOK
  <2> QED
    BY <2>1, <2>2 DEF DropsRest
<1>5. RowsFromOneCrawl'
  BY DEF RowsFromOneCrawl
<1> QED
  BY <1>1, <1>2, <1>3, <1>4, <1>5

LEMMA SaveFailsInv ==
  ASSUME Inv, NEW w \in Worker, SaveFails(w)
  PROVE  Inv'
<1> USE CIDRowsAssumption DEF SaveFails, Goto, tx, Inv
<1>a. /\ call[w] \in Job /\ call[w].peer \in Peer
      /\ call[w].graph \in Graphs /\ call[w].graph \subseteq CID
  BY CallOf
<1>1. TypeOK'
  BY <1>a DEF TypeOK, PCs, Locked
<1>2. InCall'
  BY DEF InCall, TypeOK
<1>3. OldIsCurrent' /\ SavesGraph'
  BY <1>a DEF OldIsCurrent, SavesGraph, InCall, TypeOK
<1>4. DropsRest'
  <2>1. ASSUME NEW v \in Worker \ {w} PROVE Rest(v)'
    BY RestStays DEF TypeOK
  <2>2. Rest(w)'
    BY DEF Rest, TypeOK
  <2> QED
    BY <2>1, <2>2 DEF DropsRest
<1>5. RowsFromOneCrawl'
  BY DEF RowsFromOneCrawl
<1> QED
  BY <1>1, <1>2, <1>3, <1>4, <1>5

LEMMA CompareInv ==
  ASSUME Inv, NEW w \in Worker, Compare(w)
  PROVE  Inv'
<1> USE CIDRowsAssumption DEF Compare, Goto, tx, Inv
<1>a. /\ call[w] \in Job /\ call[w].peer \in Peer
      /\ call[w].graph \in Graphs /\ call[w].graph \subseteq CID
  BY CallOf
<1>1. TypeOK'
  BY <1>a DEF TypeOK, PCs, Locked
<1>2. InCall'
  BY DEF InCall, TypeOK
<1>3. OldIsCurrent' /\ SavesGraph'
  BY <1>a DEF OldIsCurrent, SavesGraph, InCall, TypeOK
<1>4. DropsRest'
  <2>1. ASSUME NEW v \in Worker \ {w} PROVE Rest(v)'
    BY RestStays DEF TypeOK
  <2>2. Rest(w)'
    BY <1>a DEF DropsRest, Rest, Dropped, LookedUp, InCall, TypeOK, SavesGraph, Unshared
  <2> QED
    BY <2>1, <2>2 DEF DropsRest
<1>5. RowsFromOneCrawl'
  BY DEF RowsFromOneCrawl
<1> QED
  BY <1>1, <1>2, <1>3, <1>4, <1>5

LEMMA DeleteInv ==
  ASSUME Inv, NEW w \in Worker, Delete(w)
  PROVE  Inv'
<1> USE CIDRowsAssumption DEF Goto, Inv
<1>a. /\ call[w] \in Job /\ call[w].peer \in Peer
      /\ call[w].graph \in Graphs /\ call[w].graph \subseteq CID
  BY CallOf DEF Delete
<1>b. PICK c \in left[w], d \in SUBSET CID :
        /\ pc[w] = "delete"
        /\ pc' = [pc EXCEPT ![w] = "find"]
        /\ cur' = [cur EXCEPT ![w] = c]
        /\ left' = [left EXCEPT ![w] = @ \ {c}]
        /\ deleted' = [deleted EXCEPT ![w] = @ \cup d]
        /\ losses' \in BOOLEAN /\ (losses => losses')
        /\ d \subseteq {c} /\ (~losses' => d = {c})
        /\ UNCHANGED <<table, mtx, call, old, saved, toUnpin, answer>>
  <2>1. PICK c \in left[w] :
          /\ cur' = [cur EXCEPT ![w] = c]
          /\ left' = [left EXCEPT ![w] = @ \ {c}]
          /\ \/ deleted' = [deleted EXCEPT ![w] = @ \cup {c}] /\ UNCHANGED losses
             \/ losses' = TRUE /\ UNCHANGED deleted
    BY DEF Delete
  <2>2. CASE deleted' = [deleted EXCEPT ![w] = @ \cup {c}] /\ UNCHANGED losses
    <3>1. {c} \in SUBSET CID
      BY DEF TypeOK
    <3> QED
      BY <2>1, <2>2, <3>1 DEF Delete, TypeOK
  <2>3. CASE losses' = TRUE /\ UNCHANGED deleted
    <3>1. deleted' = [deleted EXCEPT ![w] = @ \cup {}]
      BY <2>3 DEF TypeOK
    <3>2. /\ {} \in SUBSET CID /\ {} \subseteq {c}
          /\ losses' \in BOOLEAN /\ (losses => losses') /\ (~losses' => {} = {c})
      BY <2>3
    <3>3. /\ pc[w] = "delete" /\ pc' = [pc EXCEPT ![w] = "find"]
          /\ UNCHANGED <<table, mtx, call, old, saved, toUnpin, answer>>
      BY DEF Delete
    <3> QED
      BY <2>1, <3>1, <3>2, <3>3, Zenon
  <2> QED
    BY <2>1, <2>2, <2>3
<1>c. c \in CID /\ c # NoCID
  BY <1>b DEF TypeOK
<1>1. TypeOK'
  BY <1>a, <1>b, <1>c DEF TypeOK, PCs, Locked
<1>2. InCall'
  BY <1>b, <1>c DEF InCall, TypeOK
<1>3. OldIsCurrent' /\ SavesGraph'
  BY <1>a, <1>b, <1>c DEF OldIsCurrent, SavesGraph, InCall, TypeOK
<1>4. DropsRest'
  <2>1. ASSUME NEW v \in Worker \ {w} PROVE Rest(v)'
    BY <1>b, RestStays DEF TypeOK
  <2>2. Rest(w)'
    <3>1. /\ pc'[w] = "find" /\ cur'[w] = c /\ left'[w] = left[w] \ {c}
          /\ deleted'[w] = deleted[w] \cup d /\ toUnpin'[w] = toUnpin[w]
      BY <1>b DEF TypeOK
    <3>2. Dropped(w)' = Dropped(w) /\ cur[w] = NoCID /\ c \in Dropped(w)
      BY <1>b DEF Dropped, DropsRest, Rest, InCall
    <3>3. LookedUp(w) = Dropped(w) \ left[w] /\ LookedUp(w)' = Dropped(w) \ left[w]
      <4>1. NoCID \notin Dropped(w)
        BY DEF Dropped, TypeOK
      <4> QED
        BY <1>b, <3>1, <3>2, <4>1 DEF LookedUp
    <3>4. /\ left[w] \subseteq Dropped(w) /\ deleted[w] \subseteq Dropped(w)
          /\ ~losses => deleted[w] = Dropped(w) \ left[w]
          /\ toUnpin[w] = Unshared(table, call[w].peer, LookedUp(w))
      BY <1>b, <3>2, <3>3 DEF DropsRest, Rest
    <3>5. left'[w] \subseteq Dropped(w) /\ c \in Dropped(w) \ left'[w]
      BY <3>1, <3>2, <3>4
    <3>6. deleted'[w] \subseteq Dropped(w)
      BY <1>b, <3>1, <3>2, <3>4
    <3>7. ~losses' => deleted'[w] = (Dropped(w) \ left[w]) \cup {c}
      BY <1>b, <3>1, <3>4
    <3>8. Unshared(table, call[w].peer, LookedUp(w))'
            = Unshared(table, call[w].peer, LookedUp(w))
      BY <1>b, <3>3 DEF Unshared
    <3> QED
      BY <1>c, <3>1, <3>2, <3>3, <3>4, <3>5, <3>6, <3>7, <3>8 DEF Rest
  <2> QED
    BY <2>1, <2>2 DEF DropsRest
<1>5. RowsFromOneCrawl'
  BY <1>b, <1>c DEF RowsFromOneCrawl
<1> QED
  BY <1>1, <1>2, <1>3, <1>4, <1>5

LEMMA FindInv ==
  ASSUME Inv, NEW w \in Worker, Find(w)
  PROVE  Inv'
<1> USE CIDRowsAssumption DEF Find, Goto, tx, Inv
<1>a. /\ call[w] \in Job /\ call[w].peer \in Peer
      /\ call[w].graph \in Graphs /\ call[w].graph \subseteq CID
  BY CallOf
<1>b. cur[w] \in CID
  BY DEF TypeOK, InCall
<1>c. Unshared(table, call[w].peer, {cur[w]}) \subseteq CID
  BY <1>b DEF Unshared
<1>1. TypeOK'
  BY <1>c DEF TypeOK, PCs, Locked
<1>2. InCall'
  BY DEF InCall, TypeOK
<1>3. OldIsCurrent' /\ SavesGraph'
  BY <1>a DEF OldIsCurrent, SavesGraph, InCall, TypeOK
<1>4. DropsRest'
  <2>1. ASSUME NEW v \in Worker \ {w} PROVE Rest(v)'
    BY RestStays DEF TypeOK
  <2>2. Rest(w)'
    BY <1>a DEF DropsRest, Rest, Dropped, LookedUp, InCall, TypeOK, Unshared
  <2> QED
    BY <2>1, <2>2 DEF DropsRest
<1>5. RowsFromOneCrawl'
  BY DEF RowsFromOneCrawl
<1> QED
  BY <1>1, <1>2, <1>3, <1>4, <1>5

LEMMA FindFailsInv ==
  ASSUME Inv, NEW w \in Worker, FindFails(w)
  PROVE  Inv'
<1> USE CIDRowsAssumption DEF FindFails, Goto, tx, Inv
<1>a. /\ call[w] \in Job /\ call[w].peer \in Peer
      /\ call[w].graph \in Graphs /\ call[w].graph \subseteq CID
  BY CallOf
<1>1. TypeOK'
  BY <1>a DEF TypeOK, PCs, Locked
<1>2. InCall'
  BY DEF InCall, TypeOK
<1>3. OldIsCurrent' /\ SavesGraph'
  BY <1>a DEF OldIsCurrent, SavesGraph, InCall, TypeOK
<1>4. DropsRest'
  <2>1. ASSUME NEW v \in Worker \ {w} PROVE Rest(v)'
    BY RestStays DEF TypeOK
  <2>2. Rest(w)'
    BY DEF Rest, TypeOK
  <2> QED
    BY <2>1, <2>2 DEF DropsRest
<1>5. RowsFromOneCrawl'
  BY DEF RowsFromOneCrawl
<1> QED
  BY <1>1, <1>2, <1>3, <1>4, <1>5

LEMMA ComparedInv ==
  ASSUME Inv, NEW w \in Worker, Compared(w)
  PROVE  Inv'
<1> USE CIDRowsAssumption DEF Compared, Goto, tx, Inv
<1>a. /\ call[w] \in Job /\ call[w].peer \in Peer
      /\ call[w].graph \in Graphs /\ call[w].graph \subseteq CID
  BY CallOf
<1>1. TypeOK'
  BY <1>a DEF TypeOK, PCs, Locked
<1>2. InCall'
  BY DEF InCall, TypeOK
<1>3. OldIsCurrent' /\ SavesGraph'
  BY <1>a DEF OldIsCurrent, SavesGraph, InCall, TypeOK
<1>4. DropsRest'
  <2>1. ASSUME NEW v \in Worker \ {w} PROVE Rest(v)'
    BY RestStays DEF TypeOK
  <2>2. Rest(w)'
    BY <1>a DEF DropsRest, Rest, Dropped, LookedUp, InCall, TypeOK
  <2> QED
    BY <2>1, <2>2 DEF DropsRest
<1>5. RowsFromOneCrawl'
  BY DEF RowsFromOneCrawl
<1> QED
  BY <1>1, <1>2, <1>3, <1>4, <1>5

LEMMA RollbackInv ==
  ASSUME Inv, NEW w \in Worker, Rollback(w)
  PROVE  Inv'
<1> USE CIDRowsAssumption DEF Rollback, Goto, tx, Inv
<1>a. /\ call[w] \in Job /\ call[w].peer \in Peer
      /\ call[w].graph \in Graphs /\ call[w].graph \subseteq CID
  BY CallOf
<1>1. TypeOK'
  BY <1>a, FailedIsAnswer DEF TypeOK, PCs, Locked
<1>2. InCall'
  BY FailedIsAnswer DEF InCall, TypeOK
<1>3. OldIsCurrent' /\ SavesGraph'
  BY <1>a DEF OldIsCurrent, SavesGraph, InCall, TypeOK
<1>4. DropsRest'
  <2>1. ASSUME NEW v \in Worker \ {w} PROVE Rest(v)'
    BY RestStays DEF TypeOK
  <2>2. Rest(w)'
    BY DEF Rest, TypeOK
  <2> QED
    BY <2>1, <2>2 DEF DropsRest
<1>5. RowsFromOneCrawl'
  BY DEF RowsFromOneCrawl
<1> QED
  BY <1>1, <1>2, <1>3, <1>4, <1>5

LEMMA UnlockInv ==
  ASSUME Inv, NEW w \in Worker, Unlock(w)
  PROVE  Inv'
<1> USE CIDRowsAssumption DEF Unlock, Goto, tx, Inv
<1>a. /\ call[w] \in Job /\ call[w].peer \in Peer
      /\ call[w].graph \in Graphs /\ call[w].graph \subseteq CID
  BY CallOf
<1>1. TypeOK'
  BY <1>a DEF TypeOK, PCs, Locked
<1>2. InCall'
  BY DEF InCall, TypeOK
<1>3. OldIsCurrent' /\ SavesGraph'
  BY <1>a DEF OldIsCurrent, SavesGraph, InCall, TypeOK
<1>4. DropsRest'
  <2>1. ASSUME NEW v \in Worker \ {w} PROVE Rest(v)'
    BY RestStays DEF TypeOK
  <2>2. Rest(w)'
    BY DEF Rest, TypeOK
  <2> QED
    BY <2>1, <2>2 DEF DropsRest
<1>5. RowsFromOneCrawl'
  BY DEF RowsFromOneCrawl
<1> QED
  BY <1>1, <1>2, <1>3, <1>4, <1>5

LEMMA ReturnInv ==
  ASSUME Inv, NEW w \in Worker, Return(w)
  PROVE  Inv'
<1> USE CIDRowsAssumption DEF Return, Goto, tx, Inv
<1>a. /\ call[w] \in Job /\ call[w].peer \in Peer
      /\ call[w].graph \in Graphs /\ call[w].graph \subseteq CID
  BY CallOf
<1>1. TypeOK'
  BY <1>a DEF TypeOK, PCs, Locked
<1>2. InCall'
  BY DEF InCall, TypeOK
<1>3. OldIsCurrent' /\ SavesGraph'
  BY <1>a DEF OldIsCurrent, SavesGraph, InCall, TypeOK
<1>4. DropsRest'
  <2>1. ASSUME NEW v \in Worker \ {w} PROVE Rest(v)'
    BY RestStays DEF TypeOK
  <2>2. Rest(w)'
    BY DEF Rest, TypeOK
  <2> QED
    BY <2>1, <2>2 DEF DropsRest
<1>5. RowsFromOneCrawl'
  BY DEF RowsFromOneCrawl
<1> QED
  BY <1>1, <1>2, <1>3, <1>4, <1>5

\* What w's transaction has written when it commits.
LEMMA WrittenRows ==
  ASSUME Inv, NEW w \in Worker, pc[w] = "commit"
  PROVE  /\ Written(w) \in [Peer -> SUBSET CID]
         /\ Written(w) = Replaced(table, call[w].peer, deleted[w], call[w].graph)
         /\ deleted[w] \subseteq Dropped(w)
         /\ toUnpin[w] = Unshared(table, call[w].peer, Dropped(w))
         /\ ~losses => \A p \in Peer : Written(w)[p] \in Graphs \cup {{}}
<1> USE DEF Inv
<1>1. call[w].peer \in Peer /\ call[w].graph \in Graphs /\ call[w].graph \subseteq CID
  BY CallOf
<1>2. Written(w) = Replaced(table, call[w].peer, deleted[w], call[w].graph)
  BY DEF Written, SavesGraph
<1>3. /\ deleted[w] \subseteq Dropped(w)
      /\ ~losses => deleted[w] = LookedUp(w)
      /\ toUnpin[w] = Unshared(table, call[w].peer, LookedUp(w))
      /\ left[w] = {} /\ cur[w] = NoCID
  BY DEF DropsRest, Rest, InCall
<1>4. LookedUp(w) = Dropped(w)
  BY <1>3, CIDRowsAssumption DEF LookedUp, Dropped, TypeOK
<1>5. Written(w) \in [Peer -> SUBSET CID]
  BY <1>1, <1>2 DEF Replaced, TypeOK
<1>6. ASSUME ~losses, NEW p \in Peer PROVE Written(w)[p] \in Graphs \cup {{}}
  <2>1. CASE p = call[w].peer
    <3>1. Written(w)[p] = (table[p] \ deleted[w]) \cup call[w].graph
      BY <1>1, <1>2, <2>1 DEF Replaced, TypeOK
    <3>2. deleted[w] = table[p] \ call[w].graph
      BY <1>3, <1>4, <1>6, <2>1 DEF Dropped, OldIsCurrent
    <3>3. Written(w)[p] = call[w].graph
      BY <3>1, <3>2
    <3> QED
      BY <1>1, <3>3
  <2>2. CASE p # call[w].peer
    <3>1. Written(w)[p] = table[p]
      BY <1>1, <1>2, <2>2 DEF Replaced, TypeOK
    <3> QED
      BY <1>6, <3>1 DEF RowsFromOneCrawl
  <2> QED
    BY <2>1, <2>2
<1> QED
  BY <1>2, <1>3, <1>4, <1>5, <1>6

LEMMA CommitInv ==
  ASSUME Inv, NEW w \in Worker, Commit(w) \/ CommitFails(w)
  PROVE  Inv'
<1> USE CIDRowsAssumption DEF Inv
<1>1. /\ pc[w] = "commit" /\ pc' = [pc EXCEPT ![w] = "unlock"]
      /\ UNCHANGED <<mtx, call, old, saved, left, cur, deleted, toUnpin, losses>>
      /\ table' \in {table, Written(w)}
  BY DEF Commit, CommitFails, Goto, tx
<1>2. PICK x \in Answer : answer' = [answer EXCEPT ![w] = x]
  <2>1. [err |-> FALSE, toUnpin |-> toUnpin[w]] \in Answer
    BY DEF Answer, TypeOK
  <2> QED
    BY <2>1, FailedIsAnswer DEF Commit, CommitFails
<1>3. ASSUME NEW v \in Worker
      PROVE  pc'[v] \notin {"load", "save", "delete", "find", "commit", "rollback"}
  BY <1>1, Alone DEF TypeOK, Locked
<1>4. TypeOK'
  BY <1>1, <1>2, WrittenRows DEF TypeOK, PCs, Locked
<1>5. InCall'
  BY <1>1, <1>2 DEF InCall, TypeOK
<1>6. OldIsCurrent' /\ SavesGraph' /\ DropsRest'
  BY <1>3 DEF OldIsCurrent, SavesGraph, DropsRest, Rest
<1>7. RowsFromOneCrawl'
  BY <1>1, WrittenRows DEF RowsFromOneCrawl
<1> QED
  BY <1>4, <1>5, <1>6, <1>7

LEMMA CrashInv ==
  ASSUME Inv, Crash
  PROVE  Inv'
<1> USE CIDRowsAssumption DEF Crash, Inv
<1>1. TypeOK'
  BY DEF TypeOK, PCs, Locked
<1>2. InCall'
  BY DEF InCall
<1>3. OldIsCurrent' /\ SavesGraph' /\ DropsRest'
  BY DEF OldIsCurrent, SavesGraph, DropsRest, Rest
<1>4. RowsFromOneCrawl'
  BY DEF RowsFromOneCrawl
<1> QED
  BY <1>1, <1>2, <1>3, <1>4

LEMMA NextInv == Inv /\ [Next]_vars => Inv'
<1> SUFFICES ASSUME Inv, [Next]_vars PROVE Inv'
  OBVIOUS
<1>1. ASSUME NEW w \in Worker, Statement(w) PROVE Inv'
  BY <1>1, LoadInv, LoadFailsInv, SaveInv, SaveFailsInv, CompareInv, DeleteInv, FindInv,
     FindFailsInv, ComparedInv DEF Statement
<1>2. CASE UNCHANGED vars
  <2> USE <1>2 DEF vars, tx, Inv
  <2>1. TypeOK' /\ RowsFromOneCrawl'
    BY DEF TypeOK, RowsFromOneCrawl
  <2>2. InCall' /\ OldIsCurrent' /\ SavesGraph'
    BY DEF InCall, OldIsCurrent, SavesGraph
  <2>3. DropsRest'
    BY RestStays DEF DropsRest
  <2> QED
    BY <2>1, <2>2, <2>3
<1> QED
  BY <1>1, <1>2, StoreInv, LockInv, CommitInv, RollbackInv, UnlockInv, ReturnInv, CrashInv
     DEF Next

-----------------------------------------------------------------------------
(* Every step is one of CIDTable, or none *)

LEMMA InitAtomic == Init => Atomic!Init
BY DEF Init, Atomic!Init

LEMMA CommitAtomic ==
  ASSUME Inv, NEW w \in Worker, Commit(w) \/ CommitFails(w)
  PROVE  Atomic!Succeed(w) \/ Atomic!Fail(w)
<1>1. pc[w] = "commit" /\ UNCHANGED call
  BY DEF Commit, CommitFails
<1>2. Atomic!Running(w)
  BY <1>1 DEF Atomic!Running, Inv, InCall
<1>3. old[w] \in {table[call[w].peer], {}} /\ old[w] \in SUBSET CID
  BY <1>1 DEF Inv, OldIsCurrent, TypeOK
<1> DEFINE undeleted == Dropped(w) \ deleted[w]
<1>4. /\ undeleted \in SUBSET CID
      /\ undeleted \subseteq old[w] \ call[w].graph
      /\ (old[w] \ call[w].graph) \ undeleted = deleted[w]
  BY <1>1, <1>3, WrittenRows DEF Dropped
<1>5. ASSUME table' = Written(w) PROVE Atomic!Stored(w, old[w], undeleted)
  BY <1>1, <1>3, <1>4, <1>5, WrittenRows DEF Atomic!Stored, Atomic!Replaced, Replaced
<1>6. CASE Commit(w)
  <2>1. toUnpin[w] = Atomic!Unshared(table, call[w].peer, old[w] \ call[w].graph)
    BY <1>1, WrittenRows DEF Dropped, Unshared, Atomic!Unshared
  <2>2. Atomic!Stored(w, old[w], undeleted)
    BY <1>5, <1>6 DEF Commit
  <2> QED
    BY <1>1, <1>2, <1>3, <1>4, <1>6, <2>1, <2>2 DEF Commit, Atomic!Succeed
<1>7. CASE CommitFails(w)
  BY <1>1, <1>2, <1>3, <1>4, <1>5, <1>7
     DEF CommitFails, Failed, Atomic!Fail, Atomic!Failed
<1> QED
  BY <1>6, <1>7

LEMMA RollbackAtomic ==
  ASSUME Inv, NEW w \in Worker, Rollback(w)
  PROVE  Atomic!Fail(w)
BY DEF Rollback, Failed, Inv, InCall, Atomic!Fail, Atomic!Running, Atomic!Failed

LEMMA StepAtomic == Inv /\ [Next]_vars => [Atomic!Next]_(Atomic!vars)
<1> SUFFICES ASSUME Inv, [Next]_vars PROVE [Atomic!Next]_(Atomic!vars)
  OBVIOUS
<1> USE DEF Atomic!vars, Atomic!Next
<1>1. ASSUME NEW w \in Worker, NEW j \in Job, Store(w, j) PROVE Atomic!Next
  <2>1. call[w] = NoJob /\ j \in Atomic!Job
    BY <1>1 DEF Store, Atomic!Job, Job, Inv, InCall
  <2>2. Atomic!Request(w)
    BY <1>1, <2>1 DEF Store, Atomic!Request
  <2> QED
    BY <2>2
<1>2. ASSUME NEW w \in Worker, Lock(w) \/ Statement(w) \/ Unlock(w)
      PROVE  UNCHANGED Atomic!vars
  BY <1>2 DEF Lock, Statement, Unlock, Load, LoadFails, Save, SaveFails, Compare, Delete, Find,
              FindFails, Compared
<1>3. ASSUME NEW w \in Worker, Commit(w) \/ CommitFails(w) \/ Rollback(w) PROVE Atomic!Next
  BY <1>3, CommitAtomic, RollbackAtomic
<1>4. ASSUME NEW w \in Worker, Return(w) PROVE Atomic!Next
  BY <1>4 DEF Return, Atomic!Return, Inv, InCall
<1>5. CASE Crash
  BY <1>5 DEF Crash, Atomic!Crash
<1>6. CASE UNCHANGED vars
  BY <1>6 DEF vars
<1> QED
  BY <1>1, <1>2, <1>3, <1>4, <1>5, <1>6 DEF Next

-----------------------------------------------------------------------------
LEMMA InvHolds == Spec => []Inv
BY InitInv, NextInv, PTL DEF Spec

\* Every variable has its type, and a worker is past Lock and short of Unlock exactly
\* as long as it holds the mutex, on every path out of the function.
THEOREM TypeCorrect == Spec => []TypeOK
BY InvHolds, PTL DEF Inv

\* As long as old rows are found and deleted, a peer's rows are those of one crawl,
\* whichever crawls interleave and whatever fails.
THEOREM OneCrawl == Spec => []RowsFromOneCrawl
BY InvHolds, PTL DEF Inv

\* The transaction behaves as the one step CIDTable takes it for.
THEOREM StepIsAtomic == Spec => OneStep
BY InvHolds, InitAtomic, StepAtomic, PTL DEF Spec, OneStep, Atomic!Spec
=============================================================================
