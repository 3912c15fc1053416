--------------------------- MODULE Process_proofs ---------------------------
(***************************************************************************)
(* Theorems about Process: whatever the peers, the workers, the nodes, the *)
(* LIMIT of the ticker and the number of goroutines that wait on workChan, *)
(* the state is well formed, which for the queue takes an order of peers    *)
(* that stays one, and the files of a start are sound.                     *)
(***************************************************************************)
EXTENDS Process, FiniteSetTheorems, SequenceTheorems, TLAPS

-----------------------------------------------------------------------------
(* Sequences *)

\* The element at i is taken out and e put at the end, as Renew does.
LEMMA MoveToEnd ==
  ASSUME NEW S, NEW s \in Seq(S), NEW i \in 1 .. Len(s), NEW e \in S
  PROVE  LET t == Append(RemoveAt(s, i), e)
         IN /\ t \in Seq(S)
            /\ Len(t) = Len(s)
            /\ \A k \in 1 .. Len(s) :
                 t[k] = IF k < i THEN s[k] ELSE IF k < Len(s) THEN s[k + 1] ELSE e
<1> DEFINE a == SubSeq(s, 1, i - 1)
           b == SubSeq(s, i + 1, Len(s))
<1>1. Len(s) \in Nat /\ \A k \in 1 .. Len(s) : s[k] \in S
  BY LenProperties, ElementOfSeq
<1>2. /\ a \in Seq(S)
      /\ Len(a) = i - 1
      /\ \A k \in 1 .. i - 1 : a[k] = s[k]
  <2>1. \A k \in 1 .. i - 1 : s[k] \in S
    BY <1>1
  <2>2. i - 1 \in Int /\ 1 \in Int
    BY <1>1
  <2>3. /\ SubSeq(s, 1, i - 1) \in Seq(S)
        /\ Len(SubSeq(s, 1, i - 1)) = IF 1 <= i - 1 THEN (i - 1) - 1 + 1 ELSE 0
        /\ \A k \in 1 .. (i - 1) - 1 + 1 : SubSeq(s, 1, i - 1)[k] = s[1 + k - 1]
    BY <2>1, <2>2, SubSeqProperties
  <2> QED
    BY <1>1, <2>3
<1>3. /\ b \in Seq(S)
      /\ Len(b) = Len(s) - i
      /\ \A k \in 1 .. Len(s) - i : b[k] = s[i + k]
  <2>1. \A k \in i + 1 .. Len(s) : s[k] \in S
    BY <1>1
  <2>2. i + 1 \in Int /\ Len(s) \in Int
    BY <1>1
  <2>3. /\ SubSeq(s, i + 1, Len(s)) \in Seq(S)
        /\ Len(SubSeq(s, i + 1, Len(s))) =
             IF i + 1 <= Len(s) THEN Len(s) - (i + 1) + 1 ELSE 0
        /\ \A k \in 1 .. Len(s) - (i + 1) + 1 :
             SubSeq(s, i + 1, Len(s))[k] = s[(i + 1) + k - 1]
    BY <2>1, <2>2, SubSeqProperties
  <2> QED
    BY <1>1, <2>3
<1> HIDE DEF a, b
<1>4. /\ a \o b \in Seq(S)
      /\ Len(a \o b) = Len(s) - 1
      /\ \A k \in 1 .. Len(s) - 1 : (a \o b)[k] = IF k < i THEN s[k] ELSE s[k + 1]
  <2>1. /\ a \o b \in Seq(S)
        /\ Len(a \o b) = Len(a) + Len(b)
        /\ \A k \in 1 .. Len(a) + Len(b) :
             (a \o b)[k] = IF k <= Len(a) THEN a[k] ELSE b[k - Len(a)]
    BY <1>2, <1>3, ConcatProperties
  <2>2. Len(a) + Len(b) = Len(s) - 1
    BY <1>1, <1>2, <1>3
  <2>3. ASSUME NEW k \in 1 .. Len(s) - 1
        PROVE  (a \o b)[k] = IF k < i THEN s[k] ELSE s[k + 1]
    <3>1. (a \o b)[k] = IF k <= i - 1 THEN a[k] ELSE b[k - (i - 1)]
      BY <1>2, <2>1, <2>2
    <3>2. CASE k < i
      BY <1>1, <1>2, <3>1, <3>2
    <3>3. CASE ~(k < i)
      <4>1. k - (i - 1) \in 1 .. Len(s) - i /\ i + (k - (i - 1)) = k + 1
        BY <1>1, <3>3
      <4>2. b[k - (i - 1)] = s[k + 1]
        BY <1>3, <4>1
      <4> QED
        BY <1>1, <3>1, <3>3, <4>2
    <3> QED
      BY <3>2, <3>3
  <2> QED
    BY <2>1, <2>2, <2>3
<1>5. RemoveAt(s, i) = a \o b
  BY DEF RemoveAt, a, b
<1> DEFINE r == a \o b
<1>6. /\ Append(r, e) \in Seq(S)
      /\ Len(Append(r, e)) = Len(r) + 1
      /\ \A k \in 1 .. Len(r) : Append(r, e)[k] = r[k]
      /\ Append(r, e)[Len(r) + 1] = e
  BY <1>4, AppendProperties
<1> HIDE DEF r
<1>7. \A k \in 1 .. Len(s) :
        Append(r, e)[k] = IF k < i THEN s[k] ELSE IF k < Len(s) THEN s[k + 1] ELSE e
  <2>1. Len(r) = Len(s) - 1
    BY <1>4 DEF r
  <2>2. ASSUME NEW k \in 1 .. Len(s)
        PROVE  Append(r, e)[k] = IF k < i THEN s[k] ELSE IF k < Len(s) THEN s[k + 1] ELSE e
    <3>1. CASE k < Len(s)
      <4>1. k \in 1 .. Len(s) - 1 /\ k \in 1 .. Len(r)
        BY <1>1, <2>1, <3>1
      <4>2. r[k] = IF k < i THEN s[k] ELSE s[k + 1]
        BY <1>4, <4>1 DEF r
      <4> QED
        BY <1>6, <3>1, <4>1, <4>2
    <3>2. CASE k = Len(s)
      <4>1. Len(r) + 1 = k /\ ~(k < i) /\ ~(k < Len(s))
        BY <1>1, <2>1, <3>2
      <4> QED
        BY <1>6, <4>1
    <3>3. k < Len(s) \/ k = Len(s)
      BY <1>1
    <3> QED
      BY <3>1, <3>2, <3>3
  <2> QED
    BY <2>2
<1> QED
  BY <1>1, <1>4, <1>5, <1>6, <1>7 DEF r

\* What SetToSeqs says of byAge.
LEMMA OrderIsSeq ==
  ASSUME byAge \in SetToSeqs(Peer)
  PROVE  /\ byAge \in Seq(Peer)
         /\ Len(byAge) = Cardinality(Peer)
         /\ Len(byAge) \in Nat
         /\ DOMAIN byAge = 1 .. Len(byAge)
         /\ \A i \in 1 .. Len(byAge) : byAge[i] \in Peer
         /\ \A i, j \in 1 .. Len(byAge) : byAge[i] = byAge[j] => i = j
<1> DEFINE n == Cardinality(Peer)
<1>1. n \in Nat
  BY DispatchAssumption, FS_CardinalityType
<1>2. byAge \in [1 .. n -> Peer] /\ \A i, j \in 1 .. n : i # j => byAge[i] # byAge[j]
  BY DEF SetToSeqs
<1> HIDE DEF n
<1>3. byAge \in Seq(Peer) /\ Len(byAge) = n
  BY <1>1, <1>2, IsASeq, LenProperties
<1> QED
  BY <1>1, <1>2, <1>3 DEF n

LEMMA SelectedIsPrefix ==
  ASSUME byAge \in SetToSeqs(Peer), ndue \in 0 .. Len(byAge)
  PROVE  /\ Selected \in Seq(Peer)
         /\ Len(Selected) <= Len(byAge)
         /\ Len(Selected) \in Nat
         /\ \A j \in 1 .. Len(Selected) : Selected[j] = byAge[j]
<1> DEFINE n == IF ndue < Limit THEN ndue ELSE Limit
<1>1. /\ Len(byAge) \in Nat
      /\ \A i \in 1 .. Len(byAge) : byAge[i] \in Peer
  BY OrderIsSeq
<1>2. n \in 0 .. Len(byAge) /\ n \in Int /\ 1 \in Int
  BY <1>1, DispatchAssumption
<1> HIDE DEF n
<1>3. \A i \in 1 .. n : byAge[i] \in Peer
  BY <1>1, <1>2
<1>4. /\ SubSeq(byAge, 1, n) \in Seq(Peer)
      /\ Len(SubSeq(byAge, 1, n)) = IF 1 <= n THEN n - 1 + 1 ELSE 0
      /\ \A i \in 1 .. n - 1 + 1 : SubSeq(byAge, 1, n)[i] = byAge[1 + i - 1]
  BY <1>2, <1>3, SubSeqProperties
<1>5. Len(SubSeq(byAge, 1, n)) = n
  BY <1>2, <1>4
<1>6. \A i \in 1 .. n : SubSeq(byAge, 1, n)[i] = byAge[i]
  BY <1>2, <1>4
<1>7. Selected = SubSeq(byAge, 1, n)
  BY DEF Selected, n
<1> QED
  BY <1>1, <1>2, <1>4, <1>5, <1>6, <1>7

\* What Renew does to the order: the peer moves from its place to the end, and those
\* behind it move up.
LEMMA RenewMoves ==
  ASSUME byAge \in SetToSeqs(Peer), NEW p \in Peer, Renew(p)
  PROVE  /\ byAge' \in Seq(Peer)
         /\ Len(byAge') = Len(byAge)
         /\ \E i \in 1 .. Len(byAge) :
              /\ byAge[i] = p
              /\ \A k \in 1 .. Len(byAge) :
                   byAge'[k] = IF k < i THEN byAge[k]
                               ELSE IF k < Len(byAge) THEN byAge[k + 1] ELSE p
<1>1. byAge \in Seq(Peer) /\ DOMAIN byAge = 1 .. Len(byAge)
  BY OrderIsSeq
<1>2. PICK i \in 1 .. Len(byAge) : byAge[i] = p /\ byAge' = Append(RemoveAt(byAge, i), p)
  BY <1>1 DEF Renew
<1> DEFINE t == Append(RemoveAt(byAge, i), p)
<1>3. byAge \in Seq(Peer) /\ i \in 1 .. Len(byAge) /\ p \in Peer
  BY <1>1
<1>4. /\ t \in Seq(Peer)
      /\ Len(t) = Len(byAge)
      /\ \A k \in 1 .. Len(byAge) :
           t[k] = IF k < i THEN byAge[k] ELSE IF k < Len(byAge) THEN byAge[k + 1] ELSE p
  BY <1>3, MoveToEnd
<1>5. byAge' = t
  BY <1>2
<1> HIDE DEF t
<1> QED
  BY <1>2, <1>4, <1>5

\* Renew keeps the order an order of all the peers.
LEMMA RenewKeepsOrder ==
  ASSUME byAge \in SetToSeqs(Peer), ndue \in 0 .. Len(byAge), NEW p \in Peer, Renew(p)
  PROVE  byAge' \in SetToSeqs(Peer) /\ ndue' \in 0 .. Len(byAge')
<1>1. /\ byAge \in Seq(Peer)
      /\ Len(byAge) = Cardinality(Peer)
      /\ Len(byAge) \in Nat
      /\ DOMAIN byAge = 1 .. Len(byAge)
      /\ \A i \in 1 .. Len(byAge) : byAge[i] \in Peer
      /\ \A i, j \in 1 .. Len(byAge) : byAge[i] = byAge[j] => i = j
  BY OrderIsSeq
<1>2. PICK i \in 1 .. Len(byAge) :
        /\ byAge[i] = p
        /\ \A k \in 1 .. Len(byAge) :
             byAge'[k] = IF k < i THEN byAge[k]
                         ELSE IF k < Len(byAge) THEN byAge[k + 1] ELSE p
  BY RenewMoves
<1>3. byAge' \in Seq(Peer) /\ Len(byAge') = Len(byAge)
  BY RenewMoves
<1> DEFINE N == Len(byAge)
<1>4. N \in Nat /\ i \in 1 .. N
  BY <1>1
<1>5. \A k \in 1 .. N : \E a \in 1 .. N :
        byAge'[k] = byAge[a] /\ a = IF k < i THEN k ELSE IF k < N THEN k + 1 ELSE i
  BY <1>2, <1>4
<1> HIDE DEF N
<1>6. \A k, l \in 1 .. N : byAge'[k] = byAge'[l] => k = l
  <2> SUFFICES ASSUME NEW k \in 1 .. N, NEW l \in 1 .. N, byAge'[k] = byAge'[l]
               PROVE  k = l
    OBVIOUS
  <2>1. PICK a \in 1 .. N :
          byAge'[k] = byAge[a] /\ a = IF k < i THEN k ELSE IF k < N THEN k + 1 ELSE i
    BY <1>5
  <2>2. PICK b \in 1 .. N :
          byAge'[l] = byAge[b] /\ b = IF l < i THEN l ELSE IF l < N THEN l + 1 ELSE i
    BY <1>5
  <2>3. a = b
    BY <1>1, <2>1, <2>2 DEF N
  <2> QED
    BY <1>4, <2>1, <2>2, <2>3
<1>7. byAge' \in [1 .. N -> Peer]
  BY <1>3, LenProperties DEF N
<1>8. byAge' \in SetToSeqs(Peer)
  BY <1>1, <1>6, <1>7 DEF SetToSeqs, N
<1>9. ndue' \in 0 .. N
  BY <1>4 DEF Renew, Due, N
<1> QED
  BY <1>3, <1>8, <1>9 DEF N

-----------------------------------------------------------------------------
(* The inductive invariant *)

\* What holds of the files in the middle of writing a pair as well.
PairInv ==
  /\ phase = "certificate" => cert = "none" /\ key = "none"
  /\ phase = "key" => cert = "whole" /\ key = "none"
  /\ "pair" \notin cut /\ phase \notin {"certificate", "key"} => cert = key /\ cert # "torn"
  /\ "conf" \notin cut => conf \notin TornConf

DispatchInv ==
  /\ DispatchTypeOK
  /\ senders \in Seq(Seq(Peer))

NodesInv ==
  /\ running \subseteq Node
  /\ running # {} => phase \in {"up", "stopping"}

RetiredInv == (loop = "ended" \/ \E w \in Worker : at[w] = "ended") => phase = "stopping"

IInv == FilesTypeOK /\ PairInv /\ DispatchInv /\ NodesInv /\ RetiredInv

-----------------------------------------------------------------------------
(* The files *)

LEMMA LoadFiles ==
  ASSUME FilesTypeOK, PairInv, LoadStep
  PROVE  FilesTypeOK' /\ PairInv'
<1> USE DEF FilesTypeOK, PairInv, files, Loading, TornConf, Cut, Fatal
<1>1. CASE Launch
  BY <1>1 DEF Launch
<1>2. CASE FindConfig
  BY <1>2 DEF FindConfig
<1>3. CASE CreateConfig
  BY <1>3 DEF CreateConfig
<1>4. CASE ParseConfig
  BY <1>4 DEF ParseConfig
<1>5. CASE LoadConfigFails
  BY <1>5 DEF LoadConfigFails
<1>6. CASE GeneratePair
  BY <1>6 DEF GeneratePair
<1>7. CASE WriteCert
  BY <1>7 DEF WriteCert
<1>8. CASE WriteCertFails
  BY <1>8 DEF WriteCertFails
<1>9. CASE WriteKey
  BY <1>9 DEF WriteKey
<1>10. CASE WriteKeyFails
  BY <1>10 DEF WriteKeyFails
<1>11. CASE NewCrawlerFails
  BY <1>11 DEF NewCrawlerFails
<1>12. CASE KilledWhileLoading
  BY <1>12 DEF KilledWhileLoading
<1>13. CASE Repair
  BY <1>13 DEF Repair
<1> QED
  BY <1>1, <1>2, <1>3, <1>4, <1>5, <1>6, <1>7, <1>8, <1>9, <1>10, <1>11, <1>12, <1>13
     DEF LoadStep

\* A start ends with no process, or goes on; it is never up by itself.
LEMMA LoadPhase ==
  ASSUME LoadStep
  PROVE  phase \notin {"up", "stopping"} /\ phase' \notin {"up", "stopping"}
<1> QED
  BY DEF LoadStep, Launch, FindConfig, CreateConfig, ParseConfig, LoadConfigFails,
         GeneratePair, WriteCert, WriteCertFails, WriteKey, WriteKeyFails,
         NewCrawlerFails, KilledWhileLoading, Repair, Fatal, Loading

-----------------------------------------------------------------------------
(* The select loop and the workers *)

\* A list is added to the queue: the ticker's, or one job of another source.
LEMMA Enqueued ==
  ASSUME DispatchInv, NEW s \in Seq(Peer), s # <<>>,
         Len(senders) < MaxSenders,
         senders' = Append(senders, s),
         UNCHANGED <<table, loop, busy, at>>
  PROVE  DispatchInv'
<1>1. /\ senders' \in Seq(Seq(Peer))
      /\ Len(senders') = Len(senders) + 1
      /\ \A i \in 1 .. Len(senders) : senders'[i] = senders[i]
      /\ senders'[Len(senders) + 1] = s
  BY AppendProperties DEF DispatchInv
<1>2. Len(senders) \in Nat /\ DOMAIN senders = 1 .. Len(senders)
  BY LenProperties DEF DispatchInv
<1>3. DOMAIN senders' = 1 .. Len(senders) + 1
  BY <1>1, LenProperties
<1>4. \A j \in DOMAIN s : s[j] \in Peer
  BY ElementOfSeq, LenProperties
<1>5. DispatchTypeOK'
  <2>1. \A i \in DOMAIN senders' :
          senders'[i] # <<>> /\ \A j \in DOMAIN senders'[i] : senders'[i][j] \in Peer
    BY <1>1, <1>2, <1>3, <1>4 DEF DispatchInv, DispatchTypeOK
  <2>2. Len(senders') <= MaxSenders
    BY <1>1, <1>2, DispatchAssumption
  <2> QED
    BY <2>1, <2>2 DEF DispatchInv, DispatchTypeOK, table
<1> QED
  BY <1>1, <1>5 DEF DispatchInv

LEMMA TakeKeepsInv ==
  ASSUME DispatchInv, NEW w \in Worker, Take(w)
  PROVE  DispatchInv'
<1> DEFINE first == Head(senders)
           rest == Tail(Head(senders))
           n == Len(senders)
<1>1. /\ senders \in Seq(Seq(Peer))
      /\ senders # <<>>
      /\ n \in Nat \ {0}
      /\ DOMAIN senders = 1 .. n
      /\ at[w] = "select"
      /\ busy \in [Worker -> Peer \cup {NoPeer}]
  BY LenProperties, EmptySeq DEF DispatchInv, DispatchTypeOK, Take
<1>2. first = senders[1] /\ first \in Seq(Peer) /\ first # <<>>
  <2>1. 1 \in 1 .. Len(senders)
    BY <1>1
  <2>2. senders[1] \in Seq(Peer)
    BY <1>1, <2>1, ElementOfSeq
  <2>3. senders[1] # <<>>
    BY <1>1, <2>1 DEF DispatchInv, DispatchTypeOK
  <2> QED
    BY <1>1, <2>2, <2>3, HeadTailProperties
<1>3. /\ Len(first) \in Nat \ {0}
      /\ DOMAIN first = 1 .. Len(first)
      /\ Head(first) = first[1]
      /\ first[1] \in Peer
      /\ rest \in Seq(Peer)
      /\ Len(rest) = Len(first) - 1
      /\ DOMAIN rest = 1 .. Len(rest)
      /\ \A j \in 1 .. Len(rest) : rest[j] = first[j + 1]
  BY <1>2, LenProperties, EmptySeq, HeadTailProperties
<1>4. /\ Tail(senders) \in Seq(Seq(Peer))
      /\ Len(Tail(senders)) = n - 1
      /\ \A i \in 1 .. n - 1 : Tail(senders)[i] = senders[i + 1]
  BY <1>1, HeadTailProperties
<1>5. /\ busy' = [busy EXCEPT ![w] = first[1]]
      /\ at' = [at EXCEPT ![w] = "crawl"]
      /\ senders' = IF rest = <<>> THEN Tail(senders) ELSE Append(Tail(senders), rest)
      /\ UNCHANGED <<table, loop>>
  BY <1>3 DEF Take
<1> HIDE DEF first, rest, n
\* Where each element of the new queue was in the old one.
<1>6. /\ senders' \in Seq(Seq(Peer))
      /\ Len(senders') \in 0 .. n
      /\ DOMAIN senders' = 1 .. Len(senders')
      /\ \A i \in DOMAIN senders' :
           \/ i < n /\ senders'[i] = senders[i + 1]
           \/ i = n /\ senders'[i] = rest /\ rest # <<>>
  <2>1. CASE rest = <<>>
    BY <1>1, <1>4, <1>5, <2>1, LenProperties
  <2>2. CASE rest # <<>>
    <3>1. /\ senders' \in Seq(Seq(Peer))
          /\ Len(senders') = Len(Tail(senders)) + 1
          /\ \A i \in 1 .. Len(Tail(senders)) : senders'[i] = Tail(senders)[i]
          /\ senders'[Len(Tail(senders)) + 1] = rest
      BY <1>3, <1>4, <1>5, <2>2, AppendProperties
    <3> QED
      <4>1. Len(senders') = n /\ DOMAIN senders' = 1 .. n
        BY <1>1, <1>4, <3>1, LenProperties
      <4>2. \A i \in 1 .. n : i = n \/ i \in 1 .. n - 1
        BY <1>1
      <4>3. senders'[n] = rest /\ \A i \in 1 .. n - 1 : i < n /\ senders'[i] = senders[i + 1]
        BY <1>1, <1>4, <3>1
      <4> QED
        BY <1>1, <2>2, <3>1, <4>1, <4>2, <4>3
  <2> QED
    BY <2>1, <2>2
<1>7. ASSUME NEW i \in DOMAIN senders'
      PROVE  senders'[i] # <<>> /\ \A j \in DOMAIN senders'[i] : senders'[i][j] \in Peer
  <2>1. CASE i < n /\ senders'[i] = senders[i + 1]
    <3>1. i + 1 \in DOMAIN senders
      BY <1>1, <1>6, <2>1
    <3> QED
      BY <2>1, <3>1 DEF DispatchInv, DispatchTypeOK
  <2>2. CASE i = n /\ senders'[i] = rest /\ rest # <<>>
    BY <1>3, <2>2, ElementOfSeq
  <2> QED
    BY <1>6, <2>1, <2>2
<1>8. DispatchTypeOK'
  <2>2. Len(senders') <= MaxSenders
    <3>1. n <= MaxSenders
      BY DEF DispatchInv, DispatchTypeOK, n
    <3> QED
      BY <1>1, <1>6, <3>1, DispatchAssumption
  <2>3. busy' \in [Worker -> Peer \cup {NoPeer}]
    BY <1>1, <1>3, <1>5
  <2>4. /\ at' \in [Worker -> {"select", "crawl", "save", "ended"}]
        /\ \A v \in Worker : busy'[v] = NoPeer <=> at'[v] \in {"select", "ended"}
    BY <1>1, <1>3, <1>5, DispatchAssumption DEF DispatchInv, DispatchTypeOK
  <2> QED
    BY <1>5, <1>7, <2>2, <2>3, <2>4 DEF DispatchInv, DispatchTypeOK, table
<1> QED
  BY <1>6, <1>8 DEF DispatchInv

LEMMA DispatchKeepsInv ==
  ASSUME DispatchInv, DispatchStep
  PROVE  DispatchInv'
<1>1. CASE Age
  BY <1>1, OrderIsSeq DEF DispatchInv, DispatchTypeOK, Age, volatile
<1>2. CASE OldNodeTick
  <2> DEFINE s == Selected
  <2>1. /\ s \in Seq(Peer)
        /\ Len(s) <= Len(byAge)
        /\ Len(s) \in Nat
        /\ \A j \in 1 .. Len(s) : s[j] = byAge[j]
    BY SelectedIsPrefix DEF DispatchInv, DispatchTypeOK
  <2>2. /\ s # <<>>
        /\ Len(senders) < MaxSenders
        /\ senders' = Append(senders, s)
        /\ UNCHANGED <<table, loop, busy, at>>
    BY <1>2 DEF OldNodeTick
  <2> HIDE DEF s
  <2> QED
    BY <2>1, <2>2, Enqueued
<1>3. ASSUME CrawlTick \/ FindPeerReturns
      PROVE  DispatchInv'
  BY <1>3 DEF DispatchInv, DispatchTypeOK, CrawlTick, FindPeerReturns, table
<1>4. ASSUME NEW p \in Peer, OtherJob(p)
      PROVE  DispatchInv'
  <2> DEFINE s == <<p>>
  <2>1. /\ s \in Seq(Peer)
        /\ s # <<>>
        /\ DOMAIN s = {1}
        /\ s[1] = p
    OBVIOUS
  <2>2. Len(senders) < MaxSenders
    <3>1. Len(senders) \in Nat
      BY LenProperties DEF DispatchInv
    <3> QED
      BY <1>4, <3>1, DispatchAssumption DEF OtherJob
  <2>3. /\ senders' = Append(senders, s)
        /\ UNCHANGED <<table, loop, busy, at>>
    BY <1>4 DEF OtherJob
  <2> HIDE DEF s
  <2> QED
    BY <2>1, <2>2, <2>3, Enqueued
<1>5. ASSUME NEW w \in Worker, Take(w)
      PROVE  DispatchInv'
  BY <1>5, TakeKeepsInv
<1>6. ASSUME NEW w \in Worker, Crawl(w)
      PROVE  DispatchInv'
  BY <1>6 DEF DispatchInv, DispatchTypeOK, Crawl, table
<1>7. ASSUME NEW w \in Worker, Save(w) \/ SaveFails(w)
      PROVE  DispatchInv'
  <2>1. busy[w] \in Peer
    BY <1>7 DEF DispatchInv, DispatchTypeOK, Save, SaveFails
  <2>2. byAge' \in SetToSeqs(Peer) /\ ndue' \in 0 .. Len(byAge')
    <3>1. CASE Save(w)
      BY <2>1, <3>1, RenewKeepsOrder DEF DispatchInv, DispatchTypeOK, Save
    <3>2. CASE SaveFails(w)
      BY <3>2 DEF DispatchInv, DispatchTypeOK, SaveFails, table
    <3> QED
      BY <1>7, <3>1, <3>2
  <2>3. /\ busy' = [busy EXCEPT ![w] = NoPeer]
        /\ at' = [at EXCEPT ![w] = "select"]
        /\ UNCHANGED <<loop, senders>>
    BY <1>7 DEF Save, SaveFails, Leave
  <2>4. DispatchTypeOK'
    BY <2>2, <2>3 DEF DispatchInv, DispatchTypeOK
  <2> QED
    BY <2>3, <2>4 DEF DispatchInv
<1> QED
  BY <1>1, <1>2, <1>3, <1>4, <1>5, <1>6, <1>7 DEF DispatchStep

\* No step of the loop or of a worker ends it, except for the shutdown.
LEMMA DispatchKeepsRetired ==
  ASSUME DispatchInv, RetiredInv, DispatchStep, phase' = phase
  PROVE  RetiredInv'
<1>1. at \in [Worker -> {"select", "crawl", "save", "ended"}]
  BY DEF DispatchInv, DispatchTypeOK
<1> QED
  BY <1>1 DEF RetiredInv, DispatchStep, Age, OldNodeTick, CrawlTick, FindPeerReturns, OtherJob,
     Take, Crawl, Save, SaveFails, Leave, volatile

LEMMA RetireKeepsInv ==
  ASSUME DispatchInv, LoopEnds \/ \E w \in Worker : WorkerEnds(w)
  PROVE  DispatchInv'
<1>1. CASE LoopEnds
  BY <1>1 DEF DispatchInv, DispatchTypeOK, LoopEnds, table
<1>2. ASSUME NEW w \in Worker, WorkerEnds(w)
      PROVE  DispatchInv'
  <2>2. /\ at' \in [Worker -> {"select", "crawl", "save", "ended"}]
        /\ \A v \in Worker : busy'[v] = NoPeer <=> at'[v] \in {"select", "ended"}
    BY <1>2 DEF DispatchInv, DispatchTypeOK, WorkerEnds
  <2> QED
    BY <1>2, <2>2 DEF DispatchInv, DispatchTypeOK, WorkerEnds, table
<1> QED
  BY <1>1, <1>2

LEMMA FreshInv ==
  ASSUME DispatchInv, Fresh, UNCHANGED table
  PROVE  DispatchInv' /\ loop' = "select" /\ \A w \in Worker : at'[w] = "select"
<1>1. senders' = <<>> /\ <<>> \in Seq(Seq(Peer)) /\ Len(<<>>) = 0 /\ DOMAIN senders' = {}
  BY EmptySeq DEF Fresh
<1>2. DispatchTypeOK'
  <2>1. byAge' = byAge /\ ndue' = ndue /\ loop' = "select"
    BY DEF Fresh, table
  <2>2. Len(senders') <= MaxSenders
    BY <1>1, DispatchAssumption
  <2>3. /\ busy' \in [Worker -> Peer \cup {NoPeer}]
        /\ at' \in [Worker -> {"select", "crawl", "save", "ended"}]
        /\ \A w \in Worker : busy'[w] = NoPeer <=> at'[w] \in {"select", "ended"}
    BY DEF Fresh
  <2> QED
    BY <1>1, <2>1, <2>2, <2>3 DEF DispatchInv, DispatchTypeOK
<1> QED
  BY <1>1, <1>2 DEF DispatchInv, Fresh

-----------------------------------------------------------------------------
(* The process *)

LEMMA EndKeepsInv ==
  ASSUME IInv, End, phase \in {"up", "stopping"}
  PROVE  IInv'
<1>1. DispatchInv' /\ loop' = "select" /\ \A w \in Worker : at'[w] = "select"
  BY FreshInv DEF IInv, End
<1>2. FilesTypeOK' /\ PairInv'
  BY DEF IInv, FilesTypeOK, PairInv, End, files, Loading
<1>3. NodesInv'
  BY DEF IInv, NodesInv, End
<1> QED
  BY <1>1, <1>2, <1>3 DEF IInv, RetiredInv

LEMMA InitInv == Init => IInv
<1> SUFFICES ASSUME Init PROVE IInv
  OBVIOUS
<1>1. FilesTypeOK /\ PairInv
  BY DEF Init, FilesInit, FilesTypeOK, PairInv, TornConf
<1>2. DispatchInv
  <2>1. senders = <<>> /\ <<>> \in Seq(Seq(Peer)) /\ Len(<<>>) = 0 /\ DOMAIN senders = {}
    BY EmptySeq DEF Init, DispatchInit
  <2>2. ndue \in 0 .. Len(byAge)
    BY OrderIsSeq DEF Init, DispatchInit
  <2>3. Len(senders) <= MaxSenders
    BY <2>1, DispatchAssumption
  <2>4. DispatchTypeOK
    BY <2>1, <2>2, <2>3 DEF Init, DispatchInit, DispatchTypeOK
  <2> QED
    BY <2>1, <2>4 DEF DispatchInv
<1>3. NodesInv
  BY DEF Init, NodesInv
<1>4. RetiredInv
  BY DEF Init, DispatchInit, RetiredInv
<1> QED
  BY <1>1, <1>2, <1>3, <1>4 DEF IInv

LEMMA Unmoved ==
  ASSUME IInv, UNCHANGED <<dispatchVars>>, phase' # "stopping" => phase # "stopping"
  PROVE  DispatchInv' /\ RetiredInv'
<1> QED
  BY DEF IInv, DispatchInv, DispatchTypeOK, RetiredInv, dispatchVars, table, volatile

LEMMA NextKeepsInv ==
  ASSUME IInv, [Next]_vars
  PROVE  IInv'
<1>1. CASE Load
  <2>1. FilesTypeOK' /\ PairInv'
    BY <1>1, LoadFiles DEF IInv, Load
  <2>2. phase \notin {"up", "stopping"} /\ phase' \notin {"up", "stopping"}
    BY <1>1, LoadPhase DEF Load
  <2>3. DispatchInv' /\ RetiredInv'
    BY <1>1, <2>2, Unmoved DEF Load
  <2>4. NodesInv'
    BY <1>1, <2>2 DEF IInv, NodesInv, Load
  <2> QED
    BY <2>1, <2>3, <2>4 DEF IInv
<1>2. CASE Start
  <2>1. FilesTypeOK' /\ PairInv'
    BY <1>2 DEF IInv, FilesTypeOK, PairInv, Start, NewCrawlerSucceeds, files
  <2>2. DispatchInv' /\ RetiredInv'
    BY <1>2, Unmoved DEF Start, NewCrawlerSucceeds
  <2>3. NodesInv'
    BY <1>2 DEF NodesInv, Start
  <2> QED
    BY <2>1, <2>2, <2>3 DEF IInv
<1>3. CASE StartFails
  <2>1. FilesTypeOK' /\ PairInv'
    BY <1>3 DEF IInv, FilesTypeOK, PairInv, StartFails, NewCrawlerSucceeds, files
  <2>2. DispatchInv' /\ RetiredInv'
    BY <1>3, Unmoved DEF StartFails, NewCrawlerSucceeds
  <2>3. NodesInv'
    BY <1>3 DEF IInv, NodesInv, StartFails, NewCrawlerSucceeds
  <2> QED
    BY <2>1, <2>2, <2>3 DEF IInv
<1>4. CASE Runs(DispatchStep)
  <2>1. DispatchInv' /\ RetiredInv'
    BY <1>4, DispatchKeepsInv, DispatchKeepsRetired DEF IInv, Runs
  <2>2. FilesTypeOK' /\ PairInv' /\ NodesInv'
    BY <1>4 DEF IInv, FilesTypeOK, PairInv, NodesInv, Runs, files
  <2> QED
    BY <2>1, <2>2 DEF IInv
<1>5. CASE Retire
  <2>1. DispatchInv'
    BY <1>5, RetireKeepsInv DEF IInv, Retire
  <2>2. RetiredInv' /\ FilesTypeOK' /\ PairInv' /\ NodesInv'
    BY <1>5 DEF IInv, FilesTypeOK, PairInv, NodesInv, RetiredInv, Retire, files
  <2> QED
    BY <2>1, <2>2 DEF IInv
<1>6. CASE Signal
  <2>1. DispatchInv' /\ RetiredInv'
    BY <1>6, Unmoved DEF Signal
  <2>2. FilesTypeOK' /\ PairInv' /\ NodesInv'
    BY <1>6 DEF IInv, FilesTypeOK, PairInv, NodesInv, Signal, files
  <2> QED
    BY <2>1, <2>2 DEF IInv
<1>7. ASSUME NEW n \in Node, StopNode(n)
      PROVE  IInv'
  <2>1. DispatchInv' /\ RetiredInv'
    BY <1>7, Unmoved DEF StopNode
  <2>2. FilesTypeOK' /\ PairInv' /\ NodesInv'
    BY <1>7 DEF IInv, FilesTypeOK, PairInv, NodesInv, StopNode, files
  <2> QED
    BY <2>1, <2>2 DEF IInv
<1>8. CASE StopNodeFails
  BY <1>8, EndKeepsInv DEF StopNodeFails
<1>9. CASE Exit
  BY <1>9, EndKeepsInv DEF Exit
<1>10. CASE HandlerPanics
  BY <1>10, EndKeepsInv DEF HandlerPanics
<1>11. CASE Killed
  BY <1>11, EndKeepsInv DEF Killed
<1>12. CASE UNCHANGED vars
  <2>1. DispatchInv' /\ RetiredInv'
    BY <1>12, Unmoved DEF vars
  <2>2. FilesTypeOK' /\ PairInv' /\ NodesInv'
    BY <1>12 DEF IInv, FilesTypeOK, PairInv, NodesInv, vars, files
  <2> QED
    BY <2>1, <2>2 DEF IInv
<1> QED
  BY <1>1, <1>2, <1>3, <1>4, <1>5, <1>6, <1>7, <1>8, <1>9, <1>10, <1>11, <1>12 DEF Next

LEMMA Invariance == Spec => []IInv
<1>1. Init => IInv
  BY InitInv
<1>2. IInv /\ [Next]_vars => IInv'
  BY NextKeepsInv
<1> QED
  BY <1>1, <1>2, PTL DEF Spec

-----------------------------------------------------------------------------
(* The theorems *)

\* Type correctness of files, queue, workers and nodes; the peers stay in one
\* order, each in one place (crawler.go:297-303).
THEOREM TypeCorrect == Spec => []TypeOK
<1>1. IInv => TypeOK
  BY DEF IInv, NodesInv, RetiredInv, DispatchInv, TypeOK
<1> QED
  BY <1>1, Invariance, PTL

\* Only a write that was cut short, or a certificate that could not be removed,
\* leaves half a pair or half a configuration behind; every other failure of a
\* start is cleaned up (config.go:203-208, 323-330).
THEOREM FilesStaySound == Spec => []FilesSound
<1>1. IInv => FilesSound
  BY DEF IInv, PairInv, FilesSound
<1> QED
  BY <1>1, Invariance, PTL
=============================================================================
