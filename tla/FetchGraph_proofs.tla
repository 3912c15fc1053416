-------------------------- MODULE FetchGraph_proofs --------------------------
(***************************************************************************)
(* What fetchGraph returns, for every graph, whatever the order in which   *)
(* the map is visited.                                                     *)
(***************************************************************************)
EXTENDS FetchGraph, TLAPS

\* Until the root is returned it is the only thing to load.
RootFirst == Root \in Returned \/ (m = {Root} /\ result = "none")

\* The links of what was returned were returned, or are still to be loaded.
LinksPending ==
  \A c \in Returned : c \in m \/ \A d \in links[c] : d \in Returned \/ d \in m

\* Nothing is loaded that does not lie under the root.
WithinReach == \A c \in CID : c \in Returned \/ c \in m => c \in Reachable

IInv == TypeOK /\ RootFirst /\ LinksPending /\ WithinReach

\* The graph under the root holds the root and the links of its members.
LEMMA ReachableIsClosed ==
  ASSUME TypeOK
  PROVE  Root \in Reachable /\ \A c \in Reachable : links[c] \subseteq Reachable
<1> USE GraphAssumption DEF TypeOK
<1>1. Root \in Reachable
  BY DEF Reachable, Closed
<1>2. ASSUME NEW c \in Reachable, NEW d \in links[c] PROVE d \in Reachable
  <2>1. c \in CID /\ d \in CID
    BY <1>2 DEF Reachable
  <2>2. ASSUME NEW S \in SUBSET CID, Closed(S) PROVE d \in S
    <3>1. c \in S
      BY <1>2, <2>2 DEF Reachable
    <3> QED
      BY <1>2, <2>2, <3>1 DEF Closed
  <2> QED
    BY <2>1, <2>2 DEF Reachable
<1> QED
  BY <1>1, <1>2

LEMMA InitIInv == Init => IInv
<1> SUFFICES ASSUME Init PROVE IInv
  OBVIOUS
<1>1. TypeOK
  BY GraphAssumption DEF Init, TypeOK
<1>2. Root \in Reachable
  BY <1>1, ReachableIsClosed
<1>3. Returned = {}
  BY DEF Init, Returned
<1> QED
  BY <1>1, <1>2, <1>3 DEF Init, IInv, RootFirst, LinksPending, WithinReach

\* What Appended does to the set of returned CIDs.
LEMMA ReturnedGrows ==
  ASSUME TypeOK, NEW c \in CID, Appended(c)
  PROVE  /\ Returned' = Returned \cup {c}
         /\ ret' \in [CID -> Nat]
BY DEF TypeOK, Appended, Returned

LEMMA NextIInv == IInv /\ [Next]_vars => IInv'
<1> SUFFICES ASSUME IInv, [Next]_vars PROVE IInv'
  OBVIOUS
<1> USE GraphAssumption DEF IInv
<1>1. ASSUME NEW c \in CID, Load(c) PROVE IInv'
  <2>1. Returned' = Returned \cup {c} /\ ret' \in [CID -> Nat]
    BY <1>1, ReturnedGrows DEF Load
  <2>2. Reachable' = Reachable
    BY <1>1 DEF Load, Reachable, Closed
  <2>3. TypeOK'
    BY <1>1, <2>1 DEF Load, TypeOK
  <2>4. RootFirst'
    BY <1>1, <2>1 DEF Load, RootFirst
  <2>5. LinksPending'
    <3> SUFFICES ASSUME NEW d \in Returned', NEW e \in links'[d], d \notin m'
                 PROVE  e \in Returned' \/ e \in m'
      BY DEF LinksPending
    <3>1. CASE d = c
      BY <1>1, <3>1 DEF Load
    <3>2. CASE d # c
      <4>1. d \in Returned /\ d \notin m
        BY <1>1, <2>1, <3>2 DEF Load
      <4>2. e \in Returned \/ e \in m
        BY <1>1, <4>1 DEF Load, LinksPending
      <4> QED
        BY <1>1, <2>1, <4>2 DEF Load
    <3> QED
      BY <3>1, <3>2
  <2>6. WithinReach'
    <3>1. links[c] \subseteq Reachable
      BY <1>1, ReachableIsClosed DEF Load, WithinReach
    <3> QED
      BY <1>1, <2>1, <2>2, <3>1 DEF Load, WithinReach
  <2> QED
    BY <2>3, <2>4, <2>5, <2>6
<1>2. ASSUME NEW c \in CID, LoadFails(c) PROVE IInv'
  <2>1. Returned' = Returned \cup {c} /\ ret' \in [CID -> Nat]
    BY <1>2, ReturnedGrows DEF LoadFails
  <2>2. Reachable' = Reachable
    BY <1>2 DEF LoadFails, Reachable, Closed
  <2>3. TypeOK'
    BY <1>2, <2>1 DEF LoadFails, TypeOK
  <2> QED
    BY <1>2, <2>1, <2>2, <2>3 DEF LoadFails, RootFirst, LinksPending, WithinReach
<1>3. CASE Return
  <2>1. Returned' = Returned /\ Reachable' = Reachable
    BY <1>3 DEF Return, Returned, Reachable, Closed
  <2> QED
    BY <1>3, <2>1 DEF Return, TypeOK, RootFirst, LinksPending, WithinReach
<1>4. CASE UNCHANGED vars
  <2>1. Returned' = Returned /\ Reachable' = Reachable
    BY <1>4 DEF vars, Returned, Reachable, Closed
  <2> QED
    BY <1>4, <2>1 DEF vars, TypeOK, RootFirst, LinksPending, WithinReach
<1> QED
  BY <1>1, <1>2, <1>3, <1>4 DEF Next

LEMMA Inductive == Spec => []IInv
BY InitIInv, NextIInv, PTL DEF Spec

\* Type correctness.
THEOREM TypeCorrect == Spec => []TypeOK
BY Inductive, PTL DEF IInv

\* fetchGraph returns the whole graph under the root and nothing else, or, when
\* a node cannot be loaded, a part of it with the root.
THEOREM Completeness == Spec => []Complete
<1>1. IInv => Complete
  <2> SUFFICES ASSUME IInv PROVE Complete
    OBVIOUS
  <2>1. Returned \subseteq Reachable
    BY DEF IInv, WithinReach, Returned
  <2>2. ASSUME result = "ok" PROVE Reachable \subseteq Returned
    <3>1. m = {}
      BY <2>2 DEF IInv, TypeOK
    <3>2. Root \in Returned
      BY <2>2 DEF IInv, RootFirst
    <3>3. \A c \in Returned : links[c] \subseteq Returned
      BY <3>1 DEF IInv, LinksPending
    <3>4. Returned \in SUBSET CID /\ Closed(Returned)
      BY <3>2, <3>3 DEF Closed, Returned
    <3> QED
      BY <3>4 DEF Reachable
  <2>3. ASSUME result = "error" PROVE Root \in Returned
    BY <2>3 DEF IInv, RootFirst
  <2> QED
    BY <2>1, <2>2, <2>3 DEF Complete
<1> QED
  BY <1>1, Inductive, PTL
=============================================================================
