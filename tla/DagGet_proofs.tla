---------------------------- MODULE DagGet_proofs ----------------------------
(***************************************************************************)
(* fetchGraph with dagGet taken apart implements the walk of FetchGraph,   *)
(* for every graph and whenever the crawler stops; so what is proved there *)
(* of the graph it returns holds here too.  And how often it loads a node, *)
(* for every graph without cycles.                                         *)
(*                                                                         *)
(* That bound is a recursive function over the numbers of the nodes, so    *)
(* its proof needs induction: it comes from the well-foundedness of the    *)
(* subset ordering of finite sets, which the library proves.               *)
(***************************************************************************)
EXTENDS Paths, FetchGraph_proofs, FiniteSetTheorems, WellFoundedInduction

-----------------------------------------------------------------------------
(* Types *)

LEMMA WalkInitTypeOK == WalkInit => WalkTypeOK
<1>1. WalkInit => TypeOK
  BY GraphAssumption DEF WalkInit, Init, TypeOK
<1> QED
  BY <1>1 DEF WalkInit, WalkTypeOK, Init

LEMMA WalkNextTypeOK == WalkTypeOK /\ [WalkNext]_walkVars => WalkTypeOK'
<1> SUFFICES ASSUME WalkTypeOK, [WalkNext]_walkVars PROVE WalkTypeOK'
  OBVIOUS
<1> USE GraphAssumption, NoCIDAssumption DEF WalkTypeOK, TypeOK
<1>1. ASSUME NEW c \in CID, Call(c) PROVE WalkTypeOK'
  BY <1>1 DEF Call, Appended
<1>2. CASE NewAPI \/ NewAPIFails \/ Get
  BY <1>2 DEF NewAPI, NewAPIFails, Get, vars
<1>3. CASE ReturnNode
  BY <1>3 DEF ReturnNode, HandShake, Leave
<1>4. CASE ReturnError
  BY <1>4 DEF ReturnError, HandShake, Leave
<1>5. CASE End
  BY <1>5 DEF End, Return, dagVars
<1>6. CASE HelperSeesShutdown \/ CloseShutdown
  BY <1>6 DEF HelperSeesShutdown, CloseShutdown, vars, dagVars
<1>7. CASE UNCHANGED walkVars
  BY <1>7 DEF walkVars, vars, dagVars
<1> QED
  BY <1>1, <1>2, <1>3, <1>4, <1>5, <1>6, <1>7 DEF WalkNext, FetchStep

-----------------------------------------------------------------------------
(* The refinement *)

LEMMA WalkInitRefines == WalkInit => Walk!Init
<1> SUFFICES ASSUME WalkInit PROVE Walk!Init
  OBVIOUS
<1>1. RetBar = [c \in CID |-> 0]
  BY NoCIDAssumption DEF WalkInit, Init, RetBar
<1> QED
  BY <1>1 DEF WalkInit, Init, Walk!Init

\* When dagGet has returned, the CID counts as returned.
LEMMA RetBarAppends ==
  ASSUME WalkTypeOK, loading \in CID, loading' = NoCID, UNCHANGED ret
  PROVE  Walk!Appended(loading)
<1>1. \A c \in CID : RetBar[c] = IF c = loading THEN ret[c] - 1 ELSE ret[c]
  BY DEF RetBar
<1>2. RetBar' = [c \in CID |-> ret[c]]
  BY NoCIDAssumption DEF RetBar
<1>3. RetBar' = [RetBar EXCEPT ![loading] = @ + 1]
  <2>1. \A c \in CID : RetBar'[c] = IF c = loading THEN RetBar[c] + 1 ELSE RetBar[c]
    BY <1>1, <1>2 DEF WalkTypeOK, TypeOK
  <2>2. RetBar = [c \in CID |-> RetBar[c]] /\ RetBar' = [c \in CID |-> RetBar'[c]]
    BY DEF RetBar
  <2> QED
    BY <2>1, <2>2
<1> QED
  BY <1>3 DEF Walk!Appended

LEMMA RetBarKept == UNCHANGED <<ret, loading>> => RetBar' = RetBar
BY DEF RetBar

LEMMA WalkNextRefines == WalkTypeOK /\ [WalkNext]_walkVars => [Walk!Next]_(Walk!vars)
<1> SUFFICES ASSUME WalkTypeOK, [WalkNext]_walkVars PROVE [Walk!Next]_(Walk!vars)
  OBVIOUS
<1> USE NoCIDAssumption DEF Walk!vars, Walk!Next
<1>1. ASSUME NEW c \in CID, Call(c) PROVE UNCHANGED Walk!vars
  <2>1. RetBar' = RetBar
    BY <1>1 DEF Call, Appended, RetBar, WalkTypeOK, TypeOK
  <2> QED
    BY <1>1, <2>1 DEF Call
<1>2. CASE NewAPI \/ NewAPIFails \/ Get \/ HelperSeesShutdown \/ CloseShutdown
  BY <1>2, RetBarKept
     DEF NewAPI, NewAPIFails, Get, HelperSeesShutdown, CloseShutdown, vars, dagVars
<1>3. CASE ReturnNode
  <2>1. loading \in m /\ loading \in CID /\ result = "none" /\ UNCHANGED ret /\ loading' = NoCID
    BY <1>3 DEF ReturnNode, HandShake, Leave, WalkTypeOK, TypeOK
  <2>2. Walk!Load(loading)
    BY <1>3, <2>1, RetBarAppends DEF ReturnNode, Leave, Walk!Load
  <2> QED
    BY <2>1, <2>2
<1>4. CASE ReturnError
  <2>1. loading \in m /\ loading \in CID /\ result = "none" /\ UNCHANGED ret /\ loading' = NoCID
    BY <1>4 DEF ReturnError, HandShake, Leave, WalkTypeOK, TypeOK
  <2>2. Walk!LoadFails(loading)
    BY <1>4, <2>1, RetBarAppends DEF ReturnError, Leave, Walk!LoadFails
  <2> QED
    BY <2>1, <2>2
<1>5. CASE End
  BY <1>5, RetBarKept DEF End, Return, Walk!Return, dagVars
<1>6. CASE UNCHANGED walkVars
  BY <1>6, RetBarKept DEF walkVars, vars, dagVars
<1> QED
  BY <1>1, <1>2, <1>3, <1>4, <1>5, <1>6 DEF WalkNext, FetchStep

\* fetchGraph implements the walk of FetchGraph, also when NewCoreAPI fails or the
\* crawler stops while a node is being loaded.
THEOREM FetchGraphWalks == WalkSpec => WalksTheGraph
<1>1. WalkSpec => []WalkTypeOK
  BY WalkInitTypeOK, WalkNextTypeOK, PTL DEF WalkSpec
<1> QED
  BY <1>1, WalkInitRefines, WalkNextRefines, PTL DEF WalkSpec, WalksTheGraph, Walk!Spec

\* Type correctness of the walk and of dagGet.
THEOREM WalkTypeCorrect == WalkSpec => []WalkTypeOK
BY WalkInitTypeOK, WalkNextTypeOK, PTL DEF WalkSpec

-----------------------------------------------------------------------------
WalkProofs == INSTANCE FetchGraph_proofs WITH ret <- RetBar

\* Once fetchGraph has returned, what it appended is what the walk returned.
LEMMA CompleteFromWalk == WalkTypeOK /\ WalkProofs!Complete => Complete
<1> SUFFICES ASSUME WalkTypeOK, WalkProofs!Complete, result # "none" PROVE Complete
  BY DEF Complete
<1>1. RetBar = ret
  BY NoCIDAssumption DEF RetBar, WalkTypeOK, TypeOK
<1> QED
  BY <1>1 DEF Complete, Returned, Reachable, Closed, WalkProofs!Complete,
              WalkProofs!Returned, WalkProofs!Reachable, WalkProofs!Closed

\* What fetchGraph returns is the whole graph under the root and nothing else, or
\* a part of it with the root when it returns an error.
THEOREM WalkIsComplete == WalkSpec => []Complete
<1>1. WalkProofs!Spec => []WalkProofs!Complete
  BY GraphAssumption, WalkProofs!Completeness
<1>2. Walk!Init => WalkProofs!Init
  BY DEF Walk!Init, WalkProofs!Init
<1>3. [Walk!Next]_(Walk!vars) => [WalkProofs!Next]_(WalkProofs!vars)
  BY DEF Walk!Next, Walk!Load, Walk!LoadFails, Walk!Return, Walk!Appended, Walk!vars,
         WalkProofs!Next, WalkProofs!Load, WalkProofs!LoadFails, WalkProofs!Return,
         WalkProofs!Appended, WalkProofs!vars
<1>4. WalkSpec => WalkProofs!Spec
  BY <1>2, <1>3, FetchGraphWalks, PTL DEF WalksTheGraph, Walk!Spec, WalkProofs!Spec
<1> QED
  BY <1>1, <1>4, WalkTypeCorrect, CompleteFromWalk, PTL

-----------------------------------------------------------------------------
(* Induction and recursion *)

\* A set of finite sets has a least member.
LEMMA LeastSubset ==
  ASSUME NEW U, NEW T, T \subseteq FiniteSubsetsOf(U), T # {}
  PROVE  \E x \in T : \A y \in T : y \subseteq x => y = x
<1>1. PICK x \in T : \A y \in T : ~ (<<y, x>> \in StrictSubsetOrdering(U))
  BY FS_StrictSubsetOrderingWellFounded, WFMin
<1>2. \A y \in T : y \in SUBSET U
  BY DEF FiniteSubsetsOf
<1> QED
  BY <1>1, <1>2 DEF StrictSubsetOrdering

\* A set of naturals that holds 0 and the successors of its members holds all:
\* if n is missing, so is n - 1, and the interval 0 .. n is never the least.
LEMMA NatSetInduction ==
  ASSUME NEW S \in SUBSET Nat, 0 \in S, \A n \in S : n + 1 \in S
  PROVE  S = Nat
<1> SUFFICES ASSUME NEW j \in Nat \ S PROVE FALSE
  OBVIOUS
<1> DEFINE T == {0 .. n : n \in Nat \ S}
<1>1. T \subseteq FiniteSubsetsOf(Nat)
  <2>1. ASSUME NEW n \in Nat \ S PROVE 0 .. n \in FiniteSubsetsOf(Nat)
    <3>1. IsFiniteSet(0 .. n)
      BY FS_Interval
    <3>2. 0 .. n \in SUBSET Nat
      OBVIOUS
    <3> QED
      BY <3>1, <3>2 DEF FiniteSubsetsOf
  <2> QED
    BY <2>1
<1>2. T # {}
  OBVIOUS
<1>3. PICK x \in T : \A y \in T : y \subseteq x => y = x
  <2> HIDE DEF T
  <2> QED
    BY <1>1, <1>2, LeastSubset
<1>4. PICK n \in Nat \ S : x = 0 .. n
  BY <1>3
<1>5. n - 1 \in Nat \ S
  BY <1>4
<1>6. 0 .. (n - 1) \in T
  BY <1>5
<1>7. 0 .. (n - 1) \subseteq x
  BY <1>4
<1>8. 0 .. (n - 1) = 0 .. n
  BY <1>3, <1>4, <1>6, <1>7
<1>9. n \in 0 .. n /\ n \notin 0 .. (n - 1)
  BY <1>4
<1> QED
  BY <1>8, <1>9

\* What holds at 0 and is carried from k - 1 to k holds up to n.
LEMMA Upwards ==
  ASSUME NEW n \in Nat, NEW S, 0 \in S, \A k \in 1 .. n : k - 1 \in S => k \in S
  PROVE  0 .. n \subseteq S
<1> DEFINE R == {k \in Nat : k <= n => k \in S}
<1>1. 0 \in R
  OBVIOUS
<1>2. \A k \in R : k + 1 \in R
  <2> SUFFICES ASSUME NEW k \in R, k + 1 <= n PROVE k + 1 \in S
    OBVIOUS
  <2>1. k \in S /\ k + 1 \in 1 .. n /\ (k + 1) - 1 = k
    OBVIOUS
  <2> QED
    BY <2>1
<1>3. R \in SUBSET Nat
  OBVIOUS
<1>4. R = Nat
  <2> HIDE DEF R
  <2> QED
    BY <1>1, <1>2, <1>3, NatSetInduction
<1> QED
  BY <1>4

\* There is a function that is base at 0 and takes step from k - 1 to k.
Recursion(n, F, base, step) ==
  \E h \in [0 .. n -> F] :
    h[0] = base /\ \A k \in 1 .. n : h[k] = step[k][h[k - 1]]

\* A function can be defined by its value at 0 and a step from k - 1 to k.
LEMMA PrimitiveRecursion ==
  ASSUME NEW n \in Nat, NEW F, NEW base \in F, NEW step \in [1 .. n -> [F -> F]]
  PROVE  Recursion(n, F, base, step)
<1> DEFINE Upto(j, h) == h[0] = base /\ \A k \in 1 .. j : h[k] = step[k][h[k - 1]]
           S == {j \in 0 .. n : \E h \in [0 .. j -> F] : Upto(j, h)}
<1>1. 0 \in S
  <2>1. [i \in 0 .. 0 |-> base] \in [0 .. 0 -> F]
    OBVIOUS
  <2>2. Upto(0, [i \in 0 .. 0 |-> base])
    OBVIOUS
  <2>3. 0 \in 0 .. n
    OBVIOUS
  <2> QED
    BY <2>1, <2>2, <2>3
<1>2. ASSUME NEW j \in 1 .. n, j - 1 \in S PROVE j \in S
  <2>1. PICK h \in [0 .. j - 1 -> F] : Upto(j - 1, h)
    BY <1>2
  <2> DEFINE g == [i \in 0 .. j |-> IF i = j THEN step[j][h[j - 1]] ELSE h[i]]
  <2>2. step[j][h[j - 1]] \in F
    <3>1. j \in 1 .. n /\ h[j - 1] \in F
      OBVIOUS
    <3> QED
      BY <3>1
  <2>3. g \in [0 .. j -> F]
    BY <2>2
  <2>4. g[0] = base
    BY <2>1
  <2>5. ASSUME NEW k \in 1 .. j PROVE g[k] = step[k][g[k - 1]]
    <3>1. g[k - 1] = h[k - 1]
      OBVIOUS
    <3>2. CASE k = j
      <4>1. g[j] = step[j][h[j - 1]]
        OBVIOUS
      <4>2. g[j - 1] = h[j - 1]
        BY <3>1, <3>2
      <4> HIDE DEF g
      <4> QED
        BY <3>2, <4>1, <4>2
    <3>3. CASE k # j
      <4>1. k \in 1 .. j - 1 /\ g[k] = h[k]
        BY <3>3
      <4> QED
        BY <2>1, <3>1, <4>1
    <3> QED
      BY <3>2, <3>3
  <2>6. Upto(j, g)
    BY <2>4, <2>5
  <2> HIDE DEF g, Upto
  <2> QED
    BY <2>3, <2>6
<1>3. 0 .. n \subseteq S
  <2> HIDE DEF S
  <2> QED
    BY <1>1, <1>2, Upwards
<1>4. n \in S
  BY <1>3
<1> QED
  BY <1>4 DEF Recursion
-----------------------------------------------------------------------------
(* The number of paths *)

Counts == [CID -> Nat]

AtRoot == [c \in CID |-> IF c = Root THEN 1 ELSE 0]

\* The paths through k, from those through k - 1: before gives their number.
Extend(g, k, before) ==
  [c \in CID |-> before[c] + (IF c \in g[k] THEN before[k] ELSE 0)]

\* A family of counts that satisfies the equations of PathsThrough is unfolded by
\* them; PathsThrough satisfies them because some family does.
LEMMA PathsThroughDef ==
  ASSUME NEW g \in Graphs
  PROVE  /\ PathsThrough(g)[0] = AtRoot
         /\ \A k \in 1 .. N :
              PathsThrough(g)[k] = Extend(g, k, PathsThrough(g)[k - 1])
         /\ \A k \in 0 .. N : PathsThrough(g)[k] \in Counts
<1> USE NumberingAssumption, GraphAssumption
<1> DEFINE Solves(p) ==
             p = [k \in 0 .. N |->
                    IF k = 0 THEN [c \in CID |-> IF c = Root THEN 1 ELSE 0]
                    ELSE LET before == p[k - 1]
                         IN [c \in CID |-> before[c] + (IF c \in g[k] THEN before[k] ELSE 0)]]
           step == [k \in 1 .. N |-> [w \in Counts |-> Extend(g, k, w)]]
<1>1. AtRoot \in Counts
  BY DEF AtRoot, Counts
<1>2. ASSUME NEW k \in 1 .. N, NEW w \in Counts PROVE Extend(g, k, w) \in Counts
  BY DEF Extend, Counts
<1>3. step \in [1 .. N -> [Counts -> Counts]]
  BY <1>2
<1>4. Recursion(N, Counts, AtRoot, step)
  <2>1. N \in Nat
    OBVIOUS
  <2> HIDE NumberingAssumption, GraphAssumption DEF step
  <2> QED
    BY <1>1, <1>3, <2>1, PrimitiveRecursion
<1>5. PICK h \in [0 .. N -> Counts] :
        h[0] = AtRoot /\ \A k \in 1 .. N : h[k] = step[k][h[k - 1]]
  BY <1>4 DEF Recursion
<1>6. \A k \in 1 .. N : h[k] = Extend(g, k, h[k - 1])
  <2> SUFFICES ASSUME NEW k \in 1 .. N PROVE h[k] = Extend(g, k, h[k - 1])
    OBVIOUS
  <2>1. h[k - 1] \in Counts
    BY <1>5
  <2>2. step[k][h[k - 1]] = Extend(g, k, h[k - 1])
    BY <2>1
  <2> QED
    BY <1>5, <2>2
<1>7. Solves(h)
  <2>1. \A k \in 0 .. N : h[k] = IF k = 0 THEN AtRoot ELSE Extend(g, k, h[k - 1])
    BY <1>5, <1>6
  <2>2. h = [k \in 0 .. N |-> IF k = 0 THEN AtRoot ELSE Extend(g, k, h[k - 1])]
    BY <1>5, <2>1
  <2> HIDE NumberingAssumption, GraphAssumption
  <2> QED
    BY <2>2, Zenon DEF AtRoot, Extend
<1>8. Solves(PathsThrough(g))
  <2>1. PathsThrough(g) = CHOOSE p : Solves(p)
    BY DEF PathsThrough
  <2> HIDE DEF Solves
  <2> QED
    BY <1>7, <2>1
<1> DEFINE p == PathsThrough(g)
<1>9. p = [k \in 0 .. N |->
             IF k = 0 THEN AtRoot ELSE Extend(g, k, p[k - 1])]
  BY <1>8 DEF AtRoot, Extend
<1> HIDE DEF p
<1>10. p[0] = AtRoot /\ \A k \in 1 .. N : p[k] = Extend(g, k, p[k - 1])
  BY <1>9
<1>11. 0 .. N \subseteq {k \in 0 .. N : p[k] \in Counts}
  <2> DEFINE S == {k \in 0 .. N : p[k] \in Counts}
  <2>1. 0 \in S
    BY <1>1, <1>10
  <2>2. ASSUME NEW k \in 1 .. N, k - 1 \in S PROVE k \in S
    BY <1>2, <1>10, <2>2
  <2> HIDE DEF S
  <2> QED
    BY <2>1, <2>2, Upwards DEF S
<1> QED
  BY <1>10, <1>11 DEF p
-----------------------------------------------------------------------------
(* Requests: how often a node was put into m *)

\* What the loads of k add: a load of k asks for every node it links to.
Request(g, r, k, before) ==
  [c \in CID |-> before[c] + (IF c \in g[k] THEN r[k] ELSE 0)]

Requests(g, r, h) ==
  h[0] = AtRoot /\ \A k \in 1 .. N : h[k] = Request(g, r, k, h[k - 1])

\* How often each node was asked for, at the start or by the loads r of the nodes
\* up to k.
RequestsThrough(g, r) == CHOOSE h \in [0 .. N -> Counts] : Requests(g, r, h)

LEMMA RequestsThroughDef ==
  ASSUME NEW g \in Graphs, NEW r \in Counts
  PROVE  /\ RequestsThrough(g, r) \in [0 .. N -> Counts]
         /\ Requests(g, r, RequestsThrough(g, r))
<1> DEFINE step == [k \in 1 .. N |-> [w \in Counts |-> Request(g, r, k, w)]]
<1>1. AtRoot \in Counts
  BY DEF AtRoot, Counts
<1>2. ASSUME NEW k \in 1 .. N, NEW w \in Counts PROVE Request(g, r, k, w) \in Counts
  BY NumberingAssumption DEF Request, Counts
<1>3. step \in [1 .. N -> [Counts -> Counts]]
  BY <1>2
<1>4. N \in Nat
  BY NumberingAssumption
<1>5. Recursion(N, Counts, AtRoot, step)
  <2> HIDE DEF step
  <2> QED
    BY <1>1, <1>3, <1>4, PrimitiveRecursion
<1>6. PICK h \in [0 .. N -> Counts] :
        h[0] = AtRoot /\ \A k \in 1 .. N : h[k] = step[k][h[k - 1]]
  BY <1>5 DEF Recursion
<1>7. ASSUME NEW k \in 1 .. N PROVE h[k] = Request(g, r, k, h[k - 1])
  <2>1. h[k - 1] \in Counts
    BY <1>4, <1>6
  <2>2. step[k][h[k - 1]] = Request(g, r, k, h[k - 1])
    BY <2>1
  <2> QED
    BY <1>6, <2>2
<1>8. \E x \in [0 .. N -> Counts] : Requests(g, r, x)
  BY <1>6, <1>7 DEF Requests
<1> QED
  BY <1>8, Zenon DEF RequestsThrough

\* The same in terms of the counts themselves.
LEMMA RequestsStep ==
  ASSUME NEW g \in Graphs, NEW r \in Counts, NEW c \in CID
  PROVE  /\ \A k \in 0 .. N : RequestsThrough(g, r)[k][c] \in Nat
         /\ RequestsThrough(g, r)[0][c] = IF c = Root THEN 1 ELSE 0
         /\ \A k \in 1 .. N :
              RequestsThrough(g, r)[k][c] =
                RequestsThrough(g, r)[k - 1][c] + (IF c \in g[k] THEN r[k] ELSE 0)
<1> DEFINE f == RequestsThrough(g, r)
<1>1. f \in [0 .. N -> Counts] /\ Requests(g, r, f)
  BY RequestsThroughDef
<1>2. N \in Nat
  BY NumberingAssumption
<1> HIDE DEF f
<1>3. \A k \in 0 .. N : f[k][c] \in Nat
  BY <1>1 DEF Counts
<1>4. f[0][c] = IF c = Root THEN 1 ELSE 0
  BY <1>1 DEF Requests, AtRoot
<1>5. ASSUME NEW k \in 1 .. N
      PROVE  f[k][c] = f[k - 1][c] + (IF c \in g[k] THEN r[k] ELSE 0)
  BY <1>1 DEF Requests, Request
<1> QED
  BY <1>3, <1>4, <1>5 DEF f

LEMMA PathsStep ==
  ASSUME NEW g \in Graphs, NEW c \in CID
  PROVE  /\ \A k \in 0 .. N : PathsThrough(g)[k][c] \in Nat
         /\ PathsThrough(g)[0][c] = IF c = Root THEN 1 ELSE 0
         /\ \A k \in 1 .. N :
              PathsThrough(g)[k][c] =
                PathsThrough(g)[k - 1][c]
                + (IF c \in g[k] THEN PathsThrough(g)[k - 1][k] ELSE 0)
<1> DEFINE f == PathsThrough(g)
<1>1. /\ f[0] = AtRoot
      /\ \A k \in 1 .. N : f[k] = Extend(g, k, f[k - 1])
      /\ \A k \in 0 .. N : f[k] \in Counts
  BY PathsThroughDef
<1> HIDE DEF f
<1>2. \A k \in 0 .. N : f[k][c] \in Nat
  BY <1>1 DEF Counts
<1>3. f[0][c] = IF c = Root THEN 1 ELSE 0
  BY <1>1 DEF AtRoot
<1>4. ASSUME NEW k \in 1 .. N
      PROVE  f[k][c] = f[k - 1][c] + (IF c \in g[k] THEN f[k - 1][k] ELSE 0)
  BY <1>1 DEF Extend
<1> QED
  BY <1>2, <1>3, <1>4 DEF f

\* One more load of d asks once more for what d links to.
LEMMA RequestsGrow ==
  ASSUME NEW g \in Graphs, NEW r \in Counts, NEW d \in CID, NEW c \in CID
  PROVE  RequestsThrough(g, [r EXCEPT ![d] = @ + 1])[N][c] =
           RequestsThrough(g, r)[N][c] + (IF c \in g[d] THEN 1 ELSE 0)
<1> DEFINE s == [r EXCEPT ![d] = @ + 1]
           old(k) == RequestsThrough(g, r)[k][c]
           new(k) == RequestsThrough(g, s)[k][c]
           S == {k \in 0 .. N : new(k) = old(k) + (IF d <= k /\ c \in g[d] THEN 1 ELSE 0)}
<1>1. s \in Counts /\ s[d] = r[d] + 1 /\ \A e \in CID \ {d} : s[e] = r[e]
  BY DEF Counts
<1>2. d \in 1 .. N /\ N \in Nat /\ CID = 1 .. N
  BY NumberingAssumption
<1>3. \A k \in CID : r[k] \in Nat
  BY DEF Counts
<1> HIDE DEF s
<1>4. /\ \A k \in 0 .. N : new(k) \in Nat
      /\ new(0) = IF c = Root THEN 1 ELSE 0
      /\ \A k \in 1 .. N : new(k) = new(k - 1) + (IF c \in g[k] THEN s[k] ELSE 0)
  BY <1>1, RequestsStep
<1>5. /\ \A k \in 0 .. N : old(k) \in Nat
      /\ old(0) = IF c = Root THEN 1 ELSE 0
      /\ \A k \in 1 .. N : old(k) = old(k - 1) + (IF c \in g[k] THEN r[k] ELSE 0)
  BY RequestsStep
<1> HIDE DEF old, new
<1>6. 0 \in S
  BY <1>2, <1>4, <1>5
<1>7. ASSUME NEW k \in 1 .. N, k - 1 \in S PROVE k \in S
  <2>1. new(k - 1) = old(k - 1) + (IF d <= k - 1 /\ c \in g[d] THEN 1 ELSE 0)
    BY <1>7
  <2>2. k - 1 \in 0 .. N /\ k \in CID /\ k \in 0 .. N
    BY <1>2
  <2>3. /\ new(k) = new(k - 1) + (IF c \in g[k] THEN s[k] ELSE 0)
        /\ old(k) = old(k - 1) + (IF c \in g[k] THEN r[k] ELSE 0)
    BY <1>4, <1>5
  <2>4. new(k - 1) \in Nat /\ old(k - 1) \in Nat /\ r[k] \in Nat
    BY <1>3, <1>4, <1>5, <2>2
  <2>5. CASE k = d
    <3>1. new(k - 1) = old(k - 1) /\ s[k] = r[k] + 1
      BY <1>1, <1>2, <2>1, <2>4, <2>5
    <3>2. new(k) = old(k) + (IF c \in g[k] THEN 1 ELSE 0)
      BY <2>3, <2>4, <3>1
    <3> QED
      BY <1>2, <2>2, <2>5, <3>2
  <2>6. CASE k # d
    <3>1. s[k] = r[k] /\ (d <= k - 1 <=> d <= k)
      BY <1>1, <1>2, <2>2, <2>6
    <3>2. new(k) = old(k) + (IF d <= k - 1 /\ c \in g[d] THEN 1 ELSE 0)
      BY <2>1, <2>3, <2>4, <3>1
    <3> QED
      BY <2>2, <3>1, <3>2
  <2> QED
    BY <2>5, <2>6
<1>8. N \in S
  <2> HIDE DEF S
  <2>1. 0 .. N \subseteq S
    BY <1>2, <1>6, <1>7, Upwards
  <2> QED
    BY <1>2, <2>1
<1> QED
  BY <1>2, <1>8 DEF old, new, s

\* c is asked for by nodes with smaller numbers only.
LEMMA RequestsComeBefore ==
  ASSUME NEW g \in Graphs, NEW r \in Counts, NEW c \in CID
  PROVE  RequestsThrough(g, r)[N][c] = RequestsThrough(g, r)[c - 1][c]
<1> DEFINE req(k) == RequestsThrough(g, r)[k][c]
           S == {k \in 0 .. N : c - 1 <= k => req(k) = req(c - 1)}
<1>1. c \in 1 .. N /\ N \in Nat /\ CID = 1 .. N
  BY NumberingAssumption
<1>2. /\ \A k \in 0 .. N : req(k) \in Nat
      /\ \A k \in 1 .. N : req(k) = req(k - 1) + (IF c \in g[k] THEN r[k] ELSE 0)
  BY RequestsStep
<1>3. \A k \in 1 .. N : c \in g[k] => k < c
  BY NumberingAssumption
<1> HIDE DEF req
<1>4. 0 \in S
  BY <1>1
<1>5. ASSUME NEW k \in 1 .. N, k - 1 \in S PROVE k \in S
  BY <1>1, <1>2, <1>3, <1>5
<1>6. N \in S
  <2> HIDE DEF S
  <2>1. 0 .. N \subseteq S
    BY <1>1, <1>4, <1>5, Upwards
  <2> QED
    BY <1>1, <2>1
<1> QED
  BY <1>1, <1>6 DEF req

\* If no node was loaded more often than it was asked for, none was asked for more
\* often than there are paths to it.
LEMMA RequestsWithinPaths ==
  ASSUME NEW g \in Graphs, NEW r \in Counts,
         \A c \in CID : r[c] <= RequestsThrough(g, r)[N][c]
  PROVE  \A c \in CID : RequestsThrough(g, r)[N][c] <= PathsThrough(g)[N][c]
<1> DEFINE req(k, c) == RequestsThrough(g, r)[k][c]
           paths(k, c) == PathsThrough(g)[k][c]
           S == {k \in 0 .. N : \A c \in CID : req(k, c) <= paths(k, c)}
<1>1. N \in Nat /\ CID = 1 .. N
  BY NumberingAssumption
<1>2. \A c \in CID :
        /\ \A k \in 0 .. N : req(k, c) \in Nat
        /\ req(0, c) = IF c = Root THEN 1 ELSE 0
        /\ \A k \in 1 .. N : req(k, c) = req(k - 1, c) + (IF c \in g[k] THEN r[k] ELSE 0)
  BY RequestsStep
<1>3. \A c \in CID :
        /\ \A k \in 0 .. N : paths(k, c) \in Nat
        /\ paths(0, c) = IF c = Root THEN 1 ELSE 0
        /\ \A k \in 1 .. N :
             paths(k, c) = paths(k - 1, c) + (IF c \in g[k] THEN paths(k - 1, k) ELSE 0)
  BY PathsStep
<1>4. \A c \in CID : r[c] \in Nat /\ r[c] <= req(c - 1, c)
  BY RequestsComeBefore DEF Counts
<1> HIDE DEF req, paths
<1>5. 0 \in S
  <2>1. 0 \in 0 .. N
    BY <1>1
  <2>2. \A c \in CID : req(0, c) \in Nat /\ req(0, c) = paths(0, c)
    BY <1>2, <1>3, <2>1
  <2> QED
    BY <2>1, <2>2
<1>6. ASSUME NEW k \in 1 .. N, k - 1 \in S PROVE k \in S
  <2>1. k - 1 \in 0 .. N /\ k \in CID
    BY <1>1
  <2>2. r[k] <= paths(k - 1, k)
    BY <1>2, <1>3, <1>4, <1>6, <2>1
  <2>3. ASSUME NEW c \in CID PROVE req(k, c) <= paths(k, c)
    <3>1. req(k - 1, c) <= paths(k - 1, c)
      BY <1>6
    <3> QED
      BY <1>2, <1>3, <1>4, <2>1, <2>2, <3>1
  <2> QED
    BY <1>1, <2>3
<1>7. N \in S
  <2> HIDE DEF S
  <2>1. 0 .. N \subseteq S
    BY <1>1, <1>5, <1>6, Upwards
  <2> QED
    BY <1>1, <2>1
<1> QED
  BY <1>7 DEF req, paths

\* A path leads to nodes of the graph under the root only.
LEMMA PathsReach ==
  ASSUME TypeOK, NEW c \in CID, PathsTo(c) > 0
  PROVE  c \in Reachable
<1> DEFINE paths(k, d) == PathsThrough(links)[k][d]
           S == {k \in 0 .. N : \A d \in CID : paths(k, d) > 0 => d \in Reachable}
<1>1. N \in Nat /\ CID = 1 .. N
  BY NumberingAssumption
<1>2. \A d \in CID :
        /\ \A k \in 0 .. N : paths(k, d) \in Nat
        /\ paths(0, d) = IF d = Root THEN 1 ELSE 0
        /\ \A k \in 1 .. N :
             paths(k, d) = paths(k - 1, d) + (IF d \in links[k] THEN paths(k - 1, k) ELSE 0)
  BY PathsStep DEF TypeOK
<1>3. paths(N, c) > 0
  BY DEF PathsTo
<1>4. Root \in Reachable /\ \A d \in Reachable : links[d] \subseteq Reachable
  BY ReachableIsClosed
<1> HIDE DEF paths
<1>5. 0 \in S
  <2>1. 0 \in 0 .. N
    BY <1>1
  <2>2. \A d \in CID : paths(0, d) > 0 => d = Root
    BY <1>2
  <2> QED
    BY <1>4, <2>1, <2>2
<1>6. ASSUME NEW k \in 1 .. N, k - 1 \in S PROVE k \in S
  <2>1. k - 1 \in 0 .. N /\ k \in CID
    BY <1>1
  <2> SUFFICES ASSUME NEW d \in CID, paths(k, d) > 0 PROVE d \in Reachable
    BY <1>1
  <2>2. CASE paths(k - 1, d) > 0
    BY <1>6, <2>2
  <2>3. CASE d \in links[k] /\ paths(k - 1, k) > 0
    BY <1>4, <1>6, <2>1, <2>3
  <2> QED
    BY <1>2, <2>1, <2>2, <2>3
<1>7. N \in S
  <2> HIDE DEF S
  <2>1. 0 .. N \subseteq S
    BY <1>1, <1>5, <1>6, Upwards
  <2> QED
    BY <1>1, <2>1
<1> QED
  BY <1>3, <1>7
-----------------------------------------------------------------------------
(* The walk *)

\* No node was loaded more often than it was asked for; and while the walk goes
\* on, one load less for what is still in m.
LoadsAsked ==
  \A c \in CID :
    RetBar[c] + (IF c \in m /\ result = "none" THEN 1 ELSE 0)
      <= RequestsThrough(links, RetBar)[N][c]

LEMMA RetBarCounts == WalkTypeOK => RetBar \in Counts
<1> SUFFICES ASSUME WalkTypeOK, NEW c \in CID PROVE RetBar[c] \in Nat
  BY DEF RetBar, Counts
<1>1. c = loading => ret[c] > 0
  BY NoCIDAssumption DEF WalkTypeOK
<1> QED
  BY <1>1 DEF RetBar, WalkTypeOK, TypeOK

LEMMA InitLoadsAsked == WalkInit => LoadsAsked
<1> SUFFICES ASSUME WalkInit, NEW c \in CID
             PROVE  RetBar[c] + (IF c \in m /\ result = "none" THEN 1 ELSE 0)
                      <= RequestsThrough(links, RetBar)[N][c]
  BY DEF LoadsAsked
<1>1. WalkTypeOK /\ links \in Graphs
  BY WalkInitTypeOK DEF WalkInit, Init
<1>2. RetBar \in Counts
  BY <1>1, RetBarCounts
<1>3. m = {Root} /\ RetBar[c] = 0
  BY NoCIDAssumption DEF WalkInit, Init, RetBar
<1> DEFINE req(k) == RequestsThrough(links, RetBar)[k][c]
           S == {k \in 0 .. N : req(0) <= req(k)}
<1>4. N \in Nat /\ CID = 1 .. N
  BY NumberingAssumption
<1>5. /\ \A k \in 0 .. N : req(k) \in Nat
      /\ req(0) = IF c = Root THEN 1 ELSE 0
      /\ \A k \in 1 .. N : req(k) = req(k - 1) + (IF c \in links[k] THEN RetBar[k] ELSE 0)
  BY <1>1, <1>2, RequestsStep
<1>6. \A k \in CID : RetBar[k] \in Nat
  BY <1>2 DEF Counts
<1> HIDE DEF req
<1>7. 0 \in S
  BY <1>4, <1>5
<1>8. ASSUME NEW k \in 1 .. N, k - 1 \in S PROVE k \in S
  <2>1. k - 1 \in 0 .. N /\ k \in 0 .. N /\ k \in CID /\ 0 \in 0 .. N
    BY <1>4
  <2>2. req(0) \in Nat /\ req(k - 1) \in Nat /\ req(k) \in Nat /\ RetBar[k] \in Nat
    BY <1>5, <1>6, <2>1
  <2>3. req(k - 1) <= req(k)
    BY <1>5, <2>2
  <2>4. req(0) <= req(k - 1)
    BY <1>8
  <2>5. req(0) <= req(k)
    BY <2>2, <2>3, <2>4
  <2> QED
    BY <2>1, <2>5
<1>9. N \in S
  <2> HIDE DEF S
  <2>1. 0 .. N \subseteq S
    BY <1>4, <1>7, <1>8, Upwards
  <2> QED
    BY <1>4, <2>1
<1> QED
  BY <1>3, <1>4, <1>5, <1>9 DEF req

\* A load adds to the node that was loaded, and to the requests for what it links
\* to.
LEMMA LoadCounts ==
  ASSUME WalkTypeOK, NEW d \in CID, Walk!Appended(d), links' = links
  PROVE  /\ \A c \in CID : RetBar[c] \in Nat
         /\ RetBar'[d] = RetBar[d] + 1
         /\ \A c \in CID \ {d} : RetBar'[c] = RetBar[c]
         /\ \A c \in CID : RequestsThrough(links, RetBar)[N][c] \in Nat
         /\ \A c \in CID :
              RequestsThrough(links', RetBar')[N][c] =
                RequestsThrough(links, RetBar)[N][c] + (IF c \in links[d] THEN 1 ELSE 0)
<1>1. RetBar \in Counts /\ links \in Graphs /\ N \in Nat
  BY RetBarCounts, NumberingAssumption DEF WalkTypeOK, TypeOK
<1>2. RetBar' = [RetBar EXCEPT ![d] = @ + 1]
  BY DEF Walk!Appended
<1>3. \A c \in CID : RequestsThrough(links, RetBar)[N][c] \in Nat
  BY <1>1, RequestsStep
<1>4. \A c \in CID :
        RequestsThrough(links', RetBar')[N][c] =
          RequestsThrough(links, RetBar)[N][c] + (IF c \in links[d] THEN 1 ELSE 0)
  <2> TAKE c \in CID
  <2>1. RequestsThrough(links, [RetBar EXCEPT ![d] = @ + 1])[N][c] =
          RequestsThrough(links, RetBar)[N][c] + (IF c \in links[d] THEN 1 ELSE 0)
    BY <1>1, RequestsGrow
  <2> QED
    BY <1>2, <2>1
<1>5. \A c \in CID : RetBar[c] \in Nat
  BY <1>1 DEF Counts
<1>6. RetBar'[d] = RetBar[d] + 1 /\ \A c \in CID \ {d} : RetBar'[c] = RetBar[c]
  BY <1>1, <1>2 DEF Counts
<1> QED
  BY <1>3, <1>4, <1>5, <1>6

LEMMA NextLoadsAsked == WalkTypeOK /\ LoadsAsked /\ [WalkNext]_walkVars => LoadsAsked'
<1> SUFFICES ASSUME WalkTypeOK, LoadsAsked, [WalkNext]_walkVars, NEW c \in CID
             PROVE  RetBar'[c] + (IF c \in m' /\ result' = "none" THEN 1 ELSE 0)
                      <= RequestsThrough(links', RetBar')[N][c]
  BY DEF LoadsAsked
<1>1. RetBar[c] + (IF c \in m /\ result = "none" THEN 1 ELSE 0)
        <= RequestsThrough(links, RetBar)[N][c]
  BY DEF LoadsAsked
<1>2. [Walk!Next]_(Walk!vars)
  BY WalkNextRefines
<1>3. ASSUME NEW d \in CID, Walk!Load(d) PROVE
        RetBar'[c] + (IF c \in m' /\ result' = "none" THEN 1 ELSE 0)
          <= RequestsThrough(links', RetBar')[N][c]
  <2>1. Walk!Appended(d) /\ links' = links
    BY <1>3 DEF Walk!Load
  <2>2. result = "none" /\ d \in m /\ m' = (m \ {d}) \cup links[d]
    BY <1>3 DEF Walk!Load
  <2>3. d \notin links[d]
    BY NumberingAssumption DEF WalkTypeOK, TypeOK
  <2>4. c \in m' => (c \in m /\ c # d) \/ c \in links[d]
    BY <2>2
  <2> QED
    BY <1>1, <2>1, <2>2, <2>3, <2>4, LoadCounts
<1>4. ASSUME NEW d \in CID, Walk!LoadFails(d) PROVE
        RetBar'[c] + (IF c \in m' /\ result' = "none" THEN 1 ELSE 0)
          <= RequestsThrough(links', RetBar')[N][c]
  <2>1. Walk!Appended(d) /\ links' = links
    BY <1>4 DEF Walk!LoadFails
  <2>2. result = "none" /\ d \in m /\ result' = "error"
    BY <1>4 DEF Walk!LoadFails
  <2> QED
    BY <1>1, <2>1, <2>2, LoadCounts
<1>5. CASE Walk!Return \/ UNCHANGED Walk!vars
  <2>1. UNCHANGED <<links, m, RetBar>> /\ result' \in {result, "ok"}
    BY <1>5 DEF Walk!Return, Walk!vars
  <2>2. RetBar \in Counts /\ links \in Graphs /\ N \in Nat
    BY RetBarCounts, NumberingAssumption DEF WalkTypeOK, TypeOK
  <2>3. RetBar[c] \in Nat
    BY <2>2 DEF Counts
  <2>4. RequestsThrough(links, RetBar)[N][c] \in Nat
    BY <2>2, RequestsStep
  <2> QED
    BY <1>1, <2>1, <2>3, <2>4
<1> QED
  BY <1>2, <1>3, <1>4, <1>5 DEF Walk!Next

\* A node is loaded at most once per path that leads to it, and at least once when
\* the walk succeeds: for every graph without cycles and every order of the map,
\* whenever the crawler stops.
THEOREM LoadsFollowPaths == WalkSpec => []LoadsWithinPaths
<1>1. WalkTypeOK /\ LoadsAsked /\ Complete => LoadsWithinPaths
  <2> SUFFICES ASSUME WalkTypeOK, LoadsAsked, Complete, NEW c \in CID
               PROVE  /\ ret[c] <= PathsTo(c)
                      /\ result = "ok" => (ret[c] = 0 <=> PathsTo(c) = 0)
    BY DEF LoadsWithinPaths
  <2>1. RetBar \in Counts /\ links \in Graphs /\ N \in Nat /\ TypeOK
    BY RetBarCounts, NumberingAssumption DEF WalkTypeOK, TypeOK
  <2>2. \A d \in CID : RetBar[d] \in Nat /\ RequestsThrough(links, RetBar)[N][d] \in Nat
    BY <2>1, RequestsStep DEF Counts
  <2>3. \A d \in CID : RetBar[d] <= RequestsThrough(links, RetBar)[N][d]
    <3> TAKE d \in CID
    <3>1. RetBar[d] + (IF d \in m /\ result = "none" THEN 1 ELSE 0)
            <= RequestsThrough(links, RetBar)[N][d]
      BY DEF LoadsAsked
    <3> QED
      BY <2>2, <3>1
  <2>4. RequestsThrough(links, RetBar)[N][c] <= PathsTo(c) /\ PathsTo(c) \in Nat
    BY <2>1, <2>3, RequestsWithinPaths, PathsStep DEF PathsTo
  <2>5. ret[c] <= RequestsThrough(links, RetBar)[N][c] /\ ret[c] \in Nat
    <3>1. CASE c = loading
      <4>1. c \in m /\ result = "none"
        BY <3>1, NoCIDAssumption DEF WalkTypeOK
      <4>2. RetBar[c] = ret[c] - 1 /\ ret[c] \in Nat
        BY <2>1, <3>1 DEF RetBar, TypeOK
      <4> QED
        BY <2>2, <4>1, <4>2 DEF LoadsAsked
    <3>2. CASE c # loading
      BY <2>1, <2>3, <3>2 DEF RetBar, TypeOK
    <3> QED
      BY <3>1, <3>2
  <2>6. ret[c] <= PathsTo(c)
    BY <2>2, <2>4, <2>5
  <2>7. result = "ok" /\ PathsTo(c) # 0 => ret[c] # 0
    BY <2>1, <2>4, <2>5, PathsReach DEF Complete, Returned
  <2> QED
    BY <2>4, <2>5, <2>6, <2>7
<1>2. WalkSpec => []LoadsAsked
  BY InitLoadsAsked, NextLoadsAsked, WalkTypeCorrect, PTL DEF WalkSpec
<1> QED
  BY <1>1, <1>2, WalkTypeCorrect, WalkIsComplete, PTL
=============================================================================
