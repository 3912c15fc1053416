------------------------ MODULE Subscriptions_proofs ------------------------
(***************************************************************************)
(* NoSendOnClosed, and that an object reaches every subscription, for any  *)
(* number of clients and notifiers.                                        *)
(***************************************************************************)
EXTENDS Subscriptions, TLAPS

\* A notifier at work holds the read lock, and visits what was registered when
\* it took it.
Visiting ==
  \A n \in Notifier :
    /\ pc[n] \in {"range", "send"} <=> n \in readers
    /\ left[n] # {} => pc[n] \in {"range", "send"}
    /\ left[n] \subseteq subs
    /\ pc[n] = "send" => target[n] \in left[n]
    /\ pc[n] \in {"range", "send"} => got[n] = subs \ left[n]

\* A channel is closed together with its removal from the map, by a handler that
\* does nothing afterwards.
ClosedAreGone ==
  /\ subs \cap closed = {}
  /\ \A c \in closed : handler[c] = "gone"

\* A subscription is in the map from Subscribe to Close.
Registered ==
  \A c \in Client : c \in subs <=> handler[c] \in {"select", "send", "blocked", "close"}

IInv == TypeOK /\ Visiting /\ ClosedAreGone /\ Registered

LEMMA InitIInv == Init => IInv
BY NoClientAssumption DEF Init, IInv, TypeOK, Visiting, ClosedAreGone, Registered, HandlerStates

\* Who holds the write lock finds no notifier at work.
LEMMA WriterAlone ==
  ASSUME IInv, NEW c \in Client, Holds(c), NEW n \in Notifier
  PROVE  left[n] = {} /\ pc[n] \in {"idle", "rlock"}
BY DEF IInv, TypeOK, Visiting, Holds

LEMMA NextIInv == IInv /\ [Next]_vars => IInv'
<1> SUFFICES ASSUME IInv, [Next]_vars PROVE IInv'
  OBVIOUS
<1> USE NoClientAssumption DEF IInv, TypeOK, Visiting, ClosedAreGone, Registered, HandlerStates,
        Goto, server, loop
<1>1. ASSUME NEW c \in Client, Open(c) PROVE IInv'
  BY <1>1 DEF Open
<1>2. ASSUME NEW c \in Client, Disconnect(c) \/ Block(c) \/ Resume(c) PROVE IInv'
  BY <1>2 DEF Disconnect, Block, Resume
<1>3. ASSUME NEW c \in Client, HandlerStep(c) PROVE IInv'
  BY <1>3 DEF HandlerStep, Streamed, SendFails, Done
<1>4. ASSUME NEW c \in Client, Announce(c) PROVE IInv'
  BY <1>4 DEF Announce
<1>5. ASSUME NEW c \in Client, Register(c) PROVE IInv'
  <2>1. \A n \in Notifier : left[n] = {} /\ pc[n] \in {"idle", "rlock"}
    BY <1>5, WriterAlone DEF Register
  <2>2. TypeOK'
    BY <1>5 DEF Register
  <2>3. Visiting'
    BY <1>5, <2>1 DEF Register
  <2>4. ClosedAreGone' /\ Registered'
    BY <1>5 DEF Register
  <2> QED
    BY <2>2, <2>3, <2>4
<1>6. ASSUME NEW c \in Client, Close(c) PROVE IInv'
  <2>1. \A n \in Notifier : left[n] = {} /\ pc[n] \in {"idle", "rlock"}
    BY <1>6, WriterAlone DEF Close
  <2>2. TypeOK'
    BY <1>6 DEF Close
  <2>3. Visiting'
    BY <1>6, <2>1 DEF Close
  <2>4. ClosedAreGone' /\ Registered'
    BY <1>6 DEF Close
  <2> QED
    BY <2>2, <2>3, <2>4
<1>7. ASSUME NEW n \in Notifier, Notify(n) PROVE IInv'
  BY <1>7 DEF Notify
<1>8. ASSUME NEW n \in Notifier, RLock(n) PROVE IInv'
  BY <1>8 DEF RLock
<1>9. ASSUME NEW n \in Notifier, Pick(n) PROVE IInv'
  BY <1>9 DEF Pick
<1>10. ASSUME NEW n \in Notifier, Deliver(n) PROVE IInv'
  BY <1>10 DEF Deliver
<1>11. ASSUME NEW n \in Notifier, RUnlock(n) PROVE IInv'
  BY <1>11 DEF RUnlock
<1>12. CASE UNCHANGED vars
  BY <1>12 DEF vars
<1> QED
  BY <1>1, <1>2, <1>3, <1>4, <1>5, <1>6, <1>7, <1>8, <1>9, <1>10, <1>11, <1>12
  DEF Next, LockStep, NotifierStep

LEMMA Inductive == Spec => []IInv
BY InitIInv, NextIInv, PTL DEF Spec

\* Type correctness.
THEOREM TypeCorrect == Spec => []TypeOK
BY Inductive, PTL DEF IInv

\* However many handlers leave while objects are sent, no notifier ever sends
\* on a closed channel: the crawler cannot panic there.
THEOREM ChannelSafety == Spec => []NoSendOnClosed
<1>1. IInv => NoSendOnClosed
  BY DEF IInv, TypeOK, Visiting, ClosedAreGone, NoSendOnClosed
<1> QED
  BY <1>1, Inductive, PTL

\* A notifier that is done has served exactly the registered subscriptions.
THEOREM ServesAll == Spec => NotifyReachesAll
<1>1. IInv /\ [Next]_vars =>
        [\A n \in Notifier : pc[n] = "range" /\ pc'[n] = "idle" => got[n] = subs]_vars
  <2> SUFFICES ASSUME IInv, Next, NEW n \in Notifier, pc[n] = "range", pc'[n] = "idle"
               PROVE  got[n] = subs
    OBVIOUS
  <2>1. left[n] = {}
    BY DEF Next, Open, Disconnect, Block, Resume, HandlerStep, Streamed, SendFails, Done,
           LockStep, Announce,
           Register, Close, Notify, NotifierStep, RLock, Pick, Deliver, RUnlock, loop, server,
           IInv, TypeOK
  <2> QED
    BY <2>1 DEF IInv, Visiting
<1> QED
  BY <1>1, Inductive, PTL DEF Spec, NotifyReachesAll
-----------------------------------------------------------------------------
(* The refinement *)

LEMMA InitKeepsPromise == Init => Promise!Init
BY DEF Init, Promise!Init

LEMMA NextKeepsPromise == IInv /\ [Next]_vars => [Promise!Next]_(Promise!vars)
<1> SUFFICES ASSUME IInv, [Next]_vars PROVE [Promise!Next]_(Promise!vars)
  OBVIOUS
<1> USE DEF Promise!Next, Promise!vars
<1>1. ASSUME NEW c \in Client, Register(c) PROVE Promise!Join(c)
  <2>1. readers = {} /\ handler[c] = "subscribe"
    BY <1>1 DEF Register, Holds, Goto
  <2>2. c \notin subs \cup closed
    BY <2>1 DEF IInv, Registered, ClosedAreGone
  <2> QED
    BY <1>1, <2>1, <2>2 DEF Register, Promise!Join, loop
<1>2. ASSUME NEW c \in Client, Close(c) PROVE Promise!Leave(c)
  <2>1. readers = {} /\ handler[c] = "close"
    BY <1>2 DEF Close, Holds, Goto
  <2>2. c \in subs
    BY <2>1 DEF IInv, Registered
  <2> QED
    BY <1>2, <2>1, <2>2 DEF Close, Promise!Leave, loop
<1>3. ASSUME NEW n \in Notifier, RLock(n) PROVE Promise!Start(n)
  BY <1>3 DEF RLock, Promise!Start, IInv, Visiting, server
<1>4. ASSUME NEW n \in Notifier, Deliver(n) PROVE target[n] \in Client /\ Promise!Serve(n,
target[n])
  <2>1. pc[n] = "send" /\ target[n] \in left[n] /\ n \in readers
    BY <1>4 DEF Deliver, IInv, Visiting
  <2>2. target[n] \in subs \ got[n] /\ target[n] \in Client
    BY <2>1 DEF IInv, Visiting, TypeOK
  <2> QED
    BY <1>4, <2>1, <2>2 DEF Deliver, Promise!Serve
<1>5. ASSUME NEW n \in Notifier, RUnlock(n) PROVE Promise!Finish(n)
  BY <1>5 DEF RUnlock, Promise!Finish, IInv, Visiting, server
<1>6. ASSUME NEW c \in Client,
             \/ Open(c) \/ Disconnect(c) \/ Block(c) \/ Resume(c)
             \/ HandlerStep(c) \/ Announce(c)
      PROVE  UNCHANGED Promise!vars
  BY <1>6 DEF Open, Disconnect, Block, Resume, HandlerStep, Streamed, SendFails, Done, Announce,
       server, loop
<1>7. ASSUME NEW n \in Notifier, Notify(n) \/ Pick(n) PROVE UNCHANGED Promise!vars
  BY <1>7 DEF Notify, Pick, server
<1>8. CASE UNCHANGED vars
  BY <1>8 DEF vars
<1> QED
  BY <1>1, <1>2, <1>3, <1>4, <1>5, <1>6, <1>7, <1>8 DEF Next, LockStep, NotifierStep

\* The handlers and the notifiers keep the promise of Broadcast: every object has
\* one audience, and reaches each of it once.
THEOREM BroadcastKept == Spec => KeepsPromise
BY InitKeepsPromise, NextKeepsPromise, Inductive, PTL DEF Spec, KeepsPromise, Promise!Spec
=============================================================================
