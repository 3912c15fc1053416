----------------------------- MODULE PeerTable -----------------------------
(***************************************************************************)
(* What Database.View and Database.Update promise (repo/database.go:82-108 *)
(* and the comments there): the function passed runs as one step on the    *)
(* table as it is at that moment.  A call that returns no error has had    *)
(* its whole effect, one that returns an error has had all of it or none,  *)
(* and a crash undoes no call that returned.                               *)
(***************************************************************************)
EXTENDS PeerRows

VARIABLES
  table,    \* the Peer table
  call,     \* call[c]: the call client c is in
  reply     \* reply[c]: what its call returned

vars == <<table, call, reply>>

Init ==
  /\ table = [p \in Key |-> Blank]
  /\ call = [c \in Client |-> NoCall]
  /\ reply = [c \in Client |-> NoReply]

Request(c) ==
  /\ call[c] = NoCall
  /\ \E k \in Call : call' = [call EXCEPT ![c] = k]
  /\ UNCHANGED <<table, reply>>

Running(c) == call[c] # NoCall /\ reply[c] = NoReply

RowOf(c) == table[call[c].peer]

Succeed(c) ==
  /\ Running(c)
  /\ ~Refused(call[c], RowOf(c))
  /\ table' = Updated(table, call[c], RowOf(c))
  /\ reply' = [reply EXCEPT ![c] = [err |-> FALSE, banned |-> RowOf(c).banned]]
  /\ UNCHANGED call

Fail(c) ==
  /\ Running(c)
  /\ table' \in {table, Updated(table, call[c], RowOf(c))}
  /\ \E b \in {FALSE, RowOf(c).banned} :
       reply' = [reply EXCEPT ![c] = [err |-> TRUE, banned |-> b]]
  /\ UNCHANGED call

Return(c) ==
  /\ reply[c] # NoReply
  /\ call' = [call EXCEPT ![c] = NoCall]
  /\ reply' = [reply EXCEPT ![c] = NoReply]
  /\ UNCHANGED table

Crash ==
  /\ call' = [c \in Client |-> NoCall]
  /\ reply' = [c \in Client |-> NoReply]
  /\ UNCHANGED table

Next == (\E c \in Client : Request(c) \/ Succeed(c) \/ Fail(c) \/ Return(c)) \/ Crash

Spec == Init /\ [][Next]_vars
=============================================================================
