----------------------------- MODULE Broadcast -----------------------------
(***************************************************************************)
(* What notifySubscribers and Subscribe promise together (crawler/         *)
(* crawler.go:233-258, 391-397): each object goes once to each of the      *)
(* members, who are the same from its first delivery to its last.  Nobody  *)
(* joins or leaves while an object is being sent, and who has left is not  *)
(* sent to and does not come back.                                         *)
(***************************************************************************)
CONSTANTS Client, Notifier

VARIABLES
  members,   \* the clients that are subscribed
  gone,      \* those who were
  active,    \* the notifiers that are sending an object
  served     \* served[n]: who received the last object of n

vars == <<members, gone, active, served>>

Init ==
  /\ members = {}
  /\ gone = {}
  /\ active = {}
  /\ served = [n \in Notifier |-> {}]

Join(c) ==
  /\ active = {}
  /\ c \notin members \cup gone
  /\ members' = members \cup {c}
  /\ UNCHANGED <<gone, active, served>>

Leave(c) ==
  /\ active = {}
  /\ c \in members
  /\ members' = members \ {c}
  /\ gone' = gone \cup {c}
  /\ UNCHANGED <<active, served>>

Start(n) ==
  /\ n \notin active
  /\ active' = active \cup {n}
  /\ served' = [served EXCEPT ![n] = {}]
  /\ UNCHANGED <<members, gone>>

Serve(n, c) ==
  /\ n \in active
  /\ c \in members \ served[n]
  /\ served' = [served EXCEPT ![n] = @ \cup {c}]
  /\ UNCHANGED <<members, gone, active>>

Finish(n) ==
  /\ n \in active
  /\ served[n] = members
  /\ active' = active \ {n}
  /\ UNCHANGED <<members, gone, served>>

Next ==
  \/ \E c \in Client : Join(c) \/ Leave(c)
  \/ \E n \in Notifier : Start(n) \/ Finish(n) \/ \E c \in Client : Serve(n, c)

Spec == Init /\ [][Next]_vars
=============================================================================
