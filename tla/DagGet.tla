------------------------------- MODULE DagGet -------------------------------
(***************************************************************************)
(* fetchGraph with its calls of dagGet taken apart (crawler/worker.go:     *)
(* 366-423).  dagGet starts a helper goroutine that cancels the request    *)
(* when the crawler shuts down; a deferred function cancels the request    *)
(* and hands the helper an end signal over the unbuffered catDone.  cat    *)
(* (331-364) does the same around Unixfs().Get.                            *)
(*                                                                         *)
(* A walk of FetchGraph loads a node in one step.  Here a load is a        *)
(* sequence of steps, which may never come to its end.                     *)
(***************************************************************************)
EXTENDS FetchGraph

CONSTANT NoCID

ASSUME NoCIDAssumption == NoCID \notin CID

VARIABLES
  loading,    \* the CID dagGet was called with, NoCID outside dagGet
  at,         \* where dagGet is
  got,        \* whether it is going to return a node
  helper,     \* the helper goroutine
  shutdown    \* Stop has closed the channel c.shutdown

dagVars == <<loading, at, got, helper>>
walkVars == <<vars, dagVars, shutdown>>

WalkTypeOK ==
  /\ TypeOK
  /\ loading \in CID \cup {NoCID}
  /\ at \in {"loop", "api", "get", "deferred"}
  /\ got \in BOOLEAN
  /\ helper \in {"none", "select", "ended"}
  /\ shutdown \in BOOLEAN
  /\ loading = NoCID <=> at = "loop"
  /\ result # "none" => at = "loop"
  /\ at # "loop" => loading \in m /\ ret[loading] > 0

WalkInit ==
  /\ Init
  /\ loading = NoCID
  /\ at = "loop"
  /\ got = FALSE
  /\ helper = "none"
  /\ shutdown = FALSE

\* range yields c; it is appended to ret, and dagGet is called with it.
Call(c) ==
  /\ at = "loop"
  /\ result = "none"
  /\ c \in m
  /\ Appended(c)
  /\ loading' = c
  /\ at' = "api"
  /\ UNCHANGED <<links, m, result, got, helper, shutdown>>

\* NewCoreAPI, and the goroutine that is started after it.
NewAPI ==
  /\ at = "api"
  /\ at' = "get"
  /\ helper' = "select"
  /\ UNCHANGED <<vars, loading, got, shutdown>>

\* NewCoreAPI fails: dagGet returns before it starts the goroutine.
NewAPIFails ==
  /\ at = "api"
  /\ at' = "deferred"
  /\ got' = FALSE
  /\ UNCHANGED <<vars, loading, helper, shutdown>>

\* Dag().Get returns the node, or fails: it times out after 30 seconds, or the
\* helper cancels it before.
Get ==
  /\ at = "get"
  /\ got' \in BOOLEAN
  /\ at' = "deferred"
  /\ UNCHANGED <<vars, loading, helper, shutdown>>

\* The helper ends with the request as well.
HelperSeesTimeout ==
  /\ helper = "select"
  /\ shutdown \/ at = "deferred"
  /\ helper' = "ended"
  /\ UNCHANGED <<vars, loading, at, got, shutdown>>

\* The helper's other case: the channel shutdown is closed, and it cancels the
\* request.  When both cases are ready, select takes either.
HelperSeesShutdown ==
  /\ helper = "select"
  /\ shutdown
  /\ helper' = "ended"
  /\ UNCHANGED <<vars, loading, at, got, shutdown>>

\* dagGet returns to fetchGraph.
Leave ==
  /\ loading' = NoCID
  /\ at' = "loop"
  /\ got' = FALSE
  /\ helper' = "none"
  /\ UNCHANGED <<links, ret, shutdown>>

\* The deferred send on catDone needs the helper to receive: without it dagGet
\* stays in the deferred function for good.
HandShake == at = "deferred" /\ helper = "select"

ReturnNodeKeeping ==
  /\ HandShake
  /\ got
  /\ m' = m \cup links[loading]
  /\ Leave
  /\ UNCHANGED result

ReturnNode ==
  /\ HandShake
  /\ got
  /\ m' = (m \ {loading}) \cup links[loading]
  /\ Leave
  /\ UNCHANGED result

SkipUnloaded ==
  /\ HandShake
  /\ ~got
  /\ m' = m \ {loading}
  /\ Leave
  /\ UNCHANGED result

ReturnError ==
  /\ HandShake
  /\ ~got
  /\ result' = "error"
  /\ Leave
  /\ UNCHANGED m

EndAfterOnePass ==
  /\ at = "loop"
  /\ result = "none"
  /\ ret[Root] > 0
  /\ result' = "ok"
  /\ UNCHANGED <<links, m, ret, dagVars, shutdown>>

\* fetchGraph returns once m is empty.
End ==
  /\ at = "loop"
  /\ Return
  /\ UNCHANGED <<dagVars, shutdown>>

\* Stop.
CloseShutdown ==
  /\ ~shutdown
  /\ shutdown' = TRUE
  /\ UNCHANGED <<vars, dagVars>>

FetchStep ==
  \/ \E c \in CID : Call(c)
  \/ NewAPI \/ NewAPIFails \/ Get
  \/ ReturnNode \/ ReturnError \/ End

WalkNext == FetchStep \/ HelperSeesShutdown \/ CloseShutdown

WalkSpec == WalkInit /\ [][WalkNext]_walkVars

\* The worker keeps running, and Get has a timeout; nothing makes Stop happen.
WalkFairSpec == WalkSpec /\ WF_walkVars(FetchStep)

-----------------------------------------------------------------------------
(* A CID is appended before its node is loaded: the walk of FetchGraph has  *)
(* not returned it yet while dagGet is at work.                             *)

RetBar == [c \in CID |-> IF c = loading THEN ret[c] - 1 ELSE ret[c]]

Walk == INSTANCE FetchGraph WITH ret <- RetBar

\* With dagGet taken apart and a shutdown at any moment, fetchGraph still takes
\* the steps of FetchGraph and no other (worker.go:396-423).
WalksTheGraph == Walk!Spec

\* dagGet hangs in its deferred function.
Hangs == at = "deferred" /\ helper # "select"

\* In a graph without cycles every walk ends, or hangs in dagGet; and it hangs
\* only if NewCoreAPI failed, so that there is no helper, or the helper saw the
\* shutdown (worker.go:366-386, 402-405).
EndsOrHangs == <>(result # "none" \/ (Hangs /\ (helper = "none" \/ shutdown)))
=============================================================================
