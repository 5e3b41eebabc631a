------------------------------ MODULE PoolAlone ------------------------------
(***************************************************************************)
(* The pool under free callers: any exported method at any time, the way   *)
(* the package's tests use it.  This reaches the eviction path of Add,     *)
(* which the balancer never takes because it only adds keys it did not     *)
(* find in the pool.                                                       *)
(***************************************************************************)
EXTENDS Pool

CONSTANTS ConnInput,   \* bound: what UpdateConnState is called with
          HealthInput, \* bound: what UpdateHealth is called with
          MaxInFlight  \* bound on the RPCs in flight on one SubConn

ASSUME BoundsAssumption ==
  /\ ConnInput \subseteq ConnState
  /\ HealthInput \subseteq Health
  /\ MaxInFlight \in Nat

UpdateConnState(k, s) ==
  /\ sce' = WithConnState(sce, k, s)
  /\ UNCHANGED <<entries, subConn, drainer, cancelled>>

UpdateHealth(k, h) ==
  /\ sce' = WithHealth(sce, k, h)
  /\ UNCHANGED <<entries, subConn, drainer, cancelled>>

\* The balancer hands a fresh probe to an entry of the pool (HealthCancel is
\* an exported field).
SetHealthCancel(e, c) ==
  /\ InPool(e) /\ sce[e].healthCancel = NoChecker
  /\ c \notin cancelled /\ \A f \in Entry : sce[f].healthCancel # c
  /\ sce' = [sce EXCEPT ![e].healthCancel = c]
  /\ UNCHANGED <<entries, subConn, drainer, cancelled>>

\* A picker, possibly one built before e left the pool, counts an RPC in.
StartRpc(e) ==
  /\ subConn[e] # "unborn" /\ sce[e].inFlight < MaxInFlight
  /\ sce' = AddInFlight(sce, e, 1)
  /\ UNCHANGED <<entries, subConn, drainer, cancelled>>

FinishRpc(e) ==
  /\ sce[e].inFlight > 0
  /\ sce' = AddInFlight(sce, e, -1)
  /\ UNCHANGED <<entries, subConn, drainer, cancelled>>

PoolNext ==
  \/ \E k \in Key, e \in Entry : Add(k, e)
  \/ \E k \in Key : AddFails(k) \/ Remove(k)
  \/ \E k \in Key, s \in ConnInput : UpdateConnState(k, s)
  \/ \E k \in Key, h \in HealthInput : UpdateHealth(k, h)
  \/ \E e \in Entry, c \in Checker : SetHealthCancel(e, c)
  \/ \E e \in Entry : \/ StartRpc(e) \/ FinishRpc(e)
                      \/ DrainTick(e) \/ DrainDeadline(e) \/ DrainClose(e)

\* Timers fire and a running goroutine proceeds; nothing else is promised.
PoolFairness ==
  \A e \in Entry : WF_poolVars(DrainDeadline(e)) /\ WF_poolVars(DrainClose(e))

PoolSpec == PoolInit /\ [][PoolNext]_poolVars /\ PoolFairness
=============================================================================
