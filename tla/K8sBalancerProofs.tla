-------------------------- MODULE K8sBalancerProofs --------------------------
(***************************************************************************)
(* The balancer, for any cap and any number of endpoints, SubConns, probes *)
(* and RPCs.                                                               *)
(*                                                                         *)
(* It keeps the pool's invariant, and its picker is the set of healthy     *)
(* entries whenever b.mu is free.  The pool stays within MaxSubconns from  *)
(* one update to the next.  A probe that has not been cancelled is held by *)
(* an entry of the pool, and the probe of an entry is cancelled when the   *)
(* entry leaves the pool and not before; with health checks on, nothing    *)
(* serves but what a probe has reported.  Every pick is matched by one     *)
(* Done on the entry that was picked, a drain waits for the RPCs that are  *)
(* counted, and an entry that is draining is picked only by RPCs whose     *)
(* picker is old.                                                          *)
(***************************************************************************)
EXTENDS K8sBalancer, PoolProofs, SequenceTheorems, FiniteSetTheorems

(***************************************************************************)
(* The inductive invariant adds to the properties what they rest on: a     *)
(* probe that was started has an entry with a key, an RPC that was given a *)
(* SubConn knows its entry, and nothing is left to do when mu is free.     *)
(***************************************************************************)
CheckerInv ==
  \A c \in Checker :
    /\ checker[c].state # "unused" => /\ checker[c].owner \in Entry
                                      /\ sce[checker[c].owner].key \in Key
    /\ checker[c].pending # "Unknown" => checker[c].state # "unused"

RpcInv ==
  \A r \in Rpc : rpc[r].state \in {"picked", "inflight"} => rpc[r].entry \in Entry

UpdateInv == ~mu => adds = {} /\ removes = {}

Inv == TypeOK /\ PoolInv /\ CheckerInv /\ RpcInv /\ UpdateInv /\ PickerIsHealthySet

CheckerType == [state : CheckerState, owner : Entry \cup {NoEntry},
                current : Health, pending : Health]
RpcType == [state : RpcState, held : SUBSET Entry, stale : BOOLEAN,
            entry : Entry \cup {NoEntry}]

\* A step that leaves the identities, the SubConns and the drains alone.
TableStep == SameShape(sce, sce') /\ UNCHANGED <<entries, subConn, drainer>>

LEMMA InitInv == Init => Inv
<1> SUFFICES ASSUME Init PROVE Inv
  OBVIOUS
<1>1. PoolInv
  BY InitPoolInv DEF Init
<1>2. TypeOK
  <2>1. <<>> \in Seq(ConnState) /\ "Idle" \in ConnState
    BY DEF ConnState
  <2>2. /\ ac \in [Entry -> ConnState]
        /\ events \in [Entry -> Seq(ConnState)]
    BY <2>1 DEF Init
  <2>3. rpc \in [Rpc -> RpcType] /\ checker \in [Checker -> CheckerType]
    BY DEF Init, RpcType, RpcState, CheckerType, CheckerState, Health
  <2> QED  BY <1>1, <2>2, <2>3 DEF Init, PoolInv, TypeOK, RpcType, CheckerType
<1> QED
  BY <1>1, <1>2 DEF Init, Inv, CheckerInv, RpcInv, UpdateInv, PickerIsHealthySet

(***************************************************************************)
(* Facts used by many steps.                                               *)
(***************************************************************************)
LEMMA SameHealthy ==
  ASSUME UNCHANGED entries,
         \A e \in Entry : /\ sce'[e].draining = sce[e].draining
                          /\ sce'[e].health = sce[e].health
  PROVE  HealthyEntries' = HealthyEntries
BY DEF HealthyEntries, Snapshot, InPool

LEMMA NotifiedType ==
  ASSUME NEW x \in RpcType
  PROVE  /\ Notified(x) \in RpcType
         /\ Notified(x).entry = x.entry
         /\ Notified(x).state \in {"picked", "inflight"} => Notified(x).state = x.state
BY DEF Notified, RpcType, RpcState

\* What rebuildPickerLocked establishes.
LEMMA RebuildPickerInv ==
  ASSUME TypeOK, RpcInv, RebuildPicker, UNCHANGED closed
  PROVE  /\ picker' \subseteq Entry /\ hasPicker' \in BOOLEAN
         /\ rpc' \in [Rpc -> RpcType] /\ RpcInv'
         /\ PickerIsHealthySet'
<1>1. rpc \in [Rpc -> RpcType]
  BY DEF TypeOK, RpcType
<1>2. HealthyEntries' \subseteq Entry
  BY DEF HealthyEntries, Snapshot
<1>3. CASE closed
  BY <1>1, <1>3 DEF RebuildPicker, pickerVars, TypeOK, RpcInv, PickerIsHealthySet
<1>4. CASE ~closed
  <2>1. \A r \in Rpc : rpc'[r] = Notified(rpc[r])
    BY <1>4 DEF RebuildPicker
  <2>2. rpc' \in [Rpc -> RpcType] /\ RpcInv'
    BY <1>1, <1>4, <2>1, NotifiedType DEF RebuildPicker, RpcInv
  <2> QED  BY <1>2, <1>4, <2>2 DEF RebuildPicker, PickerIsHealthySet
<1> QED  BY <1>3, <1>4

(***************************************************************************)
(* The three kinds of step.                                                *)
(***************************************************************************)
\* A handler or callback that holds b.mu for one step.
LEMMA HandlerInv ==
  ASSUME Inv, SameShape(sce, sce'), UNCHANGED <<entries, subConn, drainer>>,
         cancelled' \subseteq Checker, UNCHANGED <<updateVars, closed>>,
         checker' \in [Checker -> CheckerType], CheckerInv',
         ac' \in [Entry -> ConnState], events' \in [Entry -> Seq(ConnState)],
         RebuildPicker
  PROVE  Inv' /\ TableStep
<1>1. PoolInv'
  BY TablePoolInv DEF Inv, SameShape
<1>2. /\ picker' \subseteq Entry /\ hasPicker' \in BOOLEAN
      /\ rpc' \in [Rpc -> RpcType] /\ RpcInv' /\ PickerIsHealthySet'
  BY RebuildPickerInv DEF Inv
<1>3. TypeOK'
  BY <1>1, <1>2 DEF Inv, TypeOK, PoolInv, updateVars, CheckerType, RpcType
<1>4. UpdateInv'
  BY DEF Inv, UpdateInv, updateVars
<1> QED  BY <1>1, <1>2, <1>3, <1>4 DEF Inv, TableStep

\* An RPC's own step: it touches counters and itself.
LEMMA RpcStepInv ==
  ASSUME Inv, SameShape(sce, sce'), UNCHANGED <<entries, subConn, drainer, cancelled>>,
         \A e \in Entry : sce'[e].health = sce[e].health,
         UNCHANGED <<updateVars, pickerVars, checker, grpcVars>>,
         rpc' \in [Rpc -> RpcType], RpcInv'
  PROVE  Inv' /\ TableStep
<1>1. PoolInv'
  BY TablePoolInv DEF Inv, SameShape, TypeOK, PoolTypeOK
<1>2. PickerIsHealthySet'
  <2>1. HealthyEntries' = HealthyEntries
    BY SameHealthy DEF SameShape
  <2> QED  BY <2>1 DEF Inv, PickerIsHealthySet, updateVars, pickerVars, grpcVars
<1>3. TypeOK'
  BY <1>1 DEF Inv, TypeOK, PoolInv, updateVars, pickerVars, grpcVars, RpcType
<1>4. CheckerInv'
  BY DEF Inv, TypeOK, CheckerInv, SameShape
<1>5. UpdateInv'
  BY DEF Inv, UpdateInv, updateVars
<1> QED  BY <1>1, <1>2, <1>3, <1>4, <1>5 DEF Inv, TableStep

\* A step that leaves the pool, the handlers and the picker alone.
LEMMA OutsideInv ==
  ASSUME Inv, UNCHANGED <<poolVars, pickerVars, rpc>>, UNCHANGED <<updateVars, closed>>,
         checker' \in [Checker -> CheckerType], CheckerInv',
         ac' \in [Entry -> ConnState], events' \in [Entry -> Seq(ConnState)]
  PROVE  Inv' /\ TableStep
<1>1. PoolInv'
  BY TablePoolInv DEF Inv, poolVars, TypeOK, PoolTypeOK
<1>2. PickerIsHealthySet'
  <2>1. HealthyEntries' = HealthyEntries
    BY SameHealthy DEF poolVars
  <2> QED  BY <2>1 DEF Inv, PickerIsHealthySet, updateVars, pickerVars
<1>3. TypeOK'
  BY <1>1 DEF Inv, TypeOK, PoolInv, updateVars, pickerVars, CheckerType
<1>4. RpcInv' /\ UpdateInv'
  BY DEF Inv, RpcInv, UpdateInv, updateVars
<1>5. TableStep
  BY DEF TableStep, SameShape, poolVars, Inv, TypeOK, PoolTypeOK
<1> QED  BY <1>1, <1>2, <1>3, <1>4, <1>5 DEF Inv

(***************************************************************************)
(* UpdateClientConnState.                                                  *)
(***************************************************************************)
LEMMA BeginUpdateStep ==
  ASSUME Inv, NEW D \in SUBSET Key, BeginUpdate(D)
  PROVE  Inv' /\ TableStep
<1>1. CapEndpoints(D) \subseteq Key
  BY DEF CapEndpoints
<1>2. PoolInv' /\ CheckerInv' /\ RpcInv'
  BY TablePoolInv DEF Inv, BeginUpdate, poolVars, TypeOK, PoolTypeOK, CheckerInv, RpcInv
<1>3. TypeOK'
  BY <1>1, <1>2 DEF Inv, BeginUpdate, TypeOK, PoolInv, Current, pickerVars, grpcVars
<1>t. TableStep
  BY DEF TableStep, SameShape, poolVars, Inv, TypeOK, PoolTypeOK, BeginUpdate
<1> QED  BY <1>t, <1>2, <1>3 DEF Inv, BeginUpdate, UpdateInv, PickerIsHealthySet

LEMMA AddOneStep ==
  ASSUME Inv, NEW k \in Key, NEW e \in Entry, AddOne(k, e)
  PROVE  Inv'
<1>1. PoolInv'
  BY AddPoolInv DEF AddOne, Inv
<1>2. CheckerInv'
  <2>1. \A f \in Entry : sce'[f].key = IF f = e THEN k ELSE sce[f].key
    BY DEF AddOne, Add, Inv, TypeOK, PoolTypeOK, NewEntry
  <2> QED  BY <2>1 DEF Inv, CheckerInv, AddOne
<1>3. TypeOK'
  <2>1. <<"Connecting">> \in Seq(ConnState) /\ "Connecting" \in ConnState
        /\ "Shutdown" \in ConnState
    BY DEF ConnState
  <2>2. ac' \in [Entry -> ConnState] /\ events' \in [Entry -> Seq(ConnState)]
    BY <2>1 DEF AddOne, Inv, TypeOK
  <2> QED  BY <1>1, <2>2 DEF AddOne, Inv, TypeOK, PoolInv, pickerVars
<1>4. mu
  BY DEF AddOne, Inv, UpdateInv
<1> QED
  BY <1>1, <1>2, <1>3, <1>4
  DEF Inv, AddOne, RpcInv, UpdateInv, PickerIsHealthySet

LEMMA AddOneFailsStep ==
  ASSUME Inv, NEW k \in Key, AddOneFails(k)
  PROVE  Inv'
<1>1. PoolInv'
  BY AddFailsPoolInv DEF AddOneFails, Inv
<1>2. TypeOK'
  BY <1>1 DEF AddOneFails, Inv, TypeOK, PoolInv, pickerVars, grpcVars
<1>3. mu
  BY DEF AddOneFails, Inv, UpdateInv
<1> QED
  BY <1>1, <1>2, <1>3
  DEF Inv, AddOneFails, AddFails, CheckerInv, RpcInv, UpdateInv, PickerIsHealthySet

LEMMA RemoveOneStep ==
  ASSUME Inv, NEW k \in Key, RemoveOne(k)
  PROVE  Inv'
<1>1. PoolInv'
  BY RemovePoolInv DEF RemoveOne, Inv
<1>2. TypeOK'
  BY <1>1 DEF RemoveOne, Inv, TypeOK, PoolInv, pickerVars, grpcVars
<1>3. mu
  BY DEF RemoveOne, Inv, UpdateInv
<1>4. CheckerInv'
  <2>1. \A f \in Entry : sce'[f].key = sce[f].key
    BY DEF RemoveOne, Remove, Inv, TypeOK, PoolTypeOK, SubConnEntry
  <2> QED  BY <2>1 DEF Inv, CheckerInv, RemoveOne
<1> QED
  BY <1>1, <1>2, <1>3, <1>4 DEF Inv, RemoveOne, RpcInv, UpdateInv, PickerIsHealthySet

LEMMA FinishUpdateStep ==
  ASSUME Inv, FinishUpdate
  PROVE  Inv' /\ TableStep
<1>1. PoolInv' /\ CheckerInv' /\ UpdateInv'
  BY TablePoolInv
  DEF Inv, FinishUpdate, poolVars, TypeOK, PoolTypeOK, CheckerInv, UpdateInv
<1>2. /\ picker' \subseteq Entry /\ hasPicker' \in BOOLEAN
      /\ rpc' \in [Rpc -> RpcType] /\ RpcInv' /\ PickerIsHealthySet'
  BY RebuildPickerInv DEF Inv, FinishUpdate, grpcVars
<1>3. TypeOK'
  BY <1>1, <1>2 DEF Inv, FinishUpdate, TypeOK, PoolInv, grpcVars, RpcType
<1>t. TableStep
  BY DEF TableStep, SameShape, poolVars, Inv, TypeOK, PoolTypeOK, FinishUpdate
<1> QED  BY <1>t, <1>1, <1>2, <1>3 DEF Inv

(***************************************************************************)
(* UpdateSubConnState.                                                     *)
(***************************************************************************)
\* What the cases have in common.
LEMMA DeliveredFacts ==
  ASSUME Inv, NEW e \in Entry, NEW s \in ConnState, Delivered(e, s)
  PROVE  /\ InPool(e) /\ sce[e].key \in Key /\ ac[e] \in ConnState
         /\ Tail(events[e]) \in Seq(ConnState)
         /\ SameShape(sce, Seen(e, s))
<1>1. InPool(e) /\ sce[e].key \in Key
  BY EntryAtItsKey DEF Delivered, Snapshot, Inv
<1>2. events[e] \in Seq(ConnState) /\ events[e] # <<>>
  BY DEF Delivered, Inv, TypeOK
<1>3. Tail(events[e]) \in Seq(ConnState)
  BY <1>2
<1>4. SameShape(sce, Seen(e, s))
  BY <1>1, WithConnStateShape DEF Seen, Inv, TypeOK, PoolTypeOK
<1> QED  BY <1>1, <1>3, <1>4 DEF Inv, TypeOK

\* The probes keep their entries' keys when the shape of the entries stays.
LEMMA SameCheckerInv ==
  ASSUME CheckerInv, TypeOK, SameShape(sce, sce'), UNCHANGED checker
  PROVE  CheckerInv' /\ checker' \in [Checker -> CheckerType]
BY DEF CheckerInv, TypeOK, SameShape, CheckerType

LEMMA ShapeTransitive ==
  ASSUME NEW t, NEW u, NEW v, SameShape(t, u), SameShape(u, v)
  PROVE  SameShape(t, v)
BY DEF SameShape

LEMMA OnConnectingStep ==
  ASSUME Inv, NEW e \in Entry, OnConnecting(e)
  PROVE  Inv' /\ TableStep
<1>1. "Connecting" \in ConnState
  BY DEF ConnState
<1>2. SameShape(sce, sce') /\ events' \in [Entry -> Seq(ConnState)]
  BY <1>1, DeliveredFacts DEF OnConnecting, Inv, TypeOK
<1> QED
  BY <1>2, SameCheckerInv, HandlerInv DEF OnConnecting, Inv, TypeOK, PoolTypeOK

LEMMA OnIdleStep ==
  ASSUME Inv, NEW e \in Entry, OnIdle(e)
  PROVE  Inv' /\ TableStep
<1>1. "Idle" \in ConnState /\ "Connecting" \in ConnState
  BY DEF ConnState
<1>2. Tail(events[e]) \in Seq(ConnState) /\ SameShape(sce, sce')
  BY <1>1, DeliveredFacts DEF OnIdle
<1>3. Append(Tail(events[e]), "Connecting") \in Seq(ConnState)
  BY <1>1, <1>2
<1>4. events' \in [Entry -> Seq(ConnState)] /\ ac' \in [Entry -> ConnState]
  BY <1>1, <1>2, <1>3 DEF OnIdle, Inv, TypeOK
<1> QED
  BY <1>2, <1>4, SameCheckerInv, HandlerInv DEF OnIdle, Inv, TypeOK, PoolTypeOK

LEMMA OnReadyStep ==
  ASSUME Inv, NEW e \in Entry, OnReady(e) \/ OnReadyNoProbe(e)
  PROVE  Inv' /\ TableStep
<1>1. "Ready" \in ConnState /\ "Serving" \in Health
  BY DEF ConnState, Health
<1>2. /\ Tail(events[e]) \in Seq(ConnState) /\ SameShape(sce, Seen(e, "Ready"))
      /\ sce[e].key \in Key
  BY <1>1, DeliveredFacts DEF OnReady, OnReadyNoProbe
<1>3. SameShape(sce, WithHealth(Seen(e, "Ready"), sce[e].key, "Serving"))
  <2>1. Seen(e, "Ready") \in [Entry -> SubConnEntry] /\ PoolTypeOK
    BY <1>2 DEF SameShape, Inv, TypeOK
  <2>2. SameShape(Seen(e, "Ready"), WithHealth(Seen(e, "Ready"), sce[e].key, "Serving"))
    BY <1>1, <1>2, <2>1, WithHealthShape
  <2> QED  BY <1>2, <2>2, ShapeTransitive
<1>4. SameShape(sce, sce')
  BY <1>2, <1>3 DEF OnReady, OnReadyNoProbe
<1>5. events' \in [Entry -> Seq(ConnState)]
  BY <1>2 DEF OnReady, OnReadyNoProbe, Inv, TypeOK
<1> QED
  BY <1>4, <1>5, SameCheckerInv, HandlerInv
  DEF OnReady, OnReadyNoProbe, Inv, TypeOK, PoolTypeOK

LEMMA OnReadyStartProbeStep ==
  ASSUME Inv, NEW e \in Entry, NEW c \in Checker, OnReadyStartProbe(e, c)
  PROVE  Inv' /\ TableStep
<1>1. "Ready" \in ConnState /\ "running" \in CheckerState
  BY DEF ConnState, CheckerState
<1>2. /\ Tail(events[e]) \in Seq(ConnState) /\ SameShape(sce, Seen(e, "Ready"))
      /\ sce[e].key \in Key
  BY <1>1, DeliveredFacts DEF OnReadyStartProbe
<1>3. SameShape(sce, sce')
  <2>1. SameShape(Seen(e, "Ready"), sce')
    BY <1>2, HealthCancelShape DEF OnReadyStartProbe, SameShape
  <2> QED  BY <1>2, <2>1, ShapeTransitive
<1>4. events' \in [Entry -> Seq(ConnState)]
  BY <1>2 DEF OnReadyStartProbe, Inv, TypeOK
<1>5. checker \in [Checker -> CheckerType]
  BY DEF Inv, TypeOK, CheckerType
<1>6. /\ checker' \in [Checker -> CheckerType]
      /\ checker'[c].owner = e
      /\ \A d \in Checker : d # c => checker'[d] = checker[d]
      /\ checker'[c].state = "running"
  BY <1>1, <1>5 DEF OnReadyStartProbe, CheckerType
<1>7. CheckerInv'
  <2>1. \A f \in Entry : sce'[f].key = sce[f].key
    BY <1>3 DEF SameShape
  <2> QED  BY <1>2, <1>6, <2>1 DEF Inv, CheckerInv
<1> QED
  BY <1>3, <1>4, <1>6, <1>7, HandlerInv DEF OnReadyStartProbe, Inv, TypeOK, PoolTypeOK

LEMMA OnFailureStep ==
  ASSUME Inv, NEW e \in Entry, NEW s \in ConnState, OnFailure(e, s)
  PROVE  Inv' /\ TableStep
<1>1. "NotServing" \in Health
  BY DEF Health
<1>2. /\ Tail(events[e]) \in Seq(ConnState) /\ SameShape(sce, Seen(e, s))
      /\ sce[e].key \in Key
  BY DeliveredFacts DEF OnFailure
<1>3. SameShape(sce, StopHealthCheck(Seen(e, s), e))
  <2>1. Seen(e, s) \in [Entry -> SubConnEntry]
    BY <1>2 DEF SameShape
  <2>2. SameShape(Seen(e, s), StopHealthCheck(Seen(e, s), e))
    BY <2>1, HealthCancelShape DEF StopHealthCheck
  <2> QED  BY <1>2, <2>2, ShapeTransitive
<1>4. SameShape(sce, sce')
  <2> DEFINE stopped == StopHealthCheck(Seen(e, s), e)
  <2>1. stopped \in [Entry -> SubConnEntry] /\ PoolTypeOK
    BY <1>3 DEF SameShape, Inv, TypeOK
  <2>2. sce' = WithHealth(stopped, sce[e].key, "NotServing")
    BY DEF OnFailure
  <2> HIDE DEF stopped
  <2>3. SameShape(stopped, sce')
    BY <1>1, <1>2, <2>1, <2>2, WithHealthShape
  <2> QED  BY <1>3, <2>3, ShapeTransitive DEF stopped
<1>5. events' \in [Entry -> Seq(ConnState)]
  BY <1>2 DEF OnFailure, Inv, TypeOK
<1>6. cancelled' \subseteq Checker
  BY DEF OnFailure, Probes, Inv, TypeOK, PoolTypeOK, SubConnEntry
<1> QED
  BY <1>4, <1>5, <1>6, SameCheckerInv, HandlerInv DEF OnFailure, Inv, TypeOK

LEMMA OnUnknownStep ==
  ASSUME Inv, NEW e \in Entry, OnUnknown(e)
  PROVE  Inv' /\ TableStep
<1>1. events[e] \in Seq(ConnState) /\ events[e] # <<>>
  BY DEF OnUnknown, Inv, TypeOK
<1>2. Tail(events[e]) \in Seq(ConnState)
  BY <1>1
<1>3. events' \in [Entry -> Seq(ConnState)]
  BY <1>2 DEF OnUnknown, Inv, TypeOK
<1>4. CheckerInv' /\ checker' \in [Checker -> CheckerType]
  BY DEF OnUnknown, Inv, TypeOK, CheckerInv, CheckerType, poolVars
<1> QED
  BY <1>3, <1>4, OutsideInv DEF OnUnknown, Inv, TypeOK

LEMMA UpdateSubConnStateStep ==
  ASSUME Inv, NEW e \in Entry, UpdateSubConnState(e)
  PROVE  Inv' /\ TableStep
BY OnConnectingStep, OnIdleStep, OnReadyStep, OnReadyStartProbeStep, OnFailureStep,
   OnUnknownStep
DEF UpdateSubConnState

(***************************************************************************)
(* Health probes.                                                          *)
(***************************************************************************)
LEMMA ReceiveStep ==
  ASSUME Inv, NEW c \in Checker, NEW h \in Health, Receive(c, h)
  PROVE  Inv' /\ TableStep
<1>1. checker \in [Checker -> CheckerType]
  BY DEF Inv, TypeOK, CheckerType
<1>2. /\ checker' \in [Checker -> CheckerType]
      /\ \A d \in Checker : /\ checker'[d].state = checker[d].state
                            /\ checker'[d].owner = checker[d].owner
      /\ \A d \in Checker : d # c => checker'[d] = checker[d]
  BY <1>1 DEF Receive, CheckerType
<1>3. CheckerInv'
  BY <1>2 DEF Receive, Inv, CheckerInv, poolVars
<1> QED
  BY <1>2, <1>3, OutsideInv DEF Receive, Inv, TypeOK, grpcVars

LEMMA HealthCallbackStep ==
  ASSUME Inv, NEW c \in Checker, HealthCallback(c)
  PROVE  Inv' /\ TableStep
<1>1. checker \in [Checker -> CheckerType] /\ "Unknown" \in Health
  BY DEF Inv, TypeOK, CheckerType, Health
<1>2. sce[checker[c].owner].key \in Key /\ checker[c].pending \in Health
  BY <1>1 DEF HealthCallback, Inv, CheckerInv, CheckerType
<1>3. SameShape(sce, sce')
  BY <1>2, WithHealthShape DEF HealthCallback, Inv, TypeOK, PoolTypeOK
<1>4. /\ checker' \in [Checker -> CheckerType]
      /\ \A d \in Checker : /\ checker'[d].state = checker[d].state
                            /\ checker'[d].owner = checker[d].owner
                            /\ checker'[d].pending \in {checker[d].pending, "Unknown"}
  BY <1>1 DEF HealthCallback, CheckerType
<1>5. CheckerInv'
  BY <1>3, <1>4 DEF Inv, CheckerInv, SameShape
<1> QED
  BY <1>3, <1>4, <1>5, HandlerInv DEF HealthCallback, Inv, TypeOK, PoolTypeOK, grpcVars

LEMMA DrainExitStep ==
  ASSUME Inv, NEW c \in Checker, DrainExit(c)
  PROVE  Inv' /\ TableStep
<1>1. checker \in [Checker -> CheckerType] /\ "exited" \in CheckerState
  BY DEF Inv, TypeOK, CheckerType, CheckerState
<1>2. /\ checker' \in [Checker -> CheckerType]
      /\ \A d \in Checker : /\ checker'[d].owner = checker[d].owner
                            /\ checker'[d].pending = checker[d].pending
      /\ checker'[c].state = "exited" /\ checker[c].state = "running"
      /\ \A d \in Checker : d # c => checker'[d].state = checker[d].state
  BY <1>1 DEF DrainExit, CheckerType
<1>3. CheckerInv'
  BY <1>2 DEF DrainExit, Inv, CheckerInv, poolVars
<1> QED
  BY <1>2, <1>3, OutsideInv DEF DrainExit, Inv, TypeOK, grpcVars

(***************************************************************************)
(* Drain goroutines.                                                       *)
(***************************************************************************)
LEMMA DrainStep ==
  ASSUME Inv, NEW e \in Entry, DrainPoll(e) \/ DrainExpire(e) \/ DrainShutdown(e)
  PROVE  Inv'
<1>1. PoolInv'
  BY DrainPoolInv DEF Inv, DrainPoll, DrainExpire, DrainShutdown
<1>2. UNCHANGED <<entries, sce, updateVars, pickerVars, checker, closed, rpc>>
  BY DEF DrainPoll, DrainExpire, DrainShutdown, DrainTick, DrainDeadline, DrainClose,
         grpcVars
<1>3. PickerIsHealthySet'
  <2>1. HealthyEntries' = HealthyEntries
    BY <1>2, SameHealthy
  <2> QED  BY <1>2, <2>1 DEF Inv, PickerIsHealthySet, updateVars, pickerVars
<1>4. TypeOK'
  <2>1. ac' \in [Entry -> ConnState] /\ events' \in [Entry -> Seq(ConnState)]
    <3>1. CASE DrainPoll(e) \/ DrainExpire(e)
      BY <3>1 DEF DrainPoll, DrainExpire, grpcVars, Inv, TypeOK
    <3>2. CASE DrainShutdown(e)
      <4>1. "Shutdown" \in ConnState /\ events[e] \in Seq(ConnState)
        BY DEF ConnState, Inv, TypeOK
      <4>2. Append(events[e], "Shutdown") \in Seq(ConnState)
        BY <4>1
      <4> QED  BY <3>2, <4>1, <4>2 DEF DrainShutdown, Inv, TypeOK
    <3> QED  BY <3>1, <3>2
  <2> QED  BY <1>1, <1>2, <2>1 DEF Inv, TypeOK, PoolInv, updateVars, pickerVars
<1>5. CheckerInv' /\ RpcInv' /\ UpdateInv'
  BY <1>2 DEF Inv, CheckerInv, RpcInv, UpdateInv, updateVars
<1> QED  BY <1>1, <1>3, <1>4, <1>5 DEF Inv

(***************************************************************************)
(* RPCs.                                                                   *)
(***************************************************************************)
\* Counting changes InFlight only.
LEMMA CountShape ==
  ASSUME NEW t \in [Entry -> SubConnEntry], NEW e \in Entry
  PROVE  /\ SameShape(t, CountIn(t, e)) /\ SameShape(t, CountOut(t, e))
         /\ \A f \in Entry : /\ CountIn(t, e)[f].health = t[f].health
                             /\ CountOut(t, e)[f].health = t[f].health
<1>1. 1 \in Int /\ -1 \in Int
  OBVIOUS
<1>2. \A d \in Int : \A f \in Entry : AddInFlight(t, e, d)[f].health = t[f].health
  BY DEF AddInFlight, SubConnEntry
<1>3. SameShape(t, t)
  BY DEF SameShape
<1> QED  BY <1>1, <1>2, <1>3, AddInFlightShape DEF CountIn, CountOut

\* Steps of an RPC that do not count.
LEMMA QuietRpcStep ==
  ASSUME Inv, NEW r \in Rpc,
         LoadPicker(r) \/ PickFails(r) \/ Start(r) \/ FailClosing(r)
  PROVE  Inv' /\ TableStep
<1>1. rpc \in [Rpc -> RpcType] /\ picker \in SUBSET Entry
  BY DEF Inv, TypeOK, RpcType
<1>2. rpc' \in [Rpc -> RpcType]
  BY <1>1 DEF LoadPicker, PickFails, Start, FailClosing, RpcType, RpcState
<1>3. RpcInv'
  BY <1>1 DEF LoadPicker, PickFails, Start, FailClosing, RpcType, Inv, RpcInv
<1>4. SameShape(sce, sce') /\ UNCHANGED poolVars
  BY DEF LoadPicker, PickFails, Start, FailClosing, poolVars, SameShape, Inv, TypeOK,
         PoolTypeOK
<1> QED
  BY <1>2, <1>3, <1>4, RpcStepInv
  DEF LoadPicker, PickFails, Start, FailClosing, poolVars

LEMMA PickActionStep ==
  ASSUME Inv, NEW r \in Rpc, NEW e \in Entry, Pick(r, e)
  PROVE  Inv' /\ TableStep
<1>1. rpc \in [Rpc -> RpcType] /\ sce \in [Entry -> SubConnEntry]
  BY DEF Inv, TypeOK, PoolTypeOK, RpcType
<1>2. rpc' \in [Rpc -> RpcType] /\ RpcInv'
  BY <1>1 DEF Pick, RpcType, RpcState, Inv, RpcInv
<1>3. SameShape(sce, sce') /\ \A f \in Entry : sce'[f].health = sce[f].health
  BY <1>1, CountShape DEF Pick
<1> QED  BY <1>2, <1>3, RpcStepInv DEF Pick

LEMMA DoneStep ==
  ASSUME Inv, NEW r \in Rpc, Repick(r) \/ Finish(r)
  PROVE  Inv' /\ TableStep
<1>1. rpc \in [Rpc -> RpcType] /\ sce \in [Entry -> SubConnEntry]
  BY DEF Inv, TypeOK, PoolTypeOK, RpcType
<1>2. rpc[r].entry \in Entry
  BY DEF Repick, Finish, Inv, RpcInv
<1>3. rpc' \in [Rpc -> RpcType] /\ RpcInv'
  BY <1>1 DEF Repick, Finish, RpcType, RpcState, Inv, RpcInv
<1>4. SameShape(sce, sce') /\ \A f \in Entry : sce'[f].health = sce[f].health
  BY <1>1, <1>2, CountShape DEF Repick, Finish
<1> QED  BY <1>3, <1>4, RpcStepInv DEF Repick, Finish

(***************************************************************************)
(* gRPC.                                                                   *)
(***************************************************************************)
LEMMA MovesStep ==
  ASSUME Inv, NEW e \in Entry, Attempt(e) \/ Lose(e) \/ BackOff(e)
  PROVE  Inv' /\ TableStep
<1>1. PICK from \in ConnState, to \in ConnState : Moves(e, from, to)
  BY DEF Attempt, Lose, BackOff, ConnState
<1>2. Append(events[e], to) \in Seq(ConnState)
  BY DEF Inv, TypeOK
<1>3. ac' \in [Entry -> ConnState] /\ events' \in [Entry -> Seq(ConnState)]
  BY <1>1, <1>2 DEF Moves, Inv, TypeOK
<1>4. CheckerInv' /\ checker' \in [Checker -> CheckerType]
  BY <1>1 DEF Moves, Inv, TypeOK, CheckerInv, CheckerType, poolVars
<1> QED  BY <1>1, <1>3, <1>4, OutsideInv DEF Moves

LEMMA CloseStep ==
  ASSUME Inv, Close
  PROVE  Inv' /\ TableStep
<1>1. PoolInv'
  BY TablePoolInv DEF Close, Inv, poolVars, TypeOK, PoolTypeOK
<1>2. <<>> \in Seq(ConnState) /\ "Shutdown" \in ConnState
  BY DEF ConnState
<1>3. ac' \in [Entry -> ConnState] /\ events' \in [Entry -> Seq(ConnState)]
  BY <1>2 DEF Close, Inv, TypeOK
<1>4. TypeOK'
  BY <1>1, <1>3 DEF Close, Inv, TypeOK, PoolInv, updateVars, pickerVars
<1>5. CheckerInv' /\ RpcInv' /\ UpdateInv' /\ PickerIsHealthySet'
  BY DEF Close, Inv, CheckerInv, RpcInv, UpdateInv, PickerIsHealthySet, poolVars, updateVars
<1>t. TableStep
  BY DEF TableStep, SameShape, poolVars, Inv, TypeOK, PoolTypeOK, Close
<1> QED  BY <1>t, <1>1, <1>4, <1>5 DEF Inv

LEMMA StutterStep ==
  ASSUME Inv, UNCHANGED vars
  PROVE  Inv' /\ TableStep
<1>1. checker' \in [Checker -> CheckerType] /\ CheckerInv'
  BY DEF vars, Inv, TypeOK, CheckerType, CheckerInv, poolVars
<1> QED  BY <1>1, OutsideInv DEF vars, grpcVars, Inv, TypeOK

(***************************************************************************)
(* Together.                                                               *)
(***************************************************************************)
LEMMA NextInv == Inv /\ [Next]_vars => Inv'
<1> SUFFICES ASSUME Inv, [Next]_vars PROVE Inv'
  OBVIOUS
<1>1. CASE \E D \in SUBSET Key : BeginUpdate(D)
  BY <1>1, BeginUpdateStep
<1>2. CASE UpdateStep
  BY <1>2, AddOneStep, AddOneFailsStep, RemoveOneStep, FinishUpdateStep DEF UpdateStep
<1>3. CASE \E e \in Entry : UpdateSubConnState(e)
  BY <1>3, UpdateSubConnStateStep
<1>4. CASE \E e \in Entry : DrainPoll(e) \/ DrainExpire(e) \/ DrainShutdown(e)
  BY <1>4, DrainStep
<1>5. CASE \E e \in Entry : Attempt(e) \/ Lose(e) \/ BackOff(e)
  BY <1>5, MovesStep
<1>6. CASE \E c \in Checker : \/ \E h \in Health : Receive(c, h)
                              \/ HealthCallback(c) \/ DrainExit(c)
  BY <1>6, ReceiveStep, HealthCallbackStep, DrainExitStep
<1>7. CASE \E r \in Rpc : \/ LoadPicker(r) \/ PickStep(r)
                          \/ Start(r) \/ Repick(r) \/ Finish(r) \/ FailClosing(r)
  BY <1>7, QuietRpcStep, PickActionStep, DoneStep DEF PickStep
<1>8. CASE Close
  BY <1>8, CloseStep
<1>9. CASE UNCHANGED vars
  BY <1>9, StutterStep
<1> QED
  BY <1>1, <1>2, <1>3, <1>4, <1>5, <1>6, <1>7, <1>8, <1>9 DEF Next

\* What a step does to the lifecycle of the SubConns.
LEMMA NextLifecycle ==
  Inv /\ [Next]_vars => [Lifecycle!Next]_Lifecycle!vars
<1> SUFFICES ASSUME Inv, [Next]_vars
             PROVE  Lifecycle!Next \/ UNCHANGED Lifecycle!vars
  OBVIOUS
<1>0. ASSUME TableStep PROVE UNCHANGED Lifecycle!vars
  BY <1>0, TableLifecycle DEF TableStep, SameShape
<1>1. CASE \E D \in SUBSET Key : BeginUpdate(D)
  BY <1>0, <1>1, BeginUpdateStep
<1>2. CASE UpdateStep
  <2>1. CASE \E k \in Key, e \in Entry : AddOne(k, e)
    BY <2>1, AddLifecycle DEF AddOne, Inv, Lifecycle!Next
  <2>2. CASE \E k \in Key : AddOneFails(k)
    BY <2>2, AddFailsLifecycle DEF AddOneFails, Inv, Lifecycle!Next
  <2>3. CASE \E k \in Key : RemoveOne(k)
    BY <2>3, RemoveLifecycle DEF RemoveOne, Inv, Lifecycle!Next
  <2>4. CASE FinishUpdate
    BY <1>0, <2>4, FinishUpdateStep
  <2> QED  BY <1>2, <2>1, <2>2, <2>3, <2>4 DEF UpdateStep
<1>3. CASE \E e \in Entry : UpdateSubConnState(e)
  BY <1>0, <1>3, UpdateSubConnStateStep
<1>4. CASE \E e \in Entry : DrainPoll(e) \/ DrainExpire(e) \/ DrainShutdown(e)
  BY <1>4, DrainLifecycle
  DEF DrainPoll, DrainExpire, DrainShutdown, Inv, Lifecycle!Next
<1>5. CASE \E e \in Entry : Attempt(e) \/ Lose(e) \/ BackOff(e)
  BY <1>0, <1>5, MovesStep
<1>6. CASE \E c \in Checker : \/ \E h \in Health : Receive(c, h)
                              \/ HealthCallback(c) \/ DrainExit(c)
  BY <1>0, <1>6, ReceiveStep, HealthCallbackStep, DrainExitStep
<1>7. CASE \E r \in Rpc : \/ LoadPicker(r) \/ PickStep(r)
                          \/ Start(r) \/ Repick(r) \/ Finish(r) \/ FailClosing(r)
  BY <1>0, <1>7, QuietRpcStep, PickActionStep, DoneStep DEF PickStep
<1>8. CASE Close
  BY <1>0, <1>8, CloseStep
<1>9. CASE UNCHANGED vars
  BY <1>0, <1>9, StutterStep
<1> QED
  BY <1>1, <1>2, <1>3, <1>4, <1>5, <1>6, <1>7, <1>8, <1>9 DEF Next

LEMMA Invariant == Spec => []Inv
<1>1. Init => Inv
  BY InitInv
<1>2. Inv /\ [Next]_vars => Inv'
  BY NextInv
<1> QED  BY <1>1, <1>2, PTL DEF Spec

\* Every variable of the balancer has its type in every reachable state.
THEOREM TypeCorrect == Spec => []TypeOK
<1>1. Inv => TypeOK
  BY DEF Inv
<1> QED  BY <1>1, Invariant, PTL

\* No interleaving of resolver updates, SubConn states, probe reports, RPCs,
\* drains and Close leaves a SubConn open that nobody will close, or closes one
\* that is in the pool.
THEOREM BalancerNoOrphan == Spec => []NoOrphanSubConn
<1>1. Inv => NoOrphanSubConn
  BY DEF Inv, PoolInv
<1> QED  BY <1>1, Invariant, PTL

\* Nor does it leave an endpoint with two SubConns outside a drain (R4.5).
THEOREM BalancerOnePerKey == Spec => []OneSubConnPerKey
<1>1. Inv => OneSubConnPerKey
  BY PoolInvOnePerKey DEF Inv
<1> QED  BY <1>1, Invariant, PTL

\* Whenever b.mu is free, RPCs that load the picker see exactly the healthy
\* entries of the pool.
THEOREM PickerFresh == Spec => []PickerIsHealthySet
<1>1. Inv => PickerIsHealthySet
  BY DEF Inv
<1> QED  BY <1>1, Invariant, PTL

\* The balancer, with everything that runs beside it, implements the abstract
\* lifecycle of its SubConns (R4.1-R4.6).
THEOREM BalancerImplementsLifecycle == Spec => ImplementsLifecycle
<1>1. Init => Lifecycle!Init
  BY InitLifecycle DEF Init
<1>2. Inv /\ [Next]_vars => [Lifecycle!Next]_Lifecycle!vars
  BY NextLifecycle
<1> QED
  BY <1>1, <1>2, Invariant, PTL DEF Spec, ImplementsLifecycle, Lifecycle!Spec

\* The writers of one field of an entry leave its others alone.
LEMMA OtherFields ==
  ASSUME PoolTypeOK, NEW t \in [Entry -> SubConnEntry], NEW k \in Key, NEW f \in Entry
  PROVE  /\ \A s \in ConnState : /\ WithConnState(t, k, s)[f].healthCancel = t[f].healthCancel
                                /\ WithConnState(t, k, s)[f].inFlight = t[f].inFlight
         /\ \A h \in Health : /\ WithHealth(t, k, h)[f].healthCancel = t[f].healthCancel
                             /\ WithHealth(t, k, h)[f].inFlight = t[f].inFlight
<1>1. entries[k] = NoEntry \/ entries[k] \in Entry
  BY DEF PoolTypeOK
<1> QED  BY <1>1 DEF WithConnState, WithHealth, SubConnEntry

(***************************************************************************)
(* The cap.                                                                *)
(***************************************************************************)
LEMMA SmallerSubset ==
  ASSUME NEW S, IsFiniteSet(S), NEW T \in SUBSET S, NEW x \in S, x \notin T
  PROVE  Cardinality(T) < Cardinality(S)
<1>1. /\ IsFiniteSet(T) /\ Cardinality(T) <= Cardinality(S)
      /\ Cardinality(S) # Cardinality(T)
  BY FS_Subset
<1>2. Cardinality(S) \in Nat /\ Cardinality(T) \in Nat
  BY <1>1, FS_CardinalityType
<1> QED  BY <1>1, <1>2

\* CapEndpoints keeps at most MaxSubconns endpoints: numbering each of them by
\* the endpoints before it is an injection into 0..MaxSubconns-1.
LEMMA CapBound ==
  ASSUME NEW D \in SUBSET Key, MaxSubconns > 0
  PROVE  /\ IsFiniteSet(CapEndpoints(D))
         /\ Cardinality(CapEndpoints(D)) <= MaxSubconns
<1> DEFINE Before(k) == {j \in D : j < k}
           num(k) == Cardinality(Before(k))
           S == CapEndpoints(D)
           f == [k \in S |-> num(k)]
<1>1. IsFiniteSet(D) /\ D \subseteq Nat /\ MaxSubconns \in Nat
  BY BalancerAssumption, FS_Subset
<1>2. \A k \in D : IsFiniteSet(Before(k)) /\ num(k) \in Nat
  BY <1>1, FS_Subset, FS_CardinalityType
<1>3. \A j, k \in D : j < k => num(j) < num(k)
  <2> SUFFICES ASSUME NEW j \in D, NEW k \in D, j < k
               PROVE  num(j) < num(k)
    OBVIOUS
  <2> DEFINE T == Before(j)
             U == Before(k)
  <2>1. T \in SUBSET U /\ j \in U /\ j \notin T
    <3>1. j \in Nat /\ k \in Nat /\ \A i \in D : i \in Nat
      BY <1>1
    <3>2. \A i \in D : i < j => i < k
      BY <3>1
    <3>3. ~(j < j)
      BY <3>1
    <3> QED  BY <3>2, <3>3
  <2>2. IsFiniteSet(U)
    BY <1>2
  <2> HIDE DEF T, U
  <2>3. Cardinality(T) < Cardinality(U)
    BY <2>1, <2>2, SmallerSubset
  <2> QED  BY <2>3 DEF T, U
<1>4. S \subseteq D /\ \A k \in S : num(k) < MaxSubconns
  BY <1>1 DEF CapEndpoints
<1> HIDE DEF num, S
<1>5. f \in [S -> 0..(MaxSubconns - 1)]
  <2>1. ASSUME NEW k \in S PROVE num(k) \in 0..(MaxSubconns - 1)
    <3>1. num(k) \in Nat /\ num(k) < MaxSubconns
      BY <1>2, <1>4
    <3> QED  BY <1>1, <3>1
  <2> QED  BY <2>1
<1>6. \A j, k \in S : j # k => f[j] # f[k]
  <2> SUFFICES ASSUME NEW j \in S, NEW k \in S, j # k
               PROVE  num(j) # num(k)
    OBVIOUS
  <2>1. j \in D /\ k \in D /\ (j < k \/ k < j)
    BY <1>1, <1>4
  <2>2. /\ num(j) \in Nat /\ num(k) \in Nat
        /\ num(j) < num(k) \/ num(k) < num(j)
    BY <1>2, <1>3, <2>1
  <2> QED  BY <2>2
<1>7. f \in Injection(S, 0..(MaxSubconns - 1))
  BY <1>5, <1>6 DEF Injection, IsInjective
<1>8. /\ IsFiniteSet(0..(MaxSubconns - 1))
      /\ Cardinality(0..(MaxSubconns - 1)) = MaxSubconns
  BY <1>1, FS_Interval
<1> HIDE DEF f
<1>9. IsFiniteSet(S) /\ Cardinality(S) <= MaxSubconns
  BY <1>7, <1>8, FS_Injection
<1> QED  BY <1>9 DEF S

\* While an update runs, what the pool has or will get is wanted or about to
\* be removed, and what is wanted fits under the cap.
UpdateCapInv ==
  mu => /\ Current \ removes \subseteq desired
        /\ adds \subseteq desired
        /\ MaxSubconns > 0 => /\ IsFiniteSet(desired)
                              /\ Cardinality(desired) <= MaxSubconns

CapInv == UpdateCapInv /\ PoolWithinCap

LEMMA InitCapInv == Init => CapInv
<1> SUFFICES ASSUME Init PROVE CapInv
  OBVIOUS
<1>1. Current = {} /\ mu = FALSE
  BY DEF Init, PoolInit, Current
<1>2. MaxSubconns \in Nat /\ Cardinality({}) = 0
  BY BalancerAssumption, FS_EmptySet
<1> QED  BY <1>1, <1>2 DEF CapInv, UpdateCapInv, PoolWithinCap

\* Steps of a running update: the end of it follows from UpdateCapInv.
LEMMA RunningCapInv ==
  ASSUME mu', UpdateCapInv'
  PROVE  CapInv'
BY DEF CapInv, UpdateCapInv, PoolWithinCap

LEMMA BeginUpdateCap ==
  ASSUME Inv, NEW D \in SUBSET Key, BeginUpdate(D)
  PROVE  CapInv'
<1>1. mu' /\ Current' = Current
  BY DEF BeginUpdate, Current, poolVars
<1>2. MaxSubconns > 0 => /\ IsFiniteSet(CapEndpoints(D))
                         /\ Cardinality(CapEndpoints(D)) <= MaxSubconns
  BY CapBound
<1>3. UpdateCapInv'
  BY <1>1, <1>2 DEF BeginUpdate, UpdateCapInv
<1> QED  BY <1>1, <1>3, RunningCapInv

LEMMA UpdateStepCap ==
  ASSUME Inv, CapInv, NEW k \in Key,
         (\E e \in Entry : AddOne(k, e)) \/ AddOneFails(k) \/ RemoveOne(k)
  PROVE  CapInv'
<1>1. mu /\ mu'
  BY DEF Inv, UpdateInv, AddOne, AddOneFails, RemoveOne
<1>2. entries \in [Key -> Entry \cup {NoEntry}]
  BY DEF Inv, TypeOK, PoolTypeOK
<1>3. CASE \E e \in Entry : AddOne(k, e)
  <2>1. /\ Current' \subseteq Current \cup {k} /\ k \in adds
        /\ adds' = adds \ {k} /\ UNCHANGED <<desired, removes>>
    BY <1>2, <1>3 DEF AddOne, Add, Current
  <2> QED  BY <1>1, <2>1, RunningCapInv DEF CapInv, UpdateCapInv
<1>4. CASE AddOneFails(k)
  <2>1. /\ Current' \subseteq Current
        /\ adds' = adds \ {k} /\ UNCHANGED <<desired, removes>>
    BY <1>2, <1>4 DEF AddOneFails, AddFails, Current
  <2> QED  BY <1>1, <2>1, RunningCapInv DEF CapInv, UpdateCapInv
<1>5. CASE RemoveOne(k)
  <2>1. /\ Current' \subseteq Current \ {k}
        /\ removes' = removes \ {k} /\ UNCHANGED <<desired, adds>>
    BY <1>2, <1>5 DEF RemoveOne, Remove, Current
  <2> QED  BY <1>1, <2>1, RunningCapInv DEF CapInv, UpdateCapInv
<1> QED  BY <1>3, <1>4, <1>5

LEMMA FinishUpdateCap ==
  ASSUME CapInv, FinishUpdate
  PROVE  CapInv'
<1>1. mu /\ removes = {} /\ ~mu' /\ Current' = Current
  BY DEF FinishUpdate, Current, poolVars
<1>2. Current \subseteq desired
  BY <1>1 DEF CapInv, UpdateCapInv
<1>3. MaxSubconns > 0 => Cardinality(Current) <= MaxSubconns
  <2> SUFFICES ASSUME MaxSubconns > 0 PROVE Cardinality(Current) <= MaxSubconns
    OBVIOUS
  <2>1. IsFiniteSet(desired) /\ Cardinality(desired) <= MaxSubconns
    BY <1>1 DEF CapInv, UpdateCapInv
  <2>2. /\ Cardinality(Current) <= Cardinality(desired)
        /\ Cardinality(Current) \in Nat /\ Cardinality(desired) \in Nat
    BY <1>2, <2>1, FS_Subset, FS_CardinalityType
  <2> QED  BY <2>1, <2>2, BalancerAssumption
<1> QED  BY <1>1, <1>3 DEF CapInv, UpdateCapInv, PoolWithinCap

\* Nothing else changes the map or what an update has to do.
LEMMA ElsewhereCap ==
  ASSUME CapInv, UNCHANGED <<entries, updateVars>>
  PROVE  CapInv'
BY DEF CapInv, UpdateCapInv, PoolWithinCap, Current, updateVars

LEMMA NextCapInv == Inv /\ CapInv /\ [Next]_vars => CapInv'
<1> SUFFICES ASSUME Inv, CapInv, [Next]_vars PROVE CapInv'
  OBVIOUS
<1>1. CASE \E D \in SUBSET Key : BeginUpdate(D)
  BY <1>1, BeginUpdateCap
<1>2. CASE UpdateStep
  BY <1>2, UpdateStepCap, FinishUpdateCap DEF UpdateStep
<1>3. CASE \E e \in Entry : UpdateSubConnState(e)
  BY <1>3, ElsewhereCap
  DEF UpdateSubConnState, OnConnecting, OnIdle, OnReady, OnReadyNoProbe,
      OnReadyStartProbe, OnFailure, OnUnknown, poolVars
<1>4. CASE \E e \in Entry : \/ DrainPoll(e) \/ DrainExpire(e) \/ DrainShutdown(e)
                            \/ Attempt(e) \/ Lose(e) \/ BackOff(e)
  BY <1>4, ElsewhereCap
  DEF DrainPoll, DrainExpire, DrainShutdown, DrainTick, DrainDeadline, DrainClose,
      Attempt, Lose, BackOff, Moves, poolVars
<1>5. CASE \E c \in Checker : \/ \E h \in Health : Receive(c, h)
                              \/ HealthCallback(c) \/ DrainExit(c)
  BY <1>5, ElsewhereCap DEF Receive, HealthCallback, DrainExit, poolVars
<1>6. CASE \E r \in Rpc : \/ LoadPicker(r) \/ PickStep(r)
                          \/ Start(r) \/ Repick(r) \/ Finish(r) \/ FailClosing(r)
  BY <1>6, ElsewhereCap
  DEF LoadPicker, PickStep, Pick, PickFails, Start, Repick, Finish, FailClosing, poolVars
<1>7. CASE Close \/ UNCHANGED vars
  BY <1>7, ElsewhereCap DEF Close, vars, poolVars
<1> QED
  BY <1>1, <1>2, <1>3, <1>4, <1>5, <1>6, <1>7 DEF Next

\* When an update ends the pool has only what the resolver named, and between
\* updates never more than MaxSubconns endpoints (R12.1, R12.2).
THEOREM CapHolds == Spec => []PoolWithinCap
<1>1. Init => Inv /\ CapInv
  BY InitInv, InitCapInv
<1>2. Inv /\ CapInv /\ [Next]_vars => (Inv /\ CapInv)'
  BY NextInv, NextCapInv
<1>3. CapInv => PoolWithinCap
  BY DEF CapInv
<1> QED  BY <1>1, <1>2, <1>3, PTL DEF Spec

(***************************************************************************)
(* The probes.  Neither ProbeFollowsEntry nor NoStrayProbe is inductive.   *)
(* What is missing is that a probe was started for the entry that holds    *)
(* it: then no two entries hold the same probe, cancelling the one of an   *)
(* entry cancels no other, and a probe that starts has not been cancelled  *)
(* before.                                                                 *)
(***************************************************************************)
HeldByOwner ==
  \A e \in Entry, c \in Checker :
    sce[e].healthCancel = c => checker[c].state # "unused" /\ checker[c].owner = e

CancelledWasStarted == \A c \in cancelled : checker[c].state # "unused"

ProbeInv == HeldByOwner /\ CancelledWasStarted /\ ProbeFollowsEntry /\ NoStrayProbe

LEMMA InitProbeInv == Init => ProbeInv
BY PoolAssumption
DEF Init, PoolInit, NewEntry, ProbeInv, HeldByOwner, CancelledWasStarted,
    ProbeFollowsEntry, NoStrayProbe

(***************************************************************************)
(* The map changes at one key.                                             *)
(***************************************************************************)
\* Add, with or without a new SubConn n, and Remove: the probe of the entry
\* that leaves the map is cancelled, and the new entry has none.
LEMMA ReplaceProbes ==
  ASSUME Inv, ProbeInv, NEW k \in Key, NEW n \in Entry \cup {NoEntry},
         n \in Entry => ~InPool(n) /\ sce'[n].healthCancel = NoChecker,
         entries' = [entries EXCEPT ![k] = n],
         cancelled' = cancelled \cup Probes(Existing(k)),
         \A f \in Entry : f # n => sce'[f].healthCancel = sce[f].healthCancel,
         UNCHANGED checker
  PROVE  ProbeInv'
<1>1. \A f \in Entry : InPool(f)' <=> f = n \/ (InPool(f) /\ f \notin Existing(k))
  BY OneKeyChanges DEF Inv
<1>2. Existing(k) \subseteq Entry
  BY DEF Existing, Inv, PoolInv, PoolTypeOK
<1>3. HeldByOwner'
  BY PoolAssumption DEF ProbeInv, HeldByOwner
<1>4. \A f \in Entry, c \in Checker :
        sce[f].healthCancel = c => (c \in Probes(Existing(k)) <=> f \in Existing(k))
  BY <1>2, PoolAssumption DEF Probes, ProbeInv, HeldByOwner
<1>5. CancelledWasStarted'
  <2>1. \A c \in Probes(Existing(k)) : checker[c].state # "unused"
    BY <1>2 DEF Probes, ProbeInv, HeldByOwner, Inv, PoolInv, PoolTypeOK, SubConnEntry
  <2> QED  BY <2>1 DEF ProbeInv, CancelledWasStarted
<1>6. ProbeFollowsEntry'
  <2> SUFFICES ASSUME NEW e \in Entry, sce'[e].healthCancel # NoChecker
               PROVE  sce'[e].healthCancel \in cancelled' <=> ~InPool(e)'
    BY DEF ProbeFollowsEntry
  <2>1. e # n /\ sce'[e].healthCancel = sce[e].healthCancel
    OBVIOUS
  <2>2. sce[e].healthCancel \in Checker
    BY <2>1 DEF Inv, PoolInv, PoolTypeOK, SubConnEntry
  <2>3. sce[e].healthCancel \in cancelled <=> ~InPool(e)
    BY <2>1 DEF ProbeInv, ProbeFollowsEntry
  <2> QED  BY <1>1, <1>4, <2>1, <2>2, <2>3
<1>7. NoStrayProbe'
  <2> SUFFICES ASSUME NEW c \in Checker, checker[c].state = "running", c \notin cancelled'
               PROVE  /\ InPool(checker[c].owner)'
                      /\ sce'[checker[c].owner].healthCancel = c
    BY DEF NoStrayProbe
  <2>1. checker[c].owner \in Entry
    BY DEF Inv, CheckerInv
  <2>2. InPool(checker[c].owner) /\ sce[checker[c].owner].healthCancel = c
    BY DEF ProbeInv, NoStrayProbe
  <2>3. checker[c].owner \notin Existing(k)
    BY <1>4, <2>1, <2>2
  <2>4. checker[c].owner # n
    BY <2>1, <2>2
  <2> QED  BY <1>1, <2>1, <2>2, <2>3, <2>4
<1> QED  BY <1>3, <1>5, <1>6, <1>7 DEF ProbeInv

LEMMA UpdateStepProbes ==
  ASSUME Inv, ProbeInv, UpdateStep
  PROVE  ProbeInv'
<1>0. NoEntry \notin Entry /\ sce \in [Entry -> SubConnEntry]
  BY PoolAssumption DEF Inv, TypeOK, PoolTypeOK
<1>1. ASSUME NEW k \in Key, NEW e \in Entry, AddOne(k, e)
      PROVE  ProbeInv'
  <2>1. ~InPool(e)
    BY <1>1 DEF AddOne, Add, Inv, PoolInv, NoOrphanSubConn
  <2>2. sce' = [sce EXCEPT ![e] = NewEntry(k)]
    BY <1>1 DEF AddOne, Add
  <2>3. /\ sce'[e].healthCancel = NoChecker
        /\ \A f \in Entry : f # e => sce'[f].healthCancel = sce[f].healthCancel
    BY <1>0, <2>2 DEF NewEntry
  <2> QED  BY <1>1, <2>1, <2>3, ReplaceProbes DEF AddOne, Add
<1>2. ASSUME NEW k \in Key, AddOneFails(k)
      PROVE  ProbeInv'
  BY <1>0, <1>2, ReplaceProbes DEF AddOneFails, AddFails
<1>3. ASSUME NEW k \in Key, RemoveOne(k)
      PROVE  ProbeInv'
  <2>1. entries[k] \in Entry
    BY <1>3 DEF RemoveOne, Remove, Inv, TypeOK, PoolTypeOK
  <2>2. sce' = [sce EXCEPT ![entries[k]].draining = TRUE]
    BY <1>3 DEF RemoveOne, Remove
  <2>3. \A f \in Entry : sce'[f].healthCancel = sce[f].healthCancel
    BY <1>0, <2>1, <2>2 DEF SubConnEntry
  <2> QED  BY <1>0, <1>3, <2>3, ReplaceProbes DEF RemoveOne, Remove
<1>4. ASSUME FinishUpdate
      PROVE  ProbeInv'
  BY <1>4 DEF FinishUpdate, poolVars, ProbeInv, HeldByOwner, CancelledWasStarted,
              ProbeFollowsEntry, NoStrayProbe, InPool
<1> QED  BY <1>1, <1>2, <1>3, <1>4 DEF UpdateStep

(***************************************************************************)
(* The map stays, and so do the probes.                                    *)
(***************************************************************************)
LEMMA SameProbes ==
  ASSUME Inv, ProbeInv, UNCHANGED <<entries, cancelled>>,
         \A e \in Entry : sce'[e].healthCancel = sce[e].healthCancel,
         \A c \in Checker : /\ checker'[c].owner = checker[c].owner
                            /\ checker'[c].state \in {checker[c].state, "exited"}
  PROVE  ProbeInv'
<1>1. \A e \in Entry : InPool(e)' <=> InPool(e)
  BY DEF InPool
<1>2. HeldByOwner'
  BY DEF ProbeInv, HeldByOwner
<1>3. CancelledWasStarted'
  BY DEF ProbeInv, CancelledWasStarted, Inv, PoolInv, PoolTypeOK
<1>4. ProbeFollowsEntry'
  BY <1>1 DEF ProbeInv, ProbeFollowsEntry
<1>5. NoStrayProbe'
  <2> SUFFICES ASSUME NEW c \in Checker, checker'[c].state = "running", c \notin cancelled
               PROVE  InPool(checker[c].owner) /\ sce'[checker[c].owner].healthCancel = c
    BY DEF NoStrayProbe, InPool
  <2>1. checker[c].state = "running"
    OBVIOUS
  <2>2. checker[c].owner \in Entry
    BY <2>1 DEF Inv, CheckerInv
  <2> QED  BY <2>1, <2>2 DEF ProbeInv, NoStrayProbe
<1> QED  BY <1>2, <1>3, <1>4, <1>5 DEF ProbeInv

LEMMA CountKeepsProbes ==
  ASSUME NEW t \in [Entry -> SubConnEntry], NEW e \in Entry, NEW f \in Entry
  PROVE  /\ CountIn(t, e)[f].healthCancel = t[f].healthCancel
         /\ CountOut(t, e)[f].healthCancel = t[f].healthCancel
BY DEF CountIn, CountOut, AddInFlight, SubConnEntry

\* What UpdateSubConnState has done to the entries before it looks at the state.
LEMMA SeenKeepsProbes ==
  ASSUME Inv, NEW e \in Entry, NEW s \in ConnState, Delivered(e, s)
  PROVE  /\ Seen(e, s) \in [Entry -> SubConnEntry] /\ sce[e].key \in Key /\ InPool(e)
         /\ \A f \in Entry : Seen(e, s)[f].healthCancel = sce[f].healthCancel
<1>1. /\ InPool(e) /\ sce[e].key \in Key
      /\ Seen(e, s) \in [Entry -> SubConnEntry]
  BY DeliveredFacts DEF SameShape
<1>2. PoolTypeOK /\ sce \in [Entry -> SubConnEntry]
  BY DEF Inv, TypeOK, PoolTypeOK
<1> QED  BY <1>1, <1>2, OtherFields DEF Seen

(***************************************************************************)
(* UpdateSubConnState.                                                     *)
(***************************************************************************)
LEMMA OnReadyStartProbeProbes ==
  ASSUME Inv, ProbeInv, NEW e \in Entry, NEW c \in Checker, OnReadyStartProbe(e, c)
  PROVE  ProbeInv'
<1>1. /\ Seen(e, "Ready") \in [Entry -> SubConnEntry] /\ InPool(e)
      /\ \A f \in Entry : Seen(e, "Ready")[f].healthCancel = sce[f].healthCancel
  BY SeenKeepsProbes DEF OnReadyStartProbe, ConnState
<1>2. sce' = [Seen(e, "Ready") EXCEPT ![e].healthCancel = c]
  BY DEF OnReadyStartProbe
<1>3. /\ sce'[e].healthCancel = c
      /\ \A f \in Entry : f # e => sce'[f].healthCancel = sce[f].healthCancel
  BY <1>1, <1>2 DEF SubConnEntry
<1>4. checker \in [Checker -> CheckerType]
  BY DEF Inv, TypeOK, CheckerType
<1>5. /\ checker'[c].state = "running" /\ checker'[c].owner = e
      /\ \A d \in Checker : d # c => checker'[d] = checker[d]
  BY <1>4 DEF OnReadyStartProbe, CheckerType
<1>6. /\ UNCHANGED <<entries, cancelled>> /\ checker[c].state = "unused"
      /\ sce[e].healthCancel = NoChecker /\ NoChecker \notin Checker
  BY PoolAssumption DEF OnReadyStartProbe
<1>7. c \notin cancelled /\ \A f \in Entry : sce[f].healthCancel # c
  BY <1>6 DEF ProbeInv, CancelledWasStarted, HeldByOwner
<1>8. HeldByOwner'
  BY <1>3, <1>5, <1>7 DEF ProbeInv, HeldByOwner
<1>9. CancelledWasStarted'
  BY <1>5, <1>6 DEF ProbeInv, CancelledWasStarted, Inv, PoolInv, PoolTypeOK
<1>10. ProbeFollowsEntry'
  <2>1. \A f \in Entry : InPool(f)' <=> InPool(f)
    BY <1>6 DEF InPool
  <2> QED  BY <1>1, <1>3, <1>6, <1>7, <2>1 DEF ProbeInv, ProbeFollowsEntry
<1>11. NoStrayProbe'
  <2> SUFFICES ASSUME NEW d \in Checker, checker'[d].state = "running", d \notin cancelled
               PROVE  InPool(checker'[d].owner) /\ sce'[checker'[d].owner].healthCancel = d
    BY <1>6 DEF NoStrayProbe, InPool
  <2>1. CASE d = c
    BY <1>1, <1>3, <1>5, <2>1
  <2>2. CASE d # c
    <3>1. checker'[d] = checker[d] /\ checker[d].owner \in Entry
      BY <1>5, <2>2 DEF Inv, CheckerInv
    <3>2. InPool(checker[d].owner) /\ sce[checker[d].owner].healthCancel = d
      BY <3>1 DEF ProbeInv, NoStrayProbe
    <3> QED  BY <1>3, <1>6, <3>1, <3>2
  <2> QED  BY <2>1, <2>2
<1> QED  BY <1>8, <1>9, <1>10, <1>11 DEF ProbeInv

LEMMA OnFailureProbes ==
  ASSUME Inv, ProbeInv, NEW e \in Entry, NEW s \in ConnState, OnFailure(e, s)
  PROVE  ProbeInv'
<1>1. /\ Seen(e, s) \in [Entry -> SubConnEntry] /\ sce[e].key \in Key
      /\ \A f \in Entry : Seen(e, s)[f].healthCancel = sce[f].healthCancel
  BY SeenKeepsProbes DEF OnFailure
<1>2. /\ sce'[e].healthCancel = NoChecker
      /\ \A f \in Entry : f # e => sce'[f].healthCancel = sce[f].healthCancel
  <2> DEFINE stopped == StopHealthCheck(Seen(e, s), e)
  <2>1. /\ stopped \in [Entry -> SubConnEntry] /\ stopped[e].healthCancel = NoChecker
        /\ \A f \in Entry : f # e => stopped[f].healthCancel = sce[f].healthCancel
    BY <1>1 DEF StopHealthCheck, SubConnEntry
  <2>2. sce' = WithHealth(stopped, sce[e].key, "NotServing") /\ "NotServing" \in Health
    BY DEF OnFailure, Health
  <2> HIDE DEF stopped
  <2>3. \A f \in Entry : sce'[f].healthCancel = stopped[f].healthCancel
    BY <1>1, <2>1, <2>2, OtherFields DEF Inv, TypeOK
  <2> QED  BY <2>1, <2>3
<1>3. /\ UNCHANGED <<entries, checker>> /\ cancelled' = cancelled \cup Probes({e})
      /\ NoChecker \notin Checker
  BY PoolAssumption DEF OnFailure
<1>4. \A f \in Entry : InPool(f)' <=> InPool(f)
  BY <1>3 DEF InPool
<1>5. \A f \in Entry, c \in Checker :
        f # e /\ sce[f].healthCancel = c => c \notin Probes({e})
  BY DEF Probes, ProbeInv, HeldByOwner
<1>6. HeldByOwner'
  BY <1>2, <1>3 DEF ProbeInv, HeldByOwner
<1>7. CancelledWasStarted'
  <2>1. \A c \in Probes({e}) : checker[c].state # "unused"
    BY DEF Probes, ProbeInv, HeldByOwner, Inv, PoolInv, PoolTypeOK, SubConnEntry
  <2> QED  BY <1>3, <2>1 DEF ProbeInv, CancelledWasStarted
<1>8. ProbeFollowsEntry'
  <2> SUFFICES ASSUME NEW f \in Entry, sce'[f].healthCancel # NoChecker
               PROVE  sce'[f].healthCancel \in cancelled' <=> ~InPool(f)'
    BY DEF ProbeFollowsEntry
  <2>1. f # e /\ sce'[f].healthCancel = sce[f].healthCancel
    BY <1>2
  <2>2. sce[f].healthCancel \in Checker
    BY <2>1 DEF Inv, PoolInv, PoolTypeOK, SubConnEntry
  <2>3. sce[f].healthCancel \in cancelled <=> ~InPool(f)
    BY <2>1 DEF ProbeInv, ProbeFollowsEntry
  <2> QED  BY <1>3, <1>4, <1>5, <2>1, <2>2, <2>3
<1>9. NoStrayProbe'
  <2> SUFFICES ASSUME NEW c \in Checker, checker[c].state = "running", c \notin cancelled'
               PROVE  InPool(checker[c].owner) /\ sce'[checker[c].owner].healthCancel = c
    BY <1>3 DEF NoStrayProbe, InPool
  <2>1. /\ checker[c].owner \in Entry /\ InPool(checker[c].owner)
        /\ sce[checker[c].owner].healthCancel = c
    BY <1>3 DEF Inv, CheckerInv, ProbeInv, NoStrayProbe
  <2>2. checker[c].owner # e
    BY <1>3, <2>1 DEF Probes
  <2> QED  BY <1>2, <2>1, <2>2
<1> QED  BY <1>6, <1>7, <1>8, <1>9 DEF ProbeInv

LEMMA UpdateSubConnStateProbes ==
  ASSUME Inv, ProbeInv, NEW e \in Entry, UpdateSubConnState(e)
  PROVE  ProbeInv'
<1>1. CASE OnConnecting(e)
  BY <1>1, SeenKeepsProbes, SameProbes DEF OnConnecting, ConnState
<1>2. CASE OnIdle(e)
  BY <1>2, SeenKeepsProbes, SameProbes DEF OnIdle, ConnState
<1>3. CASE OnReady(e)
  <2>1. /\ Seen(e, "Ready") \in [Entry -> SubConnEntry] /\ sce[e].key \in Key
        /\ \A f \in Entry : Seen(e, "Ready")[f].healthCancel = sce[f].healthCancel
    BY <1>3, SeenKeepsProbes DEF OnReady, ConnState
  <2>2. \A f \in Entry : sce'[f].healthCancel = Seen(e, "Ready")[f].healthCancel
    <3>1. sce' = WithHealth(Seen(e, "Ready"), sce[e].key, "Serving")
      BY <1>3 DEF OnReady
    <3>2. PoolTypeOK /\ "Serving" \in Health
      BY DEF Inv, TypeOK, Health
    <3> QED  BY <2>1, <3>1, <3>2, OtherFields
  <2> QED  BY <1>3, <2>1, <2>2, SameProbes DEF OnReady
<1>4. CASE OnReadyNoProbe(e)
  BY <1>4, SeenKeepsProbes, SameProbes DEF OnReadyNoProbe, ConnState
<1>5. CASE \E c \in Checker : OnReadyStartProbe(e, c)
  BY <1>5, OnReadyStartProbeProbes
<1>6. CASE \E s \in ConnState : OnFailure(e, s)
  BY <1>6, OnFailureProbes
<1>7. CASE OnUnknown(e)
  BY <1>7, SameProbes DEF OnUnknown, poolVars
<1> QED  BY <1>1, <1>2, <1>3, <1>4, <1>5, <1>6, <1>7 DEF UpdateSubConnState

(***************************************************************************)
(* Everything else.                                                        *)
(***************************************************************************)
LEMMA CheckerStepProbes ==
  ASSUME Inv, ProbeInv, NEW c \in Checker,
         (\E h \in Health : Receive(c, h)) \/ HealthCallback(c) \/ DrainExit(c)
  PROVE  ProbeInv'
<1>1. checker \in [Checker -> CheckerType]
  BY DEF Inv, TypeOK, CheckerType
<1>2. \A d \in Checker : /\ checker'[d].owner = checker[d].owner
                         /\ checker'[d].state \in {checker[d].state, "exited"}
  <2>1. CASE \E h \in Health : Receive(c, h)
    <3>1. PICK h \in Health : Receive(c, h)
      BY <2>1
    <3> QED  BY <1>1, <3>1 DEF Receive, CheckerType
  <2>2. CASE HealthCallback(c)
    BY <1>1, <2>2 DEF HealthCallback, CheckerType
  <2>3. CASE DrainExit(c)
    BY <1>1, <2>3 DEF DrainExit, CheckerType
  <2> QED  BY <2>1, <2>2, <2>3
<1>3. UNCHANGED <<entries, cancelled>>
  BY DEF Receive, HealthCallback, DrainExit, poolVars
<1>4. \A e \in Entry : sce'[e].healthCancel = sce[e].healthCancel
  <2>1. CASE HealthCallback(c)
    <3>1. sce[checker[c].owner].key \in Key /\ checker[c].pending \in Health
      BY <1>1, <2>1 DEF HealthCallback, Inv, CheckerInv, CheckerType
    <3>2. sce' = WithHealth(sce, sce[checker[c].owner].key, checker[c].pending)
      BY <2>1 DEF HealthCallback
    <3>3. PoolTypeOK /\ sce \in [Entry -> SubConnEntry]
      BY DEF Inv, TypeOK, PoolTypeOK
    <3> QED  BY <3>1, <3>2, <3>3, OtherFields
  <2>2. CASE UNCHANGED sce
    BY <2>2
  <2> QED  BY <2>1, <2>2 DEF Receive, DrainExit, poolVars
<1> QED  BY <1>2, <1>3, <1>4, SameProbes

LEMMA RpcStepProbes ==
  ASSUME Inv, ProbeInv, NEW r \in Rpc,
         \/ LoadPicker(r) \/ PickStep(r)
         \/ Start(r) \/ Repick(r) \/ Finish(r) \/ FailClosing(r)
  PROVE  ProbeInv'
<1>1. sce \in [Entry -> SubConnEntry]
  BY DEF Inv, TypeOK, PoolTypeOK
<1>2. CASE \E e \in Entry : Pick(r, e)
  BY <1>1, <1>2, CountKeepsProbes, SameProbes DEF Pick
<1>3. CASE Repick(r) \/ Finish(r)
  <2>1. rpc[r].entry \in Entry
    BY <1>3 DEF Repick, Finish, Inv, RpcInv
  <2> QED  BY <1>1, <1>3, <2>1, CountKeepsProbes, SameProbes DEF Repick, Finish
<1>4. CASE LoadPicker(r) \/ PickFails(r) \/ Start(r) \/ FailClosing(r)
  BY <1>4, SameProbes DEF LoadPicker, PickFails, Start, FailClosing, poolVars
<1> QED  BY <1>2, <1>3, <1>4 DEF PickStep

LEMMA NextProbeInv == Inv /\ ProbeInv /\ [Next]_vars => ProbeInv'
<1> SUFFICES ASSUME Inv, ProbeInv, [Next]_vars PROVE ProbeInv'
  OBVIOUS
<1>1. CASE (\E D \in SUBSET Key : BeginUpdate(D)) \/ Close \/ UNCHANGED vars
  BY <1>1, SameProbes DEF BeginUpdate, Close, vars, poolVars
<1>2. CASE UpdateStep
  BY <1>2, UpdateStepProbes
<1>3. CASE \E e \in Entry : UpdateSubConnState(e)
  BY <1>3, UpdateSubConnStateProbes
<1>4. CASE \E e \in Entry : \/ DrainPoll(e) \/ DrainExpire(e) \/ DrainShutdown(e)
                            \/ Attempt(e) \/ Lose(e) \/ BackOff(e)
  BY <1>4, SameProbes
  DEF DrainPoll, DrainExpire, DrainShutdown, DrainTick, DrainDeadline, DrainClose,
      Attempt, Lose, BackOff, Moves, poolVars
<1>5. CASE \E c \in Checker : \/ \E h \in Health : Receive(c, h)
                              \/ HealthCallback(c) \/ DrainExit(c)
  BY <1>5, CheckerStepProbes
<1>6. CASE \E r \in Rpc : \/ LoadPicker(r) \/ PickStep(r)
                          \/ Start(r) \/ Repick(r) \/ Finish(r) \/ FailClosing(r)
  BY <1>6, RpcStepProbes
<1> QED
  BY <1>1, <1>2, <1>3, <1>4, <1>5, <1>6 DEF Next

LEMMA ProbeInvariant == Spec => []ProbeInv
<1>1. Init => Inv /\ ProbeInv
  BY InitInv, InitProbeInv
<1>2. Inv /\ ProbeInv /\ [Next]_vars => (Inv /\ ProbeInv)'
  BY NextInv, NextProbeInv
<1> QED  BY <1>1, <1>2, PTL DEF Spec

\* The probe of an entry is cancelled when the entry leaves the map, and not
\* before, whatever updates, failures and probe reports come together.
THEOREM ProbeFollows == Spec => []ProbeFollowsEntry
<1>1. ProbeInv => ProbeFollowsEntry
  BY DEF ProbeInv
<1> QED  BY <1>1, ProbeInvariant, PTL

\* A probe that was not cancelled is the one its entry holds, and the entry is
\* in the pool: no probe outlives its SubConn, none is started twice.
THEOREM NoStray == Spec => []NoStrayProbe
<1>1. ProbeInv => NoStrayProbe
  BY DEF ProbeInv
<1> QED  BY <1>1, ProbeInvariant, PTL

(***************************************************************************)
(* Who serves was probed.  The report that is on its way to b.mu is the    *)
(* last one the probe took, and the endpoint a probe was started for does  *)
(* not change: an entry gets its key when it is added, before any probe.   *)
(***************************************************************************)
OwnerWasAdded ==
  \A c \in Checker : checker[c].state # "unused" => subConn[checker[c].owner] # "unborn"

PendingIsCurrent ==
  \A c \in Checker : checker[c].pending \in {"Unknown", checker[c].current}

ServedInv == OwnerWasAdded /\ PendingIsCurrent /\ ServingWasProbed

LEMMA InitServedInv == Init => ServedInv
BY DEF Init, PoolInit, NewEntry, ServedInv, OwnerWasAdded, PendingIsCurrent,
       ServingWasProbed

\* Nothing begins to serve, and no probe has news.
LEMMA NobodyServesAnew ==
  ASSUME Inv, ServedInv,
         \A e \in Entry : subConn[e] # "unborn" => /\ subConn'[e] # "unborn"
                                                   /\ sce'[e].key = sce[e].key,
         EnableHealthCheck =>
           \A e \in Entry : InPool(e)' /\ sce'[e].health = "Serving" =>
             InPool(e) /\ sce[e].health = "Serving",
         \A c \in Checker : /\ checker'[c].owner = checker[c].owner
                            /\ checker'[c].current = checker[c].current
                            /\ checker'[c].pending = checker[c].pending
                            /\ checker'[c].state = "unused" <=> checker[c].state = "unused"
  PROVE  ServedInv'
<1>1. \A c \in Checker : checker[c].state # "unused" =>
        checker[c].owner \in Entry /\ subConn[checker[c].owner] # "unborn"
  BY DEF Inv, CheckerInv, ServedInv, OwnerWasAdded
<1>2. OwnerWasAdded' /\ PendingIsCurrent'
  BY <1>1 DEF ServedInv, OwnerWasAdded, PendingIsCurrent
<1>3. ServingWasProbed'
  <2> SUFFICES ASSUME EnableHealthCheck, NEW e \in Entry,
                      InPool(e)', sce'[e].health = "Serving"
               PROVE  \E c \in Checker :
                        /\ checker'[c].state # "unused"
                        /\ sce'[checker'[c].owner].key = sce'[e].key
                        /\ checker'[c].current = "Serving" \/ checker'[c].pending # "Unknown"
    BY DEF ServingWasProbed, InPool
  <2>1. InPool(e) /\ sce[e].health = "Serving"
    OBVIOUS
  <2>2. PICK c \in Checker :
          /\ checker[c].state # "unused"
          /\ sce[checker[c].owner].key = sce[e].key
          /\ checker[c].current = "Serving" \/ checker[c].pending # "Unknown"
    BY <2>1 DEF ServedInv, ServingWasProbed
  <2>3. sce'[e].key = sce[e].key
    BY <2>1 DEF Inv, PoolInv, NoOrphanSubConn
  <2> QED  BY <1>1, <2>2, <2>3
<1> QED  BY <1>2, <1>3 DEF ServedInv

\* The same for the steps that leave the map alone.
LEMMA TableServed ==
  ASSUME Inv, ServedInv, TableStep, UNCHANGED checker,
         EnableHealthCheck =>
           \A e \in Entry : sce'[e].health = "Serving" => sce[e].health = "Serving"
  PROVE  ServedInv'
<1>1. /\ \A e \in Entry : sce'[e].key = sce[e].key
      /\ UNCHANGED <<entries, subConn>>
  BY DEF TableStep, SameShape
<1>2. \A e \in Entry : InPool(e)' <=> InPool(e)
  BY <1>1 DEF InPool
<1> QED  BY <1>1, <1>2, NobodyServesAnew

LEMMA UpdateStepServed ==
  ASSUME Inv, ServedInv, UpdateStep
  PROVE  ServedInv'
<1>0. NoEntry \notin Entry /\ sce \in [Entry -> SubConnEntry]
  BY PoolAssumption DEF Inv, TypeOK, PoolTypeOK
<1>1. ASSUME NEW k \in Key, NEW e \in Entry, AddOne(k, e)
      PROVE  ServedInv'
  <2>1. /\ subConn[e] = "unborn"
        /\ \A f \in Entry : subConn[f] # "unborn" => subConn'[f] # "unborn"
    BY <1>1 DEF AddOne, Add
  <2>2. sce' = [sce EXCEPT ![e] = NewEntry(k)]
    BY <1>1 DEF AddOne, Add
  <2>3. /\ sce'[e].health = "Unknown"
        /\ \A f \in Entry : f # e => sce'[f] = sce[f]
    BY <1>0, <2>2 DEF NewEntry
  <2>4. \A f \in Entry : f # e /\ InPool(f)' => InPool(f)
    BY <1>1, OneKeyChanges DEF AddOne, Add, Inv
  <2> QED  BY <1>1, <2>1, <2>3, <2>4, NobodyServesAnew DEF AddOne
<1>2. ASSUME NEW k \in Key, AddOneFails(k)
      PROVE  ServedInv'
  <2>1. \A f \in Entry : InPool(f)' => InPool(f)
    BY <1>0, <1>2, OneKeyChanges DEF AddOneFails, AddFails, Inv
  <2> QED  BY <1>2, <2>1, NobodyServesAnew DEF AddOneFails, AddFails
<1>3. ASSUME NEW k \in Key, RemoveOne(k)
      PROVE  ServedInv'
  <2>1. \A f \in Entry : InPool(f)' => InPool(f)
    BY <1>0, <1>3, OneKeyChanges DEF RemoveOne, Remove, Inv
  <2>2. sce' = [sce EXCEPT ![entries[k]].draining = TRUE]
    BY <1>3 DEF RemoveOne, Remove
  <2>3. \A f \in Entry : sce'[f].key = sce[f].key /\ sce'[f].health = sce[f].health
    BY <1>0, <2>2 DEF SubConnEntry
  <2> QED  BY <1>3, <2>1, <2>3, NobodyServesAnew DEF RemoveOne, Remove
<1>4. CASE FinishUpdate
  BY <1>4, FinishUpdateStep, TableServed DEF FinishUpdate, poolVars
<1> QED  BY <1>1, <1>2, <1>3, <1>4 DEF UpdateStep

LEMMA SeenKeepsHealth ==
  ASSUME Inv, NEW e \in Entry, NEW s \in ConnState, Delivered(e, s)
  PROVE  \A f \in Entry : Seen(e, s)[f].health = sce[f].health
<1>1. /\ sce[e].key \in Key /\ sce \in [Entry -> SubConnEntry]
      /\ entries \in [Key -> Entry \cup {NoEntry}]
  BY SeenKeepsProbes DEF Inv, TypeOK, PoolTypeOK
<1> QED  BY <1>1 DEF Seen, WithConnState, SubConnEntry

LEMMA OnReadyStartProbeServed ==
  ASSUME Inv, ServedInv, NEW e \in Entry, NEW c \in Checker, OnReadyStartProbe(e, c)
  PROVE  ServedInv'
<1>1. /\ Seen(e, "Ready") \in [Entry -> SubConnEntry] /\ InPool(e)
      /\ \A f \in Entry : Seen(e, "Ready")[f].health = sce[f].health
  BY SeenKeepsProbes, SeenKeepsHealth DEF OnReadyStartProbe, ConnState
<1>2. sce' = [Seen(e, "Ready") EXCEPT ![e].healthCancel = c]
  BY DEF OnReadyStartProbe
<1>3. \A f \in Entry : sce'[f].health = sce[f].health
  BY <1>1, <1>2 DEF SubConnEntry
<1>4. /\ \A f \in Entry : sce'[f].key = sce[f].key
      /\ UNCHANGED <<entries, subConn>>
  BY OnReadyStartProbeStep DEF TableStep, SameShape
<1>5. checker \in [Checker -> CheckerType]
  BY DEF Inv, TypeOK, CheckerType
<1>6. /\ checker'[c].owner = e
      /\ checker'[c].current = checker[c].current /\ checker'[c].pending = checker[c].pending
      /\ \A d \in Checker : d # c => checker'[d] = checker[d]
      /\ checker[c].state = "unused"
  BY <1>5 DEF OnReadyStartProbe, CheckerType
<1>7. OwnerWasAdded'
  BY <1>1, <1>4, <1>6 DEF ServedInv, OwnerWasAdded, Inv, PoolInv, NoOrphanSubConn
<1>8. PendingIsCurrent'
  BY <1>6 DEF ServedInv, PendingIsCurrent
<1>9. ServingWasProbed'
  <2> SUFFICES ASSUME EnableHealthCheck, NEW f \in Entry,
                      InPool(f), sce[f].health = "Serving"
               PROVE  \E d \in Checker :
                        /\ checker'[d].state # "unused"
                        /\ sce'[checker'[d].owner].key = sce'[f].key
                        /\ checker'[d].current = "Serving" \/ checker'[d].pending # "Unknown"
    BY <1>3, <1>4 DEF ServingWasProbed, InPool
  <2>1. PICK d \in Checker :
          /\ checker[d].state # "unused"
          /\ sce[checker[d].owner].key = sce[f].key
          /\ checker[d].current = "Serving" \/ checker[d].pending # "Unknown"
    BY DEF ServedInv, ServingWasProbed
  <2>2. checker'[d] = checker[d] /\ checker[d].owner \in Entry
    BY <1>6, <2>1 DEF Inv, CheckerInv
  <2> QED  BY <1>4, <2>1, <2>2
<1> QED  BY <1>7, <1>8, <1>9 DEF ServedInv

LEMMA UpdateSubConnStateServed ==
  ASSUME Inv, ServedInv, NEW e \in Entry, UpdateSubConnState(e)
  PROVE  ServedInv'
<1>0. TableStep
  BY UpdateSubConnStateStep
<1>1. CASE OnConnecting(e)
  BY <1>0, <1>1, SeenKeepsHealth, TableServed DEF OnConnecting, ConnState
<1>2. CASE OnIdle(e)
  BY <1>0, <1>2, SeenKeepsHealth, TableServed DEF OnIdle, ConnState
<1>3. CASE OnReady(e)
  BY <1>0, <1>3, TableServed DEF OnReady
<1>4. CASE OnReadyNoProbe(e)
  BY <1>0, <1>4, SeenKeepsHealth, TableServed DEF OnReadyNoProbe, ConnState
<1>5. CASE \E c \in Checker : OnReadyStartProbe(e, c)
  BY <1>5, OnReadyStartProbeServed
<1>6. ASSUME NEW s \in ConnState, OnFailure(e, s)
      PROVE  ServedInv'
  <2> DEFINE stopped == StopHealthCheck(Seen(e, s), e)
  <2>1. /\ Seen(e, s) \in [Entry -> SubConnEntry] /\ sce[e].key \in Key
        /\ \A f \in Entry : Seen(e, s)[f].health = sce[f].health
    BY <1>6, SeenKeepsProbes, SeenKeepsHealth DEF OnFailure
  <2>2. /\ stopped \in [Entry -> SubConnEntry]
        /\ \A f \in Entry : stopped[f].health = sce[f].health
    BY <2>1 DEF StopHealthCheck, SubConnEntry
  <2>3. sce' = WithHealth(stopped, sce[e].key, "NotServing") /\ UNCHANGED checker
    BY <1>6 DEF OnFailure
  <2> HIDE DEF stopped
  <2>4. entries[sce[e].key] = NoEntry \/ entries[sce[e].key] \in Entry
    BY <2>1 DEF Inv, TypeOK, PoolTypeOK
  <2>5. \A f \in Entry : sce'[f].health \in {stopped[f].health, "NotServing"}
    BY <2>2, <2>3, <2>4 DEF WithHealth, SubConnEntry
  <2> QED  BY <1>0, <2>2, <2>3, <2>5, TableServed
<1>7. CASE OnUnknown(e)
  BY <1>0, <1>7, TableServed DEF OnUnknown, poolVars
<1> QED  BY <1>1, <1>2, <1>3, <1>4, <1>5, <1>6, <1>7 DEF UpdateSubConnState

LEMMA ReceiveServed ==
  ASSUME Inv, ServedInv, NEW c \in Checker, NEW h \in Health, Receive(c, h)
  PROVE  ServedInv'
<1>1. checker \in [Checker -> CheckerType]
  BY DEF Inv, TypeOK, CheckerType
<1>2. /\ checker'[c].current = h /\ checker'[c].pending = h /\ h # "Unknown"
      /\ \A d \in Checker : /\ checker'[d].owner = checker[d].owner
                            /\ checker'[d].state = checker[d].state
      /\ \A d \in Checker : d # c => checker'[d] = checker[d]
      /\ UNCHANGED <<entries, sce, subConn>>
  BY <1>1 DEF Receive, CheckerType, poolVars
<1>3. OwnerWasAdded' /\ PendingIsCurrent'
  BY <1>2 DEF ServedInv, OwnerWasAdded, PendingIsCurrent
<1>4. ServingWasProbed'
  BY <1>2 DEF ServedInv, ServingWasProbed, InPool
<1> QED  BY <1>3, <1>4 DEF ServedInv

\* The callback writes by key, so what it reports is about every entry that
\* serves under that key.
LEMMA HealthCallbackServed ==
  ASSUME Inv, ServedInv, NEW c \in Checker, HealthCallback(c)
  PROVE  ServedInv'
<1> DEFINE k == sce[checker[c].owner].key
<1>1. checker \in [Checker -> CheckerType]
  BY DEF Inv, TypeOK, CheckerType
<1>2. k \in Key /\ checker[c].state # "unused" /\ checker[c].pending = checker[c].current
  BY DEF HealthCallback, Inv, CheckerInv, ServedInv, PendingIsCurrent
<1>3. \A d \in Checker : /\ checker'[d].owner = checker[d].owner
                         /\ checker'[d].state = checker[d].state
                         /\ checker'[d].current = checker[d].current
                         /\ checker'[d].pending \in {checker[d].pending, "Unknown"}
                         /\ d # c => checker'[d].pending = checker[d].pending
  BY <1>1 DEF HealthCallback, CheckerType
<1>4. /\ \A e \in Entry : sce'[e].key = sce[e].key
      /\ UNCHANGED <<entries, subConn>>
  BY HealthCallbackStep DEF TableStep, SameShape
<1>5. OwnerWasAdded' /\ PendingIsCurrent'
  BY <1>3, <1>4 DEF ServedInv, OwnerWasAdded, PendingIsCurrent
<1>6. \A e \in Entry : InPool(e) =>
        sce'[e].health = IF sce[e].key = k THEN checker[c].current ELSE sce[e].health
  <2>1. sce' = WithHealth(sce, k, checker[c].current)
    BY <1>2 DEF HealthCallback
  <2>2. \A e \in Entry : InPool(e) => (entries[k] = e <=> sce[e].key = k)
    BY <1>2, EntryAtItsKey, PoolAssumption DEF Inv, PoolInv, MapByKey
  <2>3. sce \in [Entry -> SubConnEntry] /\ NoEntry \notin Entry
    BY PoolAssumption DEF Inv, TypeOK, PoolTypeOK
  <2>4. entries[k] = NoEntry \/ entries[k] \in Entry
    BY <1>2 DEF Inv, TypeOK, PoolTypeOK
  <2> HIDE DEF k
  <2> QED  BY <2>1, <2>2, <2>3, <2>4 DEF WithHealth, SubConnEntry
<1>7. ServingWasProbed'
  <2> SUFFICES ASSUME EnableHealthCheck, NEW e \in Entry,
                      InPool(e), sce'[e].health = "Serving"
               PROVE  \E d \in Checker :
                        /\ checker'[d].state # "unused"
                        /\ sce'[checker'[d].owner].key = sce'[e].key
                        /\ checker'[d].current = "Serving" \/ checker'[d].pending # "Unknown"
    BY <1>4 DEF ServingWasProbed, InPool
  <2>1. CASE sce[e].key = k
    <3>1. checker[c].owner \in Entry
      BY <1>2 DEF Inv, CheckerInv
    <3> QED  BY <1>2, <1>3, <1>4, <1>6, <2>1, <3>1
  <2>2. CASE sce[e].key # k
    <3>1. PICK d \in Checker :
            /\ checker[d].state # "unused"
            /\ sce[checker[d].owner].key = sce[e].key
            /\ checker[d].current = "Serving" \/ checker[d].pending # "Unknown"
      BY <1>6, <2>2 DEF ServedInv, ServingWasProbed
    <3>2. d # c /\ checker[d].owner \in Entry
      BY <2>2, <3>1 DEF Inv, CheckerInv
    <3> QED  BY <1>3, <1>4, <3>1, <3>2
  <2> QED  BY <2>1, <2>2
<1> QED  BY <1>5, <1>7 DEF ServedInv

LEMMA DrainExitServed ==
  ASSUME Inv, ServedInv, NEW c \in Checker, DrainExit(c)
  PROVE  ServedInv'
<1>1. checker \in [Checker -> CheckerType]
  BY DEF Inv, TypeOK, CheckerType
<1>2. /\ \A d \in Checker : /\ checker'[d].owner = checker[d].owner
                            /\ checker'[d].current = checker[d].current
                            /\ checker'[d].pending = checker[d].pending
                            /\ checker'[d].state = "unused" <=> checker[d].state = "unused"
      /\ UNCHANGED <<entries, sce, subConn>>
  BY <1>1 DEF DrainExit, CheckerType, poolVars
<1>3. \A e \in Entry : InPool(e)' <=> InPool(e)
  BY <1>2 DEF InPool
<1> QED  BY <1>2, <1>3, NobodyServesAnew

LEMMA RpcStepServed ==
  ASSUME Inv, ServedInv, NEW r \in Rpc,
         \/ LoadPicker(r) \/ PickStep(r)
         \/ Start(r) \/ Repick(r) \/ Finish(r) \/ FailClosing(r)
  PROVE  ServedInv'
<1>1. sce \in [Entry -> SubConnEntry]
  BY DEF Inv, TypeOK, PoolTypeOK
<1>2. ASSUME NEW e \in Entry, Pick(r, e) PROVE ServedInv'
  BY <1>1, <1>2, CountShape, PickActionStep, TableServed DEF Pick
<1>3. CASE Repick(r) \/ Finish(r)
  <2>1. rpc[r].entry \in Entry
    BY <1>3 DEF Repick, Finish, Inv, RpcInv
  <2>2. sce' = CountOut(sce, rpc[r].entry) /\ UNCHANGED checker
    BY <1>3 DEF Repick, Finish
  <2>3. \A e \in Entry : sce'[e].health = sce[e].health
    BY <1>1, <2>1, <2>2, CountShape
  <2> QED  BY <1>3, <2>2, <2>3, DoneStep, TableServed
<1>4. CASE LoadPicker(r) \/ PickFails(r) \/ Start(r) \/ FailClosing(r)
  BY <1>4, QuietRpcStep, TableServed DEF LoadPicker, PickFails, Start, FailClosing, poolVars
<1> QED  BY <1>2, <1>3, <1>4 DEF PickStep

LEMMA DrainStepServed ==
  ASSUME Inv, ServedInv, NEW e \in Entry, DrainPoll(e) \/ DrainExpire(e) \/ DrainShutdown(e)
  PROVE  ServedInv'
<1>1. UNCHANGED <<entries, sce, checker>>
  BY DEF DrainPoll, DrainExpire, DrainShutdown, DrainTick, DrainDeadline, DrainClose
<1>2. \A f \in Entry : subConn[f] # "unborn" => subConn'[f] # "unborn"
  BY DEF DrainPoll, DrainExpire, DrainShutdown, DrainTick, DrainDeadline, DrainClose,
         Inv, TypeOK, PoolTypeOK
<1>3. \A f \in Entry : InPool(f)' <=> InPool(f)
  BY <1>1 DEF InPool
<1> QED  BY <1>1, <1>2, <1>3, NobodyServesAnew

LEMMA NextServedInv == Inv /\ ServedInv /\ [Next]_vars => ServedInv'
<1> SUFFICES ASSUME Inv, ServedInv, [Next]_vars PROVE ServedInv'
  OBVIOUS
<1>1. CASE (\E D \in SUBSET Key : BeginUpdate(D)) \/ Close \/ UNCHANGED vars
  BY <1>1, BeginUpdateStep, CloseStep, StutterStep, TableServed
  DEF BeginUpdate, Close, vars, poolVars
<1>2. CASE UpdateStep
  BY <1>2, UpdateStepServed
<1>3. CASE \E e \in Entry : UpdateSubConnState(e)
  BY <1>3, UpdateSubConnStateServed
<1>4. CASE \E e \in Entry : DrainPoll(e) \/ DrainExpire(e) \/ DrainShutdown(e)
  BY <1>4, DrainStepServed
<1>5. CASE \E e \in Entry : Attempt(e) \/ Lose(e) \/ BackOff(e)
  BY <1>5, MovesStep, TableServed DEF Attempt, Lose, BackOff, Moves, poolVars
<1>6. CASE \E c \in Checker : \/ \E h \in Health : Receive(c, h)
                              \/ HealthCallback(c) \/ DrainExit(c)
  BY <1>6, ReceiveServed, HealthCallbackServed, DrainExitServed
<1>7. CASE \E r \in Rpc : \/ LoadPicker(r) \/ PickStep(r)
                          \/ Start(r) \/ Repick(r) \/ Finish(r) \/ FailClosing(r)
  BY <1>7, RpcStepServed
<1> QED
  BY <1>1, <1>2, <1>3, <1>4, <1>5, <1>6, <1>7 DEF Next

\* With health checks on, an entry serves only when a probe of its endpoint has
\* reported so and has nothing newer to deliver (R6.3).
THEOREM ServingProbed == Spec => []ServingWasProbed
<1>1. Init => Inv /\ ServedInv
  BY InitInv, InitServedInv
<1>2. Inv /\ ServedInv /\ [Next]_vars => (Inv /\ ServedInv)'
  BY NextInv, NextServedInv
<1>3. ServedInv => ServingWasProbed
  BY DEF ServedInv
<1> QED  BY <1>1, <1>2, <1>3, PTL DEF Spec

(***************************************************************************)
(* The counters.  Add gives an entry a counter of zero.  That it is right  *)
(* then rests on no RPC being on an entry that has not been added: pickers *)
(* have entries of the pool only, RPCs hold what was a picker once.        *)
(***************************************************************************)
Born(e) == subConn[e] # "unborn"

Underway(r) == rpc[r].state \in {"picked", "inflight"}

BornInv ==
  /\ \A e \in picker : Born(e)
  /\ \A r \in Rpc : /\ \A e \in rpc[r].held : Born(e)
                    /\ Underway(r) => Born(rpc[r].entry)

CountInv == BornInv /\ InFlightExact

LEMMA InitCountInv == Init => CountInv
<1> SUFFICES ASSUME Init PROVE CountInv
  OBVIOUS
<1>1. BornInv
  BY DEF Init, BornInv, Underway
<1>2. \A e \in Entry : OnEntry(e) = {} /\ sce[e].inFlight = 0
  BY DEF Init, PoolInit, NewEntry, OnEntry
<1>3. InFlightExact
  BY <1>2, FS_EmptySet DEF InFlightExact
<1> QED  BY <1>1, <1>3 DEF CountInv

(***************************************************************************)
(* Facts used by many steps.                                               *)
(***************************************************************************)
\* The RPCs that are on an entry stay on it, and nobody else comes.
LEMMA SameOnEntry ==
  ASSUME \A r \in Rpc : /\ rpc'[r].entry = rpc[r].entry
                        /\ Underway(r)' <=> Underway(r)
  PROVE  \A e \in Entry : OnEntry(e)' = OnEntry(e)
BY DEF OnEntry, Underway

LEMMA SameCounts ==
  ASSUME CountInv,
         \A r \in Rpc : /\ rpc'[r].entry = rpc[r].entry
                        /\ Underway(r)' <=> Underway(r),
         \A e \in Entry : sce'[e].inFlight = sce[e].inFlight
  PROVE  InFlightExact'
BY SameOnEntry DEF CountInv, InFlightExact

LEMMA NotifiedUnderway ==
  ASSUME NEW x \in RpcType
  PROVE  /\ Notified(x).held = x.held /\ Notified(x).entry = x.entry
         /\ Notified(x).state \in {"picked", "inflight"} <=>
              x.state \in {"picked", "inflight"}
BY DEF Notified, RpcType, RpcState

\* A handler ends: the RPCs learn of the picker, no more.
LEMMA RebuildPickerCounts ==
  ASSUME Inv, CountInv, RebuildPicker, PoolInv', subConn' = subConn,
         \A e \in Entry : sce'[e].inFlight = sce[e].inFlight
  PROVE  CountInv'
<1>1. rpc \in [Rpc -> RpcType]
  BY DEF Inv, TypeOK, RpcType
<1>2. \A r \in Rpc : /\ rpc'[r].held = rpc[r].held /\ rpc'[r].entry = rpc[r].entry
                     /\ Underway(r)' <=> Underway(r)
  <2>1. CASE closed
    BY <2>1 DEF RebuildPicker, Underway
  <2>2. CASE ~closed
    BY <1>1, <2>2, NotifiedUnderway DEF RebuildPicker, Underway
  <2> QED  BY <2>1, <2>2
<1>3. \A e \in picker' : Born(e)'
  <2>1. CASE closed
    BY <2>1 DEF RebuildPicker, pickerVars, CountInv, BornInv, Born
  <2>2. CASE ~closed
    <3>1. picker' = HealthyEntries'
      BY <2>2 DEF RebuildPicker
    <3>2. \A e \in picker' : e \in Entry /\ InPool(e)'
      BY <3>1 DEF HealthyEntries, Snapshot
    <3> QED  BY <3>2 DEF PoolInv, NoOrphanSubConn, Born
  <2> QED  BY <2>1, <2>2
<1>4. BornInv'
  BY <1>2, <1>3 DEF CountInv, BornInv, Born
<1> QED  BY <1>2, <1>4, SameCounts DEF CountInv

\* A step that touches neither the RPCs nor the picker nor a counter.
LEMMA OutsideCounts ==
  ASSUME CountInv, UNCHANGED <<picker, rpc>>,
         \A e \in Entry : sce'[e].inFlight = sce[e].inFlight,
         \A e \in Entry : Born(e) => Born(e)',
         picker \subseteq Entry, RpcInv, \A r \in Rpc : rpc[r].held \subseteq Entry
  PROVE  CountInv'
<1>1. BornInv'
  BY DEF CountInv, BornInv, Underway, RpcInv
<1>2. InFlightExact'
  BY SameCounts DEF Underway
<1> QED  BY <1>1, <1>2 DEF CountInv

LEMMA RpcEntries ==
  ASSUME Inv
  PROVE  picker \subseteq Entry /\ RpcInv /\ \A r \in Rpc : rpc[r].held \subseteq Entry
BY DEF Inv, TypeOK

(***************************************************************************)
(* UpdateClientConnState.                                                  *)
(***************************************************************************)
LEMMA AddOneCounts ==
  ASSUME Inv, CountInv, NEW k \in Key, NEW e \in Entry, AddOne(k, e)
  PROVE  CountInv'
<1>1. ~Born(e) /\ UNCHANGED <<picker, rpc>>
  BY DEF AddOne, Add, Born, pickerVars
<1>2. \A f \in Entry : Born(f) => Born(f)'
  BY DEF AddOne, Add, Born
<1>3. /\ sce'[e].inFlight = 0
      /\ \A f \in Entry : f # e => sce'[f].inFlight = sce[f].inFlight
  BY DEF AddOne, Add, NewEntry, Inv, TypeOK, PoolTypeOK
<1>4. BornInv'
  BY <1>1, <1>2, RpcEntries DEF CountInv, BornInv, Underway, RpcInv
<1>5. InFlightExact'
  <2>1. OnEntry(e) = {}
    BY <1>1 DEF OnEntry, CountInv, BornInv, Underway
  <2>2. \A f \in Entry : OnEntry(f)' = OnEntry(f)
    BY <1>1, SameOnEntry DEF Underway
  <2> QED  BY <1>3, <2>1, <2>2, FS_EmptySet DEF CountInv, InFlightExact
<1> QED  BY <1>4, <1>5 DEF CountInv

LEMMA UpdateStepCounts ==
  ASSUME Inv, CountInv, UpdateStep
  PROVE  CountInv'
<1>1. CASE \E k \in Key, e \in Entry : AddOne(k, e)
  BY <1>1, AddOneCounts
<1>2. CASE \E k \in Key : AddOneFails(k)
  BY <1>2, OutsideCounts, RpcEntries DEF AddOneFails, AddFails, Born, pickerVars
<1>3. ASSUME NEW k \in Key, RemoveOne(k)
      PROVE  CountInv'
  <2>1. \A f \in Entry : sce'[f].inFlight = sce[f].inFlight
    BY <1>3 DEF RemoveOne, Remove, Inv, TypeOK, PoolTypeOK, SubConnEntry
  <2> QED  BY <1>3, <2>1, OutsideCounts, RpcEntries DEF RemoveOne, Remove, Born, pickerVars
<1>4. CASE FinishUpdate
  <2>1. PoolInv'
    BY <1>4, FinishUpdateStep DEF Inv
  <2> QED  BY <1>4, <2>1, RebuildPickerCounts DEF FinishUpdate, poolVars
<1> QED  BY <1>1, <1>2, <1>3, <1>4 DEF UpdateStep

(***************************************************************************)
(* UpdateSubConnState and the probes: the writers keep the counters.       *)
(***************************************************************************)
LEMMA SeenKeepsCounts ==
  ASSUME Inv, NEW e \in Entry, NEW s \in ConnState, Delivered(e, s)
  PROVE  /\ Seen(e, s) \in [Entry -> SubConnEntry] /\ sce[e].key \in Key
         /\ \A f \in Entry : Seen(e, s)[f].inFlight = sce[f].inFlight
<1>1. sce[e].key \in Key /\ Seen(e, s) \in [Entry -> SubConnEntry]
  BY DeliveredFacts DEF SameShape
<1>2. PoolTypeOK /\ sce \in [Entry -> SubConnEntry]
  BY DEF Inv, TypeOK, PoolTypeOK
<1> QED  BY <1>1, <1>2, OtherFields DEF Seen

\* Seen, then WithHealth on a table with the same counters.
LEMMA HealthOfSeen ==
  ASSUME Inv, NEW k \in Key, NEW h \in Health, NEW t \in [Entry -> SubConnEntry],
         \A f \in Entry : t[f].inFlight = sce[f].inFlight, sce' = WithHealth(t, k, h)
  PROVE  \A f \in Entry : sce'[f].inFlight = sce[f].inFlight
<1>1. PoolTypeOK
  BY DEF Inv, TypeOK
<1> QED  BY <1>1, OtherFields

LEMMA OnFailureCounts ==
  ASSUME Inv, NEW e \in Entry, NEW s \in ConnState, OnFailure(e, s)
  PROVE  \A f \in Entry : sce'[f].inFlight = sce[f].inFlight
<1> DEFINE stopped == StopHealthCheck(Seen(e, s), e)
<1>1. /\ Seen(e, s) \in [Entry -> SubConnEntry] /\ sce[e].key \in Key
      /\ \A f \in Entry : Seen(e, s)[f].inFlight = sce[f].inFlight
  BY SeenKeepsCounts DEF OnFailure
<1>2. /\ stopped \in [Entry -> SubConnEntry]
      /\ \A f \in Entry : stopped[f].inFlight = sce[f].inFlight
  BY <1>1 DEF StopHealthCheck, SubConnEntry
<1>3. sce' = WithHealth(stopped, sce[e].key, "NotServing") /\ "NotServing" \in Health
  BY DEF OnFailure, Health
<1> HIDE DEF stopped
<1> QED  BY <1>1, <1>2, <1>3, HealthOfSeen

LEMMA UpdateSubConnStateCounts ==
  ASSUME Inv, CountInv, NEW e \in Entry, UpdateSubConnState(e)
  PROVE  CountInv'
<1>0. PoolInv'
  BY UpdateSubConnStateStep DEF Inv
<1>1. CASE OnConnecting(e)
  <2>1. \A f \in Entry : sce'[f].inFlight = sce[f].inFlight
    BY <1>1, SeenKeepsCounts DEF OnConnecting, ConnState
  <2> QED  BY <1>0, <1>1, <2>1, RebuildPickerCounts DEF OnConnecting
<1>2. CASE OnIdle(e)
  <2>1. \A f \in Entry : sce'[f].inFlight = sce[f].inFlight
    BY <1>2, SeenKeepsCounts DEF OnIdle, ConnState
  <2> QED  BY <1>0, <1>2, <2>1, RebuildPickerCounts DEF OnIdle
<1>3. CASE OnReady(e)
  <2>1. /\ Seen(e, "Ready") \in [Entry -> SubConnEntry] /\ sce[e].key \in Key
        /\ \A f \in Entry : Seen(e, "Ready")[f].inFlight = sce[f].inFlight
    BY <1>3, SeenKeepsCounts DEF OnReady, ConnState
  <2>2. sce' = WithHealth(Seen(e, "Ready"), sce[e].key, "Serving") /\ "Serving" \in Health
    BY <1>3 DEF OnReady, Health
  <2>3. \A f \in Entry : sce'[f].inFlight = sce[f].inFlight
    BY <2>1, <2>2, HealthOfSeen
  <2> QED  BY <1>0, <1>3, <2>3, RebuildPickerCounts DEF OnReady
<1>4. CASE OnReadyNoProbe(e)
  <2>1. \A f \in Entry : sce'[f].inFlight = sce[f].inFlight
    BY <1>4, SeenKeepsCounts DEF OnReadyNoProbe, ConnState
  <2> QED  BY <1>0, <1>4, <2>1, RebuildPickerCounts DEF OnReadyNoProbe
<1>5. ASSUME NEW c \in Checker, OnReadyStartProbe(e, c)
      PROVE  CountInv'
  <2>1. /\ Seen(e, "Ready") \in [Entry -> SubConnEntry]
        /\ \A f \in Entry : Seen(e, "Ready")[f].inFlight = sce[f].inFlight
    BY <1>5, SeenKeepsCounts DEF OnReadyStartProbe, ConnState
  <2>2. sce' = [Seen(e, "Ready") EXCEPT ![e].healthCancel = c]
    BY <1>5 DEF OnReadyStartProbe
  <2>3. \A f \in Entry : sce'[f].inFlight = sce[f].inFlight
    BY <2>1, <2>2 DEF SubConnEntry
  <2> QED  BY <1>0, <1>5, <2>3, RebuildPickerCounts DEF OnReadyStartProbe
<1>6. ASSUME NEW s \in ConnState, OnFailure(e, s)
      PROVE  CountInv'
  <2>1. \A f \in Entry : sce'[f].inFlight = sce[f].inFlight
    BY <1>6, OnFailureCounts
  <2> QED  BY <1>0, <1>6, <2>1, RebuildPickerCounts DEF OnFailure
<1>7. CASE OnUnknown(e)
  BY <1>7, OutsideCounts, RpcEntries DEF OnUnknown, poolVars, pickerVars, Born
<1> QED  BY <1>1, <1>2, <1>3, <1>4, <1>5, <1>6, <1>7 DEF UpdateSubConnState

LEMMA HealthCallbackCounts ==
  ASSUME Inv, CountInv, NEW c \in Checker, HealthCallback(c)
  PROVE  CountInv'
<1>1. PoolInv'
  BY HealthCallbackStep DEF Inv
<1>2. checker \in [Checker -> CheckerType]
  BY DEF Inv, TypeOK, CheckerType
<1>3. sce[checker[c].owner].key \in Key /\ checker[c].pending \in Health
  BY <1>2 DEF HealthCallback, Inv, CheckerInv, CheckerType
<1>4. /\ sce' = WithHealth(sce, sce[checker[c].owner].key, checker[c].pending)
      /\ sce \in [Entry -> SubConnEntry]
  BY DEF HealthCallback, Inv, TypeOK, PoolTypeOK
<1>5. \A f \in Entry : sce'[f].inFlight = sce[f].inFlight
  BY <1>3, <1>4, HealthOfSeen
<1> QED  BY <1>1, <1>5, RebuildPickerCounts DEF HealthCallback

(***************************************************************************)
(* RPCs.                                                                   *)
(***************************************************************************)
LEMMA OnEntryFinite ==
  ASSUME NEW e \in Entry
  PROVE  IsFiniteSet(OnEntry(e)) /\ Cardinality(OnEntry(e)) \in Nat
<1>1. OnEntry(e) \subseteq Rpc
  BY DEF OnEntry
<1>2. IsFiniteSet(OnEntry(e))
  BY <1>1, FS_Subset, BalancerAssumption
<1> QED  BY <1>2, FS_CardinalityType

\* Pick and Done change the counter of one entry by one.
LEMMA Counted ==
  ASSUME NEW t \in [Entry -> SubConnEntry], NEW e \in Entry, NEW f \in Entry, Counts
  PROVE  /\ CountIn(t, e)[f].inFlight = IF f = e THEN t[f].inFlight + 1 ELSE t[f].inFlight
         /\ CountOut(t, e)[f].inFlight = IF f = e THEN t[f].inFlight - 1 ELSE t[f].inFlight
BY DEF CountIn, CountOut, AddInFlight, SubConnEntry

LEMMA PickCounts ==
  ASSUME Inv, CountInv, NEW r \in Rpc, NEW e \in Entry, Pick(r, e)
  PROVE  CountInv'
<1>1. rpc \in [Rpc -> RpcType] /\ sce \in [Entry -> SubConnEntry]
  BY DEF Inv, TypeOK, PoolTypeOK, RpcType
<1>2. /\ rpc'[r].state = "picked" /\ rpc'[r].entry = e /\ rpc'[r].held = {}
      /\ \A q \in Rpc : q # r => rpc'[q] = rpc[q]
      /\ rpc[r].state = "loaded" /\ e \in rpc[r].held
      /\ UNCHANGED <<subConn, picker>>
  BY <1>1 DEF Pick, RpcType, pickerVars
<1>3. BornInv'
  BY <1>2 DEF CountInv, BornInv, Underway, Born
<1>4. InFlightExact'
  <2> SUFFICES ASSUME Counts, NEW f \in Entry
               PROVE  sce'[f].inFlight = Cardinality(OnEntry(f)')
    BY DEF InFlightExact
  <2>1. sce'[f].inFlight = IF f = e THEN sce[f].inFlight + 1 ELSE sce[f].inFlight
    BY <1>1, Counted DEF Pick
  <2>2. sce[f].inFlight = Cardinality(OnEntry(f))
    BY DEF CountInv, InFlightExact
  <2>3. CASE f = e
    <3>1. OnEntry(f)' = OnEntry(f) \cup {r} /\ r \notin OnEntry(f)
      BY <1>2, <2>3 DEF OnEntry
    <3>2. IsFiniteSet(OnEntry(f))
      BY OnEntryFinite
    <3>3. Cardinality(OnEntry(f) \cup {r}) = Cardinality(OnEntry(f)) + 1
      BY <3>1, <3>2, FS_AddElement
    <3> QED  BY <2>1, <2>2, <2>3, <3>1, <3>3
  <2>4. CASE f # e
    <3>1. OnEntry(f)' = OnEntry(f)
      BY <1>2, <2>4 DEF OnEntry
    <3> QED  BY <2>1, <2>2, <2>4, <3>1
  <2> QED  BY <2>3, <2>4
<1> QED  BY <1>3, <1>4 DEF CountInv

LEMMA DoneCounts ==
  ASSUME Inv, CountInv, NEW r \in Rpc, Repick(r) \/ Finish(r)
  PROVE  CountInv'
<1> DEFINE e == rpc[r].entry
<1>1. rpc \in [Rpc -> RpcType] /\ sce \in [Entry -> SubConnEntry]
  BY DEF Inv, TypeOK, PoolTypeOK, RpcType
<1>2. /\ rpc'[r].state \notin {"picked", "inflight"} /\ rpc'[r].held = rpc[r].held
      /\ \A q \in Rpc : q # r => rpc'[q] = rpc[q]
      /\ rpc[r].state \in {"picked", "inflight"}
      /\ UNCHANGED <<subConn, picker>>
  <2>1. CASE Repick(r)
    BY <1>1, <2>1 DEF Repick, RpcType, pickerVars
  <2>2. CASE Finish(r)
    BY <1>1, <2>2 DEF Finish, RpcType, pickerVars
  <2> QED  BY <2>1, <2>2
<1>3. e \in Entry /\ sce' = CountOut(sce, e)
  BY <1>2 DEF Repick, Finish, Inv, RpcInv
<1>4. BornInv'
  BY <1>2 DEF CountInv, BornInv, Underway, Born
<1>5. InFlightExact'
  <2> SUFFICES ASSUME Counts, NEW f \in Entry
               PROVE  sce'[f].inFlight = Cardinality(OnEntry(f)')
    BY DEF InFlightExact
  <2>1. sce'[f].inFlight = IF f = e THEN sce[f].inFlight - 1 ELSE sce[f].inFlight
    BY <1>1, <1>3, Counted
  <2>2. sce[f].inFlight = Cardinality(OnEntry(f))
    BY DEF CountInv, InFlightExact
  <2>3. CASE f = e
    <3>1. OnEntry(f)' = OnEntry(f) \ {r} /\ r \in OnEntry(f)
      BY <1>2, <2>3 DEF OnEntry
    <3>2. IsFiniteSet(OnEntry(f))
      BY OnEntryFinite
    <3>3. Cardinality(OnEntry(f) \ {r}) = Cardinality(OnEntry(f)) - 1
      BY <3>1, <3>2, FS_RemoveElement
    <3> QED  BY <2>1, <2>2, <2>3, <3>1, <3>3
  <2>4. CASE f # e
    <3>1. OnEntry(f)' = OnEntry(f)
      BY <1>2, <2>4 DEF OnEntry
    <3> QED  BY <2>1, <2>2, <2>4, <3>1
  <2> QED  BY <2>3, <2>4
<1> QED  BY <1>4, <1>5 DEF CountInv

\* Steps of an RPC that do not count.
LEMMA QuietRpcCounts ==
  ASSUME Inv, CountInv, NEW r \in Rpc,
         LoadPicker(r) \/ PickFails(r) \/ Start(r) \/ FailClosing(r)
  PROVE  CountInv'
<1>1. rpc \in [Rpc -> RpcType]
  BY DEF Inv, TypeOK, RpcType
<1>2. /\ UNCHANGED <<sce, subConn, picker>>
      /\ \A q \in Rpc : q # r => rpc'[q] = rpc[q]
      /\ rpc'[r].entry = rpc[r].entry
      /\ Underway(r)' <=> Underway(r)
      /\ rpc'[r].held \subseteq rpc[r].held \cup picker
  <2>1. CASE LoadPicker(r)
    BY <1>1, <2>1 DEF LoadPicker, RpcType, Underway, poolVars, pickerVars
  <2>2. CASE PickFails(r) \/ FailClosing(r)
    BY <1>1, <2>2 DEF PickFails, FailClosing, RpcType, Underway, poolVars, pickerVars
  <2>3. CASE Start(r)
    BY <1>1, <2>3 DEF Start, RpcType, Underway, poolVars, pickerVars
  <2> QED  BY <2>1, <2>2, <2>3
<1>3. \A q \in Rpc : /\ rpc'[q].entry = rpc[q].entry /\ Underway(q)' <=> Underway(q)
  BY <1>2 DEF Underway
<1>4. BornInv'
  BY <1>2, <1>3 DEF CountInv, BornInv, Born
<1>5. InFlightExact'
  BY <1>2, <1>3, SameCounts
<1> QED  BY <1>4, <1>5 DEF CountInv

(***************************************************************************)
(* Together.                                                               *)
(***************************************************************************)
LEMMA NextCountInv == Inv /\ CountInv /\ [Next]_vars => CountInv'
<1> SUFFICES ASSUME Inv, CountInv, [Next]_vars PROVE CountInv'
  OBVIOUS
<1>1. CASE (\E D \in SUBSET Key : BeginUpdate(D)) \/ Close \/ UNCHANGED vars
  BY <1>1, OutsideCounts, RpcEntries
  DEF BeginUpdate, Close, vars, poolVars, pickerVars, Born
<1>2. CASE UpdateStep
  BY <1>2, UpdateStepCounts
<1>3. CASE \E e \in Entry : UpdateSubConnState(e)
  BY <1>3, UpdateSubConnStateCounts
<1>4. CASE \E e \in Entry : DrainPoll(e) \/ DrainExpire(e) \/ DrainShutdown(e)
  BY <1>4, OutsideCounts, RpcEntries
  DEF DrainPoll, DrainExpire, DrainShutdown, DrainTick, DrainDeadline, DrainClose,
      pickerVars, Born, Inv, TypeOK, PoolTypeOK
<1>5. CASE \E e \in Entry : Attempt(e) \/ Lose(e) \/ BackOff(e)
  BY <1>5, OutsideCounts, RpcEntries
  DEF Attempt, Lose, BackOff, Moves, poolVars, pickerVars, Born
<1>6. CASE \E c \in Checker : (\E h \in Health : Receive(c, h)) \/ DrainExit(c)
  BY <1>6, OutsideCounts, RpcEntries DEF Receive, DrainExit, poolVars, pickerVars, Born
<1>7. CASE \E c \in Checker : HealthCallback(c)
  BY <1>7, HealthCallbackCounts
<1>8. CASE \E r \in Rpc : \/ LoadPicker(r) \/ PickStep(r)
                          \/ Start(r) \/ Repick(r) \/ Finish(r) \/ FailClosing(r)
  BY <1>8, QuietRpcCounts, PickCounts, DoneCounts DEF PickStep
<1> QED
  BY <1>1, <1>2, <1>3, <1>4, <1>5, <1>6, <1>7, <1>8 DEF Next

LEMMA CountInvariant == Spec => [](Inv /\ CountInv)
<1>1. Init => Inv /\ CountInv
  BY InitInv, InitCountInv
<1>2. Inv /\ CountInv /\ [Next]_vars => (Inv /\ CountInv)'
  BY NextInv, NextCountInv
<1> QED  BY <1>1, <1>2, PTL DEF Spec

\* Every pick is matched by exactly one Done on the same entry: whatever happens
\* to the entry, the picker or the SubConn in between, InFlight is the number of
\* RPCs that were picked for it and have not ended.
THEOREM InFlightCounts == Spec => []InFlightExact
<1>1. CountInv => InFlightExact
  BY DEF CountInv
<1> QED  BY <1>1, CountInvariant, PTL

(***************************************************************************)
(* The drain.                                                              *)
(***************************************************************************)
\* Only the tick that found no RPC in flight ends the wait before the deadline.
LEMMA OnlyTickDrains ==
  ASSUME Inv, [Next]_vars, NEW e \in Entry, drainer[e] = "polling", drainer'[e] = "drained"
  PROVE  sce[e].inFlight <= 0
<1>0. drainer \in [Entry -> DrainState]
  BY DEF Inv, TypeOK, PoolTypeOK
<1>1. CASE (\E D \in SUBSET Key : BeginUpdate(D)) \/ Close \/ UNCHANGED vars
  BY <1>1 DEF BeginUpdate, Close, vars, poolVars
<1>2. CASE UpdateStep
  BY <1>0, <1>2
  DEF UpdateStep, AddOne, Add, AddOneFails, AddFails, RemoveOne, Remove, FinishUpdate,
      poolVars
<1>3. CASE \E f \in Entry : UpdateSubConnState(f)
  BY <1>3
  DEF UpdateSubConnState, OnConnecting, OnIdle, OnReady, OnReadyNoProbe,
      OnReadyStartProbe, OnFailure, OnUnknown, poolVars
<1>4. CASE \E f \in Entry : DrainPoll(f) \/ DrainExpire(f) \/ DrainShutdown(f)
  BY <1>0, <1>4
  DEF DrainPoll, DrainExpire, DrainShutdown, DrainTick, DrainDeadline, DrainClose
<1>5. CASE \E f \in Entry : Attempt(f) \/ Lose(f) \/ BackOff(f)
  BY <1>5 DEF Attempt, Lose, BackOff, Moves, poolVars
<1>6. CASE \E c \in Checker : \/ \E h \in Health : Receive(c, h)
                              \/ HealthCallback(c) \/ DrainExit(c)
  BY <1>6 DEF Receive, HealthCallback, DrainExit, poolVars
<1>7. CASE \E r \in Rpc : \/ LoadPicker(r) \/ PickStep(r)
                          \/ Start(r) \/ Repick(r) \/ Finish(r) \/ FailClosing(r)
  BY <1>7
  DEF LoadPicker, PickStep, Pick, PickFails, Start, Repick, Finish, FailClosing, poolVars
<1> QED
  BY <1>1, <1>2, <1>3, <1>4, <1>5, <1>6, <1>7 DEF Next

\* With a policy that counts, no drain stops waiting before its deadline while an
\* RPC is in flight on the SubConn (R4.2).  For round_robin it is not true.
THEOREM DrainWaits == ASSUME Counts PROVE Spec => DrainWaitsForRpcs
<1>1. ASSUME Inv, CountInv, [Next]_vars, NEW e \in Entry, NEW r \in Rpc,
             drainer[e] = "polling", drainer'[e] = "drained",
             rpc[r].state = "inflight", rpc[r].entry = e
      PROVE  FALSE
  <2>1. sce[e].inFlight <= 0
    BY <1>1, OnlyTickDrains
  <2>2. sce[e].inFlight = Cardinality(OnEntry(e))
    BY <1>1 DEF CountInv, InFlightExact
  <2>3. IsFiniteSet(OnEntry(e)) /\ Cardinality(OnEntry(e)) \in Nat
    BY OnEntryFinite
  <2>4. Cardinality(OnEntry(e)) = 0
    BY <2>1, <2>2, <2>3
  <2>5. OnEntry(e) = {}
    BY <2>3, <2>4, FS_EmptySet
  <2> QED  BY <1>1, <2>5 DEF OnEntry
<1>2. Inv /\ CountInv /\ [Next]_vars =>
        [\A e \in Entry : drainer[e] = "polling" /\ drainer'[e] = "drained" =>
           \A r \in Rpc : ~(rpc[r].state = "inflight" /\ rpc[r].entry = e)]_vars
  BY <1>1
<1> QED  BY <1>2, CountInvariant, PTL DEF Spec, DrainWaitsForRpcs

(***************************************************************************)
(* Picks of draining entries.  An RPC whose picker is not old, while mu is *)
(* free, holds no entry that is draining: Remove works under mu only, and  *)
(* the update that called it ends in a new picker, which makes the old     *)
(* ones stale; the channel cannot be closed in between.                    *)
(***************************************************************************)
HeldAlive(r) == rpc[r].state = "loaded" /\ ~rpc[r].stale =>
                  \A e \in rpc[r].held : ~sce[e].draining

FreshInv == /\ mu => ~closed
            /\ ~mu => \A r \in Rpc : HeldAlive(r)

LEMMA InitFreshInv == Init => FreshInv
BY DEF Init, FreshInv, HeldAlive

\* rebuildPickerLocked by a handler that leaves the flags alone.
LEMMA RebuildPickerFresh ==
  ASSUME Inv, RebuildPicker, UNCHANGED closed, ~mu', mu => ~closed,
         closed => FreshInv, \A e \in Entry : sce'[e].draining = sce[e].draining
  PROVE  FreshInv'
<1>1. CASE closed
  <2>1. ~mu /\ UNCHANGED rpc
    BY <1>1 DEF RebuildPicker
  <2> QED  BY <1>1, <2>1 DEF FreshInv, HeldAlive, Inv, TypeOK
<1>2. CASE ~closed
  <2>1. rpc \in [Rpc -> RpcType]
    BY DEF Inv, TypeOK, RpcType
  <2>2. \A r \in Rpc : rpc'[r] = Notified(rpc[r])
    BY <1>2 DEF RebuildPicker
  <2>3. \A r \in Rpc : Notified(rpc[r]).state = "loaded" => Notified(rpc[r]).stale
    BY <2>1 DEF Notified, RpcType
  <2> QED  BY <2>2, <2>3 DEF FreshInv, HeldAlive
<1> QED  BY <1>1, <1>2

\* A step that leaves mu, the RPCs and the flags alone.
LEMMA OutsideFresh ==
  ASSUME Inv, FreshInv, UNCHANGED <<mu, rpc>>, closed' => closed \/ ~mu,
         \A e \in Entry : sce'[e].draining = sce[e].draining
  PROVE  FreshInv'
BY DEF FreshInv, HeldAlive, Inv, TypeOK

LEMMA UpdateFresh ==
  ASSUME Inv, FreshInv, (\E D \in SUBSET Key : BeginUpdate(D)) \/ UpdateStep
  PROVE  FreshInv'
<1>1. CASE \E D \in SUBSET Key : BeginUpdate(D)
  BY <1>1 DEF BeginUpdate, grpcVars, FreshInv
<1>2. CASE FinishUpdate
  BY <1>2, RebuildPickerFresh DEF FinishUpdate, poolVars, grpcVars, FreshInv
<1>3. CASE \E k \in Key : (\E e \in Entry : AddOne(k, e)) \/ AddOneFails(k) \/ RemoveOne(k)
  <2>1. mu
    BY <1>3 DEF AddOne, AddOneFails, RemoveOne, Inv, UpdateInv
  <2>2. UNCHANGED <<mu, closed>>
    <3>1. CASE \E k \in Key, e \in Entry : AddOne(k, e)
      BY <3>1 DEF AddOne
    <3>2. CASE \E k \in Key : AddOneFails(k) \/ RemoveOne(k)
      BY <3>2 DEF AddOneFails, RemoveOne, grpcVars
    <3> QED  BY <1>3, <3>1, <3>2
  <2> QED  BY <2>1, <2>2 DEF FreshInv
<1> QED  BY <1>1, <1>2, <1>3 DEF UpdateStep

LEMMA HandlerFresh ==
  ASSUME Inv, FreshInv,
         \/ \E e \in Entry : UpdateSubConnState(e)
         \/ \E c \in Checker : HealthCallback(c)
  PROVE  FreshInv'
<1>1. TableStep
  BY UpdateSubConnStateStep, HealthCallbackStep
<1>2. \A e \in Entry : sce'[e].draining = sce[e].draining
  BY <1>1 DEF TableStep, SameShape
<1>3. CASE \E e \in Entry : OnUnknown(e)
  BY <1>2, <1>3, OutsideFresh DEF OnUnknown, updateVars
<1>4. CASE RebuildPicker /\ UNCHANGED <<updateVars, closed>> /\ ~mu
  BY <1>2, <1>4, RebuildPickerFresh DEF updateVars
<1> QED
  BY <1>3, <1>4
  DEF UpdateSubConnState, OnConnecting, OnIdle, OnReady, OnReadyNoProbe,
      OnReadyStartProbe, OnFailure, HealthCallback, Delivered, grpcVars

LEMMA RpcFresh ==
  ASSUME Inv, FreshInv, NEW r \in Rpc,
         \/ LoadPicker(r) \/ PickStep(r)
         \/ Start(r) \/ Repick(r) \/ Finish(r) \/ FailClosing(r)
  PROVE  FreshInv'
<1>1. rpc \in [Rpc -> RpcType]
  BY DEF Inv, TypeOK, RpcType
<1>2. TableStep
  BY QuietRpcStep, PickActionStep, DoneStep DEF PickStep
<1>3. \A e \in Entry : sce'[e].draining = sce[e].draining
  BY <1>2 DEF TableStep, SameShape
<1>4. UNCHANGED <<mu, closed>> /\ \A q \in Rpc : q # r => rpc'[q] = rpc[q]
  <2>1. CASE \E e \in Entry : Pick(r, e)
    BY <1>1, <2>1 DEF Pick, updateVars, grpcVars
  <2>2. CASE Repick(r) \/ Finish(r)
    BY <1>1, <2>2 DEF Repick, Finish, updateVars, grpcVars
  <2>3. CASE LoadPicker(r) \/ Start(r)
    BY <1>1, <2>3 DEF LoadPicker, Start, updateVars, grpcVars
  <2>4. CASE PickFails(r) \/ FailClosing(r)
    BY <1>1, <2>4 DEF PickFails, FailClosing, updateVars, grpcVars
  <2> QED  BY <2>1, <2>2, <2>3, <2>4 DEF PickStep
<1>5. ~mu => HeldAlive(r)'
  <2>1. CASE LoadPicker(r)
    <3>1. rpc'[r].held = picker /\ ~closed /\ hasPicker
      BY <1>1, <2>1 DEF LoadPicker, RpcType
    <3>2. ~mu => picker = HealthyEntries
      BY <3>1 DEF Inv, PickerIsHealthySet
    <3>3. ~mu => \A e \in rpc'[r].held : e \in Entry /\ ~sce[e].draining
      BY <3>1, <3>2 DEF HealthyEntries, Snapshot
    <3> QED  BY <1>3, <3>3 DEF HeldAlive
  <2>2. CASE \E e \in Entry : Pick(r, e)
    BY <1>1, <2>2 DEF Pick, RpcType, HeldAlive
  <2>3. CASE PickFails(r) \/ FailClosing(r)
    BY <1>1, <2>3 DEF PickFails, FailClosing, RpcType, HeldAlive
  <2>4. CASE Start(r)
    BY <1>1, <2>4 DEF Start, RpcType, HeldAlive
  <2>5. CASE Repick(r)
    BY <1>1, <2>5 DEF Repick, RpcType, HeldAlive
  <2>6. CASE Finish(r)
    BY <1>1, <2>6 DEF Finish, RpcType, HeldAlive
  <2> QED  BY <2>1, <2>2, <2>3, <2>4, <2>5, <2>6 DEF PickStep
<1>6. ~mu => \A q \in Rpc : q # r => HeldAlive(q)'
  BY <1>1, <1>3, <1>4 DEF FreshInv, HeldAlive, RpcType
<1> QED  BY <1>4, <1>5, <1>6 DEF FreshInv

LEMMA NextFreshInv == Inv /\ FreshInv /\ [Next]_vars => FreshInv'
<1> SUFFICES ASSUME Inv, FreshInv, [Next]_vars PROVE FreshInv'
  OBVIOUS
<1>1. CASE (\E D \in SUBSET Key : BeginUpdate(D)) \/ UpdateStep
  BY <1>1, UpdateFresh
<1>2. CASE (\E e \in Entry : UpdateSubConnState(e)) \/ \E c \in Checker : HealthCallback(c)
  BY <1>2, HandlerFresh
<1>3. CASE \E e \in Entry : \/ DrainPoll(e) \/ DrainExpire(e) \/ DrainShutdown(e)
                            \/ Attempt(e) \/ Lose(e) \/ BackOff(e)
  BY <1>3, OutsideFresh
  DEF DrainPoll, DrainExpire, DrainShutdown, DrainTick, DrainDeadline, DrainClose,
      Attempt, Lose, BackOff, Moves, poolVars, updateVars, grpcVars
<1>4. CASE \E c \in Checker : (\E h \in Health : Receive(c, h)) \/ DrainExit(c)
  <2>1. UNCHANGED <<mu, rpc, closed, sce>>
    BY <1>4 DEF Receive, DrainExit, poolVars, updateVars, grpcVars
  <2> QED  BY <2>1, OutsideFresh
<1>5. CASE \E r \in Rpc : \/ LoadPicker(r) \/ PickStep(r)
                          \/ Start(r) \/ Repick(r) \/ Finish(r) \/ FailClosing(r)
  BY <1>5, RpcFresh
<1>6. CASE Close \/ UNCHANGED vars
  BY <1>6, OutsideFresh DEF Close, vars, poolVars, updateVars, grpcVars
<1> QED
  BY <1>1, <1>2, <1>3, <1>4, <1>5, <1>6 DEF Next

\* An RPC picks an entry that is draining only from a picker that has been
\* replaced, or that the update at work is about to replace.
THEOREM DrainingPickedLate == Spec => DrainingPickedOnlyWhenStale
<1>1. ASSUME Inv, FreshInv, NEW r \in Rpc, NEW e \in Entry, Pick(r, e), sce[e].draining
      PROVE  rpc[r].stale \/ mu
  BY <1>1 DEF Pick, FreshInv, HeldAlive
<1>2. Inv /\ FreshInv =>
        [\A r \in Rpc, e \in Entry :
           Pick(r, e) /\ sce[e].draining => rpc[r].stale \/ mu]_vars
  BY <1>1
<1>3. Init => Inv /\ FreshInv
  BY InitInv, InitFreshInv
<1>4. Inv /\ FreshInv /\ [Next]_vars => (Inv /\ FreshInv)'
  BY NextInv, NextFreshInv
<1> QED  BY <1>2, <1>3, <1>4, PTL DEF Spec, DrainingPickedOnlyWhenStale
=============================================================================
