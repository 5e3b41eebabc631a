--------------------------- MODULE PoolAloneProofs ---------------------------
(***************************************************************************)
(* The pool under free callers keeps its invariant.                        *)
(***************************************************************************)
EXTENDS PoolAlone, PoolProofs

LEMMA PoolStepInv == PoolInv /\ [PoolNext]_poolVars => PoolInv'
<1> SUFFICES ASSUME PoolInv, [PoolNext]_poolVars
             PROVE  PoolInv'
  OBVIOUS
<1>0. PoolTypeOK /\ sce \in [Entry -> SubConnEntry] /\ cancelled \subseteq Checker
  BY DEF PoolInv, PoolTypeOK
<1>1. CASE \E k \in Key, e \in Entry : Add(k, e)
  BY <1>1, AddPoolInv
<1>2. CASE \E k \in Key : AddFails(k) \/ Remove(k)
  BY <1>2, AddFailsPoolInv, RemovePoolInv
<1>3. CASE \E k \in Key, s \in ConnInput : UpdateConnState(k, s)
  BY <1>0, <1>3, WithConnStateShape, TablePoolInv, BoundsAssumption
  DEF UpdateConnState, SameShape
<1>4. CASE \E k \in Key, h \in HealthInput : UpdateHealth(k, h)
  BY <1>0, <1>4, WithHealthShape, TablePoolInv, BoundsAssumption
  DEF UpdateHealth, SameShape
<1>5. CASE \E e \in Entry, c \in Checker : SetHealthCancel(e, c)
  BY <1>0, <1>5, HealthCancelShape, TablePoolInv DEF SetHealthCancel, SameShape
<1>6. CASE \E e \in Entry : StartRpc(e) \/ FinishRpc(e)
  <2>1. 1 \in Int /\ -1 \in Int
    OBVIOUS
  <2> QED  BY <1>0, <1>6, <2>1, AddInFlightShape, TablePoolInv
           DEF StartRpc, FinishRpc, SameShape
<1>7. CASE \E e \in Entry : DrainTick(e) \/ DrainDeadline(e) \/ DrainClose(e)
  BY <1>7, DrainPoolInv
<1>8. CASE UNCHANGED poolVars
  BY <1>8, <1>0, TablePoolInv DEF poolVars
<1> QED
  BY <1>1, <1>2, <1>3, <1>4, <1>5, <1>6, <1>7, <1>8 DEF PoolNext

\* The invariant holds throughout every behaviour of the pool.
THEOREM PoolInvariant == PoolSpec => []PoolInv
<1>1. PoolInit => PoolInv
  BY InitPoolInv
<1>2. PoolInv /\ [PoolNext]_poolVars => PoolInv'
  BY PoolStepInv
<1> QED  BY <1>1, <1>2, PTL DEF PoolSpec

\* Whatever its callers do, the pool forgets no SubConn and closes none that is
\* in use (Add, Remove and drainAndClose of pool.go).
THEOREM PoolNoOrphan == PoolSpec => []NoOrphanSubConn
<1>1. PoolInv => NoOrphanSubConn
  BY DEF PoolInv
<1> QED  BY <1>1, PoolInvariant, PTL

\* Whatever its callers do, no endpoint has two SubConns outside a drain (R4.5).
THEOREM PoolOnePerKey == PoolSpec => []OneSubConnPerKey
BY PoolInvOnePerKey, PoolInvariant, PTL

LEMMA PoolStepLifecycle ==
  PoolInv /\ [PoolNext]_poolVars => [Lifecycle!Next]_Lifecycle!vars
<1> SUFFICES ASSUME PoolInv, [PoolNext]_poolVars
             PROVE  Lifecycle!Next \/ UNCHANGED Lifecycle!vars
  OBVIOUS
<1>0. PoolTypeOK /\ sce \in [Entry -> SubConnEntry]
  BY DEF PoolInv, PoolTypeOK
<1>1. CASE \E k \in Key, e \in Entry : Add(k, e)
  BY <1>1, AddLifecycle DEF Lifecycle!Next
<1>2. CASE \E k \in Key : AddFails(k) \/ Remove(k)
  BY <1>2, AddFailsLifecycle, RemoveLifecycle DEF Lifecycle!Next
<1>3. CASE \E k \in Key, s \in ConnInput : UpdateConnState(k, s)
  BY <1>0, <1>3, WithConnStateShape, TableLifecycle, BoundsAssumption
  DEF UpdateConnState, SameShape
<1>4. CASE \E k \in Key, h \in HealthInput : UpdateHealth(k, h)
  BY <1>0, <1>4, WithHealthShape, TableLifecycle, BoundsAssumption
  DEF UpdateHealth, SameShape
<1>5. CASE \E e \in Entry, c \in Checker : SetHealthCancel(e, c)
  BY <1>0, <1>5, HealthCancelShape, TableLifecycle DEF SetHealthCancel, SameShape
<1>6. CASE \E e \in Entry : StartRpc(e) \/ FinishRpc(e)
  <2>1. 1 \in Int /\ -1 \in Int
    OBVIOUS
  <2> QED  BY <1>0, <1>6, <2>1, AddInFlightShape, TableLifecycle
           DEF StartRpc, FinishRpc, SameShape
<1>7. CASE \E e \in Entry : DrainTick(e) \/ DrainDeadline(e) \/ DrainClose(e)
  BY <1>7, DrainLifecycle DEF Lifecycle!Next
<1>8. CASE UNCHANGED poolVars
  BY <1>8, TableLifecycle DEF poolVars
<1> QED
  BY <1>1, <1>2, <1>3, <1>4, <1>5, <1>6, <1>7, <1>8 DEF PoolNext

\* The pool implements the abstract lifecycle under every sequence of calls.
THEOREM PoolImplementsLifecycle == PoolSpec => ImplementsLifecycle
<1>1. PoolInit => Lifecycle!Init
  BY InitLifecycle
<1>2. PoolInv /\ [PoolNext]_poolVars => [Lifecycle!Next]_Lifecycle!vars
  BY PoolStepLifecycle
<1> QED
  BY <1>1, <1>2, PoolInvariant, PTL DEF PoolSpec, ImplementsLifecycle, Lifecycle!Spec

(***************************************************************************)
(* The probes.  An entry is handed a fresh one, so no two hold the same.   *)
(***************************************************************************)
HeldOnce ==
  \A e, f \in Entry :
    sce[e].healthCancel # NoChecker /\ sce[e].healthCancel = sce[f].healthCancel => e = f

ProbeInv == HeldOnce /\ ProbeFollowsEntry

\* An entry leaves the map, with its probe, and a new one n may take its place.
LEMMA ReplaceProbes ==
  ASSUME PoolInv, ProbeInv, NEW k \in Key, NEW n \in Entry \cup {NoEntry},
         n \in Entry => sce'[n].healthCancel = NoChecker,
         entries' = [entries EXCEPT ![k] = n],
         cancelled' = cancelled \cup Probes(Existing(k)),
         \A f \in Entry : f # n => sce'[f].healthCancel = sce[f].healthCancel
  PROVE  ProbeInv'
<1>1. \A f \in Entry : InPool(f)' <=> f = n \/ (InPool(f) /\ f \notin Existing(k))
  BY OneKeyChanges
<1>2. Existing(k) \subseteq Entry
  BY DEF Existing, PoolInv, PoolTypeOK
<1>3. HeldOnce'
  BY DEF ProbeInv, HeldOnce
<1>4. ProbeFollowsEntry'
  <2> SUFFICES ASSUME NEW e \in Entry, sce'[e].healthCancel # NoChecker
               PROVE  sce'[e].healthCancel \in cancelled' <=> ~InPool(e)'
    BY DEF ProbeFollowsEntry
  <2>1. e # n /\ sce'[e].healthCancel = sce[e].healthCancel
    OBVIOUS
  <2>2. sce[e].healthCancel \in Probes(Existing(k)) <=> e \in Existing(k)
    BY <1>2, <2>1 DEF Probes, ProbeInv, HeldOnce
  <2>3. sce[e].healthCancel \in cancelled <=> ~InPool(e)
    BY <2>1 DEF ProbeInv, ProbeFollowsEntry
  <2> QED  BY <1>1, <2>1, <2>2, <2>3
<1> QED  BY <1>3, <1>4 DEF ProbeInv

LEMMA SameProbes ==
  ASSUME ProbeInv, UNCHANGED <<entries, cancelled>>,
         \A e \in Entry : sce'[e].healthCancel = sce[e].healthCancel
  PROVE  ProbeInv'
BY DEF ProbeInv, HeldOnce, ProbeFollowsEntry, InPool

LEMMA PoolStepProbes == PoolInv /\ ProbeInv /\ [PoolNext]_poolVars => ProbeInv'
<1> SUFFICES ASSUME PoolInv, ProbeInv, [PoolNext]_poolVars
             PROVE  ProbeInv'
  OBVIOUS
<1>0. /\ sce \in [Entry -> SubConnEntry] /\ entries \in [Key -> Entry \cup {NoEntry}]
      /\ NoEntry \notin Entry
  BY PoolAssumption DEF PoolInv, PoolTypeOK
<1>1. ASSUME NEW k \in Key, NEW e \in Entry, Add(k, e)
      PROVE  ProbeInv'
  <2>1. sce' = [sce EXCEPT ![e] = NewEntry(k)]
    BY <1>1 DEF Add
  <2>2. /\ sce'[e].healthCancel = NoChecker
        /\ \A f \in Entry : f # e => sce'[f].healthCancel = sce[f].healthCancel
    BY <1>0, <2>1 DEF NewEntry
  <2> QED  BY <1>1, <2>2, ReplaceProbes DEF Add
<1>2. ASSUME NEW k \in Key, AddFails(k)
      PROVE  ProbeInv'
  BY <1>0, <1>2, ReplaceProbes DEF AddFails
<1>3. ASSUME NEW k \in Key, Remove(k)
      PROVE  ProbeInv'
  <2>1. entries[k] \in Entry /\ sce' = [sce EXCEPT ![entries[k]].draining = TRUE]
    BY <1>0, <1>3 DEF Remove
  <2>2. \A f \in Entry : sce'[f].healthCancel = sce[f].healthCancel
    BY <1>0, <2>1 DEF SubConnEntry
  <2> QED  BY <1>0, <1>3, <2>2, ReplaceProbes DEF Remove
<1>4. ASSUME NEW k \in Key, NEW s, UpdateConnState(k, s) \/ UpdateHealth(k, s)
      PROVE  ProbeInv'
  <2>1. \A f \in Entry : sce'[f].healthCancel = sce[f].healthCancel
    <3>1. CASE entries[k] = NoEntry
      BY <1>4, <3>1 DEF UpdateConnState, UpdateHealth, WithConnState, WithHealth
    <3>2. CASE /\ entries[k] \in Entry
               /\ \/ sce' = [sce EXCEPT ![entries[k]].connState = s]
                  \/ sce' = [sce EXCEPT ![entries[k]].health = s]
      BY <1>0, <3>2 DEF SubConnEntry
    <3> QED
      BY <1>0, <1>4, <3>1, <3>2
      DEF UpdateConnState, UpdateHealth, WithConnState, WithHealth
  <2> QED  BY <1>4, <2>1, SameProbes DEF UpdateConnState, UpdateHealth
<1>5. ASSUME NEW e \in Entry, NEW c \in Checker, SetHealthCancel(e, c)
      PROVE  ProbeInv'
  <2>1. sce' = [sce EXCEPT ![e].healthCancel = c] /\ UNCHANGED <<entries, cancelled>>
    BY <1>5 DEF SetHealthCancel
  <2>2. /\ sce'[e].healthCancel = c
        /\ \A f \in Entry : f # e => sce'[f].healthCancel = sce[f].healthCancel
    BY <1>0, <2>1 DEF SubConnEntry
  <2>3. InPool(e) /\ c \notin cancelled /\ \A f \in Entry : sce[f].healthCancel # c
    BY <1>5 DEF SetHealthCancel
  <2> QED
    BY <2>1, <2>2, <2>3 DEF ProbeInv, HeldOnce, ProbeFollowsEntry, InPool
<1>6. CASE \E e \in Entry : StartRpc(e) \/ FinishRpc(e)
  <2>1. \A e \in Entry : sce'[e].healthCancel = sce[e].healthCancel
    BY <1>0, <1>6 DEF StartRpc, FinishRpc, AddInFlight, SubConnEntry
  <2> QED  BY <1>6, <2>1, SameProbes DEF StartRpc, FinishRpc
<1>7. CASE (\E e \in Entry : DrainTick(e) \/ DrainDeadline(e) \/ DrainClose(e))
           \/ UNCHANGED poolVars
  BY <1>7, SameProbes DEF DrainTick, DrainDeadline, DrainClose, poolVars
<1> QED
  BY <1>1, <1>2, <1>3, <1>4, <1>5, <1>6, <1>7 DEF PoolNext

\* Whatever its callers do, evictions included, the pool cancels the probe of an
\* entry when it takes the entry out of the map, and no other.
THEOREM PoolProbeFollows == PoolSpec => []ProbeFollowsEntry
<1>1. PoolInit => ProbeInv
  BY PoolAssumption
  DEF PoolInit, NewEntry, ProbeInv, HeldOnce, ProbeFollowsEntry
<1>2. ProbeInv => ProbeFollowsEntry
  BY DEF ProbeInv
<1> QED  BY <1>1, <1>2, PoolInvariant, PoolStepProbes, PTL DEF PoolSpec
=============================================================================
