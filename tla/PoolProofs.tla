----------------------------- MODULE PoolProofs -----------------------------
(***************************************************************************)
(* What every operation of the pool preserves, proved once for both        *)
(* specifications that use it (PoolAloneProofs, K8sBalancerProofs).        *)
(***************************************************************************)
EXTENDS Pool, TLAPS

(***************************************************************************)
(* The inductive invariant.  NoOrphanSubConn alone is not inductive: Add   *)
(* and Remove change the SubConn of one key, and nothing would say that no *)
(* other key has the same one.                                             *)
(***************************************************************************)
\* An entry sits in the map under its own key.
MapByKey == \A k \in Key : entries[k] # NoEntry => sce[entries[k]].key = k

\* The draining flag, for SubConns that are open.
FlagMatches ==
  \A e \in Entry : /\ InPool(e) => ~sce[e].draining
                   /\ Draining(e) => sce[e].draining

PoolInv == PoolTypeOK /\ MapByKey /\ FlagMatches /\ NoOrphanSubConn

LEMMA EntryInMap ==
  ASSUME PoolTypeOK, NEW k \in Key, entries[k] # NoEntry
  PROVE  entries[k] \in Entry /\ InPool(entries[k]) /\ Existing(k) = {entries[k]}
BY DEF PoolTypeOK, InPool, Existing

LEMMA EntryAtItsKey ==
  ASSUME PoolInv, NEW e \in Entry, InPool(e)
  PROVE  sce[e].key \in Key /\ entries[sce[e].key] = e
BY PoolAssumption DEF PoolInv, MapByKey, InPool

\* Add and Remove change the map at one key.
LEMMA OneKeyChanges ==
  ASSUME PoolInv, NEW k \in Key, NEW n \in Entry \cup {NoEntry},
         entries' = [entries EXCEPT ![k] = n]
  PROVE  \A f \in Entry : InPool(f)' <=> f = n \/ (InPool(f) /\ f \notin Existing(k))
<1> TAKE f \in Entry
<1>1. /\ entries \in [Key -> Entry \cup {NoEntry}] /\ f # NoEntry
      /\ Existing(k) = {entries[k]} \ {NoEntry}
  BY PoolAssumption DEF PoolInv, PoolTypeOK, Existing
<1>2. /\ entries'[k] = n
      /\ \A j \in Key : j # k => entries'[j] = entries[j]
  BY <1>1
<1>3. \A j \in Key : j # k /\ entries[j] = f => entries[k] # f
  BY <1>1 DEF PoolInv, MapByKey
<1> QED  BY <1>1, <1>2, <1>3 DEF InPool

\* A new pool satisfies the invariant.
LEMMA InitPoolInv == PoolInit => PoolInv
BY PoolAssumption
DEF PoolInit, PoolInv, PoolTypeOK, MapByKey, FlagMatches, NoOrphanSubConn,
    SubConnEntry, NewEntry, Health, ConnState, DrainState, InPool, Draining

\* Add keeps it, with or without an eviction.
LEMMA AddPoolInv ==
  ASSUME PoolInv, NEW k \in Key, NEW e \in Entry, Add(k, e)
  PROVE  PoolInv'
<1>1. /\ ~InPool(e) /\ ~Draining(e)
      /\ \A f \in Entry : f \in Existing(k) => InPool(f) /\ ~Draining(f)
  BY DEF PoolInv, NoOrphanSubConn, Add, PoolTypeOK, Existing, InPool
<1>2. \A f \in Entry : f # e /\ f \notin Existing(k) => (InPool(f)' <=> InPool(f))
  BY PoolAssumption DEF Add, PoolInv, PoolTypeOK, InPool, Existing
<1>3. \A f \in Existing(k) : ~InPool(f)'
  BY <1>1, EntryAtItsKey DEF Add, PoolInv, PoolTypeOK, MapByKey, InPool, Existing
<1>4. InPool(e)'
  BY DEF Add, PoolInv, PoolTypeOK, InPool
<1>5. \A f \in Entry : Draining(f)' <=> Draining(f)
  BY DEF Add, Draining
<1>6. \A f \in Entry : f # e => sce'[f] = sce[f]
  BY DEF Add, PoolInv, PoolTypeOK
<1>7. sce'[e] = NewEntry(k)
  BY DEF Add, PoolInv, PoolTypeOK
<1>8. PoolTypeOK'
  <2>1. NewEntry(k) \in SubConnEntry
    BY DEF NewEntry, SubConnEntry, Health, ConnState
  <2>2. Probes(Existing(k)) \subseteq Checker
    BY DEF PoolInv, PoolTypeOK, Probes, Existing, SubConnEntry
  <2> QED  BY <2>1, <2>2 DEF Add, PoolInv, PoolTypeOK
<1>9. MapByKey'
  BY <1>1, <1>6, <1>7 DEF Add, PoolInv, PoolTypeOK, MapByKey, InPool, NewEntry
<1>10. FlagMatches'
  BY <1>1, <1>2, <1>3, <1>4, <1>5, <1>6, <1>7 DEF PoolInv, FlagMatches, NewEntry
<1>11. NoOrphanSubConn'
  BY <1>1, <1>2, <1>3, <1>4, <1>5 DEF Add, PoolInv, PoolTypeOK, NoOrphanSubConn
<1> QED  BY <1>8, <1>9, <1>10, <1>11 DEF PoolInv

\* Add keeps it when NewSubConn fails.
LEMMA AddFailsPoolInv ==
  ASSUME PoolInv, NEW k \in Key, AddFails(k)
  PROVE  PoolInv'
<1>1. \A f \in Entry : f \in Existing(k) => InPool(f) /\ ~Draining(f)
  BY DEF PoolInv, NoOrphanSubConn, PoolTypeOK, Existing, InPool
<1>2. \A f \in Entry : f \notin Existing(k) => (InPool(f)' <=> InPool(f))
  BY PoolAssumption DEF AddFails, PoolInv, PoolTypeOK, InPool, Existing
<1>3. \A f \in Existing(k) : ~InPool(f)'
  BY <1>1, EntryAtItsKey DEF AddFails, PoolInv, PoolTypeOK, MapByKey, InPool, Existing
<1>4. \A f \in Entry : Draining(f)' <=> Draining(f)
  BY DEF AddFails, Draining
<1>5. PoolTypeOK'
  <2>1. Probes(Existing(k)) \subseteq Checker
    BY DEF PoolInv, PoolTypeOK, Probes, Existing, SubConnEntry
  <2> QED  BY <2>1 DEF AddFails, PoolInv, PoolTypeOK
<1>6. MapByKey'
  BY DEF AddFails, PoolInv, PoolTypeOK, MapByKey
<1>7. FlagMatches'
  BY <1>2, <1>3, <1>4 DEF AddFails, PoolInv, FlagMatches
<1>8. NoOrphanSubConn'
  BY <1>1, <1>2, <1>3, <1>4 DEF AddFails, PoolInv, PoolTypeOK, NoOrphanSubConn
<1> QED  BY <1>5, <1>6, <1>7, <1>8 DEF PoolInv

\* Remove keeps it: the entry passes from the map to its drain goroutine.
LEMMA RemovePoolInv ==
  ASSUME PoolInv, NEW k \in Key, Remove(k)
  PROVE  PoolInv'
<1>0. PICK e \in Entry : e = entries[k]
  BY DEF Remove, PoolInv, PoolTypeOK
<1>1. e # NoEntry /\ InPool(e) /\ Existing(k) = {e}
  BY <1>0, EntryInMap DEF Remove, PoolInv
<1>2. subConn[e] = "open" /\ ~Draining(e) /\ sce[e].key = k
  BY <1>0, <1>1 DEF PoolInv, NoOrphanSubConn, MapByKey, Remove
<1>3. \A f \in Entry : f # e => (InPool(f)' <=> InPool(f))
  BY <1>0, <1>1, PoolAssumption DEF Remove, PoolInv, PoolTypeOK, InPool
<1>4. ~InPool(e)'
  BY <1>0, <1>1, <1>2, EntryAtItsKey, PoolAssumption
  DEF Remove, PoolInv, PoolTypeOK, InPool, MapByKey
<1>5. Draining(e)' /\ \A f \in Entry : f # e => (Draining(f)' <=> Draining(f))
  BY <1>0, <1>1 DEF Remove, PoolInv, PoolTypeOK, Draining
<1>6. /\ sce'[e] = [sce[e] EXCEPT !.draining = TRUE]
      /\ \A f \in Entry : f # e => sce'[f] = sce[f]
  BY <1>0, <1>1 DEF Remove, PoolInv, PoolTypeOK
<1>7. PoolTypeOK'
  <2>1. Probes(Existing(k)) \subseteq Checker
    BY DEF PoolInv, PoolTypeOK, Probes, Existing, SubConnEntry
  <2>2. sce' \in [Entry -> SubConnEntry]
    <3>1. sce' = [sce EXCEPT ![e] = [sce[e] EXCEPT !.draining = TRUE]]
      BY <1>0 DEF Remove
    <3>2. sce \in [Entry -> SubConnEntry]
      BY DEF PoolInv, PoolTypeOK
    <3>3. [sce[e] EXCEPT !.draining = TRUE] \in SubConnEntry
      BY <3>2 DEF SubConnEntry
    <3> QED  BY <3>1, <3>2, <3>3
  <2> QED  BY <2>1, <2>2, <1>1 DEF Remove, PoolInv, PoolTypeOK, DrainState
<1>8. MapByKey'
  BY <1>0, <1>1, <1>2, <1>6 DEF Remove, PoolInv, PoolTypeOK, MapByKey, SubConnEntry
<1>9. FlagMatches'
  BY <1>0, <1>1, <1>3, <1>4, <1>5, <1>6 DEF PoolInv, PoolTypeOK, FlagMatches, SubConnEntry
<1>10. NoOrphanSubConn'
  BY <1>0, <1>1, <1>2, <1>3, <1>4, <1>5 DEF Remove, PoolInv, NoOrphanSubConn
<1> QED  BY <1>7, <1>8, <1>9, <1>10 DEF PoolInv

\* The drain goroutine keeps it.
LEMMA DrainPoolInv ==
  ASSUME PoolInv, NEW e \in Entry, DrainTick(e) \/ DrainDeadline(e) \/ DrainClose(e)
  PROVE  PoolInv'
<1>1. Draining(e) /\ ~InPool(e)
  BY DEF DrainTick, DrainDeadline, DrainClose, Draining, PoolInv, NoOrphanSubConn
<1>2. UNCHANGED <<entries, sce>> /\ \A f \in Entry : InPool(f)' <=> InPool(f)
  BY DEF DrainTick, DrainDeadline, DrainClose, InPool
<1>3. \A f \in Entry : f # e => drainer'[f] = drainer[f] /\ subConn'[f] = subConn[f]
  BY DEF DrainTick, DrainDeadline, DrainClose, PoolInv, PoolTypeOK
<1>4. PoolTypeOK'
  BY DEF DrainTick, DrainDeadline, DrainClose, PoolInv, PoolTypeOK, DrainState
<1>5. subConn'[e] = "open" <=> Draining(e)'
  BY <1>1 DEF DrainTick, DrainDeadline, DrainClose, PoolInv, PoolTypeOK,
              NoOrphanSubConn, Draining
<1>6. MapByKey' /\ FlagMatches'
  BY <1>1, <1>2, <1>3 DEF PoolInv, MapByKey, FlagMatches, Draining
<1>7. NoOrphanSubConn'
  BY <1>1, <1>2, <1>3, <1>5 DEF PoolInv, NoOrphanSubConn, Draining
<1> QED  BY <1>4, <1>6, <1>7 DEF PoolInv

\* Any write to the entries that leaves key and draining flag alone keeps it.
LEMMA TablePoolInv ==
  ASSUME PoolInv, UNCHANGED <<entries, subConn, drainer>>, cancelled' \subseteq Checker,
         sce' \in [Entry -> SubConnEntry],
         \A e \in Entry : sce'[e].key = sce[e].key /\ sce'[e].draining = sce[e].draining
  PROVE  PoolInv'
<1>1. \A e \in Entry : (InPool(e)' <=> InPool(e)) /\ (Draining(e)' <=> Draining(e))
  BY DEF InPool, Draining
<1>2. PoolTypeOK'
  BY DEF PoolInv, PoolTypeOK
<1>3. MapByKey'
  BY DEF PoolInv, PoolTypeOK, MapByKey
<1>4. FlagMatches' /\ NoOrphanSubConn'
  BY <1>1 DEF PoolInv, FlagMatches, NoOrphanSubConn
<1> QED  BY <1>2, <1>3, <1>4 DEF PoolInv

(***************************************************************************)
(* The writers of one field, as TablePoolInv needs them.                   *)
(***************************************************************************)
SameShape(t, u) ==
  /\ u \in [Entry -> SubConnEntry]
  /\ \A e \in Entry : u[e].key = t[e].key /\ u[e].draining = t[e].draining

LEMMA WithConnStateShape ==
  ASSUME PoolTypeOK, NEW t \in [Entry -> SubConnEntry], NEW k \in Key, NEW s \in ConnState
  PROVE  SameShape(t, WithConnState(t, k, s))
BY DEF PoolTypeOK, SameShape, WithConnState, SubConnEntry

LEMMA WithHealthShape ==
  ASSUME PoolTypeOK, NEW t \in [Entry -> SubConnEntry], NEW k \in Key, NEW h \in Health
  PROVE  SameShape(t, WithHealth(t, k, h))
BY DEF PoolTypeOK, SameShape, WithHealth, SubConnEntry

LEMMA AddInFlightShape ==
  ASSUME NEW t \in [Entry -> SubConnEntry], NEW e \in Entry, NEW d \in Int
  PROVE  SameShape(t, AddInFlight(t, e, d))
BY DEF SameShape, AddInFlight, SubConnEntry

LEMMA HealthCancelShape ==
  ASSUME NEW t \in [Entry -> SubConnEntry], NEW e \in Entry,
         NEW c \in Checker \cup {NoChecker}
  PROVE  SameShape(t, [t EXCEPT ![e].healthCancel = c])
BY DEF SameShape, SubConnEntry

(***************************************************************************)
(* Every operation is a step of SubConnLifecycle, or leaves it alone.      *)
(***************************************************************************)
LEMMA InitLifecycle == PoolInit => Lifecycle!Init
BY DEF PoolInit, Lifecycle!Init, Phase, Existing

\* What the lifecycle sees of an entry whose SubConn and flag stay.
LEMMA SamePhase ==
  ASSUME NEW e \in Entry, subConn'[e] = subConn[e], sce'[e].draining = sce[e].draining
  PROVE  Phase(e)' = Phase(e)
BY DEF Phase

LEMMA AddLifecycle ==
  ASSUME PoolInv, NEW k \in Key, NEW e \in Entry, Add(k, e)
  PROVE  Lifecycle!Create(e, k)
<1>1. \A f \in Entry : f # e => sce'[f] = sce[f]
  BY DEF Add, PoolInv, PoolTypeOK
<1>2. /\ subConn'[e] = "open" /\ ~sce'[e].draining
      /\ \A f \in Entry : f # e =>
           subConn'[f] = IF f \in Existing(k) THEN "shutdown" ELSE subConn[f]
  BY DEF Add, PoolInv, PoolTypeOK, NewEntry
<1>3. Phase(e) = "unborn"
  BY DEF Add, Phase
<1>4. \A f \in Entry : Phase(f)' = IF f = e THEN "live"
                                   ELSE IF f \in Existing(k) THEN "closed" ELSE Phase(f)
  BY <1>1, <1>2 DEF Phase
<1>5. \A j \in Key : Existing(j)' = IF j = k THEN {e} ELSE Existing(j)
  BY PoolAssumption DEF Add, PoolInv, PoolTypeOK, Existing
<1> QED  BY <1>3, <1>4, <1>5 DEF Lifecycle!Create

LEMMA AddFailsLifecycle ==
  ASSUME PoolInv, NEW k \in Key, AddFails(k)
  PROVE  Lifecycle!Drop(k)
<1>1. \A f \in Entry : Phase(f)' = IF f \in Existing(k) THEN "closed" ELSE Phase(f)
  BY DEF AddFails, Phase
<1>2. \A j \in Key : Existing(j)' = IF j = k THEN {} ELSE Existing(j)
  BY DEF AddFails, PoolInv, PoolTypeOK, Existing
<1> QED  BY <1>1, <1>2 DEF Lifecycle!Drop

LEMMA RemoveLifecycle ==
  ASSUME PoolInv, NEW k \in Key, Remove(k)
  PROVE  \E e \in Entry : Lifecycle!Retire(e, k)
<1>1. PICK e \in Entry : e = entries[k]
  BY DEF Remove, PoolInv, PoolTypeOK
<1>2. Existing(k) = {e} /\ subConn[e] = "open"
  BY <1>1, EntryInMap DEF Remove, PoolInv, NoOrphanSubConn
<1>3. sce'[e].draining /\ \A f \in Entry : f # e => sce'[f] = sce[f]
  BY <1>1 DEF Remove, PoolInv, PoolTypeOK, SubConnEntry
<1>4. \A f \in Entry : Phase(f)' = IF f = e THEN "draining" ELSE Phase(f)
  BY <1>2, <1>3 DEF Remove, Phase
<1>5. \A j \in Key : Existing(j)' = IF j = k THEN {} ELSE Existing(j)
  BY DEF Remove, PoolInv, PoolTypeOK, Existing
<1>6. Lifecycle!Retire(e, k)
  BY <1>2, <1>4, <1>5 DEF Lifecycle!Retire
<1> QED  BY <1>6

LEMMA DrainLifecycle ==
  ASSUME PoolInv, NEW e \in Entry, DrainTick(e) \/ DrainDeadline(e) \/ DrainClose(e)
  PROVE  Lifecycle!Close(e) \/ UNCHANGED Lifecycle!vars
<1>1. Draining(e)
  BY DEF DrainTick, DrainDeadline, DrainClose, Draining
<1>2. Phase(e) = "draining"
  BY <1>1 DEF PoolInv, NoOrphanSubConn, FlagMatches, Phase
<1>3. \A j \in Key : Existing(j)' = Existing(j)
  BY DEF DrainTick, DrainDeadline, DrainClose, Existing
<1>4. CASE DrainTick(e) \/ DrainDeadline(e)
  <2>1. \A f \in Entry : Phase(f)' = Phase(f)
    BY <1>4 DEF DrainTick, DrainDeadline, Phase
  <2> QED  BY <1>3, <2>1 DEF Lifecycle!vars
<1>5. CASE DrainClose(e)
  <2>1. \A f \in Entry : Phase(f)' = IF f = e THEN "closed" ELSE Phase(f)
    BY <1>5 DEF DrainClose, Phase, PoolInv, PoolTypeOK
  <2> QED  BY <1>2, <1>3, <2>1 DEF Lifecycle!Close
<1> QED  BY <1>4, <1>5

LEMMA TableLifecycle ==
  ASSUME UNCHANGED <<entries, subConn>>,
         \A e \in Entry : sce'[e].draining = sce[e].draining
  PROVE  UNCHANGED Lifecycle!vars
<1>1. \A e \in Entry : Phase(e)' = Phase(e)
  BY SamePhase
<1>2. \A k \in Key : Existing(k)' = Existing(k)
  BY DEF Existing
<1> QED  BY <1>1, <1>2 DEF Lifecycle!vars

\* One SubConn per key follows from the invariant.
LEMMA PoolInvOnePerKey == PoolInv => OneSubConnPerKey
BY EntryAtItsKey DEF PoolInv, NoOrphanSubConn, OneSubConnPerKey
=============================================================================
