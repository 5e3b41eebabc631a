-------------------------- MODULE K8sResolverProofs --------------------------
(***************************************************************************)
(* The grace window under the watcher, for any window, time-outs, slices   *)
(* and informers: when the window is over, when it warns, and that a check *)
(* is pending for its end.  The watcher: its types, the endpoints it       *)
(* extracts, that Close leaves no informer running, and what is published  *)
(* after a synchronisation.                                                *)
(***************************************************************************)
EXTENDS K8sResolver, Recursion

(***************************************************************************)
(* The ages.  The state machine keeps the beginning of the outage that is  *)
(* reported.  It knows the last warning, or has forgotten it in a          *)
(* reconnection since; then the outage of now began after the warning.     *)
(***************************************************************************)
AgeType == {disconnectedAge, warnAge, logAge, outageAge} \subseteq Age \cup {Never}

OutageKnown == disconnectedAge = outageAge

WarningKnown ==
  /\ warnAge # Never => logAge = warnAge
  /\ warnAge = Never /\ logAge # Never /\ outageAge # Never => outageAge <= logAge

GraceInv == AgeType /\ OutageKnown /\ WarningKnown

LEMMA InitGraceInv == GraceInit => GraceInv
BY GraceAssumption DEF GraceInit, GraceInv, AgeType, OutageKnown, WarningKnown

LEMMA ZeroAge == 0 \in Age /\ Never \notin Age /\ GraceWindow \in Age
BY GraceAssumption DEF Age

\* A snapshot of either kind.
LEMMA ConnectedGrace ==
  ASSUME GraceInv, NEW E, Connected(E)
  PROVE  GraceInv'
BY ZeroAge DEF Connected, GraceInv, AgeType, OutageKnown, WarningKnown, Age

LEMMA OutageGoesOnGrace ==
  ASSUME GraceInv, OutageGoesOn
  PROVE  GraceInv'
BY ZeroAge
DEF OutageGoesOn, OutageNoted, Elapsed, GraceInv, AgeType, OutageKnown, WarningKnown, Age

\* The end of the window.  A warning that is given is not too early: the state
\* machine knows the last one, or the outage that now ends its window, and so
\* the whole of that window, came after it.
LEMMA WarnsGrace ==
  ASSUME GraceInv, MaybeLogWarn, disconnectedAge' = GraceWindow, outageAge' = GraceWindow,
         outageAge = GraceWindow \/ (outageAge = Never /\ GraceWindow = 0)
  PROVE  GraceInv' /\ (warns' # warns => logAge \in {Never, GraceWindow})
<1>1. outageAge = GraceWindow \/ (outageAge = Never /\ GraceWindow = 0)
  OBVIOUS
<1>2. CASE warnAge \in {Never, GraceWindow}
  <2>1. warnAge' = 0 /\ logAge' = 0
    BY <1>2 DEF MaybeLogWarn
  <2>2. GraceInv'
    BY <1>1, <2>1, ZeroAge, GraceAssumption
    DEF GraceInv, AgeType, OutageKnown, WarningKnown
  <2>3. logAge \in {Never, GraceWindow}
    BY <1>1, <1>2, GraceAssumption DEF GraceInv, AgeType, WarningKnown, Age
  <2> QED  BY <1>1, <2>2, <2>3
<1>3. CASE warnAge \notin {Never, GraceWindow}
  <2>1. UNCHANGED <<warns, logAge, warnAge>>
    BY <1>3 DEF MaybeLogWarn
  <2>2. GraceInv'
    BY <1>1, <2>1, ZeroAge, GraceAssumption
    DEF GraceInv, AgeType, OutageKnown, WarningKnown, Age
  <2> QED  BY <1>1, <2>1, <2>2
<1> QED  BY <1>2, <1>3

LEMMA OlderAge ==
  ASSUME NEW a \in Age \cup {Never}
  PROVE  /\ Older(a) \in Age \cup {Never} /\ (Older(a) = Never <=> a = Never)
         /\ \A b \in Age : a # Never /\ a <= b => Older(a) <= Older(b)
BY GraceAssumption DEF Older, Age

LEMMA TickGrace ==
  ASSUME GraceInv, GraceTick
  PROVE  GraceInv'
<1>1. /\ disconnectedAge \in Age \cup {Never} /\ warnAge \in Age \cup {Never}
      /\ logAge \in Age \cup {Never} /\ outageAge \in Age \cup {Never}
  BY DEF GraceInv, AgeType
<1>2. /\ disconnectedAge' = Older(disconnectedAge) /\ warnAge' = Older(warnAge)
      /\ logAge' = Older(logAge) /\ outageAge' = Older(outageAge)
  BY DEF GraceTick
<1>3. AgeType'
  BY <1>1, <1>2, OlderAge DEF AgeType
<1>4. OutageKnown'
  BY <1>1, <1>2, OlderAge, ZeroAge DEF GraceInv, OutageKnown
<1>5. WarningKnown'
  BY <1>1, <1>2, OlderAge, ZeroAge DEF GraceInv, WarningKnown
<1> QED  BY <1>3, <1>4, <1>5 DEF GraceInv

(***************************************************************************)
(* What a step of the resolver does to the grace window.                   *)
(***************************************************************************)
LEMMA GraceSteps ==
  ASSUME Next
  PROVE  \/ \E E : Connected(E)
         \/ Disconnected
         \/ CheckActs
         \/ GraceTick
         \/ UNCHANGED <<smState, disconnectedAge, warnAge, warns, logAge, outageAge>>
<1>1. CASE SendFirst \/ \E g \in Gen : HandlerSend(g)
  BY <1>1 DEF SendFirst, HandlerSend
<1>2. CASE ReportDisconnected
  BY <1>2 DEF ReportDisconnected
<1>3. CASE GraceCheck
  BY <1>3 DEF GraceCheck, CheckReturns, CheckCancelled
<1>4. CASE Tick
  BY <1>4 DEF Tick
<1>5. CASE Start \/ Synced \/ ReadStore \/ SyncFails \/ Reconnect \/ Quit
  BY <1>5 DEF Start, Synced, ReadStore, SyncFails, Reconnect, Quit, Watch, graceVars
<1>6. CASE \E g \in Gen : \/ List(g) \/ (\E s \in Slice : Pop(g, s) \/ WatchEvent(g, s))
                          \/ HandlerRead(g) \/ HandlerDrop(g)
  <2>1. UNCHANGED graceVars
    BY <1>6 DEF List, Pop, WatchEvent, HandlerRead, HandlerDrop
  <2> QED  BY <2>1 DEF graceVars
<1>7. CASE \/ Close \/ CloseReturns \/ Reachability
           \/ \E s \in Slice, v \in SliceValue \cup {Absent} : Change(s, v)
  BY <1>7 DEF Close, CloseReturns, Reachability, Change, graceVars
<1> QED
  BY <1>1, <1>2, <1>3, <1>4, <1>5, <1>6, <1>7 DEF Next, RunStep, InformerStep

\* The end of the window is like WarnsGrace, whoever finds it.
LEMMA WindowOver ==
  ASSUME GraceInv, OutageTooLong \/ CheckActs
  PROVE  /\ GraceInv'
         /\ outageAge' = GraceWindow
         /\ warns' # warns => logAge \in {Never, GraceWindow}
<1>1. CASE OutageTooLong
  <2>1. /\ MaybeLogWarn /\ disconnectedAge' = GraceWindow /\ outageAge' = GraceWindow
        /\ outageAge = GraceWindow \/ (outageAge = Never /\ GraceWindow = 0)
    BY <1>1, GraceAssumption DEF OutageTooLong, OutageNoted, Elapsed, GraceInv, OutageKnown
  <2> QED  BY <2>1, WarnsGrace
<1>2. CASE CheckActs
  <2>1. /\ MaybeLogWarn /\ disconnectedAge' = GraceWindow
        /\ outageAge' = GraceWindow /\ outageAge = GraceWindow
    BY <1>2 DEF CheckActs, GraceInv, OutageKnown
  <2> QED  BY <2>1, WarnsGrace
<1> QED  BY <1>1, <1>2

LEMMA NextGraceInv == GraceInv /\ [Next]_vars => GraceInv'
<1> SUFFICES ASSUME GraceInv, [Next]_vars PROVE GraceInv'
  OBVIOUS
<1>1. CASE \/ UNCHANGED vars
           \/ UNCHANGED <<smState, disconnectedAge, warnAge, warns, logAge, outageAge>>
  BY <1>1 DEF vars, graceVars, GraceInv, AgeType, OutageKnown, WarningKnown
<1> QED
  BY <1>1, GraceSteps, ConnectedGrace, OutageGoesOnGrace, WindowOver, TickGrace
  DEF Disconnected

LEMMA GraceInvariant == Spec => []GraceInv
<1>1. Init => GraceInv
  BY InitGraceInv DEF Init
<1> QED  BY <1>1, NextGraceInv, PTL DEF Spec

\* What happens at the end of a window, and only there.
LEMMA OnlyWindowOver ==
  ASSUME GraceInv, [Next]_vars,
         warns' # warns \/ (smState' = "InGraceWindow" /\ smState # "InGraceWindow")
  PROVE  OutageTooLong \/ CheckActs
<1>1. ~ UNCHANGED <<smState, disconnectedAge, warnAge, warns, logAge, outageAge>>
  OBVIOUS
<1>2. Next
  BY <1>1 DEF vars, graceVars
<1>3. ~ (\E E : Connected(E)) /\ ~ OutageGoesOn /\ ~ GraceTick
  BY DEF Connected, OutageGoesOn, GraceTick
<1> QED  BY <1>1, <1>2, <1>3, GraceSteps DEF Disconnected

\* Warnings are a window apart over the whole run, although a reconnection makes
\* the state machine forget the last one (R8.5).
THEOREM WarnsApart == Spec => WarnsSpaced
<1>1. GraceInv /\ [Next]_vars =>
        [warns' # warns => logAge \in {Never, GraceWindow}]_graceVars
  BY OnlyWindowOver, WindowOver
<1> QED  BY <1>1, GraceInvariant, PTL DEF Spec, WarnsSpaced

\* The resolver falls back on the last endpoints only when the outage, from its first
\* Disconnected snapshot on, has lasted a whole window; so also when nothing has synced
\* before, and whatever checks of an earlier outage are still to come (R8.5).
THEOREM WindowNotEarly == Spec => GraceNotEarly
<1>1. GraceInv /\ [Next]_vars =>
        [smState' = "InGraceWindow" /\ smState # "InGraceWindow"
           => outageAge' = GraceWindow]_graceVars
  BY OnlyWindowOver, WindowOver
<1> QED  BY <1>1, GraceInvariant, PTL DEF Spec, GraceNotEarly

(***************************************************************************)
(* After a synchronisation.  run reports an outage before it has synced    *)
(* only, and a check acts in an outage only.                               *)
(***************************************************************************)
RunRecord == run = [at |-> run.at, gen |-> run.gen, timer |-> run.timer, held |-> run.held]

SyncedStaysConnected == run.at = "watching" => smState = "Connected"

SyncInv == RunRecord /\ SyncedStaysConnected

LEMMA NextSyncInv == SyncInv /\ [Next]_vars => SyncInv'
<1> SUFFICES ASSUME SyncInv, [Next]_vars PROVE SyncInv'
  OBVIOUS
<1> USE DEF SyncInv, RunRecord, SyncedStaysConnected
<1>1. CASE SendFirst
  BY <1>1 DEF SendFirst, Connected
<1>2. CASE \E g \in Gen : HandlerSend(g)
  BY <1>2 DEF HandlerSend, Connected
<1>3. CASE ReportDisconnected
  BY <1>3 DEF ReportDisconnected
<1>4. CASE GraceCheck
  BY <1>4 DEF GraceCheck, CheckActs, CheckReturns, CheckCancelled, watchVars
<1>5. CASE Tick
  BY <1>5 DEF Tick, GraceTick
<1>6. CASE Start \/ Synced \/ ReadStore \/ SyncFails \/ Reconnect \/ Quit
  BY <1>6 DEF Start, Synced, ReadStore, SyncFails, Reconnect, Quit, Watch
<1>7. CASE \E g \in Gen : \/ List(g) \/ (\E s \in Slice : Pop(g, s) \/ WatchEvent(g, s))
                          \/ HandlerRead(g) \/ HandlerDrop(g)
  <2>1. UNCHANGED <<graceVars, run>>
    BY <1>7 DEF List, Pop, WatchEvent, HandlerRead, HandlerDrop
  <2> QED  BY <2>1 DEF graceVars
<1>8. CASE \/ Close \/ CloseReturns \/ Reachability
           \/ \E s \in Slice, v \in SliceValue \cup {Absent} : Change(s, v)
  BY <1>8 DEF Close, CloseReturns, Reachability, Change, graceVars
<1>9. CASE UNCHANGED vars
  BY <1>9 DEF vars, watchVars, graceVars
<1> QED
  BY <1>1, <1>2, <1>3, <1>4, <1>5, <1>6, <1>7, <1>8, <1>9 DEF Next, RunStep, InformerStep

LEMMA InitSyncInv == Init => SyncInv
BY DEF Init, SyncInv, RunRecord, SyncedStaysConnected

(***************************************************************************)
(* What is read from a store.                                              *)
(***************************************************************************)
Store == [Slice -> SliceValue \cup {Absent}]

\* The port is that of the first match, if there is one.
LEMMA MatchPortFacts ==
  ASSUME NEW v \in SliceValue, NEW e \in v.endpoints
  PROVE  \A n : n # 0 =>
           (n = MatchPort(v.ports) <=>
              \E i \in DOMAIN v.ports :
                /\ n = v.ports[i].number /\ PortMatches(v.ports[i])
                /\ \A j \in DOMAIN v.ports : PortMatches(v.ports[j]) => i <= j)
<1> DEFINE ports == v.ports
           M == {i \in DOMAIN ports : PortMatches(ports[i])}
           first == CHOOSE i \in M : \A j \in M : i <= j
<1>1. M \subseteq Nat
  BY SliceAssumption
<1>2. MatchPort(ports) = IF M = {} THEN 0 ELSE ports[first].number
  BY DEF MatchPort
<1>3. ASSUME M # {}
      PROVE  /\ first \in M /\ first \in Nat /\ \A j \in M : first <= j
             /\ MatchPort(ports) = ports[first].number
  <2>1. \E i \in M : \A j \in M : i <= j
    <3> HIDE DEF M
    <3> QED  BY <1>1, <1>3, LeastNat
  <2> QED  BY <1>1, <1>2, <1>3, <2>1
<1> HIDE DEF first
<1>4. ASSUME NEW n, n # 0, n = MatchPort(ports)
      PROVE  \E i \in DOMAIN ports :
               /\ n = ports[i].number /\ PortMatches(ports[i])
               /\ \A j \in DOMAIN ports : PortMatches(ports[j]) => i <= j
  BY <1>2, <1>3, <1>4
<1>5. ASSUME NEW n, NEW i \in DOMAIN ports,
             n = ports[i].number, PortMatches(ports[i]),
             \A j \in DOMAIN ports : PortMatches(ports[j]) => i <= j
      PROVE  n = MatchPort(ports)
  <2>1. i \in M /\ i \in Nat
    BY <1>1, <1>5
  <2>2. first <= i /\ i <= first
    BY <1>3, <1>5, <2>1
  <2>3. first = i
    BY <1>3, <2>1, <2>2
  <2> QED  BY <1>3, <1>5, <2>1, <2>3
<1> QED  BY <1>4, <1>5

\* The endpoints read are those the target should have, whatever the slices say
\* (watcher.go, extractEndpoints; R3.2, R3.3, R3.7).
THEOREM ExtractsWanted == \A store \in Store : ExtractEndpoints(store) = Wanted(store)
<1> SUFFICES ASSUME NEW store \in Store PROVE ExtractEndpoints(store) = Wanted(store)
  OBVIOUS
<1> DEFINE From(s) == {<<a, MatchPort(store[s].ports)>> :
                         a \in UNION {e.addresses : e \in {f \in store[s].endpoints : Usable(f)}}}
<1>1. ExtractEndpoints(store)
        = UNION {From(s) : s \in {t \in Slice : store[t] # Absent /\ MatchPort(store[t].ports) # 0}}
  BY DEF ExtractEndpoints
<1> HIDE DEF From
<1>2. ASSUME NEW p \in ExtractEndpoints(store) PROVE p \in Wanted(store)
  <2>1. PICK s \in Slice : store[s] # Absent /\ MatchPort(store[s].ports) # 0 /\ p \in From(s)
    <3>1. PICK X \in {From(s) : s \in {t \in Slice : /\ store[t] # Absent
                                                   /\ MatchPort(store[t].ports) # 0}} : p \in X
      BY <1>1, <1>2
    <3> QED  BY <3>1
  <2>2. PICK e \in store[s].endpoints :
          Usable(e) /\ \E a \in e.addresses : p = <<a, MatchPort(store[s].ports)>>
    BY <2>1 DEF From
  <2> PICK a \in e.addresses : p = <<a, MatchPort(store[s].ports)>>
    BY <2>2
  <2>3. store[s] \in SliceValue
    BY <2>1 DEF Store
  <2>4. PICK i \in DOMAIN store[s].ports :
          /\ MatchPort(store[s].ports) = store[s].ports[i].number /\ PortMatches(store[s].ports[i])
          /\ \A j \in DOMAIN store[s].ports : PortMatches(store[s].ports[j]) => i <= j
    BY <2>1, <2>3, MatchPortFacts
  <2>5. /\ p \in Endpoint /\ p[1] = a /\ p[2] = MatchPort(store[s].ports)
        /\ e.ready \in {"unset", "true"} /\ e.terminating \in {"unset", "false"}
    BY <2>2, <2>3, <2>4, SliceAssumption DEF Usable
  <2> QED  BY <2>1, <2>2, <2>4, <2>5 DEF Wanted
<1>3. ASSUME NEW p \in Wanted(store) PROVE p \in ExtractEndpoints(store)
  <2>1. p \in Endpoint /\ p = <<p[1], p[2]>> /\ p[2] # 0
    BY <1>3, SliceAssumption DEF Wanted
  <2>2. PICK s \in Slice :
          /\ store[s] # Absent
          /\ \E e \in store[s].endpoints :
               /\ p[1] \in e.addresses
               /\ e.ready \in {"unset", "true"} /\ e.terminating \in {"unset", "false"}
          /\ \E i \in DOMAIN store[s].ports :
               /\ p[2] = store[s].ports[i].number /\ PortMatches(store[s].ports[i])
               /\ \A j \in DOMAIN store[s].ports : PortMatches(store[s].ports[j]) => i <= j
    BY <1>3 DEF Wanted
  <2> PICK e \in store[s].endpoints :
        /\ p[1] \in e.addresses
        /\ e.ready \in {"unset", "true"} /\ e.terminating \in {"unset", "false"}
    BY <2>2
  <2>3. Usable(e)
    BY <2>2 DEF Usable
  <2>4. store[s] \in SliceValue
    BY <2>2 DEF Store
  <2>5. p[2] = MatchPort(store[s].ports)
    BY <2>1, <2>2, <2>4, MatchPortFacts
  <2>6. p \in From(s)
    BY <2>1, <2>2, <2>3, <2>5 DEF From
  <2> QED  BY <1>1, <2>1, <2>2, <2>5, <2>6
<1> QED  BY <1>2, <1>3

(***************************************************************************)
(* Types.                                                                  *)
(***************************************************************************)
Held == {<<>>} \cup {<<E>> : E \in SUBSET Endpoint}

InformerRecord == [state : {"new", "running", "stopped"}, listed : BOOLEAN, list : Store,
                   store : Store, pending : Nat, held : Held]

RunType == [at : RunState, gen : Gen, timer : Nat, held : Held]

WatchType ==
  /\ api \in BOOLEAN /\ cancelled \in BOOLEAN
  /\ slices \in Store /\ changes \in 0..MaxChanges
  /\ run \in RunType /\ (run.at = "sending" => run.held # <<>>)
  /\ informer \in [Gen -> InformerRecord]
  /\ closer \in {"open", "waiting", "returned"}

TypeInv == GraceTypeOK /\ WatchType

LEMMA HeldFacts ==
  /\ <<>> \in Held
  /\ \A E \in SUBSET Endpoint : <<E>> \in Held
  /\ \A h \in Held : h # <<>> => Head(h) \in SUBSET Endpoint
  /\ \A h \in Held : AtMostOneSnapshot(h)
<1>1. \A E \in SUBSET Endpoint : AtMostOneSnapshot(<<E>>) /\ Head(<<E>>) = E
  BY DEF AtMostOneSnapshot
<1>2. AtMostOneSnapshot(<<>>)
  BY DEF AtMostOneSnapshot
<1> QED  BY <1>1, <1>2 DEF Held

LEMMA ExtractType == ASSUME NEW store \in Store PROVE ExtractEndpoints(store) \in SUBSET Endpoint
BY ExtractsWanted DEF Wanted

LEMMA EmptyStore == Empty \in Store
BY DEF Empty, Store

\* The grace window.
LEMMA ConnectedType ==
  ASSUME GraceTypeOK, NEW E \in SUBSET Endpoint, Connected(E) PROVE GraceTypeOK'
BY ZeroAge DEF GraceTypeOK, Connected, Emit, ResolverState

LEMMA MaybeLogWarnType ==
  ASSUME GraceTypeOK, MaybeLogWarn
  PROVE  warns' \in Nat /\ logAge' \in Age \cup {Never} /\ warnAge' \in Age \cup {Never}
BY ZeroAge DEF GraceTypeOK, MaybeLogWarn

LEMMA ChecksType ==
  ASSUME GraceTypeOK
  PROVE  /\ \A d \in Age : [checks EXCEPT ![d] = @ + 1] \in [Age -> Nat]
         /\ \A d \in Age : checks[d] > 0 => [checks EXCEPT ![d] = @ - 1] \in [Age -> Nat]
BY DEF GraceTypeOK

LEMMA DisconnectedType == ASSUME GraceTypeOK, Disconnected PROVE GraceTypeOK'
<1>1. Elapsed \in Age /\ {} \subseteq Endpoint
  BY ZeroAge DEF GraceTypeOK, Elapsed
<1>2. GraceWindow - Elapsed \in Age
  BY <1>1, GraceAssumption DEF Age
<1>3. CASE OutageGoesOn
  BY <1>1, <1>2, <1>3, ChecksType, ZeroAge
  DEF OutageGoesOn, OutageNoted, GraceTypeOK, Emit, ResolverState
<1>4. CASE OutageTooLong
  BY <1>1, <1>4, MaybeLogWarnType, ZeroAge
  DEF OutageTooLong, OutageNoted, GraceTypeOK, Emit, ResolverState
<1> QED  BY <1>3, <1>4 DEF Disconnected

LEMMA GraceCheckType == ASSUME GraceTypeOK, GraceCheck PROVE GraceTypeOK'
<1>1. CASE CheckActs
  BY <1>1, MaybeLogWarnType, ChecksType, ZeroAge
  DEF CheckActs, GraceTypeOK, Emit, ResolverState
<1>2. CASE CheckReturns
  BY <1>2, ChecksType, ZeroAge DEF CheckReturns, GraceTypeOK
<1>3. ASSUME NEW d \in Age, CheckCancelled(d) PROVE GraceTypeOK'
  BY <1>3, ChecksType DEF CheckCancelled, GraceTypeOK
<1> QED  BY <1>1, <1>2, <1>3 DEF GraceCheck

LEMMA WaitedType == ASSUME GraceTypeOK PROVE Waited \in [Age -> Nat]
<1>1. checks \in [Age -> Nat] /\ 0 \in Age
  BY ZeroAge DEF GraceTypeOK
<1>2. ASSUME NEW d \in Age, d < GraceWindow PROVE checks[d + 1] \in Nat
  <2>1. d + 1 \in Age
    BY <1>2, GraceAssumption DEF Age
  <2> QED  BY <1>1, <2>1
<1>3. ASSUME NEW d \in Age
      PROVE  (IF d < GraceWindow THEN checks[d + 1] ELSE 0) + (IF d = 0 THEN checks[0] ELSE 0) \in Nat
  BY <1>1, <1>2
<1> QED  BY <1>3 DEF Waited

LEMMA TickType == ASSUME GraceTypeOK, GraceTick PROVE GraceTypeOK'
BY OlderAge, WaitedType DEF GraceTypeOK, GraceTick

LEMMA InitType == Init => TypeInv
<1> SUFFICES ASSUME Init PROVE TypeInv
  OBVIOUS
<1>1. GraceTypeOK
  BY ZeroAge DEF Init, GraceInit, GraceTypeOK, ResolverState
<1>2. NewInformer \in InformerRecord
  BY EmptyStore, HeldFacts DEF NewInformer, InformerRecord
<1>3. run \in RunType
  BY HeldFacts, ResolverAssumption DEF Init, RunType, RunState, Gen
<1>4. api \in BOOLEAN /\ cancelled \in BOOLEAN
  BY Zenon DEF Init
<1>5. slices \in Store /\ changes \in 0..MaxChanges /\ run.at # "sending"
  BY ResolverAssumption DEF Init, Store
<1>6. informer \in [Gen -> InformerRecord] /\ closer \in {"open", "waiting", "returned"}
  BY <1>2 DEF Init
<1> QED  BY <1>1, <1>3, <1>4, <1>5, <1>6 DEF TypeInv, WatchType

LEMMA SameGraceType == ASSUME TypeInv, UNCHANGED graceVars PROVE GraceTypeOK'
BY DEF TypeInv, GraceTypeOK, graceVars

LEMMA TypeFacts ==
  ASSUME TypeInv
  PROVE  /\ GraceTypeOK /\ run \in RunType /\ (run.at = "sending" => run.held # <<>>)
         /\ informer \in [Gen -> InformerRecord]
         /\ \A g \in Gen : informer[g] \in InformerRecord
         /\ slices \in Store
BY DEF TypeInv, WatchType

\* The informers.
LEMMA InformerRecordType ==
  ASSUME TypeInv, NEW g \in Gen, NEW x \in InformerRecord, informer' = [informer EXCEPT ![g] = x],
         GraceTypeOK', UNCHANGED <<api, slices, changes, run, cancelled, closer>>
  PROVE  TypeInv'
BY DEF TypeInv, WatchType

LEMMA InformerType == ASSUME TypeInv, NEW g \in Gen, InformerStep(g) PROVE TypeInv'
<1> DEFINE i == informer[g]
<1>1. i \in InformerRecord /\ informer \in [Gen -> InformerRecord] /\ slices \in Store
  BY TypeFacts
<1>2. CASE List(g)
  <2> DEFINE x == [i EXCEPT !.listed = TRUE, !.list = slices]
  <2>1. x \in InformerRecord /\ informer' = [informer EXCEPT ![g] = x]
    BY <1>1, <1>2 DEF List, InformerRecord
  <2> QED  BY <1>2, <2>1, InformerRecordType, SameGraceType DEF List
<1>3. ASSUME NEW s \in Slice, Pop(g, s) PROVE TypeInv'
  <2> DEFINE l == [i.list EXCEPT ![s] = Absent]
             t == [i.store EXCEPT ![s] = i.list[s]]
             x == [i EXCEPT !.list = l, !.store = t, !.pending = @ + 1]
  <2>1. l \in Store /\ t \in Store
    BY <1>1 DEF InformerRecord, Store
  <2>2. informer' = [informer EXCEPT ![g] = x]
    BY <1>1, <1>3 DEF Pop, InformerRecord
  <2>3. x \in InformerRecord
    <3> HIDE DEF i, l, t
    <3>1. i.pending + 1 \in Nat
      BY <1>1 DEF InformerRecord
    <3> QED  BY <1>1, <2>1, <3>1 DEF InformerRecord
  <2> QED  BY <1>3, <2>2, <2>3, InformerRecordType, SameGraceType DEF Pop
<1>4. ASSUME NEW s \in Slice, WatchEvent(g, s) PROVE TypeInv'
  <2> DEFINE t == [i.store EXCEPT ![s] = slices[s]]
             x == [i EXCEPT !.store = t, !.pending = @ + 1]
  <2>1. t \in Store
    BY <1>1 DEF InformerRecord, Store
  <2>2. informer' = [informer EXCEPT ![g] = x]
    BY <1>1, <1>4 DEF WatchEvent, InformerRecord
  <2>3. x \in InformerRecord
    <3> HIDE DEF i, t
    <3>1. i.pending + 1 \in Nat
      BY <1>1 DEF InformerRecord
    <3> QED  BY <1>1, <2>1, <3>1 DEF InformerRecord
  <2> QED  BY <1>4, <2>2, <2>3, InformerRecordType, SameGraceType DEF WatchEvent
<1>5. CASE HandlerRead(g)
  <2> DEFINE h == <<ExtractEndpoints(i.store)>>
             x == [i EXCEPT !.pending = @ - 1, !.held = h]
  <2>1. h \in Held /\ i.pending - 1 \in Nat
    BY <1>1, <1>5, ExtractType, HeldFacts DEF HandlerRead, InformerRecord
  <2>2. informer' = [informer EXCEPT ![g] = x]
    BY <1>1, <1>5 DEF HandlerRead
  <2> HIDE DEF h
  <2>3. x \in InformerRecord
    BY <1>1, <2>1 DEF InformerRecord
  <2> QED  BY <1>5, <2>2, <2>3, InformerRecordType, SameGraceType DEF HandlerRead
<1>6. CASE HandlerSend(g)
  <2> DEFINE x == [i EXCEPT !.held = <<>>]
  <2>1. x \in InformerRecord /\ informer' = [informer EXCEPT ![g] = x]
    BY <1>1, <1>6, HeldFacts DEF HandlerSend, InformerRecord
  <2>2. Head(i.held) \in SUBSET Endpoint
    BY <1>1, <1>6, HeldFacts DEF HandlerSend, InformerRecord
  <2>3. GraceTypeOK'
    BY <1>6, <2>2, TypeFacts, ConnectedType DEF HandlerSend
  <2> QED  BY <1>6, <2>1, <2>3, InformerRecordType DEF HandlerSend
<1>7. CASE HandlerDrop(g)
  <2> DEFINE x == [i EXCEPT !.pending = 0]
  <2>1. x \in InformerRecord /\ informer' = [informer EXCEPT ![g] = x]
    BY <1>1, <1>7 DEF HandlerDrop, InformerRecord
  <2> QED  BY <1>7, <2>1, InformerRecordType, SameGraceType DEF HandlerDrop
<1> QED  BY <1>2, <1>3, <1>4, <1>5, <1>6, <1>7 DEF InformerStep

\* Watcher.run.
LEMMA StateType ==
  ASSUME TypeInv, NEW g \in Gen
  PROVE  StartInformer(g) \in [Gen -> InformerRecord] /\ StopInformer(g) \in [Gen -> InformerRecord]
BY TypeFacts DEF StartInformer, StopInformer, InformerRecord

LEMMA RunStepType ==
  ASSUME TypeInv, run' \in RunType, run'.at = "sending" => run'.held # <<>>,
         informer' \in [Gen -> InformerRecord], GraceTypeOK',
         UNCHANGED <<api, slices, changes, cancelled, closer>>
  PROVE  TypeInv'
BY DEF TypeInv, WatchType

LEMMA WatchStepType == ASSUME TypeInv, NEW g \in Gen, Watch(g) PROVE TypeInv'
<1>1. run' \in RunType /\ run'.at # "sending" /\ informer' \in [Gen -> InformerRecord]
  BY TypeFacts, StateType, ResolverAssumption DEF Watch, RunType, RunState
<1> QED  BY <1>1, RunStepType, SameGraceType DEF Watch

LEMMA SleepType == ASSUME NEW g \in Gen PROVE Sleep(g) \in Nat
BY ResolverAssumption DEF Sleep, Gen

LEMMA RunStepsType == ASSUME TypeInv, RunStep PROVE TypeInv'
<1>1. /\ run \in RunType /\ run.gen \in Gen /\ informer \in [Gen -> InformerRecord]
  BY TypeFacts DEF RunType
<1>2. CASE Start
  BY <1>1, <1>2, WatchStepType DEF Start
<1>3. CASE Reconnect
  BY <1>3, WatchStepType DEF Reconnect, Watch
<1>4. CASE Synced
  <2>1. run' \in RunType /\ run'.at # "sending"
    BY <1>1, <1>4 DEF Synced, RunType, RunState
  <2> QED  BY <1>1, <1>4, <2>1, RunStepType, SameGraceType DEF Synced
<1>5. CASE ReadStore
  <2> DEFINE h == <<ExtractEndpoints(informer[run.gen].store)>>
  <2>1. h \in Held
    <3>1. informer[run.gen].store \in Store
      BY <1>1 DEF InformerRecord
    <3> QED  BY <3>1, ExtractType, HeldFacts
  <2>2. run' = [run EXCEPT !.at = "sending", !.held = h]
    BY <1>5 DEF ReadStore
  <2> HIDE DEF h
  <2>3. run' \in RunType /\ run'.held = h
    BY <1>1, <2>1, <2>2 DEF RunType, RunState
  <2>4. h # <<>>
    BY DEF h
  <2> QED  BY <1>1, <1>5, <2>3, <2>4, RunStepType, SameGraceType DEF ReadStore
<1>6. CASE SyncFails
  <2>1. run' \in RunType /\ run'.at # "sending" /\ informer' \in [Gen -> InformerRecord]
    BY <1>1, <1>6, StateType DEF SyncFails, RunType, RunState
  <2> QED  BY <1>6, <2>1, RunStepType, SameGraceType DEF SyncFails
<1>7. CASE ReportDisconnected
  <2>1. run' \in RunType /\ run'.at # "sending"
    BY <1>1, <1>7, SleepType DEF ReportDisconnected, RunType, RunState
  <2>2. GraceTypeOK'
    BY <1>7, TypeFacts, DisconnectedType DEF ReportDisconnected
  <2> QED  BY <1>1, <1>7, <2>1, <2>2, RunStepType DEF ReportDisconnected
<1>8. CASE Quit
  <2>1. run' \in RunType /\ run'.at # "sending" /\ informer' \in [Gen -> InformerRecord]
    BY <1>1, <1>8, StateType DEF Quit, RunType, RunState
  <2>2. UNCHANGED <<graceVars, api, slices, changes, cancelled, closer>>
    BY <1>8, Zenon DEF Quit
  <2> QED  BY <2>1, <2>2, RunStepType, SameGraceType
<1>9. CASE SendFirst
  <2>1. run' \in RunType /\ run'.at # "sending"
    BY <1>1, <1>9, HeldFacts DEF SendFirst, RunType, RunState
  <2>2. Head(run.held) \in SUBSET Endpoint
    BY <1>1, <1>9, TypeFacts, HeldFacts DEF SendFirst, RunType
  <2>3. GraceTypeOK'
    BY <1>9, <2>2, TypeFacts, ConnectedType DEF SendFirst
  <2> QED  BY <1>1, <1>9, <2>1, <2>3, RunStepType DEF SendFirst
<1> QED  BY <1>2, <1>3, <1>4, <1>5, <1>6, <1>7, <1>8, <1>9 DEF RunStep

LEMMA OthersType ==
  ASSUME TypeInv,
         \/ Close \/ CloseReturns \/ Reachability
         \/ \E s \in Slice, v \in SliceValue \cup {Absent} : Change(s, v)
  PROVE  TypeInv'
<1>1. CASE Close
  BY <1>1, SameGraceType DEF Close, TypeInv, WatchType
<1>2. CASE CloseReturns
  BY <1>2, SameGraceType DEF CloseReturns, TypeInv, WatchType
<1>3. CASE Reachability
  BY <1>3, SameGraceType DEF Reachability, TypeInv, WatchType
<1>4. ASSUME NEW s \in Slice, NEW v \in SliceValue \cup {Absent}, Change(s, v) PROVE TypeInv'
  <2>1. slices' \in Store /\ changes' \in 0..MaxChanges
    BY <1>4, ResolverAssumption DEF Change, TypeInv, WatchType, Store
  <2> QED  BY <1>4, <2>1, SameGraceType DEF Change, TypeInv, WatchType
<1> QED  BY <1>1, <1>2, <1>3, <1>4

LEMMA NextType == TypeInv /\ [Next]_vars => TypeInv'
<1> SUFFICES ASSUME TypeInv, [Next]_vars PROVE TypeInv'
  OBVIOUS
<1>1. CASE UNCHANGED vars
  BY <1>1, SameGraceType DEF vars, watchVars, TypeInv, WatchType
<1>2. CASE GraceCheck
  BY <1>2, GraceCheckType DEF GraceCheck, watchVars, TypeInv, WatchType
<1>3. CASE Tick
  <2>1. run' \in RunType /\ run'.at = run.at /\ run'.held = run.held
    BY <1>3, TypeFacts DEF Tick, RunType
  <2> QED  BY <1>3, <2>1, TickType DEF Tick, TypeInv, WatchType
<1> QED  BY <1>1, <1>2, <1>3, RunStepsType, InformerType, OthersType DEF Next

\* Every variable has its type.  What reaches gRPC names endpoints of the slices only.
THEOREM TypeCorrect == Spec => []TypeOK
<1>1. TypeInv => TypeOK
  BY HeldFacts DEF TypeInv, WatchType, TypeOK, RunType, InformerRecord, Store
<1> QED  BY <1>1, InitType, NextType, PTL DEF Spec

(***************************************************************************)
(* The check of an outage is never lost: as long as the resolver is open,  *)
(* an outage that has not been taken for too long has a check waiting for  *)
(* just what is left of its window.                                        *)
(***************************************************************************)
CheckPending ==
  smState = "Disconnected" /\ ~cancelled =>
    disconnectedAge \in Age /\ checks[GraceWindow - disconnectedAge] > 0

LEMMA TickPending ==
  ASSUME TypeInv, CheckPending, GraceTick, UNCHANGED cancelled PROVE CheckPending'
<1> SUFFICES ASSUME smState = "Disconnected", ~cancelled
             PROVE  disconnectedAge' \in Age /\ checks'[GraceWindow - disconnectedAge'] > 0
  BY DEF CheckPending, GraceTick
<1> DEFINE d == disconnectedAge
           w == GraceWindow - d
<1>1. /\ d \in Age /\ checks[w] > 0 /\ checks \in [Age -> Nat] /\ GraceWindow \in Nat
      /\ d # Never
  BY ZeroAge, GraceAssumption DEF CheckPending, TypeInv, GraceTypeOK
<1>2. /\ disconnectedAge' = (IF d = GraceWindow THEN d ELSE d + 1)
      /\ checks' = Waited
  BY <1>1 DEF GraceTick, Older
<1>3. CASE d = GraceWindow
  <2>1. w = 0 /\ 0 \in Age /\ checks[0] > 0
    BY <1>1, <1>3, ZeroAge
  <2>2. Waited[0] = (IF 0 < GraceWindow THEN checks[0 + 1] ELSE 0) + checks[0]
    BY <2>1 DEF Waited
  <2>3. 0 < GraceWindow => checks[0 + 1] \in Nat
    BY <1>1 DEF Age
  <2>4. Waited[0] > 0
    BY <1>1, <2>1, <2>2, <2>3
  <2> QED  BY <1>1, <1>2, <1>3, <2>1, <2>4
<1>4. CASE d # GraceWindow
  <2>1. w \in Age /\ w - 1 \in Age /\ w - 1 < GraceWindow /\ (w - 1) + 1 = w
    BY <1>1, <1>4 DEF Age
  <2>2. Waited[w - 1] = checks[w] + (IF w - 1 = 0 THEN checks[0] ELSE 0)
    BY <2>1 DEF Waited
  <2>3. checks[0] \in Nat /\ checks[w] \in Nat
    BY <1>1, <2>1, ZeroAge
  <2>4. Waited[w - 1] > 0
    BY <1>1, <2>2, <2>3
  <2>5. GraceWindow - disconnectedAge' = w - 1 /\ disconnectedAge' \in Age
    BY <1>1, <1>2, <1>4 DEF Age
  <2> QED  BY <1>2, <2>4, <2>5
<1> QED  BY <1>3, <1>4

LEMMA DisconnectedPending ==
  ASSUME TypeInv, Disconnected, UNCHANGED cancelled PROVE CheckPending'
<1>1. CASE OutageGoesOn
  <2>1. Elapsed \in Age /\ GraceWindow - Elapsed \in Age
    BY ZeroAge, GraceAssumption DEF Elapsed, TypeInv, GraceTypeOK, Age
  <2>2. checks'[GraceWindow - Elapsed] > 0 /\ disconnectedAge' = Elapsed
    BY <1>1, <2>1 DEF OutageGoesOn, TypeInv, GraceTypeOK
  <2> QED  BY <2>1, <2>2 DEF CheckPending
<1>2. CASE OutageTooLong
  BY <1>2 DEF OutageTooLong, CheckPending
<1> QED  BY <1>1, <1>2 DEF Disconnected

LEMMA GraceCheckPending ==
  ASSUME TypeInv, CheckPending, GraceCheck PROVE CheckPending'
<1>1. CASE CheckActs
  BY <1>1 DEF CheckActs, CheckPending
<1>2. CASE CheckReturns
  <2> SUFFICES ASSUME smState = "Disconnected", ~cancelled
               PROVE  checks'[GraceWindow - disconnectedAge] > 0 /\ disconnectedAge \in Age
    BY <1>2 DEF CheckPending, CheckReturns, GraceCheck, watchVars
  <2>1. /\ disconnectedAge \in Age /\ checks[GraceWindow - disconnectedAge] > 0
        /\ disconnectedAge # GraceWindow
    BY <1>2 DEF CheckPending, CheckReturns
  <2>2. GraceWindow - disconnectedAge # 0 /\ GraceWindow - disconnectedAge \in Age
    BY <2>1, GraceAssumption DEF Age
  <2>3. checks'[GraceWindow - disconnectedAge] = checks[GraceWindow - disconnectedAge]
    BY <1>2, <2>2 DEF CheckReturns, TypeInv, GraceTypeOK
  <2> QED  BY <2>1, <2>3
<1>3. CASE cancelled
  BY <1>3 DEF GraceCheck, watchVars, CheckPending
<1> QED  BY <1>1, <1>2, <1>3 DEF GraceCheck

LEMMA NextPending == TypeInv /\ CheckPending /\ [Next]_vars => CheckPending'
<1> SUFFICES ASSUME TypeInv, CheckPending, [Next]_vars PROVE CheckPending'
  OBVIOUS
<1>1. CASE GraceCheck
  BY <1>1, GraceCheckPending
<1>2. CASE Tick
  BY <1>2, TickPending DEF Tick
<1>3. CASE ReportDisconnected
  BY <1>3, DisconnectedPending DEF ReportDisconnected
<1>4. ASSUME NEW E, Connected(E) PROVE CheckPending'
  BY <1>4 DEF Connected, CheckPending
<1>5. CASE SendFirst \/ \E g \in Gen : HandlerSend(g)
  BY <1>4, <1>5 DEF SendFirst, HandlerSend
<1>6. ASSUME UNCHANGED graceVars, cancelled => cancelled' PROVE CheckPending'
  BY <1>6 DEF graceVars, CheckPending
<1>7. CASE Start \/ Synced \/ ReadStore \/ SyncFails \/ Reconnect \/ Quit
  BY <1>6, <1>7, Zenon DEF Start, Synced, ReadStore, SyncFails, Reconnect, Quit, Watch
<1>8. CASE \E g \in Gen : \/ List(g) \/ (\E s \in Slice : Pop(g, s) \/ WatchEvent(g, s))
                          \/ HandlerRead(g) \/ HandlerDrop(g)
  <2>1. UNCHANGED graceVars
    BY <1>8 DEF List, Pop, WatchEvent, HandlerRead, HandlerDrop
  <2>2. UNCHANGED cancelled
    BY <1>8, Zenon DEF List, Pop, WatchEvent, HandlerRead, HandlerDrop
  <2> QED  BY <1>6, <2>1, <2>2, Zenon
<1>9. CASE \/ Close \/ CloseReturns \/ Reachability
           \/ \E s \in Slice, v \in SliceValue \cup {Absent} : Change(s, v)
  BY <1>6, <1>9, Zenon DEF Close, CloseReturns, Reachability, Change
<1>10. CASE UNCHANGED vars
  BY <1>6, <1>10, Zenon DEF vars, watchVars
<1> QED
  BY <1>1, <1>2, <1>3, <1>5, <1>7, <1>8, <1>9, <1>10 DEF Next, RunStep, InformerStep

\* An outage cannot go on unseen: whatever snapshots and checks there have been, until
\* the resolver is closed a check is under way that fires when the window is over
\* (statemachine.go, scheduleGraceCheck; what the liveness of OutageEscalates rests on).
THEOREM CheckNeverLost == Spec => []CheckPending
<1>1. Init => CheckPending
  BY DEF Init, GraceInit, CheckPending
<1> QED  BY <1>1, InitType, NextType, NextPending, PTL DEF Spec

(***************************************************************************)
(* The informers one after the other.  At most one runs, the one run is    *)
(* at, and those to come are new.  One that has not been stopped and has   *)
(* no handler call to come holds what its store has now: a change of the   *)
(* store brings a call with it.                                            *)
(***************************************************************************)
AtInformer == run.at \in {"syncing", "synced", "sending", "watching"}

OneRuns ==
  /\ \A g \in Gen : g > run.gen \/ run.at = "idle" => informer[g].state = "new"
  /\ \A g \in Gen : informer[g].state = "running" => g = run.gen /\ AtInformer
  /\ closer = "returned" => run.at = "done"

IsCurrent(i) ==
  i.state # "stopped" /\ i.pending = 0 /\ i.held # <<>> => i.held = <<ExtractEndpoints(i.store)>>

InformerInv == OneRuns /\ \A g \in Gen : IsCurrent(informer[g])

LEMMA InitInformerInv == Init => InformerInv
BY DEF Init, NewInformer, InformerInv, OneRuns, IsCurrent

\* A step of run that starts and stops nothing.
LEMMA RunGoesOn ==
  ASSUME TypeInv, InformerInv, UNCHANGED <<informer, closer>>, run'.gen = run.gen,
         run.at # "done", run'.at # "idle",
         AtInformer => AtInformer'
  PROVE  InformerInv'
<1>1. closer # "returned"
  BY DEF InformerInv, OneRuns
<1>2. OneRuns'
  BY <1>1 DEF InformerInv, OneRuns
<1> QED  BY <1>2 DEF InformerInv

LEMMA Stops ==
  ASSUME TypeInv, InformerInv, informer' = StopInformer(run.gen), UNCHANGED closer,
         run'.gen = run.gen, run'.at \in {"failed", "done"}, run.at \notin {"idle", "done"}
  PROVE  InformerInv'
<1>1. /\ run.gen \in Gen /\ informer \in [Gen -> InformerRecord] /\ Gen \subseteq Nat
  BY TypeFacts DEF RunType, Gen
<1>2. /\ informer'[run.gen].state = "stopped"
      /\ \A g \in Gen \ {run.gen} : informer'[g] = informer[g]
  BY <1>1 DEF StopInformer, InformerRecord
<1>3. \A g \in Gen : informer'[g].state # "running"
  BY <1>1, <1>2 DEF InformerInv, OneRuns
<1>4. closer' # "returned"
  BY DEF InformerInv, OneRuns
<1>5. OneRuns'
  <2>1. ASSUME NEW g \in Gen, g > run.gen PROVE informer'[g].state = "new"
    <3>1. g # run.gen
      BY <1>1, <2>1
    <3> QED  BY <1>2, <2>1, <3>1 DEF InformerInv, OneRuns
  <2> QED  BY <1>3, <1>4, <2>1 DEF OneRuns
<1>6. \A g \in Gen : IsCurrent(informer'[g])
  BY <1>1, <1>2 DEF InformerInv, IsCurrent
<1> QED  BY <1>5, <1>6 DEF InformerInv

LEMMA Starts ==
  ASSUME TypeInv, InformerInv, NEW g \in Gen, Watch(g),
         (run.at = "idle" /\ g = run.gen) \/ (run.at = "backoff" /\ g = run.gen + 1)
  PROVE  InformerInv'
<1>1. /\ run \in RunType /\ run.gen \in Gen /\ informer \in [Gen -> InformerRecord] /\ Gen \subseteq Nat
  BY TypeFacts DEF RunType, Gen
<1>2. /\ informer' = StartInformer(g) /\ run'.at = "syncing" /\ run'.gen = g /\ closer' = closer
  BY <1>1 DEF Watch, RunType
<1>3. informer[g].state = "new"
  <2>1. run.at = "idle" \/ g > run.gen
    <3>1. run.gen \in Nat
      BY <1>1
    <3> QED  BY <3>1
  <2> QED  BY <2>1 DEF InformerInv, OneRuns
<1>4. /\ informer'[g] = [informer[g] EXCEPT !.state = "running"]
      /\ \A h \in Gen \ {g} : informer'[h] = informer[h]
  BY <1>1, <1>2 DEF StartInformer
<1>5. /\ informer'[g].state = "running" /\ informer'[g].pending = informer[g].pending
      /\ informer'[g].held = informer[g].held /\ informer'[g].store = informer[g].store
  BY <1>1, <1>4 DEF InformerRecord
<1>6. \A h \in Gen : informer[h].state # "running"
  BY DEF InformerInv, OneRuns, AtInformer
<1>7. closer # "returned"
  BY DEF InformerInv, OneRuns
<1>8. OneRuns'
  <2>1. \A h \in Gen : h > g => informer'[h].state = "new"
    BY <1>1, <1>4 DEF InformerInv, OneRuns
  <2>2. \A h \in Gen : informer'[h].state = "running" => h = g
    BY <1>4, <1>6
  <2> QED  BY <1>2, <1>7, <2>1, <2>2 DEF OneRuns, AtInformer
<1>9. ASSUME NEW h \in Gen PROVE IsCurrent(informer'[h])
  <2>1. CASE h = g
    <3>1. IsCurrent(informer[g])
      BY DEF InformerInv
    <3> QED  BY <1>3, <1>5, <2>1, <3>1 DEF IsCurrent
  <2>2. CASE h # g
    BY <1>4, <2>2 DEF InformerInv
  <2> QED  BY <2>1, <2>2
<1> QED  BY <1>8, <1>9 DEF InformerInv

LEMMA RunInformerInv == ASSUME TypeInv, InformerInv, RunStep PROVE InformerInv'
<1>1. run \in RunType /\ run.gen \in Gen
  BY TypeFacts DEF RunType
<1>2. CASE Start
  BY <1>1, <1>2, Starts DEF Start
<1>3. CASE Reconnect
  <2>1. run.gen + 1 \in Gen
    BY <1>3 DEF Reconnect, Watch
  <2> QED  BY <1>3, <2>1, Starts DEF Reconnect
<1>4. CASE Synced \/ ReadStore \/ SendFirst
  <2>1. /\ UNCHANGED <<informer, closer>> /\ run'.gen = run.gen /\ run.at # "done"
        /\ run'.at # "idle" /\ AtInformer'
    BY <1>1, <1>4 DEF Synced, ReadStore, SendFirst, RunType, AtInformer
  <2> QED  BY <2>1, RunGoesOn
<1>5. CASE ReportDisconnected
  <2>1. /\ UNCHANGED <<informer, closer>> /\ run'.gen = run.gen /\ run.at # "done"
        /\ run'.at # "idle" /\ ~AtInformer
    BY <1>1, <1>5 DEF ReportDisconnected, RunType, AtInformer
  <2> QED  BY <2>1, RunGoesOn
<1>6. CASE SyncFails
  <2>1. /\ informer' = StopInformer(run.gen) /\ UNCHANGED closer /\ run'.gen = run.gen
        /\ run'.at = "failed" /\ run.at \notin {"idle", "done"}
    BY <1>1, <1>6 DEF SyncFails, RunType
  <2> QED  BY <2>1, Stops
<1>7. CASE Quit
  <2>1. /\ informer' = StopInformer(run.gen) /\ UNCHANGED closer /\ run'.gen = run.gen
        /\ run'.at = "done" /\ run.at \notin {"idle", "done"}
    BY <1>1, <1>7 DEF Quit, RunType
  <2> QED  BY <2>1, Stops
<1> QED  BY <1>2, <1>3, <1>4, <1>5, <1>6, <1>7 DEF RunStep

\* What an informer and its handlers do.
LEMMA InformerKeeps ==
  ASSUME TypeInv, InformerInv, NEW g \in Gen, NEW x \in InformerRecord,
         informer' = [informer EXCEPT ![g] = x], x.state = informer[g].state, IsCurrent(x),
         UNCHANGED <<run, closer>>
  PROVE  InformerInv'
<1>1. informer'[g] = x /\ \A h \in Gen \ {g} : informer'[h] = informer[h]
  BY TypeFacts
<1>2. OneRuns'
  BY <1>1 DEF InformerInv, OneRuns, AtInformer
<1>3. \A h \in Gen : IsCurrent(informer'[h])
  BY <1>1 DEF InformerInv
<1> QED  BY <1>2, <1>3 DEF InformerInv

LEMMA InformerInformerInv ==
  ASSUME TypeInv, InformerInv, NEW g \in Gen, InformerStep(g) PROVE InformerInv'
<1> DEFINE i == informer[g]
           x == informer'[g]
<1>1. /\ i \in InformerRecord /\ x \in InformerRecord
      /\ informer \in [Gen -> InformerRecord] /\ IsCurrent(i)
  <2>1. TypeInv'
    BY InformerType
  <2> QED  BY <2>1, TypeFacts DEF TypeInv, WatchType, InformerInv
<1>2. informer' = [informer EXCEPT ![g] = x] /\ UNCHANGED <<run, closer>>
  BY <1>1
  DEF InformerStep, List, Pop, WatchEvent, HandlerRead, HandlerSend, HandlerDrop, InformerRecord
<1>3. x.state = i.state /\ IsCurrent(x)
  <2>1. CASE List(g)
    <3>1. x = [i EXCEPT !.listed = TRUE, !.list = slices]
      BY <1>1, <2>1 DEF List, InformerRecord
    <3> QED  BY <1>1, <3>1 DEF InformerRecord, IsCurrent
  <2>2. CASE (\E s \in Slice : Pop(g, s) \/ WatchEvent(g, s))
    <3>1. x.state = i.state /\ x.pending = i.pending + 1 /\ i.pending \in Nat
      BY <1>1, <2>2 DEF Pop, WatchEvent, InformerRecord
    <3> QED  BY <3>1 DEF IsCurrent
  <2>3. CASE HandlerRead(g)
    <3>1. x.state = i.state /\ x.store = i.store /\ x.held = <<ExtractEndpoints(i.store)>>
      BY <1>1, <2>3 DEF HandlerRead, InformerRecord
    <3> QED  BY <3>1 DEF IsCurrent
  <2>4. CASE HandlerSend(g)
    <3>1. x.state = i.state /\ x.held = <<>>
      BY <1>1, <2>4 DEF HandlerSend, InformerRecord
    <3> QED  BY <3>1 DEF IsCurrent
  <2>5. CASE HandlerDrop(g)
    <3>1. x.state = "stopped" /\ i.state = "stopped"
      BY <1>1, <2>5 DEF HandlerDrop, InformerRecord
    <3> QED  BY <3>1 DEF IsCurrent
  <2> QED  BY <2>1, <2>2, <2>3, <2>4, <2>5 DEF InformerStep
<1> HIDE DEF x
<1> QED  BY <1>1, <1>2, <1>3, InformerKeeps

LEMMA NextInformerInv == TypeInv /\ InformerInv /\ [Next]_vars => InformerInv'
<1> SUFFICES ASSUME TypeInv, InformerInv, [Next]_vars PROVE InformerInv'
  OBVIOUS
<1>1. CASE UNCHANGED <<run, informer, closer>>
  BY <1>1 DEF InformerInv, OneRuns, AtInformer
<1>2. CASE Tick
  <2>1. UNCHANGED <<informer, closer>> /\ run'.at = run.at /\ run'.gen = run.gen
    BY <1>2, TypeFacts DEF Tick, RunType
  <2> QED  BY <2>1 DEF InformerInv, OneRuns, AtInformer
<1>3. CASE Close
  <2>1. UNCHANGED <<run, informer>> /\ closer' # "returned"
    BY <1>3 DEF Close
  <2> QED  BY <2>1 DEF InformerInv, OneRuns, AtInformer
<1>4. CASE CloseReturns
  <2>1. UNCHANGED <<run, informer>> /\ run.at = "done"
    BY <1>4 DEF CloseReturns
  <2> QED  BY <2>1 DEF InformerInv, OneRuns, AtInformer
<1>5. CASE GraceCheck \/ UNCHANGED vars
  BY <1>1, <1>5 DEF GraceCheck, watchVars, vars
<1>6. CASE Reachability \/ \E s \in Slice, v \in SliceValue \cup {Absent} : Change(s, v)
  BY <1>1, <1>6 DEF Reachability, Change
<1> QED
  BY <1>2, <1>3, <1>4, <1>5, <1>6, RunInformerInv, InformerInformerInv DEF Next

LEMMA InformerInvariant == Spec => [](TypeInv /\ InformerInv)
BY InitType, NextType, InitInformerInv, NextInformerInv, PTL DEF Spec

\* When Close has returned no informer runs, whichever of the watcher's attempts it
\* met; before, never more than one does (resolver_adapter.go, watcher.go:118-135).
THEOREM CloseStopsInformers ==
  Spec => [](closer = "returned" => \A g \in Gen : informer[g].state # "running")
<1>1. InformerInv => (closer = "returned" => \A g \in Gen : informer[g].state # "running")
  BY DEF InformerInv, OneRuns, AtInformer
<1> QED  BY <1>1, InformerInvariant, PTL

\* The last handler call of a running informer sends what its store has: no change is
\* read too early.
LEMMA LastCallSends ==
  ASSUME TypeInv, InformerInv, [Next]_vars, NEW g \in Gen, LastCall(g)
  PROVE  published' = Wanted(informer[g].store)
<1> USE DEF LastCall
<1>1. informer \in [Gen -> InformerRecord] /\ run.gen \in Gen
  BY TypeFacts DEF RunType
<1>2. HandlerSend(g)
  <2>1. informer' # informer /\ Next
    BY DEF vars, watchVars
  <2>2. ~RunStep
    <3>1. ~(Synced \/ ReadStore \/ SendFirst \/ ReportDisconnected)
      BY <2>1 DEF Synced, ReadStore, SendFirst, ReportDisconnected
    <3>2. ASSUME NEW h \in Gen, informer' = StartInformer(h) \/ informer' = StopInformer(h)
          PROVE  FALSE
      <4>1. /\ StartInformer(h)[g].held = informer[g].held
            /\ StopInformer(h)[g].held = informer[g].held
        BY <1>1 DEF StartInformer, StopInformer, InformerRecord
      <4> QED  BY <3>2, <4>1
    <3>3. ~(Start \/ Reconnect)
      BY <3>2 DEF Start, Reconnect, Watch
    <3>4. ~(SyncFails \/ Quit)
      BY <1>1, <3>2 DEF SyncFails, Quit
    <3> QED  BY <3>1, <3>3, <3>4 DEF RunStep
  <2>3. PICK h \in Gen : InformerStep(h)
    BY <2>1, <2>2 DEF Next, GraceCheck, watchVars, Tick, Close, CloseReturns, Reachability, Change
  <2>4. h = g
    BY <1>1, <2>3
    DEF InformerStep, List, Pop, WatchEvent, HandlerRead, HandlerSend, HandlerDrop
  <2>5. ~List(g) /\ ~HandlerRead(g) /\ ~HandlerDrop(g)
    BY <1>1 DEF List, HandlerRead, HandlerDrop, InformerRecord
  <2>6. \A s \in Slice : ~Pop(g, s) /\ ~WatchEvent(g, s)
    BY <1>1 DEF Pop, WatchEvent, InformerRecord
  <2> QED  BY <2>3, <2>4, <2>5, <2>6 DEF InformerStep
<1>3. /\ informer'[g].store = informer[g].store /\ published' = Head(informer[g].held)
  BY <1>1, <1>2 DEF HandlerSend, Connected, Emit, InformerRecord
<1>4. informer[g].held = <<ExtractEndpoints(informer[g].store)>>
  BY DEF InformerInv, IsCurrent
<1>5. informer[g].store \in Store
  BY <1>1 DEF InformerRecord
<1> QED  BY <1>3, <1>4, <1>5, ExtractsWanted

LEMMA HeldSent ==
  ASSUME NEW h \in Held, h # <<>> PROVE h = <<Head(h)>>
BY DEF Held

\* After a synchronisation nothing but a call of sendSnapshot changes the list.
LEMMA OnlyCallsSend ==
  ASSUME TypeInv, SyncInv', [Next]_vars, run'.at = "watching"
  PROVE  \/ UNCHANGED published
         \/ run.held = <<published'>>
         \/ \E g \in Gen : informer[g].held = <<published'>> /\ informer'[g].held = <<>>
<1>1. run \in RunType /\ informer \in [Gen -> InformerRecord]
  BY TypeFacts
<1>2. CASE SendFirst
  <2>1. run.held # <<>> /\ run.held \in Held /\ published' = Head(run.held)
    BY <1>1, <1>2, TypeFacts DEF SendFirst, Connected, Emit, RunType
  <2> QED  BY <2>1, HeldSent
<1>3. ASSUME NEW g \in Gen, HandlerSend(g)
      PROVE  informer[g].held = <<published'>> /\ informer'[g].held = <<>>
  <2>1. informer[g].held # <<>> /\ informer[g].held \in Held /\ published' = Head(informer[g].held)
    BY <1>1, <1>3 DEF HandlerSend, Connected, Emit, InformerRecord
  <2>2. informer'[g].held = <<>>
    BY <1>1, <1>3 DEF HandlerSend, InformerRecord
  <2> QED  BY <2>1, <2>2, HeldSent
<1>4. CASE ReportDisconnected
  BY <1>1, <1>4 DEF ReportDisconnected, RunType
<1>5. CASE GraceCheck
  BY <1>5 DEF GraceCheck, CheckActs, CheckReturns, CheckCancelled, SyncInv, SyncedStaysConnected
<1>6. CASE Tick
  BY <1>6 DEF Tick, GraceTick
<1>7. CASE Start \/ Synced \/ ReadStore \/ SyncFails \/ Reconnect \/ Quit
  BY <1>7 DEF Start, Synced, ReadStore, SyncFails, Reconnect, Quit, Watch, graceVars
<1>8. CASE \E g \in Gen : \/ List(g) \/ (\E s \in Slice : Pop(g, s) \/ WatchEvent(g, s))
                          \/ HandlerRead(g) \/ HandlerDrop(g)
  <2>1. UNCHANGED graceVars
    BY <1>8 DEF List, Pop, WatchEvent, HandlerRead, HandlerDrop
  <2> QED  BY <2>1 DEF graceVars
<1>9. CASE \/ Close \/ CloseReturns \/ Reachability
           \/ \E s \in Slice, v \in SliceValue \cup {Absent} : Change(s, v)
  BY <1>9 DEF Close, CloseReturns, Reachability, Change, graceVars
<1>10. CASE UNCHANGED vars
  BY <1>10 DEF vars, graceVars
<1> QED
  BY <1>2, <1>3, <1>4, <1>5, <1>6, <1>7, <1>8, <1>9, <1>10 DEF Next, RunStep, InformerStep

\* Once an informer has synced, only what calls of sendSnapshot have read from a store
\* replaces the list, and the last call of a running informer leaves what its store has;
\* nothing left over from an outage empties the list or brings back a past one
\* (statemachine.go, watcher.go; R3.6).
THEOREM SyncedServes == Spec => SyncedServesStore
<1>1. TypeInv /\ InformerInv /\ SyncInv' /\ [Next]_vars =>
        [/\ run'.at = "watching" =>
              /\ smState' = "Connected"
              /\ \/ UNCHANGED published
                 \/ run.held = <<published'>>
                 \/ \E g \in Gen : /\ informer[g].held = <<published'>>
                                  /\ informer'[g].held = <<>>
         /\ \A g \in Gen : LastCall(g) => published' = Wanted(informer[g].store)]_vars
  <2> SUFFICES ASSUME TypeInv, InformerInv, SyncInv', [Next]_vars
               PROVE  /\ run'.at = "watching" =>
                           /\ smState' = "Connected"
                           /\ \/ UNCHANGED published
                              \/ run.held = <<published'>>
                              \/ \E g \in Gen : /\ informer[g].held = <<published'>>
                                               /\ informer'[g].held = <<>>
                      /\ \A g \in Gen : LastCall(g) => published' = Wanted(informer[g].store)
    OBVIOUS
  <2>1. \A g \in Gen : LastCall(g) => published' = Wanted(informer[g].store)
    BY LastCallSends
  <2>2. run'.at = "watching" => smState' = "Connected"
    BY DEF SyncInv, SyncedStaysConnected
  <2> QED  BY <2>1, <2>2, OnlyCallsSend
<1> QED
  BY <1>1, InformerInvariant, InitSyncInv, NextSyncInv, PTL DEF Spec, SyncedServesStore
=============================================================================
