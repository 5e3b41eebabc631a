----------------------------- MODULE K8sBalancer -----------------------------
(***************************************************************************)
(* The gRPC balancer (src/internal/balancer/builder.go) over its SubConn   *)
(* pool, with everything that runs beside it:                              *)
(*                                                                         *)
(*   - gRPC's own goroutines: the SubConn state machines, the serializer   *)
(*     that delivers their states, the resolver updates, Close;            *)
(*   - RPCs, which load the current picker, pick from it and only then     *)
(*     learn whether the SubConn is ready, without any lock;               *)
(*   - health probes, whose reports wait for b.mu in a callback;           *)
(*   - the drain goroutines of the pool.                                   *)
(*                                                                         *)
(* Every handler of the balancer holds b.mu.  UpdateClientConnState is the *)
(* one that RPCs and drain goroutines can see half done, so it is split    *)
(* into steps between which mu is held; the other handlers change one      *)
(* entry and the picker, and are one step each.                            *)
(*                                                                         *)
(* Operators whose names begin with Bad are variants with a mistake; no    *)
(* specification uses them.                                                *)
(*                                                                         *)
(* Which of its entries a picker chooses is left open here: the property   *)
(* of every policy used is that it returns one of them (module Pickers has *)
(* the policies).  The policy matters here for what it counts.             *)
(***************************************************************************)
EXTENDS Pool, Sequences, FiniteSets

CONSTANTS Rpc,               \* RPCs, each issued at most once
          MaxSubconns,       \* cfg.MaxSubconns, 0 for no cap
          EnableHealthCheck, \* cfg.EnableHealthCheck
          Policy,            \* b.policy
          MaxEvents,         \* bound on the undelivered states of a SubConn
          MayClose           \* bound: whether behaviours with Close are included

\* Keys are numbered in the lexicographic order of their "address:port".
ASSUME BalancerAssumption ==
  /\ Key \subseteq Nat /\ IsFiniteSet(Key) /\ IsFiniteSet(Rpc)
  /\ MaxSubconns \in Nat /\ MaxEvents \in Nat /\ MayClose \in BOOLEAN
  /\ EnableHealthCheck \in BOOLEAN
  /\ Policy \in {"round_robin", "least_request"}

VARIABLES
  mu,       \* b.mu is held by UpdateClientConnState
  desired,  \* cappedDesired of the UpdateClientConnState that runs
  adds,     \* the keys it has still to add
  removes,  \* the keys it has still to remove
  picker,   \* gRPC: the entries of the picker it holds
  hasPicker,\* gRPC: it has been given one; RPCs wait until then
  checker,  \* the health probes
  ac,       \* gRPC: the connectivity state of a SubConn
  events,   \* gRPC: states not yet delivered to the balancer, in order
  rpc,      \* gRPC: the RPCs
  closed    \* gRPC: the ClientConn has been closed

updateVars == <<mu, desired, adds, removes>>
grpcVars == <<ac, events, closed>>
pickerVars == <<picker, hasPicker>>
vars == <<poolVars, updateVars, pickerVars, checker, grpcVars, rpc>>

RpcState == {"new", "loaded", "picked", "blocked", "inflight", "done", "failed"}
CheckerState == {"unused", "running", "exited"}

Init ==
  /\ PoolInit
  /\ mu = FALSE /\ desired = {} /\ adds = {} /\ removes = {}
  /\ picker = {} /\ hasPicker = FALSE
  /\ checker = [c \in Checker |-> [state |-> "unused", owner |-> NoEntry,
                                   current |-> "Unknown", pending |-> "Unknown"]]
  /\ ac = [e \in Entry |-> "Idle"]
  /\ events = [e \in Entry |-> <<>>]
  /\ rpc = [r \in Rpc |-> [state |-> "new", held |-> {}, stale |-> FALSE,
                           entry |-> NoEntry]]
  /\ closed = FALSE

(***************************************************************************)
(* rebuildPickerLocked: a new picker over the healthy entries replaces the *)
(* one gRPC holds.  RPCs that wait for a picker are woken; those that are  *)
(* between loading a picker and starting on its SubConn will see that it   *)
(* has been replaced.                                                      *)
(***************************************************************************)
Notified(x) == CASE x.state = "blocked" -> [x EXCEPT !.state = "new"]
                 [] x.state \in {"loaded", "picked"} -> [x EXCEPT !.stale = TRUE]
                 [] OTHER -> x

BadRebuildPicker == UNCHANGED <<pickerVars, rpc>>

\* The table of entries must be determined before this conjunct.
RebuildPicker ==
  IF closed THEN UNCHANGED <<pickerVars, rpc>>
  ELSE /\ picker' = HealthyEntries' /\ hasPicker' = TRUE
       /\ rpc' = [r \in Rpc |-> Notified(rpc[r])]

(***************************************************************************)
(* UpdateClientConnState.                                                  *)
(***************************************************************************)
BadCapEndpoints(D) ==
  IF MaxSubconns = 0 THEN D
  ELSE {k \in D : Cardinality({j \in D : j < k}) <= MaxSubconns}

\* CapEndpoints: the first MaxSubconns endpoints in the order of their names.
CapEndpoints(D) ==
  IF MaxSubconns = 0 THEN D
  ELSE {k \in D : Cardinality({j \in D : j < k}) < MaxSubconns}

Current == {k \in Key : entries[k] # NoEntry}

\* The differences are taken once, before anything changes.  D holds the
\* addresses that parse.
BeginUpdate(D) ==
  /\ ~closed /\ ~mu
  /\ mu' = TRUE
  /\ desired' = CapEndpoints(D)
  /\ adds' = CapEndpoints(D) \ Current
  /\ removes' = Current \ CapEndpoints(D)
  /\ UNCHANGED <<poolVars, pickerVars, checker, grpcVars, rpc>>

\* pool.Add, then sc.Connect() on the new SubConn.
AddOne(k, e) ==
  /\ k \in adds
  /\ Add(k, e)
  /\ adds' = adds \ {k}
  /\ ac' = [f \in Entry |-> IF f = e THEN "Connecting"
                            ELSE IF subConn'[f] = "shutdown" THEN "Shutdown"
                            ELSE ac[f]]
  /\ events' = [events EXCEPT ![e] = <<"Connecting">>]
  /\ UNCHANGED <<mu, desired, removes, pickerVars, checker, closed, rpc>>

\* NewSubConn fails: logged, and not tried again before the next update.
AddOneFails(k) ==
  /\ k \in adds
  /\ AddFails(k)
  /\ adds' = adds \ {k}
  /\ UNCHANGED <<mu, desired, removes, pickerVars, checker, grpcVars, rpc>>

RemoveOne(k) ==
  /\ adds = {} /\ k \in removes
  /\ Remove(k)
  /\ removes' = removes \ {k}
  /\ UNCHANGED <<mu, desired, adds, pickerVars, checker, grpcVars, rpc>>

BadFinishUpdate ==
  /\ mu /\ adds = {} /\ removes = {}
  /\ mu' = FALSE /\ desired' = {}
  /\ UNCHANGED <<poolVars, adds, removes, pickerVars, checker, grpcVars, rpc>>

FinishUpdate ==
  /\ mu /\ adds = {} /\ removes = {}
  /\ mu' = FALSE /\ desired' = {}
  /\ UNCHANGED <<poolVars, adds, removes, checker, grpcVars>>
  /\ RebuildPicker

(***************************************************************************)
(* UpdateSubConnState, one action per case of its switch.                  *)
(***************************************************************************)
\* gRPC delivers state s of the SubConn of e, and the pool knows it.
Delivered(e, s) ==
  /\ ~closed /\ ~mu
  /\ events[e] # <<>> /\ Head(events[e]) = s
  /\ e \in Snapshot

Seen(e, s) == WithConnState(sce, sce[e].key, s)

OnConnecting(e) ==
  /\ Delivered(e, "Connecting")
  /\ sce' = Seen(e, "Connecting")
  /\ events' = [events EXCEPT ![e] = Tail(@)]
  /\ UNCHANGED <<entries, subConn, drainer, cancelled>>
  /\ UNCHANGED <<updateVars, checker, ac, closed>>
  /\ RebuildPicker

BadOnIdle(e) ==
  /\ Delivered(e, "Idle")
  /\ sce' = Seen(e, "Idle")
  /\ events' = [events EXCEPT ![e] = Tail(@)]
  /\ UNCHANGED <<entries, subConn, drainer, cancelled>>
  /\ UNCHANGED <<updateVars, checker, ac, closed>>
  /\ RebuildPicker

\* The balancer asks for a new connection; Connect acts on idle SubConns only.
OnIdle(e) ==
  /\ Delivered(e, "Idle")
  /\ sce' = Seen(e, "Idle")
  /\ ac' = [ac EXCEPT ![e] = IF @ = "Idle" THEN "Connecting" ELSE @]
  /\ events' = [events EXCEPT ![e] = IF ac[e] = "Idle"
                                     THEN Append(Tail(@), "Connecting")
                                     ELSE Tail(@)]
  /\ UNCHANGED <<entries, subConn, drainer, cancelled>>
  /\ UNCHANGED <<updateVars, checker, closed>>
  /\ RebuildPicker

OnReady(e) ==
  /\ Delivered(e, "Ready")
  /\ ~EnableHealthCheck
  /\ sce' = WithHealth(Seen(e, "Ready"), sce[e].key, "Serving")
  /\ events' = [events EXCEPT ![e] = Tail(@)]
  /\ UNCHANGED <<entries, subConn, drainer, cancelled>>
  /\ UNCHANGED <<updateVars, checker, ac, closed>>
  /\ RebuildPicker

\* startHealthCheck: the probe runs until its context is cancelled.
OnReadyStartProbe(e, c) ==
  /\ Delivered(e, "Ready")
  /\ EnableHealthCheck /\ sce[e].healthCancel = NoChecker
  /\ checker[c].state = "unused"
  /\ sce' = [Seen(e, "Ready") EXCEPT ![e].healthCancel = c]
  /\ checker' = [checker EXCEPT ![c].state = "running", ![c].owner = e]
  /\ events' = [events EXCEPT ![e] = Tail(@)]
  /\ UNCHANGED <<entries, subConn, drainer, cancelled>>
  /\ UNCHANGED <<updateVars, ac, closed>>
  /\ RebuildPicker

BadOnReadyNoProbe(e) ==
  /\ Delivered(e, "Ready")
  /\ EnableHealthCheck
  /\ sce' = WithHealth(Seen(e, "Ready"), sce[e].key, "Serving")
  /\ events' = [events EXCEPT ![e] = Tail(@)]
  /\ UNCHANGED <<entries, subConn, drainer, cancelled>>
  /\ UNCHANGED <<updateVars, checker, ac, closed>>
  /\ RebuildPicker

\* The entry is probed already, or the probe could not be started; the health
\* stays what it was.
OnReadyNoProbe(e) ==
  /\ Delivered(e, "Ready")
  /\ EnableHealthCheck
  /\ sce' = Seen(e, "Ready")
  /\ events' = [events EXCEPT ![e] = Tail(@)]
  /\ UNCHANGED <<entries, subConn, drainer, cancelled>>
  /\ UNCHANGED <<updateVars, checker, ac, closed>>
  /\ RebuildPicker

\* stopHealthCheck on the table of entries; its other half, the call of
\* HealthCancel, is the change of cancelled.
StopHealthCheck(t, e) == [t EXCEPT ![e].healthCancel = NoChecker]

\* TransientFailure and Shutdown: the probe stops, the entry leaves the
\* rotation.
OnFailure(e, s) ==
  /\ s \in {"TransientFailure", "Shutdown"}
  /\ Delivered(e, s)
  /\ sce' = WithHealth(StopHealthCheck(Seen(e, s), e), sce[e].key, "NotServing")
  /\ cancelled' = cancelled \cup Probes({e})
  /\ events' = [events EXCEPT ![e] = Tail(@)]
  /\ UNCHANGED <<entries, subConn, drainer>>
  /\ UNCHANGED <<updateVars, checker, ac, closed>>
  /\ RebuildPicker

\* A SubConn the pool no longer holds: the handler returns early.
OnUnknown(e) ==
  /\ ~closed /\ ~mu /\ events[e] # <<>> /\ e \notin Snapshot
  /\ events' = [events EXCEPT ![e] = Tail(@)]
  /\ UNCHANGED <<poolVars, updateVars, pickerVars, checker, ac, closed, rpc>>

UpdateSubConnState(e) ==
  \/ OnConnecting(e) \/ OnIdle(e) \/ OnReady(e) \/ OnReadyNoProbe(e)
  \/ \E c \in Checker : OnReadyStartProbe(e, c)
  \/ \E s \in ConnState : OnFailure(e, s)
  \/ OnUnknown(e)

(***************************************************************************)
(* Health probes (health.StateMachine.Drain and the balancer's callback;   *)
(* module HealthChecker has the stream, the channel and the fallback).     *)
(***************************************************************************)
\* Drain takes a report from the channel.  Only a change is passed on.  The
\* channel may still hold reports after the cancellation, and select chooses
\* between the two at random.
Receive(c, h) ==
  /\ checker[c].state = "running" /\ checker[c].pending = "Unknown"
  /\ h \in {"Serving", "NotServing"} /\ h # checker[c].current
  /\ checker' = [checker EXCEPT ![c].current = h, ![c].pending = h]
  /\ UNCHANGED <<poolVars, updateVars, pickerVars, grpcVars, rpc>>

\* The callback has got b.mu.  It writes to whatever entry has the key of the
\* entry the probe was started for.
HealthCallback(c) ==
  /\ ~mu /\ checker[c].pending # "Unknown"
  /\ sce' = WithHealth(sce, sce[checker[c].owner].key, checker[c].pending)
  /\ checker' = [checker EXCEPT ![c].pending = "Unknown"]
  /\ UNCHANGED <<entries, subConn, drainer, cancelled>>
  /\ UNCHANGED <<updateVars, grpcVars>>
  /\ RebuildPicker

\* Drain returns: its context is done.
DrainExit(c) ==
  /\ checker[c].state = "running" /\ checker[c].pending = "Unknown"
  /\ c \in cancelled
  /\ checker' = [checker EXCEPT ![c].state = "exited"]
  /\ UNCHANGED <<poolVars, updateVars, pickerVars, grpcVars, rpc>>

(***************************************************************************)
(* The pool's drain goroutines.                                            *)
(***************************************************************************)
DrainPoll(e) ==
  DrainTick(e) /\ UNCHANGED <<updateVars, pickerVars, checker, grpcVars, rpc>>

DrainExpire(e) ==
  DrainDeadline(e) /\ UNCHANGED <<updateVars, pickerVars, checker, grpcVars, rpc>>

DrainShutdown(e) ==
  /\ DrainClose(e)
  /\ ac' = [ac EXCEPT ![e] = "Shutdown"]
  /\ events' = [events EXCEPT ![e] = IF closed THEN @ ELSE Append(@, "Shutdown")]
  /\ UNCHANGED <<updateVars, pickerVars, checker, closed, rpc>>

(***************************************************************************)
(* RPCs.                                                                   *)
(***************************************************************************)
\* Whether the policy's Pick counts the RPC in and gives gRPC a Done callback.
Counts == Policy = "least_request"

CountIn(t, e) == IF Counts THEN AddInFlight(t, e, 1) ELSE t

BadCountOut(t, e) == t

CountOut(t, e) == IF Counts THEN AddInFlight(t, e, -1) ELSE t

LoadPicker(r) ==
  /\ ~closed /\ rpc[r].state = "new" /\ hasPicker
  /\ rpc' = [rpc EXCEPT ![r].state = "loaded", ![r].held = picker,
                        ![r].stale = FALSE]
  /\ UNCHANGED <<poolVars, updateVars, pickerVars, checker, grpcVars>>

\* Pick of either policy.
Pick(r, e) ==
  /\ rpc[r].state = "loaded" /\ e \in rpc[r].held
  /\ sce' = CountIn(sce, e)
  /\ rpc' = [rpc EXCEPT ![r].state = "picked", ![r].entry = e, ![r].held = {}]
  /\ UNCHANGED <<entries, subConn, drainer, cancelled>>
  /\ UNCHANGED <<updateVars, pickerVars, checker, grpcVars>>

\* noHealthyPicker: codes.Unavailable ends the RPC.
PickFails(r) ==
  /\ rpc[r].state = "loaded" /\ rpc[r].held = {}
  /\ rpc' = [rpc EXCEPT ![r].state = "failed", ![r].stale = FALSE]
  /\ UNCHANGED <<poolVars, updateVars, pickerVars, checker, grpcVars>>

Start(r) ==
  /\ rpc[r].state = "picked" /\ ac[rpc[r].entry] = "Ready"
  /\ rpc' = [rpc EXCEPT ![r].state = "inflight", ![r].stale = FALSE]
  /\ UNCHANGED <<poolVars, updateVars, pickerVars, checker, grpcVars>>

\* The picked SubConn has no transport: gRPC calls Done and waits for another
\* picker, unless there has been one already.
Repick(r) ==
  /\ rpc[r].state = "picked" /\ ac[rpc[r].entry] # "Ready"
  /\ sce' = CountOut(sce, rpc[r].entry)
  /\ rpc' = [rpc EXCEPT ![r].entry = NoEntry, ![r].stale = FALSE,
                        ![r].state = IF rpc[r].stale THEN "new" ELSE "blocked"]
  /\ UNCHANGED <<entries, subConn, drainer, cancelled>>
  /\ UNCHANGED <<updateVars, pickerVars, checker, grpcVars>>

\* The RPC ends and its Done callback runs.
Finish(r) ==
  /\ rpc[r].state = "inflight"
  /\ sce' = CountOut(sce, rpc[r].entry)
  /\ rpc' = [rpc EXCEPT ![r].state = "done", ![r].entry = NoEntry]
  /\ UNCHANGED <<entries, subConn, drainer, cancelled>>
  /\ UNCHANGED <<updateVars, pickerVars, checker, grpcVars>>

\* A closed channel fails the RPCs that wait for a picker.
FailClosing(r) ==
  /\ closed /\ rpc[r].state \in {"new", "blocked"}
  /\ rpc' = [rpc EXCEPT ![r].state = "failed"]
  /\ UNCHANGED <<poolVars, updateVars, pickerVars, checker, grpcVars>>

(***************************************************************************)
(* gRPC: the SubConns and the channel.                                     *)
(***************************************************************************)
\* The SubConn goes from one state to another and queues the notification.
Moves(e, from, to) ==
  /\ ~closed /\ subConn[e] = "open" /\ ac[e] = from
  /\ Len(events[e]) < MaxEvents
  /\ ac' = [ac EXCEPT ![e] = to]
  /\ events' = [events EXCEPT ![e] = Append(@, to)]
  /\ UNCHANGED <<poolVars, updateVars, pickerVars, checker, rpc, closed>>

Attempt(e) == Moves(e, "Connecting", "Ready") \/ Moves(e, "Connecting", "TransientFailure")
Lose(e) == Moves(e, "Ready", "Idle")
BackOff(e) == Moves(e, "TransientFailure", "Idle")

\* The ClientConn is closed between two handlers.  It closes the SubConns
\* itself; the balancer's Close only writes a log line.
Close ==
  /\ MayClose /\ ~closed /\ ~mu
  /\ closed' = TRUE
  /\ ac' = [e \in Entry |-> IF subConn[e] = "unborn" THEN ac[e] ELSE "Shutdown"]
  /\ events' = [e \in Entry |-> <<>>]
  /\ UNCHANGED <<poolVars, updateVars, pickerVars, checker, rpc>>

(***************************************************************************)
(* The specification.                                                      *)
(***************************************************************************)
UpdateStep ==
  \/ \E k \in Key : (\E e \in Entry : AddOne(k, e)) \/ AddOneFails(k) \/ RemoveOne(k)
  \/ FinishUpdate

PickStep(r) == PickFails(r) \/ \E e \in Entry : Pick(r, e)

Next ==
  \/ \E D \in SUBSET Key : BeginUpdate(D)
  \/ UpdateStep
  \/ \E e \in Entry : \/ UpdateSubConnState(e)
                      \/ DrainPoll(e) \/ DrainExpire(e) \/ DrainShutdown(e)
                      \/ Attempt(e) \/ Lose(e) \/ BackOff(e)
  \/ \E c \in Checker : \/ \E h \in Health : Receive(c, h)
                        \/ HealthCallback(c) \/ DrainExit(c)
  \/ \E r \in Rpc : \/ LoadPicker(r) \/ PickStep(r)
                    \/ Start(r) \/ Repick(r) \/ Finish(r) \/ FailClosing(r)
  \/ Close

\* Handlers that run go on, and timers fire.  b.mu is fair (a sync.Mutex does
\* not starve a waiter) and gRPC's serializer delivers in order, so a handler
\* that can be called again and again is called.  Connection attempts end
\* (gRPC bounds them) and back-off ends.  Nothing makes the resolver send an
\* update, a connection break, a probe report, an RPC end, or anybody close
\* the channel.
Fairness ==
  /\ WF_vars(UpdateStep)
  /\ \A e \in Entry :
       /\ SF_vars(UpdateSubConnState(e))
       /\ WF_vars(DrainExpire(e)) /\ WF_vars(DrainShutdown(e))
       /\ WF_vars(Attempt(e)) /\ WF_vars(BackOff(e))
  /\ \A c \in Checker : SF_vars(HealthCallback(c)) /\ WF_vars(DrainExit(c))
  /\ \A r \in Rpc :
       /\ WF_vars(LoadPicker(r)) /\ WF_vars(PickStep(r))
       /\ WF_vars(Start(r)) /\ WF_vars(Repick(r)) /\ WF_vars(FailClosing(r))

Spec == Init /\ [][Next]_vars /\ Fairness

(***************************************************************************)
(* Properties.  Those of Pool hold here too.                               *)
(***************************************************************************)
\* Every variable has its type.
TypeOK ==
  /\ PoolTypeOK
  /\ mu \in BOOLEAN /\ closed \in BOOLEAN
  /\ desired \subseteq Key /\ adds \subseteq Key /\ removes \subseteq Key
  /\ picker \subseteq Entry /\ hasPicker \in BOOLEAN
  /\ checker \in [Checker -> [state : CheckerState, owner : Entry \cup {NoEntry},
                              current : Health, pending : Health]]
  /\ ac \in [Entry -> ConnState]
  /\ events \in [Entry -> Seq(ConnState)]
  /\ rpc \in [Rpc -> [state : RpcState, held : SUBSET Entry, stale : BOOLEAN,
                      entry : Entry \cup {NoEntry}]]

\* Whenever b.mu is free the picker gRPC uses has exactly the healthy entries
\* of the pool: no handler, callback or interleaving of them leaves a picker
\* with an entry that was removed or stopped serving, or without one that
\* serves (rebuildPickerLocked at the end of each of them).
PickerIsHealthySet ==
  ~mu /\ ~closed /\ hasPicker => picker = HealthyEntries

\* When an update ends the pool has no endpoint that the resolver did not name
\* in it, and from one update to the next no more than MaxSubconns endpoints,
\* although the new ones come in before the old ones leave (R12.1, R12.2).
PoolWithinCap ==
  /\ mu /\ adds = {} /\ removes = {} => Current \subseteq desired
  /\ ~mu /\ MaxSubconns > 0 => Cardinality(Current) <= MaxSubconns

\* InFlight is the number of RPCs of the entry that were picked and have not
\* called Done, whatever happened to the entry, the picker or the SubConn in
\* between (Pick, the Done callback, gRPC's repick).
OnEntry(e) == {r \in Rpc : rpc[r].entry = e /\ rpc[r].state \in {"picked", "inflight"}}

InFlightExact ==
  Counts => \A e \in Entry : sce[e].inFlight = Cardinality(OnEntry(e))

\* A pick that returns a draining entry was made from a picker that has been
\* replaced, or is about to be by the update that holds b.mu (R4.3 as far as
\* the code keeps it).
DrainingPickedOnlyWhenStale ==
  [][\A r \in Rpc, e \in Entry :
       Pick(r, e) /\ sce[e].draining => rpc[r].stale \/ mu]_vars

\* The drain goroutine stops waiting before its deadline only when no RPC is
\* in flight on the SubConn (R4.2).
DrainWaitsForRpcs ==
  [][\A e \in Entry :
       drainer[e] = "polling" /\ drainer'[e] = "drained" =>
         \A r \in Rpc : ~(rpc[r].state = "inflight" /\ rpc[r].entry = e)]_vars

\* A probe that has not been cancelled is the one its entry holds, and the
\* entry is in the pool: no probe outlives its SubConn, none is started twice.
NoStrayProbe ==
  \A c \in Checker :
    checker[c].state = "running" /\ c \notin cancelled =>
      /\ InPool(checker[c].owner)
      /\ sce[checker[c].owner].healthCancel = c

\* With health checking on, an entry serves only after a probe of its endpoint
\* has reported so and as long as that probe has nothing newer to deliver; a
\* Ready transport alone is not enough (R6.3).
ServingWasProbed ==
  EnableHealthCheck =>
    \A e \in Entry :
      InPool(e) /\ sce[e].health = "Serving" =>
        \E c \in Checker :
          /\ checker[c].state # "unused"
          /\ sce[checker[c].owner].key = sce[e].key
          /\ checker[c].current = "Serving" \/ checker[c].pending # "Unknown"

\* An RPC that waits for a picker is woken: whatever made its pick useless also
\* brings a new picker.
BlockedRpcWoken ==
  \A r \in Rpc : rpc[r].state = "blocked" ~> rpc[r].state # "blocked"

\* With health checking off, a SubConn that stays ready gets into the picker.
ReadyIsServed ==
  \A e \in Entry :
    ac[e] = "Ready" /\ InPool(e) ~>
      closed \/ ac[e] # "Ready" \/ ~InPool(e) \/ e \in picker
=============================================================================
