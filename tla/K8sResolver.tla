----------------------------- MODULE K8sResolver -----------------------------
(***************************************************************************)
(* The k8s resolver: the EndpointSlice watcher                             *)
(* (src/internal/resolver/k8s/watcher.go) under the grace window           *)
(* (statemachine.go), as resolver_adapter.go puts them together.           *)
(*                                                                         *)
(* What runs at the same time:                                             *)
(*   - the goroutine of Watcher.run, which starts one informer after       *)
(*     another until one of them has synced;                               *)
(*   - in every informer, the reflector that fills its store and the       *)
(*     goroutine that calls the event handlers, both of client-go;         *)
(*   - grace checks;                                                       *)
(*   - Close.                                                              *)
(* sendSnapshot reads the store and only then calls the callback, where    *)
(* sm.mu orders it with the others; the two are separate steps, whichever  *)
(* goroutine runs it.                                                      *)
(*                                                                         *)
(* Operators whose names begin with Bad are variants with a mistake; no    *)
(* specification uses them.                                                *)
(***************************************************************************)
EXTENDS GraceWindow, FiniteSets, Sequences

CONSTANTS Slice,        \* names of EndpointSlices of the service
          SliceValue,   \* what one of them may contain
          Absent,       \* the slice does not exist
          TargetPort,   \* cfg.Port: [name, number], one of them unset
          NoName,       \* no port name
          Backoff,      \* reconnectBackoff, in clock ticks
          SyncTimeout,  \* the 30s for the cache to sync, in clock ticks
          MaxGen,       \* bound on the informers started
          MaxChanges    \* bound on the changes of the slices

ASSUME ResolverAssumption ==
  /\ Absent \notin SliceValue
  /\ SyncTimeout \in Nat \ {0} /\ MaxGen \in Nat \ {0} /\ MaxChanges \in Nat
  /\ Backoff \in Seq(Nat \ {0}) /\ Backoff # <<>>

VARIABLES
  api,       \* the API server: whether it can be reached
  slices,    \* the API server: the slices
  changes,   \* how often they have changed
  run,       \* Watcher.run: where it is, the informer it is at, its timer, the
             \* endpoints read and not yet sent
  informer,  \* the informers, in the order they are started
  cancelled, \* the contexts of adapter and watcher have been cancelled
  closer     \* the call of the adapter's Close

watchVars == <<api, slices, changes, run, informer, cancelled, closer>>
vars == <<graceVars, watchVars>>

RunState == {"idle", "syncing", "synced", "sending", "watching", "failed",
             "backoff", "done"}
Gen == 1..MaxGen

(***************************************************************************)
(* extractEndpoints and matchPort, on the slices in a store.  A slice has  *)
(* a sequence of ports and a set of endpoints; a condition may be unset,   *)
(* and the number of a port that has none is 0.                            *)
(***************************************************************************)
PortMatches(p) ==
  /\ p.number # 0
  /\ IF TargetPort.name # NoName THEN p.name = TargetPort.name
     ELSE p.number = TargetPort.number

BadMatchPort(ports) == ports[1].number

\* The number of the first port that matches, 0 if none does.
MatchPort(ports) ==
  LET M == {i \in DOMAIN ports : PortMatches(ports[i])}
  IN IF M = {} THEN 0
     ELSE ports[CHOOSE i \in M : \A j \in M : i <= j].number

BadUsable(e) == e.ready # "false"

Usable(e) == e.ready # "false" /\ e.terminating # "true"

ExtractEndpoints(store) ==
  UNION {{<<a, MatchPort(v.ports)>> : a \in UNION {e.addresses : e \in {f \in v.endpoints : Usable(f)}}} :
           v \in {store[s] : s \in {t \in Slice : store[t] # Absent
                                                   /\ MatchPort(store[t].ports) # 0}}}

\* The slices are what the API server takes, and Endpoint has all they may name.
ASSUME SliceAssumption ==
  /\ \A p \in Endpoint : p = <<p[1], p[2]>> /\ p[2] # 0
  /\ \A v \in SliceValue : \A e \in v.endpoints :
       /\ e.ready \in {"unset", "true", "false"}
       /\ e.terminating \in {"unset", "true", "false"}
       /\ DOMAIN v.ports \subseteq Nat
       /\ \A i \in DOMAIN v.ports : PortMatches(v.ports[i]) =>
            \A a \in e.addresses : <<a, v.ports[i].number>> \in Endpoint

Empty == [s \in Slice |-> Absent]

\* An informer before it is started.  list is what is left of its first list,
\* pending the number of handler calls to come.
NewInformer == [state |-> "new", listed |-> FALSE, list |-> Empty, store |-> Empty,
                pending |-> 0, held |-> <<>>]

HasSynced(g) == informer[g].listed /\ informer[g].list = Empty

Init ==
  /\ GraceInit
  /\ api \in BOOLEAN
  /\ slices \in [Slice -> SliceValue \cup {Absent}] /\ changes = 0
  /\ run = [at |-> "idle", gen |-> 1, timer |-> 0, held |-> <<>>]
  /\ informer = [g \in Gen |-> NewInformer]
  /\ cancelled = FALSE /\ closer = "open"

(***************************************************************************)
(* Watcher.run and Watcher.watch.                                          *)
(***************************************************************************)
StartInformer(g) == [informer EXCEPT ![g].state = "running"]
StopInformer(g) == [informer EXCEPT ![g].state = "stopped"]

\* watch, up to its wait for the cache.
Watch(g) ==
  /\ g \in Gen
  /\ run' = [run EXCEPT !.at = "syncing", !.gen = g, !.timer = SyncTimeout]
  /\ informer' = StartInformer(g)
  /\ UNCHANGED <<graceVars, api, slices, changes, cancelled, closer>>

Start == run.at = "idle" /\ Watch(run.gen)

\* The poll of HasSynced.
Synced ==
  /\ run.at = "syncing" /\ HasSynced(run.gen)
  /\ run' = [run EXCEPT !.at = "synced", !.timer = 0]
  /\ UNCHANGED <<graceVars, api, slices, changes, informer, cancelled, closer>>

\* sendSnapshot by the goroutine of run: the store is read,
ReadStore ==
  /\ run.at = "synced"
  /\ run' = [run EXCEPT !.at = "sending",
                        !.held = <<ExtractEndpoints(informer[run.gen].store)>>]
  /\ UNCHANGED <<graceVars, api, slices, changes, informer, cancelled, closer>>

\* and the snapshot sent.
SendFirst ==
  /\ run.at = "sending"
  /\ Connected(Head(run.held))
  /\ run' = [run EXCEPT !.at = "watching", !.held = <<>>]
  /\ UNCHANGED <<api, slices, changes, informer, cancelled, closer>>

\* The cache has not synced in time, or the last poll came too early to see
\* that it has.
SyncFails ==
  /\ run.at = "syncing" /\ run.timer = 0 /\ ~cancelled
  /\ run' = [run EXCEPT !.at = "failed"]
  /\ informer' = StopInformer(run.gen)
  /\ UNCHANGED <<graceVars, api, slices, changes, cancelled, closer>>

\* The back-off before the next attempt.
Sleep(g) == Backoff[IF g <= Len(Backoff) THEN g ELSE Len(Backoff)]

ReportDisconnected ==
  /\ run.at = "failed"
  /\ Disconnected
  /\ run' = [run EXCEPT !.at = "backoff", !.timer = Sleep(run.gen)]
  /\ UNCHANGED <<api, slices, changes, informer, cancelled, closer>>

Reconnect == run.at = "backoff" /\ run.timer = 0 /\ Watch(run.gen + 1)

BadQuit ==
  /\ cancelled /\ run.at \in {"syncing", "failed", "watching", "backoff"}
  /\ run' = [run EXCEPT !.at = "done", !.timer = 0]
  /\ UNCHANGED <<graceVars, api, slices, changes, informer, cancelled, closer>>

\* The context is done: in the wait for the cache, after it, in the wait for
\* changes or in a back-off.
Quit ==
  /\ cancelled /\ run.at \in {"syncing", "failed", "watching", "backoff"}
  /\ run' = [run EXCEPT !.at = "done", !.timer = 0]
  /\ informer' = StopInformer(run.gen)
  /\ UNCHANGED <<graceVars, api, slices, changes, cancelled, closer>>

(***************************************************************************)
(* client-go: the informers.                                               *)
(***************************************************************************)
Running(g) == informer[g].state = "running" /\ api

\* The reflector lists the slices.
List(g) ==
  /\ Running(g) /\ ~informer[g].listed
  /\ informer' = [informer EXCEPT ![g].listed = TRUE, ![g].list = slices]
  /\ UNCHANGED <<graceVars, api, slices, changes, run, cancelled, closer>>

\* A slice of the list is put into the store and the handlers will be told.
Pop(g, s) ==
  /\ informer[g].state = "running" /\ informer[g].list[s] # Absent
  /\ informer' = [informer EXCEPT ![g].list[s] = Absent,
                                  ![g].store[s] = informer[g].list[s],
                                  ![g].pending = @ + 1]
  /\ UNCHANGED <<graceVars, api, slices, changes, run, cancelled, closer>>

\* The watch delivers a change.
WatchEvent(g, s) ==
  /\ Running(g) /\ HasSynced(g) /\ informer[g].store[s] # slices[s]
  /\ informer' = [informer EXCEPT ![g].store[s] = slices[s],
                                  ![g].pending = @ + 1]
  /\ UNCHANGED <<graceVars, api, slices, changes, run, cancelled, closer>>

BadHandlerRead(g) ==
  /\ informer[g].pending > 0 /\ informer[g].held = <<>>
  /\ informer' = [informer EXCEPT ![g].pending = @ - 1]
  /\ UNCHANGED <<graceVars, api, slices, changes, run, cancelled, closer>>

\* An event handler runs sendSnapshot: the store is read,
HandlerRead(g) ==
  /\ informer[g].pending > 0 /\ informer[g].held = <<>>
  /\ informer' = [informer EXCEPT ![g].pending = @ - 1,
                                  ![g].held = <<ExtractEndpoints(informer[g].store)>>]
  /\ UNCHANGED <<graceVars, api, slices, changes, run, cancelled, closer>>

\* and the snapshot sent, whether or not the informer has been stopped since.
HandlerSend(g) ==
  /\ informer[g].held # <<>>
  /\ Connected(Head(informer[g].held))
  /\ informer' = [informer EXCEPT ![g].held = <<>>]
  /\ UNCHANGED <<api, slices, changes, run, cancelled, closer>>

\* A stopped informer forgets the handler calls it has not made.
HandlerDrop(g) ==
  /\ informer[g].state = "stopped" /\ informer[g].pending > 0
  /\ informer' = [informer EXCEPT ![g].pending = 0]
  /\ UNCHANGED <<graceVars, api, slices, changes, run, cancelled, closer>>

(***************************************************************************)
(* Close of the adapter: it cancels both contexts and waits for run.       *)
(***************************************************************************)
Close ==
  /\ closer = "open" /\ run.at # "idle"
  /\ closer' = "waiting" /\ cancelled' = TRUE
  /\ UNCHANGED <<graceVars, api, slices, changes, run, informer>>

CloseReturns ==
  /\ closer = "waiting" /\ run.at = "done"
  /\ closer' = "returned"
  /\ UNCHANGED <<graceVars, api, slices, changes, run, informer, cancelled>>

(***************************************************************************)
(* Grace checks, time, and the API server.                                 *)
(***************************************************************************)
GraceCheck ==
  /\ CheckActs \/ CheckReturns \/ (cancelled /\ \E d \in Age : CheckCancelled(d))
  /\ UNCHANGED watchVars

Tick ==
  /\ GraceTick
  /\ run' = [run EXCEPT !.timer = IF @ = 0 THEN 0 ELSE @ - 1]
  /\ UNCHANGED <<api, slices, changes, informer, cancelled, closer>>

Reachability ==
  /\ api' = ~api
  /\ UNCHANGED <<graceVars, slices, changes, run, informer, cancelled, closer>>

Change(s, v) ==
  /\ changes < MaxChanges /\ v # slices[s]
  /\ slices' = [slices EXCEPT ![s] = v] /\ changes' = changes + 1
  /\ UNCHANGED <<graceVars, api, run, informer, cancelled, closer>>

(***************************************************************************)
(* The specification.                                                      *)
(***************************************************************************)
RunStep ==
  \/ Start \/ Synced \/ ReadStore \/ SendFirst \/ SyncFails
  \/ ReportDisconnected \/ Reconnect \/ Quit

InformerStep(g) ==
  \/ List(g) \/ \E s \in Slice : Pop(g, s) \/ WatchEvent(g, s)
  \/ HandlerRead(g) \/ HandlerSend(g) \/ HandlerDrop(g)

Next ==
  \/ RunStep
  \/ \E g \in Gen : InformerStep(g)
  \/ GraceCheck \/ Tick \/ Close \/ CloseReturns \/ Reachability
  \/ \E s \in Slice, v \in SliceValue \cup {Absent} : Change(s, v)

\* Goroutines proceed, timers fire and time passes.  Nothing makes the API
\* server reachable, changes a slice, or closes the resolver.
Fairness ==
  /\ WF_vars(RunStep) /\ WF_vars(GraceCheck) /\ WF_vars(Tick) /\ WF_vars(CloseReturns)
  /\ \A g \in Gen : WF_vars(InformerStep(g))

Spec == Init /\ [][Next]_vars /\ Fairness

(***************************************************************************)
(* Properties.  Those of GraceWindow are checked here too.                 *)
(***************************************************************************)
AtMostOneSnapshot(h) == Len(h) <= 1 /\ \A i \in DOMAIN h : h[i] \subseteq Endpoint

\* Every variable has its type.
TypeOK ==
  /\ GraceTypeOK
  /\ api \in BOOLEAN /\ cancelled \in BOOLEAN
  /\ slices \in [Slice -> SliceValue \cup {Absent}] /\ changes \in 0..MaxChanges
  /\ run.at \in RunState /\ run.gen \in Gen /\ run.timer \in Nat
  /\ AtMostOneSnapshot(run.held)
  /\ \A g \in Gen : /\ informer[g].state \in {"new", "running", "stopped"}
                   /\ informer[g].pending \in Nat
                   /\ AtMostOneSnapshot(informer[g].held)
  /\ closer \in {"open", "waiting", "returned"}

\* An outage ends, in the reconnection or in the grace window: the check of the
\* window is never lost, whatever other checks and snapshots there are (R8.5).
OutageEscalates ==
  smState = "Disconnected" ~> smState # "Disconnected" \/ cancelled

\* The endpoints a target should have, by the conditions of the API: in a slice
\* with the port of the target, neither unready nor terminating (R3.2, R3.3, R3.7).
Wanted(store) ==
  {p \in Endpoint :
     \E s \in Slice : /\ store[s] # Absent
                     /\ \E e \in store[s].endpoints :
                          /\ p[1] \in e.addresses
                          /\ e.ready \in {"unset", "true"}
                          /\ e.terminating \in {"unset", "false"}
                     /\ \E i \in DOMAIN store[s].ports :
                          /\ p[2] = store[s].ports[i].number
                          /\ PortMatches(store[s].ports[i])
                          /\ \A j \in DOMAIN store[s].ports :
                               PortMatches(store[s].ports[j]) => i <= j}

\* The last handler call under way of an informer that runs.
LastCall(g) ==
  /\ informer[g].state = "running" /\ informer[g].pending = 0
  /\ informer[g].held # <<>> /\ informer'[g].held = <<>>

\* Once an informer has synced and its endpoints have been sent, no check left
\* over from an earlier outage empties the list or brings back the endpoints to
\* fall back on: only a call of sendSnapshot changes the list, to what it has read
\* from a store, and the last call of a running informer leaves in force what its
\* store has, whatever was sent before (R3.6).  Not that the list is always the
\* latest: a call under way, also one of an informer stopped since, may still
\* send what it read earlier.
SyncedServesStore ==
  [][/\ run'.at = "watching" =>
          /\ smState' = "Connected"
          /\ \/ UNCHANGED published
             \/ run.held = <<published'>>
             \/ \E g \in Gen : /\ informer[g].held = <<published'>>
                              /\ informer'[g].held = <<>>
     /\ \A g \in Gen : LastCall(g) => published' = Wanted(informer[g].store)]_vars

\* A change seen by a synced informer is published: the handlers run after the
\* store has changed and read all of it, so the last of them cannot miss it
\* (R3.2, R3.3).
ChangePublished ==
  run.at = "watching" /\ informer[run.gen].pending > 0 ~>
    published = Wanted(informer[run.gen].store) \/ cancelled

\* Close returns, and leaves no informer, handler call or grace check behind in
\* the long run, wherever the others were when it was called (R1.5, R12.3).
CloseReleases ==
  cancelled ~>
    /\ closer = "returned"
    /\ \A g \in Gen : /\ informer[g].state # "running"
                     /\ informer[g].pending = 0 /\ informer[g].held = <<>>
    /\ \A d \in Age : checks[d] = 0

(***************************************************************************)
(* What the code does not keep.                                            *)
(***************************************************************************)
\* "If the outage exceeds the configured graceWindow, it transitions to
\* ResolverInGraceWindow" (statemachine.go, R8.5): an API server that cannot be
\* reached any more after the first sync is never noticed by the watcher.
OutageReported ==
  run.at = "watching" /\ ~api ~> api \/ smState = "InGraceWindow" \/ cancelled

\* The endpoints of a change are in (or out of) the rotation within a second of
\* the event (R3.2, R3.3), at the latest when nothing is left to be sent.  The
\* goroutine of run reads the store for its first snapshot and may send it
\* after a handler has sent a newer one; the old list stays until the next
\* change.
SettledIsCurrent ==
  /\ run.at = "watching" /\ ~cancelled
  /\ \A g \in Gen : informer[g].pending = 0 /\ informer[g].held = <<>>
  => published = Wanted(informer[run.gen].store)
=============================================================================
