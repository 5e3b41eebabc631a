# go-kubegrpc in TLA+

go-kubegrpc is a gRPC client library for Kubernetes: it resolves a service to
its pods, keeps one gRPC SubConn per pod, probes them, spreads RPCs over them and
retries what fails. This directory is its model: TLA+ modules for the parts that
run concurrently or fail, configurations that check them with TLC, and theorems
checked by TLAPS about all of them: every invariant that a run checks is proved
for all values of the constants.

Paths such as `builder.go` are under `src/internal/...` of the repository; R*n.m*
and P*n* are requirements and properties of
`.kiro/specs/grpc-k8s-balancer/requirements.md` and `design.md`.

Contents: [the system](#1-the-system), [the modules](#2-the-modules),
[abstract specifications](#3-abstract-specifications), [the runs](#4-the-runs),
[fairness](#5-fairness), [the proofs](#6-the-proofs),
[where code and documents disagree](#7-where-code-and-documents-disagree),
[what is not modelled](#8-what-is-not-modelled), [the plan](#9-the-plan).

## 1. The system

```
 Client (balancer.go) ──── retry interceptors (retry/) ──── RPCs
   │ NewClient, Invoke, NewStream, Close        │ context: AttemptTracker
   ▼                                            ▼
 grpc.ClientConn (external) ─ picker wrapper ─ Picker.Pick (picker_rr.go, picker_lr.go)
   │            ▲                               ▲ UpdateState, by rebuildPickerLocked
   │ updates    │ addresses + BuildConfig       │
   ▼            │                               │
 resolver adapter (resolver_adapter.go)       k8sBalancer (builder.go) ── b.mu
   │                                            │            ▲ callback
   ├─ StateMachine (k8s/statemachine.go)        ▼            │
   │    └─ Watcher (k8s/watcher.go)           SubConn pool   health StateMachine.Drain
   │         └─ informers (client-go)         (pool.go, p.mu)  ▲ channel of 4
   └─ dns Resolver (dns/lookup.go)              └ drain       DefaultChecker (health/checker.go)
                                                  goroutines
```

| Component | State | Operations | Talks to |
|---|---|---|---|
| Client (`balancer.go`, `config.go`) | `closed`, `once`, the ClientConn, package variable `activeConfig` | NewClient (with validate and DefaultConfig), Invoke, NewStream, Close | ClientConn; the balancer, through `activeConfig` and the resolver's attributes |
| Policy registry (`registry.go`) | name → factory, of the package | RegisterPolicy, lookup | NewClient; the balancer whenever it builds a picker |
| Target parsing (`target.go`, `target/parse.go`) | none | ParseTarget, String | NewClient, the resolvers; the port goes on through `resolver_adapter.go` to the balancer |
| k8sBalancer (`builder.go`) | pool, `cfg`, policy, `scToKey`, all under `b.mu` | UpdateClientConnState, UpdateSubConnState, health callback, Close | pool, gRPC (NewSubConn, UpdateState), probes |
| SubConn pool (`pool.go`) | key → entry map; per entry: health, connectivity, `InFlight`, `draining`, cancel function | Add (evicts), Remove (drains), UpdateHealth, UpdateConnState, Snapshot, HealthyEntries | one goroutine per drain, which closes the SubConn |
| Pickers (`picker_*.go`) | the healthy list they were built over; a counter, or the shared in-flight counts | Pick, Done | called by any number of RPCs, without a lock |
| Health checker (`health/`) | Watch stream or ticker, channel, last verdict | Watch, Check fallback, Drain | the backend; the balancer by callback |
| EndpointSlice watcher (`k8s/watcher.go`) | informer, its store, the loop's position | sync, retry with back-off, event handlers, Close | API server (client-go); the grace window |
| Grace window (`k8s/statemachine.go`) | state, instant of the outage and of the last warning, last endpoints | snapshot callback, delayed checks | watcher; gRPC channel |
| DNS resolver (`dns/lookup.go`) | loop, ticker | lookup, Close | DNS; gRPC channel |
| Retry interceptors (`retry/`) | attempt, tried addresses, back-off | unary and stream loop | pickers through the context |

What is hard here:

* **Snapshots used after they are stale.** A picker is a copy of the healthy list;
  RPCs hold one across updates. A probe reports for a key that may have got
  another SubConn. The time of a check is fixed in one outage and it fires in the next.
* **Steps without a common lock.** `sendSnapshot` reads the store and calls back
  afterwards; least-request loads the counts one by one; `Invoke` looks at `closed`
  and then calls the channel; `activeConfig` is read when gRPC builds the balancer.
* **Two ends of a conversion**: the port of a target is parsed, printed into an
  address and parsed again by the balancer, which drops what it cannot read.
* **Life cycles that overlap**: an idle channel closes resolver and balancer and builds
  others at the next call, while the client may be closed.
* **Goroutines that must end**: drains, probes and the other end of their channel,
  informers and their handlers, grace checks, the DNS loop.
* **Failure**: NewSubConn fails for one endpoint, connections break, a backend
  refuses or falls silent, Watch turns out to be unimplemented, the cache does not
  sync, a lookup fails, a context expires anywhere in a retry.

What makes each part correct, in a line (section 4 has the properties):

* *pool*: an open SubConn is in the map or draining, never both and never neither;
  one per endpoint; every drain ends and waits for RPCs first.
* *balancer*: outside a handler gRPC's picker is exactly the set of healthy
  entries; between updates the pool is what the resolver said, up to the cap.
* *pickers and retry*: round robin is even, least-request is as good as its
  loads and its counts exact, retries are justified and end.
* *health*: what the backend says reaches the balancer, and a cancelled probe ends.
* *resolver*: changes are published, an outage escalates in time and not before,
  Close leaves nothing.
* *client*: each works under its own configuration and the policy it was validated
  with, through idle mode too, and Close means closed.
* *target*: what is printed parses to the same target, and what NewClient accepts
  reaches the balancer.

## 2. The modules

Modules were written in this order, the most important behaviour first. `MC*`
modules give the constants values; `*Proofs` modules hold theorems.

| Module | Models | Correspondence |
|---|---|---|
| `SubConnLifecycle` | – (abstract) | phases of a SubConn: unborn, live, draining, closed |
| `Pool` | `pool.go` | `entries` is the map, `sce` the entries' fields, `drainer` the position of `drainAndClose` (`polling`, `drained`), `subConn` gRPC's view (unborn, open, shutdown), `cancelled` the probes whose context is done. A method holds `p.mu` throughout and is one action. The drain goroutine is three: a tick that sees zero, the 5 s deadline, the Shutdown. |
| `PoolAlone` | the pool's exported interface | any method at any time; reaches Add's eviction, which the balancer never takes |
| `K8sBalancer` | `builder.go`, `cap.go` | UpdateClientConnState is `BeginUpdate`, then `AddOne`/`AddOneFails`/`RemoveOne` per endpoint in any order (a Go map), then `FinishUpdate`, while `mu` is held. The other handlers change one entry and the picker: one action each. External: the SubConn state machine (`ac`), the serializer's queue (`events`), the picker wrapper (RPCs load, pick, then look at the SubConn and may pick again). |
| `Pickers` | `picker_rr.go`, `picker_lr.go` | round robin is one atomic addition, one action; least-request one action per load, then the addition |
| `Backoff` | `retry/backoff.go` | the products, a recursive function, with the conversion to a `Width`-bit Duration, and `Reference`, the documented pause |
| `Retry` | `retry/interceptor.go` | EXTENDS `Pickers` and `Backoff`; both interceptors' loops with context, tracker and pauses |
| `Probe` | – (abstract) | what `K8sBalancer` takes a probe to do |
| `HealthChecker` | `health/checker.go`, `health/state.go` | runWatch's position (`runner`), the channel (`ch`), Drain's (`drain`), the backend |
| `GraceWindow` | `k8s/statemachine.go` | ages in place of instants; `checks[d]` counts pending checks that wait `d` ticks more |
| `K8sResolver` | `k8s/watcher.go`, `resolver_adapter.go` | EXTENDS `GraceWindow`; run's loop, up to `MaxGen` informers one after another, their stores, handlers in two steps (read, send), Close |
| `DnsResolver` | `dns/lookup.go` | a loop per client: lookup, send, tick; forgotten when the channel becomes idle |
| `Target` | `target.go`, `target/parse.go`, the address of an endpoint in `resolver_adapter.go` and `builder.go` | operators without state; a text is a sequence of characters, and numbers are read (`Atoi`) and printed (`Itoa`) digit by digit |
| `Client` | `balancer.go`, `config.go`, `registry.go`, `activeConfig`, `resolver_adapter.go` | EXTENDS `DnsResolver` and `Target`; NewClient, calls and Closes in steps, the channel with idle mode, RegisterPolicy at any time, the balancer reduced to its configuration, the factory of its picker and the hosts it serves |
| `Recursion` | – | least numbers, induction and the existence of recursive functions, for the proofs |
| `PoolProofs`, `PoolAloneProofs` | – | the pool's operations, and the theorems about the pool under free callers |
| `K8sBalancerProofs` | – | the theorems about the balancer: SubConns, picker, cap, probes, counters, drains, late picks |
| `K8sResolverProofs` | – | the theorems about the watcher and the grace window under it |
| `HealthCheckerProofs` | – | the theorems about the checker: types, and that it implements `Probe` |
| `RetryProofs` | – | the theorems about the pickers, the back-off and the retry loop |
| `ClientProofs` | – | the theorems about targets, and about configuration, calls and Close of the client |

Data is kept as small as the properties allow: endpoints are numbers (ordered, as
`address:port` is for the cap and the pickers), SubConns and probes are model
values, EndpointSlices are records with exactly the fields `extractEndpoints` and
`matchPort` look at, durations are ticks. Texts are spelled out in `Target` alone,
where the properties are about characters; everywhere else an address is a value.
In `Client` the picker a rebuild installs is left open between `noHealthyPicker`
(`None`) and that of the policy: which SubConns are healthy is the matter of
`K8sBalancer`.

Operators whose names begin with `Bad` are variants of a definition with a
plausible mistake (a dropped guard, a missing reset). No specification uses them;
each property of a run has one under which it fails.

## 3. Abstract specifications

`SubConnLifecycle` says what a SubConn pool promises without a map, flags or
goroutines: at most one live SubConn per endpoint; a live one drains before it is
closed, or is closed because another takes its endpoint; nothing closed comes
back. `Pool!Lifecycle` instantiates it with `phase` computed from the pool's
state. `PoolAlone` implements it, by TLC (`pool`) and TLAPS; `K8sBalancer` does by
TLAPS, for all constants.

`Probe` says that verdicts are reported one at a time, each different from the
last, and not after the probe has stopped. `K8sBalancer` has these steps as
`Receive`, `HealthCallback` and `DrainExit`; `HealthChecker`, which has the whole
of the checker, its channel and Drain, implements `Probe` (run `health_checker`).
So the balancer need not be checked together with the checker.

## 4. The runs

Every passing run is an exhaustive exploration. With two workers:

| Run | Spec, constants | Distinct states | Time |
|---|---|---|---|
| `pool` | `PoolAlone`: 2 keys, 3 SubConns, 1 probe | 76 thousand | 10 s |
| `balancer_rpc` | `K8sBalancer`: 2 keys, 2 SubConns, 1 RPC, cap 1, least_request, no probes | 5.04 million | 187 s |
| `balancer_probes` | 1 key, 2 SubConns, 1 probe, health checks on | 2.57 million | 71 s |
| `balancer_live` | 1 key, 1 SubConn, 1 RPC, 3 queued states, Close | 9 thousand | 4 s |
| `resolver` | `K8sResolver`: window 2, back-off 1 then 2, 2 informers, 1 slice with 1 change | 244 thousand | 75 s |
| `health_checker` | 2 statuses, channel of 4 | 36 thousand | 9 s |
| `retry` | 2 RPCs, 2 entries, 2 pickers, up to 4 attempts, both policies | 780 thousand | 120 s |
| `client` | 3 clients (one is refused), 2 calls, 2 Closes, 1 failed lookup, 1 change of addresses, 1 policy that is registered meanwhile | 287 thousand | 90 s |

**`pool`** — `NoOrphanSubConn` (an open SubConn is in the map or draining, what is
in the map is open), `ProbeFollowsEntry` (the probe of an entry that left the map
is cancelled), `ImplementsLifecycle`. Three SubConns let one key
be evicted into a drain, taken again and evicted once more beside another key.

**`balancer_rpc`** — `PickerIsHealthySet`, `InFlightExact` (the atomic counter is
the number of RPCs between Pick and Done, through repicks and removals),
`DrainingPickedOnlyWhenStale` (only an old picker, or one about to be replaced, can
return a draining entry), `DrainWaitsForRpcs`, `PoolWithinCap`. An endpoint that is
removed and added again has two SubConns, one of them draining with the RPC on it:
the case the counters and the drain are for. Two endpoints compete for a cap of one,
with NewSubConn failing for either.

**`balancer_probes`** — `NoStrayProbe` (an uncancelled probe is the one its entry
holds), `ServingWasProbed` (R6.3; with the two ways a late report may be used, see
section 7). Two SubConns of one endpoint, with a probe of the first still about
when the second comes.

**`balancer_live`** — `DrainEnds`, `BlockedRpcWoken` (an RPC whose SubConn turned
out not to be ready waits for another picker and always gets one), `ReadyIsServed`. Three undelivered states
make the serializer lag behind the connection. Liveness needs no second SubConn:
drain, wake-up and delivery of one SubConn do not depend on another's.

**`resolver`** — `SyncedServesStore` (after a sync no left-over check empties the list or
brings back a past one, and the last handler call of the running informer leaves what
its store has), `WarnsSpaced`, `GraceNotEarly` (measured by `outageAge`, a history of
what the watcher reported that the state machine's own fields do not enter),
`OutageEscalates`, `ChangePublished`, `CloseReleases`. Two informers are what it takes
for a stopped one's handlers to meet its successor, and for two outages with checks
of the first pending in the second; a window of 2 ticks with back-offs of 1 and 2
puts checks before, at and after the next outage. `ChangePublished` compares with
`Wanted`, the endpoints by the conditions and the first matching port of the API
(R3.2, R3.3, R3.7), not with the loop that extracts them.

**`health_checker`** — `ImplementsProbe`, `VerdictReported` (an answer, or a refusal
to connect, that lasts is known to the balancer in the end), `CancelReleases`. The backend changes status, refuses, falls silent and loses Watch
at any time, so the channel (its real capacity, 4) fills up with old verdicts.

**`retry`** — `RoundRobinEven` (P3), `LeastRequestBound` (the choice is the minimum up
to what other RPCs changed while it looked; P7 without the concurrency it leaves
out), `RetryJustified`, `RetryAvoidsTried`, `ExpiredReturns`,
`PauseIsReference` (the pause is min(initial·multiplierⁿ⁻¹, max) as long as
initial·multiplier and max·multiplier fit a Duration). Four attempts with the products
2, 6 and 18 and a max of 5 make the loop stop at its first and second turn; `Width` 5,
whose largest value is 15, makes 18 the product that would overflow if it did not. A
second configuration has pauses of 1 and 3, which no max cuts, the third an initial
pause above max. Two RPCs are one to pick and one to interfere. Pickers are replaced in
mid-attempt.

**`client`** — `RoundTrip` and `PortReachesBalancer` (of every text of up to four
characters out of five, so that slashes, colons and zeros come in every order, with
`MaxPort` 80 in place of 65535), `OwnConfig` (two clients of different configuration
race for `activeConfig`; the balancer has its own by the time it has endpoints, after
idle mode too), `PolicyAsValidated` (the pickers are made by the factory NewClient
found, however late the lookup), `LateCallRefused`, `CloseReleases` (two Closes of one
client, at any point of a lookup, also while the channel is becoming idle),
`EverythingReturns`, `DnsRefreshed`. The third client has a multiplier
below 1 and is never made.

Four runs have a counterexample, about a statement of the repository's documents
that the code does not keep (section 7): **`round_robin_drain`**, **`resolver_outage`**,
**`stale_snapshot`**, **`health_check_dropped`**.

Deadlock is checked in `resolver` and `health_checker`, where time or the backend
always has a step. The others may stop: the identities of SubConns, RPCs, calls
and pickers are used up, and a closed client does nothing.

Bounds that are not in the table: `MaxInFlight` (1) for the pool's free callers,
`MaxEvents` for undelivered connectivity states (1 where only safety is asked),
`MayClose` (FALSE where Close adds nothing to the question), `MaxPickers`, `MaxGen`,
`MaxChanges`, `MaxFailures`, `MaxPort`, the length of the texts. SubConns are drawn from a finite set
and not reused, as pointers are not. Symmetry over SubConns is used in runs that check
safety only; keys and entries of the pickers are ordered and not symmetric.

## 5. Fairness

Each `Fairness` formula gives weak fairness to the steps of goroutines and timers
of the code, and nothing to the environment.

* `PoolAlone`: a drain's deadline and its Shutdown.
* `K8sBalancer`: the update in progress, the drains, gRPC's steps for an RPC, the
  end of connection attempts and of back-off (gRPC bounds both). Strong fairness for
  `UpdateSubConnState` and the health callback: both wait for `b.mu`, which updates
  take and release; a `sync.Mutex` does not starve a waiter and the serializer is a
  queue. No fairness for resolver updates, lost connections, reports of a probe, the
  end of an RPC, Close.
* `HealthChecker`: both goroutines; strong fairness for leaving on `ctx.Done`, since a
  `select` chooses among ready cases at random. None for the backend or the cancellation.
* `K8sResolver`: run, informers, checks, time, the end of Close. None for the API
  server, the slices or the call of Close.
* `Retry`: the interceptor, the pickers, and gRPC's ending an attempt whose context
  is done. An attempt need not end otherwise.
* `Client`: the DNS loop, Closes, the steps of a call that is under way, gRPC's
  way into idle mode and the close of a channel once they have begun, and the loop's
  exit against its ticker (strong). Nobody need call, close or register, the channel need
  not become idle, and no picker need be rebuilt without an update.

## 6. The proofs

| Theorem | Module | States |
|---|---|---|
| `PoolNoOrphan`, `PoolOnePerKey` | `PoolAloneProofs` | `PoolSpec => []NoOrphanSubConn`, `[]OneSubConnPerKey` |
| `PoolImplementsLifecycle` | `PoolAloneProofs` | `PoolSpec => ImplementsLifecycle` |
| `PoolProbeFollows` | `PoolAloneProofs` | `PoolSpec => []ProbeFollowsEntry` |
| `TypeCorrect` | `K8sBalancerProofs` | `Spec => []TypeOK` |
| `BalancerNoOrphan`, `BalancerOnePerKey` | `K8sBalancerProofs` | the same two of the balancer with RPCs, probes and drains |
| `PickerFresh` | `K8sBalancerProofs` | `Spec => []PickerIsHealthySet` |
| `BalancerImplementsLifecycle` | `K8sBalancerProofs` | `Spec => ImplementsLifecycle` |
| `CapHolds` | `K8sBalancerProofs` | `Spec => []PoolWithinCap` |
| `ProbeFollows`, `NoStray` | `K8sBalancerProofs` | `Spec => []ProbeFollowsEntry`, `[]NoStrayProbe` |
| `ServingProbed` | `K8sBalancerProofs` | `Spec => []ServingWasProbed` |
| `InFlightCounts` | `K8sBalancerProofs` | `Spec => []InFlightExact` |
| `DrainWaits` | `K8sBalancerProofs` | `Spec => DrainWaitsForRpcs`, if the policy counts (least_request) |
| `DrainingPickedLate` | `K8sBalancerProofs` | `Spec => DrainingPickedOnlyWhenStale` |
| `RoundRobinSpread` | `RetryProofs` | `Spec => []RoundRobinEven` |
| `LeastRequestNearMin` | `RetryProofs` | `Spec => []LeastRequestBound` |
| `LeastRequestCounts` | `RetryProofs` | under least_request a count is the number of RPCs at the entry |
| `PausesAsDocumented` | `RetryProofs` | `Spec => []PauseIsReference` |
| `RetriesJustified`, `RetriesAvoidTried` | `RetryProofs` | `Spec => RetryJustified`, `Spec => RetryAvoidsTried` |
| `WarnsApart`, `WindowNotEarly` | `K8sResolverProofs` | `Spec => WarnsSpaced`, `Spec => GraceNotEarly` |
| `SyncedServes` | `K8sResolverProofs` | `Spec => SyncedServesStore` |
| `TypeCorrect` | `K8sResolverProofs` | `Spec => []TypeOK` |
| `ExtractsWanted` | `K8sResolverProofs` | extractEndpoints returns `Wanted` for every store |
| `CheckNeverLost` | `K8sResolverProofs` | in an outage a check is pending for the end of the window |
| `CloseStopsInformers` | `K8sResolverProofs` | no informer runs when Close has returned |
| `CheckerTypeCorrect` | `HealthCheckerProofs` | `Spec => []TypeOK` |
| `ProbeImplemented` | `HealthCheckerProofs` | `Spec => ImplementsProbe` |
| `Printed`, `TargetsRoundTrip` | `ClientProofs` | `PrintParses`, `Spec => []RoundTrip` |
| `PortsReach`, `PortsGetThrough` | `ClientProofs` | `PortsAgree`, `Spec => []PortReachesBalancer` |
| `ClientTypeCorrect` | `ClientProofs` | `Spec => []TypeOK` |
| `ConfigOwn`, `PolicyKept` | `ClientProofs` | `Spec => []OwnConfig`, `Spec => PolicyAsValidated` |
| `LateRefused`, `ClosedReleased` | `ClientProofs` | `Spec => []LateCallRefused`, `[]CloseReleases` |

Every invariant and every action property of the passing runs has its theorem. No
theorem uses fairness. They hold for all constants that satisfy these assumptions:

* pool and balancer: `PoolAssumption` (`NoEntry`, `NoChecker` and `NoKey` are not members of
  the sets they stand beside) and `BalancerAssumption` (keys are numbers; there are
  finitely many keys and RPCs; the cap is a number). Any sets of keys, SubConns,
  probes and RPCs, any cap, both policies, with and without health checks.
* retry: `EntryAssumption` (entries are numbers from 1 on, ordered as addresses are),
  `WidthAssumption` and `RetryAssumption` (finitely many RPCs; policies,
  attempts and back-offs that `validate` accepts, multipliers whole; a healthy list
  names no entry twice). Any number of entries, RPCs, pickers and attempts.
* resolver: `GraceAssumption` (the window is a number and `Never` is not), `ResolverAssumption`
  and `SliceAssumption` (a condition is unset, true or false; `Endpoint` has what
  the slices may yield). Any window, back-off, slices and number of informers.
* health checker: `CheckerAssumption`. Any statuses and any capacity of the channel.
* client: `ClientAssumption` (who owns which call, which targets and policies there
  are), `DnsAssumption` (what DNS may answer), `NoneAssumption` (`None` is no balancer) and
  `TargetAssumption` (texts are sequences of characters; a default namespace,
  being a DNS label, has no slash). Any number of clients, calls, Closes
  and answers, texts of any length and any bound of the ports.

*Recursive functions.* The provers know nothing of what `f[n \in Nat] == ... f[n - 1]
...` defines, nor of induction over an operator. `Recursion` gets both from the
well-foundedness of < on the naturals: a non-empty set of numbers has a least one
(`LeastNat`); a set with 0 and with n + 1 for each n of it has all numbers (`Induct`);
and for a start and a step there is one function that iterates the step (`Iterate`, as
the limit of the tables up to n, which exist by induction and agree), so that the
`CHOOSE` behind the recursive definition finds it. `Kept`, `Products` and `Value` are
such iterations. `Itoa` calls itself at `n \div 10`: it is the limit of tables of which
each uses the one before.

*The pool.* `PoolInv == PoolTypeOK /\ MapByKey /\ FlagMatches /\ NoOrphanSubConn`.
`NoOrphanSubConn` alone is not inductive: Add and Remove change the SubConn of one key,
and without `MapByKey` (an entry sits under its own key) another key might have the same
one, which would be lost or closed with it. `FlagMatches` (an entry is flagged as
draining exactly when it has left the map) is what lets `Snapshot` and the lifecycle's
phases be read off the flag. `PoolProofs` shows once that each operation keeps `PoolInv`
and is a step or a stutter of `SubConnLifecycle`; updates of health, connectivity,
counts and cancel functions share one lemma (`TablePoolInv`) because they keep the shape
of the table. `OneSubConnPerKey` follows from `MapByKey`; it has no run of its own, for
`SubConnLifecycle`, which the runs check, contains it. `PoolProbeFollows` needs besides
that no two entries hold one probe (`HeldOnce`), or taking one out of the map would
cancel the other's.

*The balancer.* `Inv == TypeOK /\ PoolInv /\ CheckerInv /\ RpcInv /\ UpdateInv /\
PickerIsHealthySet`. `CheckerInv` (a started probe has an entry, with a key) is needed
where a callback writes by that key; `RpcInv` (an RPC that was given a SubConn knows its
entry) where Done lowers a count; `UpdateInv` (nothing is left to do when `mu` is free)
because the update's steps are enabled by what is left, and another handler would
otherwise find itself in the middle of one. The handlers then divide into those that end
in rebuildPickerLocked (`RebuildPickerInv`), those that change neither health nor the
map (`SameHealthy`), and the steps of an update, during which `mu` excuses the picker.
`NextInv` puts one lemma per action together.

*The cap.* `PoolWithinCap` speaks of the map between updates only, and an update adds
before it removes, so an invariant must say what the update in progress still has to do:
`CapInv` is that the keys in the map are among those to remove or the desired ones, and
that the desired ones are at most `MaxSubconns`. The bound on what `CapEndpoints` keeps
(`CapBound`) comes from an injection: a kept key goes to the number of desired keys
below it, which is less than the cap.

*The probes.* `ProbeInv` adds to `ProbeFollowsEntry` and `NoStrayProbe` that a probe was
started for the entry that holds it (`HeldByOwner`) and that a cancelled one was started
(`CancelledWasStarted`). So no two entries hold the same probe, taking one entry out of
the map cancels no other's, and a probe that starts has not been cancelled already.
`ServedInv` adds to `ServingWasProbed` that the report on its way to `b.mu` is the
newest one of its probe (`PendingIsCurrent`), and that a probe's entry had been added
before it (`OwnerWasAdded`), so that its key does not change any more. That the callback
writes by key does no harm then: it writes what a probe of that very endpoint has said.

*The counters.* Pick and Done change the counter and the set of RPCs on the entry
together. The step that needs more is Add, which starts a counter at zero: no RPC may be
on the entry already. `BornInv` says so for the picker and for the pickers that RPCs
hold: their entries have all been added to the pool. `DrainWaits` follows from the exact
counters and the drain's guard; under round_robin nothing is counted and it is false
(section 7).

*Late picks.* `FreshInv`: outside an update, a picker that an RPC has loaded and that
was not replaced since (it is not `stale`) has no draining entry; and no update is at
work after Close, so that the rebuild at its end is not skipped. Only an update makes an
entry drain, and its rebuild makes every picker stale that an RPC still holds.

*The grace window.* `GraceInv` ties the ages together: `disconnectedAt` is the beginning
of the outage that the watcher reports (`OutageKnown`), and a warning is remembered with
its age or was forgotten at a Connected snapshot, after which the outage of now began
(`WarningKnown`). When the window is over, the outage is a window old, and so is the
last warning, remembered or not. Checks that are left over from an earlier outage do not
enter the argument: the handler compares ages, not checks, and that is what
`WindowNotEarly` and `WarnsApart` show, for outages before the first sync too.
`CheckNeverLost` is the safety half of `OutageEscalates`: `CheckPending` says that an
outage of age a has a check `GraceWindow - a` ticks away, so that it fires at the very
tick at which the window is over; a tick moves both.

*The watcher.* `TypeInv` is the type invariant with what run and handlers hold between
reading and sending (`Held`: nothing, or a set of endpoints); that what they read has
the type at all is `ExtractsWanted`, whose core is that the least index of a matching
port exists and is the one `matchPort` returns. `InformerInv`: at most one informer
runs, the one run is at, and those to come are new (`OneRuns`), hence
`CloseStopsInformers`; an informer that was not stopped, has no call to come and holds
something holds what its store has (`IsCurrent`), for a change of the store brings a
call with it. `SyncedServes` combines this with `SyncInv` (the one way into Disconnected
is a snapshot of run, which sends none after the sync) and with the cases of `Next`
that change `published`; its part about the last call is the safety half of
`ChangePublished`.

*The health checker.* Drain calls back with what it took from the channel, and pending
means Unknown when there is no call: so it must be known that Unknown is never sent
(`SendsVerdict`, of the goroutine, the channel and Drain), and a callback under way has
a verdict (`CallbackInv`). Then each step is one of `Probe` or changes nothing of it.

*The pickers.* `Even` gives the state of a round-robin picker exactly: if it never left
an entry out, the entries at places 2 to `counter % n + 1` are one pick ahead of the
others. A pick takes the next place, or the first when the remainder wraps
(`NextRemainder`). `Bounded` is about a scan of least-request that is under way: the
count it remembers is right, for the entry it has chosen, up to the changes since, and
not above that of any entry it has left behind by more than these. Every change by
another RPC raises the bound by one, and the next load compares with what is there then.
`CountsExact` ties a count to the set of RPCs that picked the entry and whose Done is to
come, so that none goes below zero (`LeastRequestCounts`).

*Retries.* `RpcInv` is for each RPC: at the loop, or asleep, after the first attempt,
only if `MayRetry` held when it went there, and nothing `MayRetry` looks at has changed
since; while it picks, its scan is about the candidates of its own picker and its own
tried addresses; and what it was at is among these. `CandidatesFacts` (an entry that was
tried is a candidate only if all were) then gives `RetryAvoidsTried` for both policies,
a scan that another picker replaced included.

*Pauses.* The products grow (`ProductsGrow`), so the first to reach max decides: before
it none is above max, and its own value is less than initial·m or max·m, which fit, so
that it converts to itself. If none reaches max the last product is the pause.

*Targets.* Texts are cut at the last colon and the first slash; `CutAtLast` and
`CutAtFirst` say that joining texts, of which the last has no colon, or the first no
slash, and cutting them again gives them back. `Parsed` says what a target that was
parsed is made of: a port text without a colon, a namespace without a slash, a service
that is not empty. `ItoaAtoi` (reading the printed number gives the number; it has
digits only) is what makes the printed port parse to the same port, leading zeros of the
first text or not, and the port of an address be read by the balancer as it was written,
whatever colons the address has.

*The client.* `Inv == TypeOK /\ MadeInv /\ ConfigInv /\ CloseInv /\ LateInv`. `MadeInv`:
only a client that NewClient returned has calls, a channel or a validated factory.
`ConfigInv` is for each client that without a balancer it serves nothing, that a
balancer which serves has the attributes of its own client, and that its picker's
factory, if there is one, is the one validated; hence `OwnConfig`, and
`PolicyAsValidated` for the step that makes a picker. `CloseInv` says of every Close how
much it has done at each of its steps, for `CloseReleases` speaks of the finished ones
only. `LateInv`: a call that began after a Close had returned finds the client closed
and never gets past the check, so that it ends with `ErrClientClosed`.

What stays with TLC: liveness (`DrainEnds`, `BlockedRpcWoken`, `ReadyIsServed`,
`OutageEscalates`, `ChangePublished`, the resolver's `CloseReleases`, `VerdictReported`,
`CancelReleases`, `ExpiredReturns`, `EverythingReturns`, `DnsRefreshed`), which the
prover does not reach, as it does not reach ENABLED. `RECURSIVE` is used nowhere.

## 7. Where code and documents disagree

With a run that shows it:

* **Drain under round_robin does not wait** (`round_robin_drain`). `rrPicker.Pick`
  (`picker_rr.go:89`) returns no Done and counts nothing, so `drainAndClose` sees
  zero in flight at its first tick and closes the SubConn under its RPCs. R4.2 and
  the comment at `pool.go:176` promise a drain. With least_request it is kept.
* **An outage after the first sync is not noticed** (`resolver_outage`). Once the
  cache has synced, `watch` waits for its context alone (`watcher.go:232`);
  client-go retries in silence, so no Disconnected snapshot is ever sent and the
  grace window (R8.5, `requirements.md:138`, `statemachine.go:28-31`) does not begin.
* **The first snapshot may overwrite a later one** (`stale_snapshot`). After the sync
  the goroutine of `run` reads the store and sends (`watcher.go:229`) while the handlers do
  so too, without a common lock: a list read before a change may be sent after it and
  stays until the next event, against R3.3. `ChangePublished` is the part that is kept, with the last call of `SyncedServesStore`.
* **Health checks are turned off by the first update** (`health_check_dropped`). The
  BuildConfig of `resolver_adapter.go:80` has no health fields, and
  UpdateClientConnState takes it over as it is. `K8sBalancer` is nevertheless checked with
  health checks on: that is the configuration the balancer package supports, and
  what it would run once the field is passed.

Without a run; the model has the behaviour and its properties allow for it:

* An RPC with an old picker gets a SubConn that is being drained (R4.3 excludes
  it). `DrainingPickedOnlyWhenStale` is the part that is kept.
* More than MaxSubconnections are open while others drain, and within an update,
  which adds before it removes (R12.1). `PoolWithinCap` is about the map between updates.
* A health report that waits for `b.mu` while its probe is cancelled is still
  applied, by key, to whatever SubConn has the key then (`builder.go:364`).
  `ServingWasProbed` therefore asks for a probe of the endpoint, not of the SubConn.
* A SubConn that went Idle stays in the picker (`builder.go:308`), where
  `design.md:410` takes it out.
* Close of the balancer cancels no probe (`builder.go:395`); gRPC closes their SubConns.
* The handlers are registered before the cache has synced (`watcher.go:184`): the
  first snapshots may have a part of the slices only. The rest follows at once.
* A handler call under way when its informer is stopped (`watcher.go:212`) may publish
  its list after the successor has synced and sent its own; the old list stays until the
  next event. `SyncedServesStore` allows this, `SettledIsCurrent` does not.
* A dns target with a named port has port number 0, and the balancer drops every
  address of it (`resolver_adapter.go:118`). `PortReachesBalancer` states this case apart.
* Handlers already under way may send a snapshot after the resolver's Close has
  returned. gRPC ignores it.
* A retry may go to the entry just tried once all have been (R7.3);
  `RetryAvoidsTried` is the part that is kept.
* A `DefaultNamespace` with a slash would be printed into the target and parsed as part of the
  service (`target.go:133`), against R2.5. Nothing checks it; the properties take it to be a
  DNS label.
* A Disconnected snapshot has no endpoints and reaches gRPC as an empty list until
  the window is over, and so does a failed DNS lookup: the pool is emptied meanwhile.
* A backend that falls silent on an open Watch stream is not found out. Only Check has
  a deadline.

## 8. What is not modelled

* `Reconcile` of `resolver/reconcile.go` (no code but its tests calls it; the balancer
  has its own set difference, which is modelled), metrics and log helpers (not called
  by the rest), the Kubernetes client factory (reads files).
* Of the adapter, the errors of Build when no Kubernetes client can be made; of the
  configuration, which of several errors `validate` reports.
* What the dialer makes of an address: `pool.go:145` writes an IPv6 host without
  brackets. Panics of single values: `NewTicker(0)`.
* In modelled components: log lines, `OnFailure` (ResolveNow, which does nothing), `ApplyCap`
  (not called), a probe with EnableCheck off (never started), an inner resolver that
  sends InGraceWindow (none does), `KnownPolicies` (for error texts), the fields of the
  stream wrapper nobody reads, the empty policy name, which `registry.go:47` lets a caller
  register and the balancer takes for "keep" or `round_robin` (`builder.go:155`, `builder.go:200`).

## 9. The plan

Every component is modelled and checked, or listed in section 8, and every safety
property of a run is proved. What is left:

1. *Proofs*: that `K8sBalancer` does with each of its probes what `Probe` says, the other half
   of the composition with `HealthChecker`; the safety half of further liveness
   properties, as `CheckNeverLost` is for `OutageEscalates` (an RPC that waits for a picker with
   a healthy entry in the pool).
2. *Model*: the k8s resolver under `Client`, where only the dns resolver is now; two
   EndpointSlices in `resolver`.
