-------------------------------- MODULE Pool --------------------------------
(***************************************************************************)
(* The SubConn pool (src/internal/balancer/pool.go): one SubConn per       *)
(* endpoint key, eviction when a key is added again, asynchronous drain    *)
(* when a key is removed.                                                  *)
(*                                                                         *)
(* The module has two users.  K8sBalancer takes its operations as they     *)
(* are; PoolAlone runs the pool by itself under callers that may do        *)
(* anything its exported methods allow.  The properties below are checked  *)
(* or proved of both.                                                      *)
(*                                                                         *)
(* Every method takes p.mu for its whole body, so a method is one step.    *)
(* The identities of the entries (pointers in the code) are drawn from the *)
(* finite set Entry, those of the health probes from Checker.              *)
(*                                                                         *)
(* Operators whose names begin with Bad are variants with a mistake; no    *)
(* specification uses them.  They show that the properties notice it.      *)
(***************************************************************************)
EXTENDS Integers

CONSTANTS Key,       \* PoolKeys: (namespace, service, address, port)
          Entry,     \* identities of *SubConnEntry values and their SubConns
          Checker,   \* identities of health probes (the contexts they run in)
          NoEntry, NoChecker, NoKey

ASSUME PoolAssumption ==
  /\ NoEntry \notin Entry
  /\ NoChecker \notin Checker
  /\ NoKey \notin Key

VARIABLES
  entries,    \* p.entries: the live map, NoEntry where there is none
  sce,        \* the SubConnEntry structs
  subConn,    \* the SubConn of an entry: "unborn", "open" or "shutdown"
  drainer,    \* where the drainAndClose goroutine of an entry is
  cancelled   \* the probes whose HealthCancel function has been called

poolVars == <<entries, sce, subConn, drainer, cancelled>>

Health == {"Unknown", "Serving", "NotServing"}
ConnState == {"Idle", "Connecting", "Ready", "TransientFailure", "Shutdown"}
DrainState == {"none", "polling", "drained", "expired", "exited"}

SubConnEntry == [key : Key \cup {NoKey}, health : Health,
                 connState : ConnState, draining : BOOLEAN,
                 healthCancel : Checker \cup {NoChecker}, inFlight : Int]

NewEntry(k) == [key |-> k, health |-> "Unknown", connState |-> "Idle",
                draining |-> FALSE, healthCancel |-> NoChecker, inFlight |-> 0]

InPool(e) == \E k \in Key : entries[k] = e

(***************************************************************************)
(* Readers.  Both skip draining entries although Remove has already taken  *)
(* them out of the map.                                                    *)
(***************************************************************************)
Snapshot == {e \in Entry : InPool(e) /\ ~sce[e].draining}

HealthyEntries == {e \in Snapshot : sce[e].health = "Serving"}

(***************************************************************************)
(* Writers of one field.  They take the table of entries and return the    *)
(* new one, so that a handler can apply several of them in one step.       *)
(***************************************************************************)
WithConnState(t, k, s) ==
  IF entries[k] = NoEntry THEN t ELSE [t EXCEPT ![entries[k]].connState = s]

BadWithHealth(t, k, h) ==
  IF entries[k] = NoEntry THEN t ELSE [t EXCEPT ![entries[k]].connState = h]

WithHealth(t, k, h) ==
  IF entries[k] = NoEntry THEN t ELSE [t EXCEPT ![entries[k]].health = h]

AddInFlight(t, e, d) == [t EXCEPT ![e].inFlight = @ + d]

(***************************************************************************)
(* Add and Remove.                                                         *)
(***************************************************************************)
Existing(k) == {entries[k]} \ {NoEntry}

BadProbes(E) == {}

\* The HealthCancel functions the entries of a set hold.
Probes(E) == {sce[e].healthCancel : e \in E} \ {NoChecker}

BadAdd(k, e) ==
  /\ subConn[e] = "unborn"
  /\ entries' = [entries EXCEPT ![k] = e]
  /\ sce' = [sce EXCEPT ![e] = NewEntry(k)]
  /\ subConn' = [subConn EXCEPT ![e] = "open"]
  /\ cancelled' = cancelled \cup Probes(Existing(k))
  /\ UNCHANGED drainer

\* Add: the SubConn that has the key is closed at once, without a drain, and
\* a new one takes its place.
Add(k, e) ==
  /\ subConn[e] = "unborn"
  /\ entries' = [entries EXCEPT ![k] = e]
  /\ sce' = [sce EXCEPT ![e] = NewEntry(k)]
  /\ subConn' = [f \in Entry |-> IF f = e THEN "open"
                                 ELSE IF f \in Existing(k) THEN "shutdown"
                                 ELSE subConn[f]]
  /\ cancelled' = cancelled \cup Probes(Existing(k))
  /\ UNCHANGED drainer

\* Add when cc.NewSubConn fails: the old SubConn is already gone.
AddFails(k) ==
  /\ entries' = [entries EXCEPT ![k] = NoEntry]
  /\ subConn' = [f \in Entry |-> IF f \in Existing(k) THEN "shutdown"
                                 ELSE subConn[f]]
  /\ cancelled' = cancelled \cup Probes(Existing(k))
  /\ UNCHANGED <<sce, drainer>>

BadRemove(k) ==
  /\ entries[k] # NoEntry
  /\ cancelled' = cancelled \cup Probes(Existing(k))
  /\ entries' = [entries EXCEPT ![k] = NoEntry]
  /\ UNCHANGED <<sce, subConn, drainer>>

\* Remove: the entry leaves the map and its drain goroutine starts.  Unknown
\* keys are ignored.
Remove(k) ==
  /\ entries[k] # NoEntry
  /\ sce' = [sce EXCEPT ![entries[k]].draining = TRUE]
  /\ cancelled' = cancelled \cup Probes(Existing(k))
  /\ entries' = [entries EXCEPT ![k] = NoEntry]
  /\ drainer' = [drainer EXCEPT ![entries[k]] = "polling"]
  /\ UNCHANGED subConn

(***************************************************************************)
(* drainAndClose.  The decision to stop waiting and the Shutdown call are  *)
(* separate steps: nothing is locked between them.                         *)
(***************************************************************************)
BadDrainTick(e) ==
  /\ drainer[e] = "polling"
  /\ drainer' = [drainer EXCEPT ![e] = "drained"]
  /\ UNCHANGED <<entries, sce, subConn, cancelled>>

\* A 10ms tick finds no RPC in flight.
DrainTick(e) ==
  /\ drainer[e] = "polling"
  /\ sce[e].inFlight <= 0
  /\ drainer' = [drainer EXCEPT ![e] = "drained"]
  /\ UNCHANGED <<entries, sce, subConn, cancelled>>

BadDrainDeadline(e) == FALSE

\* The 5s deadline passes.
DrainDeadline(e) ==
  /\ drainer[e] = "polling"
  /\ drainer' = [drainer EXCEPT ![e] = "expired"]
  /\ UNCHANGED <<entries, sce, subConn, cancelled>>

DrainClose(e) ==
  /\ drainer[e] \in {"drained", "expired"}
  /\ drainer' = [drainer EXCEPT ![e] = "exited"]
  /\ subConn' = [subConn EXCEPT ![e] = "shutdown"]
  /\ UNCHANGED <<entries, sce, cancelled>>

\* NewPool.
PoolInit ==
  /\ entries = [k \in Key |-> NoEntry]
  /\ sce = [e \in Entry |-> NewEntry(NoKey)]
  /\ subConn = [e \in Entry |-> "unborn"]
  /\ drainer = [e \in Entry |-> "none"]
  /\ cancelled = {}

(***************************************************************************)
(* Properties.                                                             *)
(***************************************************************************)
\* Every variable has its type.
PoolTypeOK ==
  /\ entries \in [Key -> Entry \cup {NoEntry}]
  /\ sce \in [Entry -> SubConnEntry]
  /\ subConn \in [Entry -> {"unborn", "open", "shutdown"}]
  /\ drainer \in [Entry -> DrainState]
  /\ cancelled \subseteq Checker

Draining(e) == drainer[e] \in {"polling", "drained", "expired"}

\* No SubConn is ever forgotten, and none is closed under the pool's feet: a
\* SubConn is open exactly while it is in the map or a goroutine is draining
\* it, and it is never both (Add, Remove and drainAndClose together).
NoOrphanSubConn ==
  \A e \in Entry :
    /\ subConn[e] = "open" <=> InPool(e) \/ Draining(e)
    /\ ~(InPool(e) /\ Draining(e))

\* At most one SubConn per key outside a drain (R4.5, R4.6), whatever the
\* order of additions, evictions and removals.
OneSubConnPerKey ==
  \A e, f \in Entry :
    /\ subConn[e] = "open" /\ ~Draining(e)
    /\ subConn[f] = "open" /\ ~Draining(f)
    /\ sce[e].key = sce[f].key
    => e = f

\* A probe lives exactly as long as its entry stays in the map: Add and Remove
\* cancel the probe of the entry they take out, and no other.
ProbeFollowsEntry ==
  \A e \in Entry :
    sce[e].healthCancel # NoChecker =>
      (sce[e].healthCancel \in cancelled <=> ~InPool(e))

\* drainAndClose ends: a SubConn that starts to drain is closed, even when the
\* RPCs on it never finish, because of the deadline (R4.2).
DrainEnds ==
  \A e \in Entry : drainer[e] = "polling" ~> subConn[e] = "shutdown"

\* The pool keeps the promise of SubConnLifecycle.
Phase(e) == CASE subConn[e] = "unborn" -> "unborn"
              [] subConn[e] = "shutdown" -> "closed"
              [] subConn[e] = "open" /\ sce[e].draining -> "draining"
              [] OTHER -> "live"

Lifecycle == INSTANCE SubConnLifecycle
               WITH phase <- [e \in Entry |-> Phase(e)],
                    owner <- [k \in Key |-> Existing(k)]

\* Every step of the pool creates, retires, replaces or closes a SubConn the
\* way the abstract lifecycle allows, or leaves it alone (R4.1-R4.6).
ImplementsLifecycle == Lifecycle!Spec
=============================================================================
