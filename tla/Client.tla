------------------------------- MODULE Client -------------------------------
(***************************************************************************)
(* Clients in one process (src/balancer.go): how they are made, called and *)
(* closed, and how each brings its configuration to its balancer.          *)
(*                                                                         *)
(* NewClient leaves the configuration in the package variable activeConfig *)
(* (src/internal/balancer/builder.go), which the balancer of whichever     *)
(* client is built next takes over; every resolver update carries the      *)
(* client's own in its attributes (src/resolver_adapter.go).  The policies *)
(* are in a registry of the package too, in which names are looked up      *)
(* again whenever a picker is built (src/internal/balancer/registry.go).   *)
(*                                                                         *)
(* grpc.ClientConn is external: a call builds its resolver, the first      *)
(* update its balancer; a channel without calls becomes idle, which closes *)
(* both until the next call; Close returns when both are closed.  The wait *)
(* of the client's Close for c.wg is over at once, for nothing is ever     *)
(* added to it.                                                            *)
(*                                                                         *)
(* Operators whose names begin with Bad are variants with a mistake; no    *)
(* specification uses them.                                                *)
(***************************************************************************)
EXTENDS DnsResolver, Target

CONSTANTS Config,      \* the configuration of each client
          TargetText,  \* the target of each client
          BuiltIn,     \* the registry of the package: the factories by name
          Custom,      \* further names the application may register
          Factory,     \* and the factories it registers
          Call,        \* calls of Invoke or NewStream
          Closer,      \* calls of Close
          Owner,       \* the client they are calls on
          None

ASSUME ClientAssumption ==
  /\ DOMAIN Config = Client /\ DOMAIN TargetText = Client
  /\ Owner \in [Call \cup Closer -> Client]
  /\ "round_robin" \in DOMAIN BuiltIn /\ Custom \cap DOMAIN BuiltIn = {}
  /\ None \notin Client /\ None \notin Factory
  /\ \A n \in DOMAIN BuiltIn : BuiltIn[n] # None
  /\ \A c \in Client : Config[c].policy \in DOMAIN BuiltIn \cup Custom

VARIABLES
  registry,      \* registry: the factory of a name
  activeConfig,  \* the package variable
  made,          \* NewClient: "no", "configured", "made"; "failed" if it returns an error
  validated,     \* history: the factory NewClient found for the client's policy
  closed,        \* c.closed
  once,          \* c.closeOnce: "free", "running", "finished"
  conn,          \* c.conn: "idle", "active", "idling", "closed"
  balancer,      \* the balancer: [cfg, factory], None if there is none
  serving,       \* hosts of the balancer's last update, None before it
  call,          \* [at, late, result]
  closer         \* where the calls of Close are

newVars == <<registry, activeConfig, made, validated>>
closeVars == <<closed, once, closer>>
connVars == <<conn, balancer, serving>>
clientVars == <<newVars, closeVars, connVars, call>>
vars == <<dnsVars, clientVars>>

CallState == {"idle", "entered", "checked", "sent", "ended"}
Result == {"none", "OK", "Unavailable", "Canceled", "ErrClientClosed"}
CloserState == {"idle", "begun", "marked", "closing", "waiting", "returned"}
Name == DOMAIN BuiltIn \cup Custom

Init ==
  /\ DnsInit
  /\ registry = [n \in Name |-> IF n \in Custom THEN None ELSE BuiltIn[n]]
  /\ activeConfig = None
  /\ made = [c \in Client |-> "no"] /\ validated = [c \in Client |-> None]
  /\ closed = [c \in Client |-> FALSE] /\ once = [c \in Client |-> "free"]
  /\ conn = [c \in Client |-> "idle"]
  /\ balancer = [c \in Client |-> None] /\ serving = [c \in Client |-> None]
  \* late is history: a Close of the client had returned before the call.
  /\ call = [k \in Call |-> [at |-> "idle", late |-> FALSE, result |-> "none"]]
  /\ closer = [x \in Closer |-> "idle"]

(***************************************************************************)
(* The registry.                                                           *)
(***************************************************************************)
BadRegisterPolicy(name, factory) ==
  /\ registry' = [registry EXCEPT ![name] = factory]
  /\ UNCHANGED <<dnsVars, activeConfig, made, validated, closeVars, connVars, call>>

\* A name that is taken is refused.
RegisterPolicy(name, factory) ==
  /\ registry[name] = None
  /\ registry' = [registry EXCEPT ![name] = factory]
  /\ UNCHANGED <<dnsVars, activeConfig, made, validated, closeVars, connVars, call>>

\* rebuildPickerLocked falls back on round_robin.
PickerFactory(policy) ==
  IF registry[policy] = None THEN registry["round_robin"] ELSE registry[policy]

\* What it may make the picker with: None stands for noHealthyPicker, the only
\* one without hosts.  Which SubConns are healthy is left open here.
Rebuilt(policy, hosts) == {None} \cup (IF hosts = {} THEN {} ELSE {PickerFactory(policy)})

(***************************************************************************)
(* NewClient.  A configuration or target that is refused has no effect.    *)
(***************************************************************************)
\* What a nil configuration stands for.  Durations are in milliseconds, the
\* multiplier in hundredths.
DefaultConfig ==
  [policy |-> "round_robin", maxSubconns |-> 0, healthCheck |-> TRUE,
   healthInterval |-> 10000, healthTimeout |-> 2000, graceWindow |-> 30000,
   maxAttempts |-> 3, initialBackoff |-> 100, maxBackoff |-> 2000, multiplier |-> 200,
   retryableCodes |-> {"Unavailable", "ResourceExhausted", "Aborted"},
   defaultNamespace |-> <<>>]

\* validate, apart from the policy.
ValidConfig(cfg) ==
  /\ cfg.maxAttempts >= 1 /\ (cfg.maxAttempts > 1 => cfg.retryableCodes # {})
  /\ cfg.multiplier >= 100
  /\ \A bound \in {cfg.initialBackoff, cfg.maxBackoff, cfg.maxSubconns,
                   cfg.healthInterval, cfg.healthTimeout, cfg.graceWindow} : bound >= 0

Accepted(c) ==
  /\ registry[Config[c].policy] # None /\ ValidConfig(Config[c])
  /\ ~IsError(ParseTarget(TargetText[c], Config[c].defaultNamespace))

\* What NewClient hands to the balancer.
BuildConfig(c) == [policy |-> Config[c].policy, maxSubconns |-> Config[c].maxSubconns,
                   healthCheck |-> Config[c].healthCheck]

SetActiveConfig(c) ==
  /\ made[c] = "no" /\ Accepted(c)
  /\ activeConfig' = BuildConfig(c)
  /\ made' = [made EXCEPT ![c] = "configured"]
  /\ validated' = [validated EXCEPT ![c] = registry[Config[c].policy]]
  /\ UNCHANGED <<dnsVars, registry, closeVars, connVars, call>>

\* grpc.NewClient may refuse the dial options.
Dial(c) ==
  /\ made[c] = "configured"
  /\ \E result \in {"made", "failed"} : made' = [made EXCEPT ![c] = result]
  /\ UNCHANGED <<dnsVars, registry, activeConfig, validated, closeVars, connVars, call>>

(***************************************************************************)
(* Invoke and NewStream: the flag is looked at, then the channel called.   *)
(***************************************************************************)
CloseReturned(c) == \E x \in Closer : Owner[x] = c /\ closer[x] = "returned"

Enter(k) ==
  /\ call[k].at = "idle" /\ made[Owner[k]] = "made"
  /\ call' = [call EXCEPT ![k].at = "entered", ![k].late = CloseReturned(Owner[k])]
  /\ UNCHANGED <<dnsVars, newVars, closeVars, connVars>>

End(k, result) == call' = [call EXCEPT ![k].at = "ended", ![k].result = result]

Check(k) ==
  /\ call[k].at = "entered"
  /\ \/ closed[Owner[k]] /\ End(k, "ErrClientClosed")
     \/ ~closed[Owner[k]] /\ call' = [call EXCEPT ![k].at = "checked"]
  /\ UNCHANGED <<dnsVars, newVars, closeVars, connVars>>

\* gRPC: a call on an idle channel builds the resolver; one that comes while
\* the channel becomes idle waits.
Send(k) ==
  LET c == Owner[k]
  IN /\ call[k].at = "checked"
     /\ \/ conn[c] = "closed" /\ End(k, "Canceled") /\ UNCHANGED <<dnsVars, conn>>
        \/ /\ conn[c] = "idle" /\ DnsStart(c)
           /\ conn' = [conn EXCEPT ![c] = "active"]
           /\ call' = [call EXCEPT ![k].at = "sent"]
        \/ /\ conn[c] = "active" /\ UNCHANGED <<dnsVars, conn>>
           /\ call' = [call EXCEPT ![k].at = "sent"]
     /\ UNCHANGED <<newVars, closeVars, balancer, serving>>

\* gRPC: the RPC waits for the balancer's first picker, noHealthyPicker fails
\* it; or it is ended because the channel is closed.
Reply(k) ==
  LET c == Owner[k]
  IN /\ call[k].at = "sent"
     /\ \/ /\ conn[c] = "active" /\ serving[c] # None
           /\ End(k, IF balancer[c].factory = None THEN "Unavailable" ELSE "OK")
        \/ conn[c] = "closed" /\ End(k, "Canceled")
     /\ UNCHANGED <<dnsVars, newVars, closeVars, connVars>>

(***************************************************************************)
(* gRPC: idle mode, entered after a time without calls.                    *)
(***************************************************************************)
\* The channel drops its picker and balancer and has its resolver closed.
Release(c, state) ==
  /\ conn' = [conn EXCEPT ![c] = state]
  /\ balancer' = [balancer EXCEPT ![c] = None] /\ serving' = [serving EXCEPT ![c] = None]
  /\ DnsCancel(c)

EnterIdle(c) ==
  /\ conn[c] = "active" /\ \A k \in Call : call[k].at = "sent" => Owner[k] # c
  /\ Release(c, "idling")
  /\ UNCHANGED <<newVars, closeVars, call>>

\* The resolver has been closed.
Idle(c) ==
  /\ conn[c] = "idling" /\ DnsClosed(c)
  /\ conn' = [conn EXCEPT ![c] = "idle"]
  /\ DnsForget(c)
  /\ UNCHANGED <<newVars, closeVars, balancer, serving, call>>

(***************************************************************************)
(* Close.                                                                  *)
(***************************************************************************)
\* sync.Once: one call runs the function; a call that comes meanwhile waits.
CloseOnce(x) ==
  LET c == Owner[x]
  IN /\ closer[x] = "idle" /\ made[c] = "made"
     /\ closer' = [closer EXCEPT ![x] = CASE once[c] = "free" -> "begun"
                                          [] once[c] = "running" -> "waiting"
                                          [] once[c] = "finished" -> "returned"]
     /\ once' = [once EXCEPT ![c] = IF @ = "free" THEN "running" ELSE @]
     /\ UNCHANGED <<dnsVars, newVars, closed, connVars, call>>

CloseMark(x) ==
  /\ closer[x] = "begun"
  /\ closed' = [closed EXCEPT ![Owner[x]] = TRUE]
  /\ closer' = [closer EXCEPT ![x] = "marked"]
  /\ UNCHANGED <<dnsVars, newVars, once, connVars, call>>

\* c.conn.Close, which waits for a channel that is becoming idle.
CloseConn(x) ==
  LET c == Owner[x]
  IN /\ closer[x] = "marked" /\ conn[c] # "idling"
     /\ Release(c, "closed")
     /\ closer' = [closer EXCEPT ![x] = "closing"]
     /\ UNCHANGED <<newVars, closed, once, call>>

CloseFinish(x) ==
  LET c == Owner[x]
  IN /\ closer[x] = "closing" /\ DnsClosed(c)
     /\ once' = [once EXCEPT ![c] = "finished"]
     /\ closer' = [closer EXCEPT ![x] = "returned"]
     /\ UNCHANGED <<dnsVars, newVars, closed, connVars, call>>

BadOnceOver(x) == TRUE

OnceOver(x) == once[Owner[x]] = "finished"

CloseWaited(x) ==
  /\ closer[x] = "waiting" /\ OnceOver(x)
  /\ closer' = [closer EXCEPT ![x] = "returned"]
  /\ UNCHANGED <<dnsVars, newVars, closed, once, connVars, call>>

(***************************************************************************)
(* The resolver's update and the balancer.                                 *)
(***************************************************************************)
\* gRPC: the first update builds the balancer, which takes activeConfig and has
\* no picker yet.
Build(c) ==
  /\ loop[c].at = "send" /\ conn[c] = "active" /\ balancer[c] = None
  /\ balancer' = [balancer EXCEPT ![c] = [cfg |-> activeConfig, factory |-> None]]
  /\ UNCHANGED <<dnsVars, newVars, closeVars, conn, serving, call>>

\* The BuildConfig the adapter puts into the attributes: the health-check
\* fields keep their zero values.
Attribute(c) == [BuildConfig(c) EXCEPT !.healthCheck = FALSE]

BadInForce(c) == balancer[c].cfg

\* UpdateClientConnState takes the configuration of the attributes.
InForce(c) == Attribute(c)

\* The addresses become endpoints (EndpointsOf), and the picker is rebuilt.
Update(c) ==
  /\ loop[c].at = "send" /\ conn[c] = "active" /\ balancer[c] # None
  /\ \E f \in Rebuilt(InForce(c).policy, loop[c].result) :
       balancer' = [balancer EXCEPT ![c] = [cfg |-> InForce(c), factory |-> f]]
  /\ serving' = [serving EXCEPT ![c] = loop[c].result]
  /\ Sent(c)
  /\ UNCHANGED <<newVars, closeVars, conn, call>>

\* The picker is rebuilt because of a SubConn or a probe (module K8sBalancer).
RebuildPicker(c) ==
  /\ conn[c] = "active" /\ serving[c] # None
  /\ \E f \in Rebuilt(balancer[c].cfg.policy, serving[c]) :
       balancer' = [balancer EXCEPT ![c].factory = f]
  /\ UNCHANGED <<dnsVars, newVars, closeVars, conn, serving, call>>

\* gRPC: an update of a resolver that is being closed is ignored.
UpdateIgnored(c) ==
  /\ conn[c] \in {"idling", "closed"} /\ Sent(c)
  /\ UNCHANGED clientVars

(***************************************************************************)
(* The specification.                                                      *)
(***************************************************************************)
LoopStep(c) ==
  \/ (LookupReturns(c) \/ LookupFails(c) \/ TickerFires(c) \/ LoopQuits(c))
       /\ UNCHANGED clientVars
  \/ Build(c) \/ Update(c) \/ UpdateIgnored(c)

CallStep(k) == Check(k) \/ Send(k) \/ Reply(k)

CloserStep(x) == CloseMark(x) \/ CloseConn(x) \/ CloseFinish(x) \/ CloseWaited(x)

Next ==
  \/ \E name \in Name, factory \in Factory : RegisterPolicy(name, factory)
  \/ \E c \in Client : \/ SetActiveConfig(c) \/ Dial(c)
                       \/ LoopStep(c) \/ RebuildPicker(c) \/ EnterIdle(c) \/ Idle(c)
  \/ \E k \in Call : Enter(k) \/ CallStep(k)
  \/ \E x \in Closer : CloseOnce(x) \/ CloserStep(x)
  \/ HostChanges /\ UNCHANGED clientVars

\* The clients that can have a resolver: a call builds it.
Called == {Owner[k] : k \in Call}

\* Goroutines proceed and the ticker ticks; RPCs with a picker end.  A context
\* that is done does not lose against the ticker for ever, since the select
\* chooses at random.
Fairness ==
  /\ \A c \in Called : /\ WF_vars(LoopStep(c)) /\ WF_vars(Idle(c))
                       /\ SF_vars(LoopQuits(c) /\ UNCHANGED clientVars)
  /\ \A k \in Call : WF_vars(CallStep(k))
  /\ \A x \in Closer : WF_vars(CloserStep(x))

Spec == Init /\ [][Next]_vars /\ Fairness

(***************************************************************************)
(* Properties.                                                             *)
(***************************************************************************)
PickerMaker == Factory \cup {BuiltIn[n] : n \in DOMAIN BuiltIn}

Balancer ==
  [cfg : {None} \cup {BuildConfig(c) : c \in Client} \cup {Attribute(c) : c \in Client},
   factory : PickerMaker \cup {None}]

ASSUME NoneAssumption == None \notin Balancer

\* Every variable has its type.
TypeOK ==
  /\ DnsTypeOK
  /\ registry \in [Name -> PickerMaker \cup {None}]
  /\ validated \in [Client -> PickerMaker \cup {None}]
  /\ activeConfig \in {BuildConfig(c) : c \in Client} \cup {None}
  /\ made \in [Client -> {"no", "configured", "made", "failed"}]
  /\ closed \in [Client -> BOOLEAN] /\ once \in [Client -> {"free", "running", "finished"}]
  /\ conn \in [Client -> {"idle", "active", "idling", "closed"}]
  /\ balancer \in [Client -> Balancer \cup {None}] /\ serving \in [Client -> Found \cup {None}]
  /\ call \in [Call -> [at : CallState, late : BOOLEAN, result : Result]]
  /\ closer \in [Closer -> CloserState]

\* What the application may give as a target survives being printed (R2.5),
\* whatever slashes, colons and leading zeros it has and wherever its namespace
\* came from.  Parsing depends on no state, so it is enough to look at the states
\* before the first NewClient.
RoundTrip == (\A c \in Client : made[c] = "no") => PrintParses

\* ParsePort, the adapter and the balancer agree on ports and addresses: no
\* endpoint of a numeric port is lost or changed between the resolver and the
\* pool.  Looked at where RoundTrip is.
PortReachesBalancer == (\A c \in Client : made[c] = "no") => PortsAgree

\* A balancer that has been given endpoints works with the policy and the cap of
\* its own client, although another NewClient may have replaced activeConfig
\* before it was built, or before it was built again after idle mode (R5.1,
\* R12.1).
OwnConfig ==
  \A c \in Client :
    serving[c] # None => /\ balancer[c].cfg.policy = Config[c].policy
                         /\ balancer[c].cfg.maxSubconns = Config[c].maxSubconns

\* Its pickers are made by the very factory that NewClient found under the name,
\* though the name is looked up every time: no later registration replaces it,
\* and the fallback on round_robin is never needed (R5.3, R5.7).
PolicyAsValidated ==
  \A c \in Client :
    balancer[c] # None => balancer[c].factory \in {None, validated[c]}

\* A call made after some Close of the client has returned gets
\* ErrClientClosed, whichever of several Closes it was (R1.6, R11.1).
LateCallRefused ==
  \A k \in Call : call[k].late /\ call[k].at = "ended" => call[k].result = "ErrClientClosed"

\* When any Close has returned, the channel is closed and the resolver's
\* goroutine has ended, so it sends nothing more, even if the channel was
\* becoming idle at the time (R1.5, R12.3).
CloseReleases ==
  \A c \in Client : CloseReturned(c) => conn[c] = "closed" /\ loop[c].at \in {"none", "done"}

\* Every Close and every call returns, with a lookup going on or a result on its
\* way, with failed lookups, and with the channel becoming idle or being closed
\* at any time: again and again none is under way, and there are finitely many
\* (R1.5, R5.6).
EverythingReturns ==
  []<>(/\ \A x \in Closer : closer[x] \in {"idle", "returned"}
       /\ \A k \in Call : call[k].at \in {"idle", "ended"})

\* What the host's addresses have become is served in the end, after failed
\* lookups too, as long as the channel is in use.
DnsRefreshed ==
  \A c \in Called : conn[c] = "active" ~> serving[c] = Addresses \/ conn[c] # "active"

(***************************************************************************)
(* What the code does not keep.                                            *)
(***************************************************************************)
\* "THE Health_Checker SHALL probe each Subconnection" (R6.1) unless
\* EnableHealthCheck is false (R6.7): the update that brings the endpoints takes
\* the setting away again.
HealthCheckHonoured ==
  \A c \in Client : serving[c] # None => balancer[c].cfg.healthCheck = Config[c].healthCheck
=============================================================================
