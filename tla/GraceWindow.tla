----------------------------- MODULE GraceWindow -----------------------------
(***************************************************************************)
(* The grace window (src/internal/resolver/k8s/statemachine.go): it stands *)
(* between a resolver and the gRPC channel, passes snapshots on, and takes *)
(* an outage that lasts longer than ResolverGraceWindow to be one in which *)
(* the last endpoints known should be served again, with a warning.        *)
(*                                                                         *)
(* sm.mu is held for the whole of the snapshot callback and of a grace     *)
(* check, the call of fn included, so each is one step.                    *)
(*                                                                         *)
(* The code keeps instants and compares their distance from now with       *)
(* graceWindow and nothing else.  The model keeps the distance itself, an  *)
(* age that stops growing at GraceWindow; Never stands for the zero        *)
(* time.Time.                                                              *)
(*                                                                         *)
(* Operators whose names begin with Bad are variants with a mistake; no    *)
(* specification uses them.                                                *)
(***************************************************************************)
EXTENDS Naturals

CONSTANTS GraceWindow,  \* sm.graceWindow, in clock ticks
          Endpoint,     \* endpoints a snapshot may contain
          Never

ASSUME GraceAssumption == GraceWindow \in Nat /\ Never \notin Nat

VARIABLES
  smState,         \* sm.state
  disconnectedAge, \* the age of sm.disconnectedAt
  warnAge,         \* the age of sm.lastWarnAt
  lastEndpoints,   \* sm.lastEndpoints
  checks,          \* scheduleGraceCheck goroutines, by the time they have to wait
  published,       \* gRPC: the addresses of the last UpdateState
  warns,           \* the log: how many WARN entries it has
  logAge,          \* the log: the age of the last of them
  outageAge        \* history: the age of the first Disconnected snapshot since the last
                   \* Connected one, or since the start

graceVars == <<smState, disconnectedAge, warnAge, lastEndpoints, checks,
               published, warns, logAge, outageAge>>

Age == 0..GraceWindow
ResolverState == {"Connected", "Disconnected", "InGraceWindow"}

\* NewStateMachine; the zero ResolverState is Connected.
GraceInit ==
  /\ smState = "Connected"
  /\ disconnectedAge = Never /\ warnAge = Never
  /\ lastEndpoints = {}
  /\ checks = [d \in Age |-> 0]
  /\ published = {}
  /\ warns = 0 /\ logAge = Never /\ outageAge = Never

\* fn, the callback of the gRPC resolver: of a snapshot only the addresses
\* reach gRPC, whatever its state.
Emit(E) == published' = E

BadMaybeLogWarn ==
  /\ warns' = warns + 1 /\ logAge' = 0 /\ warnAge' = 0

MaybeLogWarn ==
  IF warnAge \in {Never, GraceWindow}
  THEN warns' = warns + 1 /\ logAge' = 0 /\ warnAge' = 0
  ELSE UNCHANGED <<warns, logAge, warnAge>>

BadConnectedSilently(E) ==
  /\ disconnectedAge' = Never /\ warnAge' = Never
  /\ lastEndpoints' = IF E # {} THEN E ELSE lastEndpoints
  /\ Emit(E) /\ outageAge' = Never
  /\ UNCHANGED <<smState, checks, warns, logAge>>

\* The wrapped callback on a Connected snapshot.  One without endpoints does
\* not replace the endpoints to fall back on.
Connected(E) ==
  /\ disconnectedAge' = Never /\ warnAge' = Never
  /\ smState' = "Connected"
  /\ lastEndpoints' = IF E # {} THEN E ELSE lastEndpoints
  /\ Emit(E) /\ outageAge' = Never
  /\ UNCHANGED <<checks, warns, logAge>>

\* What the resolver has reported, whatever the state machine makes of it.
OutageNoted == outageAge' = IF outageAge = Never THEN 0 ELSE outageAge

\* The age of the outage once a Disconnected snapshot has been noted.
Elapsed == IF disconnectedAge = Never THEN 0 ELSE disconnectedAge

BadOutageGoesOn ==
  /\ Elapsed < GraceWindow
  /\ disconnectedAge' = Elapsed
  /\ smState' = "Disconnected"
  /\ Emit({}) /\ OutageNoted
  /\ UNCHANGED <<lastEndpoints, warnAge, checks, warns, logAge>>

\* A Disconnected snapshot, which has no endpoints, before the window is over:
\* it is passed on and a check of the rest of the window is scheduled.
OutageGoesOn ==
  /\ Elapsed < GraceWindow
  /\ disconnectedAge' = Elapsed
  /\ smState' = "Disconnected"
  /\ checks' = [checks EXCEPT ![GraceWindow - Elapsed] = @ + 1]
  /\ Emit({}) /\ OutageNoted
  /\ UNCHANGED <<lastEndpoints, warnAge, warns, logAge>>

\* A Disconnected snapshot after the window is over.
OutageTooLong ==
  /\ Elapsed = GraceWindow
  /\ disconnectedAge' = Elapsed
  /\ smState' = "InGraceWindow"
  /\ MaybeLogWarn
  /\ Emit(lastEndpoints) /\ OutageNoted
  /\ UNCHANGED <<lastEndpoints, checks>>

Disconnected == OutageGoesOn \/ OutageTooLong

BadCheckActs ==
  /\ checks[0] > 0
  /\ checks' = [checks EXCEPT ![0] = @ - 1]
  /\ smState = "Disconnected"
  /\ smState' = "InGraceWindow"
  /\ MaybeLogWarn
  /\ Emit(lastEndpoints)
  /\ UNCHANGED <<disconnectedAge, lastEndpoints, outageAge>>

\* scheduleGraceCheck, its wait over, finds the outage still going on and old
\* enough.
CheckActs ==
  /\ checks[0] > 0
  /\ checks' = [checks EXCEPT ![0] = @ - 1]
  /\ smState = "Disconnected" /\ disconnectedAge = GraceWindow
  /\ smState' = "InGraceWindow"
  /\ MaybeLogWarn
  /\ Emit(lastEndpoints)
  /\ UNCHANGED <<disconnectedAge, lastEndpoints, outageAge>>

\* It finds the resolver connected, the window over, or another outage than
\* the one it was scheduled for.
CheckReturns ==
  /\ checks[0] > 0
  /\ checks' = [checks EXCEPT ![0] = @ - 1]
  /\ smState # "Disconnected" \/ disconnectedAge # GraceWindow
  /\ UNCHANGED <<smState, disconnectedAge, warnAge, lastEndpoints, published,
                 warns, logAge, outageAge>>

\* It returns because its context is done, however long it had to wait.
CheckCancelled(d) ==
  /\ checks[d] > 0
  /\ checks' = [checks EXCEPT ![d] = @ - 1]
  /\ UNCHANGED <<smState, disconnectedAge, warnAge, lastEndpoints, published,
                 warns, logAge, outageAge>>

(***************************************************************************)
(* Time.  Ages grow, waits shrink; a timer that is due may fire late.      *)
(***************************************************************************)
Older(a) == IF a = Never \/ a = GraceWindow THEN a ELSE a + 1

Waited == [d \in Age |-> (IF d < GraceWindow THEN checks[d + 1] ELSE 0)
                         + (IF d = 0 THEN checks[0] ELSE 0)]

GraceTick ==
  /\ disconnectedAge' = Older(disconnectedAge)
  /\ warnAge' = Older(warnAge)
  /\ logAge' = Older(logAge) /\ outageAge' = Older(outageAge)
  /\ checks' = Waited
  /\ UNCHANGED <<smState, lastEndpoints, published, warns>>

(***************************************************************************)
(* Properties.                                                             *)
(***************************************************************************)
GraceTypeOK ==
  /\ smState \in ResolverState
  /\ {disconnectedAge, warnAge, logAge, outageAge} \subseteq Age \cup {Never}
  /\ lastEndpoints \subseteq Endpoint /\ published \subseteq Endpoint
  /\ checks \in [Age -> Nat]
  /\ warns \in Nat

\* "A WARN log is emitted at most once per graceWindow interval" (R8.5), over
\* the whole run: although a reconnection forgets the last warning, the next
\* outage cannot warn before the window has passed once more.
WarnsSpaced ==
  [][warns' # warns => logAge \in {Never, GraceWindow}]_graceVars

\* The resolver falls back on the last endpoints only when the outage that it
\* has reported, from its first Disconnected snapshot on, has lasted the whole
\* window: neither a check scheduled in an earlier outage nor what is left of the
\* state of that one shortens it (R8.5).
GraceNotEarly ==
  [][smState' = "InGraceWindow" /\ smState # "InGraceWindow"
       => outageAge' = GraceWindow]_graceVars
=============================================================================
