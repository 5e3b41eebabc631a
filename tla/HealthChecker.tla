---------------------------- MODULE HealthChecker ----------------------------
(***************************************************************************)
(* A health probe of one SubConn: DefaultChecker.Watch with its goroutine  *)
(* (src/internal/health/checker.go), the channel it sends on, and          *)
(* StateMachine.Drain (state.go), which the balancer runs at the other end *)
(* (startHealthCheck in builder.go).                                       *)
(*                                                                         *)
(* The backend may stop serving, refuse connections, fall silent, and lose *)
(* the Watch method, at any time.  The context may be cancelled at any      *)
(* time; where a select has more than one case ready, either is taken.     *)
(* The probe is enabled: the balancer starts no other.                     *)
(*                                                                         *)
(* Operators whose names begin with Bad are variants with a mistake; no    *)
(* specification uses them.                                                *)
(***************************************************************************)
EXTENDS Naturals, Sequences

CONSTANTS Status,    \* ServingStatus values, "SERVING" among them
          Capacity   \* of the channel; 4 in the code

ASSUME CheckerAssumption == "SERVING" \in Status /\ Capacity \in Nat \ {0}

VARIABLES
  status,    \* the backend: what it would answer
  reach,     \* the backend: "up", "refused" or "silent"
  watches,   \* the backend: whether it implements Watch
  stream,    \* gRPC: the Watch stream, "none", "open" or "broken"
  seen,      \* gRPC: the status last received on it
  cancelled, \* ctx is done
  runner,    \* runWatch: where it is, what it sends and where it goes then
  ch,        \* the channel
  drain,     \* Drain: "select", "callback" or "exited"
  current,   \* sm.current
  reported   \* the balancer: what the last callback to return has written

backendVars == <<status, reach, watches>>
streamVars == <<stream, seen>>
drainVars == <<drain, current, reported>>
vars == <<backendVars, streamVars, cancelled, runner, ch, drainVars>>

Verdict == {"Serving", "NotServing"}
Health == Verdict \cup {"Unknown"}
RunnerState == {"dial", "recv", "send", "backoff", "ticking", "closed"}

BadToHealthState(s) == s

ToHealthState(s) == IF s = "SERVING" THEN "Serving" ELSE "NotServing"

At(place) == [at |-> place, value |-> "Unknown", next |-> place]
Sends(v, place) == [at |-> "send", value |-> v, next |-> place]

Init ==
  /\ status \in Status /\ reach \in {"up", "refused", "silent"} /\ watches \in BOOLEAN
  /\ stream = "none" /\ seen = "none"
  /\ cancelled = FALSE
  /\ runner = At("dial") /\ ch = <<>>
  /\ drain = "select" /\ current = "Unknown" /\ reported = "Unknown"

(***************************************************************************)
(* runWatch.                                                               *)
(***************************************************************************)
\* client.Watch returns a stream.
DialOK ==
  /\ runner.at = "dial" /\ reach # "refused" /\ ~cancelled
  /\ stream' = "open" /\ seen' = "none"
  /\ runner' = At("recv")
  /\ UNCHANGED <<backendVars, cancelled, ch, drainVars>>

\* It returns an error.
DialFails ==
  /\ runner.at = "dial" /\ (reach # "up" \/ cancelled)
  /\ runner' = Sends("NotServing", "backoff")
  /\ UNCHANGED <<backendVars, streamVars, cancelled, ch, drainVars>>

\* The pause after a failed call, of 1s to 10s.
BackoffEnds ==
  /\ runner.at = "backoff"
  /\ runner' = At("dial")
  /\ UNCHANGED <<backendVars, streamVars, cancelled, ch, drainVars>>

\* A status arrives on the stream.
RecvStatus ==
  /\ runner.at = "recv" /\ stream = "open" /\ reach = "up" /\ watches
  /\ seen # status /\ seen' = status
  /\ runner' = Sends(ToHealthState(status), "recv")
  /\ UNCHANGED <<backendVars, stream, cancelled, ch, drainVars>>

BadUnimplemented ==
  /\ ~watches /\ reach = "up" /\ ~cancelled
  /\ runner.at = "dial" \/ (runner.at = "recv" /\ stream = "open")
  /\ stream' = "none" /\ seen' = "none"
  /\ runner' = Sends("NotServing", "dial")
  /\ UNCHANGED <<backendVars, cancelled, ch, drainVars>>

\* The backend does not know Watch: from here on the probe uses Check.  The
\* call says so at once, or its stream does.
Unimplemented ==
  /\ ~watches /\ reach = "up" /\ ~cancelled
  /\ runner.at = "dial" \/ (runner.at = "recv" /\ stream = "open")
  /\ stream' = "none" /\ seen' = "none"
  /\ runner' = At("ticking")
  /\ UNCHANGED <<backendVars, cancelled, ch, drainVars>>

\* The stream breaks; the next call follows without a pause.
RecvFails ==
  /\ runner.at = "recv" /\ stream = "broken" /\ ~cancelled
  /\ stream' = "none" /\ seen' = "none"
  /\ runner' = Sends("NotServing", "dial")
  /\ UNCHANGED <<backendVars, cancelled, ch, drainVars>>

(***************************************************************************)
(* runPeriodicCheck and doCheck.                                           *)
(***************************************************************************)
CheckResult == IF reach = "up" THEN ToHealthState(status) ELSE "NotServing"

\* The ticker fires and Check is called; the deadline ends the call if the
\* backend does not.
Check ==
  /\ runner.at = "ticking"
  /\ \E v \in {CheckResult} \cup (IF cancelled THEN {"NotServing"} ELSE {}) :
       runner' = Sends(v, "ticking")
  /\ UNCHANGED <<backendVars, streamVars, cancelled, ch, drainVars>>

(***************************************************************************)
(* sendState, and the end of the goroutine.                                *)
(***************************************************************************)
Send ==
  /\ runner.at = "send" /\ Len(ch) < Capacity
  /\ ch' = Append(ch, runner.value)
  /\ runner' = At(runner.next)
  /\ UNCHANGED <<backendVars, streamVars, cancelled, drainVars>>

BadRunnerExits ==
  /\ cancelled /\ runner.at \in {"recv", "backoff", "ticking"}
  /\ runner' = At("closed")
  /\ stream' = "none" /\ seen' = "none"
  /\ UNCHANGED <<backendVars, cancelled, ch, drainVars>>

\* Everything that waits also waits for ctx; the channel is closed.
RunnerExits ==
  /\ cancelled /\ runner.at \in {"send", "recv", "backoff", "ticking"}
  /\ runner' = At("closed")
  /\ stream' = "none" /\ seen' = "none"
  /\ UNCHANGED <<backendVars, cancelled, ch, drainVars>>

(***************************************************************************)
(* StateMachine.Drain.                                                     *)
(***************************************************************************)
BadTransition ==
  /\ drain = "select" /\ ch # <<>>
  /\ ch' = Tail(ch)
  /\ current' = Head(ch) /\ drain' = "callback"
  /\ UNCHANGED <<backendVars, streamVars, cancelled, runner, reported>>

\* A value that is a change: the callback is called, and waits for b.mu.
Transition ==
  /\ drain = "select" /\ ch # <<>> /\ Head(ch) # current
  /\ ch' = Tail(ch)
  /\ current' = Head(ch) /\ drain' = "callback"
  /\ UNCHANGED <<backendVars, streamVars, cancelled, runner, reported>>

\* A value that is not.
NoTransition ==
  /\ drain = "select" /\ ch # <<>> /\ Head(ch) = current
  /\ ch' = Tail(ch)
  /\ UNCHANGED <<backendVars, streamVars, cancelled, runner, drainVars>>

OnTransition ==
  /\ drain = "callback"
  /\ drain' = "select" /\ reported' = current
  /\ UNCHANGED <<backendVars, streamVars, cancelled, runner, ch, current>>

\* ctx is done.  (A closed channel comes after that.)
DrainExits ==
  /\ drain = "select" /\ cancelled
  /\ drain' = "exited"
  /\ UNCHANGED <<backendVars, streamVars, cancelled, runner, ch, current, reported>>

(***************************************************************************)
(* The backend, and stopHealthCheck.                                       *)
(***************************************************************************)
StatusChanges(s) ==
  /\ s # status /\ status' = s
  /\ UNCHANGED <<reach, watches, streamVars, cancelled, runner, ch, drainVars>>

ReachChanges(r) ==
  /\ r # reach /\ reach' = r
  /\ stream' = IF r = "refused" /\ stream = "open" THEN "broken" ELSE stream
  /\ UNCHANGED <<status, watches, seen, cancelled, runner, ch, drainVars>>

\* A release without Watch takes over; it breaks the stream.
LosesWatch ==
  /\ watches /\ watches' = FALSE
  /\ stream' = IF stream = "open" THEN "broken" ELSE stream
  /\ UNCHANGED <<status, reach, seen, cancelled, runner, ch, drainVars>>

HealthCancel ==
  /\ ~cancelled /\ cancelled' = TRUE
  /\ UNCHANGED <<backendVars, streamVars, runner, ch, drainVars>>

(***************************************************************************)
(* The specification.                                                      *)
(***************************************************************************)
RunnerStep ==
  \/ DialOK \/ DialFails \/ BackoffEnds \/ RecvStatus \/ Unimplemented \/ RecvFails
  \/ Check \/ Send \/ RunnerExits

DrainStep == Transition \/ NoTransition \/ OnTransition \/ DrainExits

Next ==
  \/ RunnerStep \/ DrainStep
  \/ \E s \in Status : StatusChanges(s)
  \/ \E r \in {"up", "refused", "silent"} : ReachChanges(r)
  \/ LosesWatch \/ HealthCancel

\* Both goroutines proceed, and a select does not overlook for ever that ctx is
\* done (the choice between ready cases is random).  Nothing is promised of the
\* backend, or that anybody cancels the probe.
Fairness ==
  /\ WF_vars(RunnerStep) /\ SF_vars(RunnerExits)
  /\ WF_vars(DrainStep) /\ SF_vars(DrainExits)

Spec == Init /\ [][Next]_vars /\ Fairness

(***************************************************************************)
(* Properties.                                                             *)
(***************************************************************************)
\* Every variable has its type.
TypeOK ==
  /\ status \in Status /\ reach \in {"up", "refused", "silent"}
  /\ watches \in BOOLEAN /\ cancelled \in BOOLEAN
  /\ stream \in {"none", "open", "broken"} /\ seen \in Status \cup {"none"}
  /\ runner \in [at : RunnerState, value : Health, next : RunnerState]
  /\ ch \in Seq(Verdict) /\ Len(ch) <= Capacity
  /\ drain \in {"select", "callback", "exited"}
  /\ current \in Health /\ reported \in Health

P == INSTANCE Probe
       WITH Unknown <- "Unknown", running <- drain # "exited",
            pending <- IF drain = "callback" THEN current ELSE "Unknown"

\* The probe behaves as the balancer takes it to: verdicts come one at a time,
\* none twice in a row, none after Drain has returned (R6.4, R6.5).
ImplementsProbe == P!Spec

\* What is the case with the backend: its answer, or that it refuses connections.
Says(v) == \/ reach = "up" /\ ToHealthState(status) = v
           \/ reach = "refused" /\ v = "NotServing"

\* What is the case reaches the balancer, through the stream or the periodic
\* checks, across a switch from one to the other, and although older verdicts
\* are queued before it (R6.3-R6.6, R6.8).  (A backend that is silent is found
\* out by Check and its deadline, but not by Watch.)
VerdictReported ==
  \A v \in Verdict : Says(v) /\ ~cancelled ~> reported = v \/ ~Says(v) \/ cancelled

\* Both goroutines end after the cancellation, even when one is blocked on a
\* full channel the other no longer reads (R1.5, R12.3).
CancelReleases == cancelled ~> runner.at = "closed" /\ drain = "exited"
=============================================================================
