-------------------------------- MODULE Retry --------------------------------
(***************************************************************************)
(* The retry interceptors (src/internal/retry/interceptor.go) over the     *)
(* pickers: RPCs that run at the same time, each a sequence of attempts,   *)
(* each attempt a pick by gRPC.  The AttemptTracker in the context of an   *)
(* RPC tells the picker which addresses it has tried.                      *)
(*                                                                         *)
(* The unary interceptor retries the whole RPC, the stream interceptor the *)
(* opening of the stream; their loops are the same, so an RPC has a kind   *)
(* and the actions serve both.  (lastStream and sentMsg play no part: the  *)
(* interceptor returns the first stream that opens.)                       *)
(*                                                                         *)
(* Operators whose names begin with Bad are variants with a mistake; no    *)
(* specification uses them.                                                *)
(***************************************************************************)
EXTENDS Pickers, Backoff, FiniteSets

CONSTANTS Configs,     \* configurations of a client
          Calls,       \* <<kind, nonIdempotent>> of the RPCs
          Retryable,   \* policy.RetryableStatusCodes
          Healthy,     \* healthy lists pickers may be built over
          MaxPickers   \* bound on the pickers built

ASSUME RetryAssumption ==
  /\ Calls \subseteq {"unary", "stream"} \X BOOLEAN
  /\ MaxPickers \in Nat \ {0} /\ IsFiniteSet(Rpc)
  /\ \A c \in Configs :
       /\ c.policy \in {"round_robin", "least_request"}
       /\ c.maxAttempts \in Nat \ {0} /\ c.multiplier \in Nat \ {0}
       /\ c.initial \in Nat /\ c.max \in Nat
  /\ \A h \in Healthy : /\ h \in Seq(Entry)
                           /\ \A i, j \in DOMAIN h : h[i] = h[j] => i = j

VARIABLES
  rpc,    \* the RPCs
  config  \* one of Configs: the policy, MaxAttempts and the backoff parameters

vars == <<pickVars, rpc, config>>

Code == {"OK", "Unavailable", "Internal", "DeadlineExceeded"}

\* tried is the tracker's Addrs, last the code of lastErr ("OK" for nil).
NewRpc(kind, nonIdempotent) ==
  [at |-> "loop", kind |-> kind, nonIdempotent |-> nonIdempotent,
   expired |-> FALSE, attempt |-> 0, picker |-> 0, tried |-> {}, entry |-> 0,
   last |-> "OK", pause |-> 0]

Init ==
  /\ \E h \in Healthy : PickInit(h)
  /\ rpc \in [Rpc -> {NewRpc(call[1], call[2]) : call \in Calls}]
  /\ config \in Configs

BadRetries(r) == config.maxAttempts > 1

\* Whether the interceptor runs its loop, rather than call the invoker once.
Retries(r) == config.maxAttempts > 1 /\ ~rpc[r].nonIdempotent

Goes(r, place) == rpc' = [rpc EXCEPT ![r].at = place]

\* The interceptor returns, and its variables and the tracker are gone.
Returns(r) ==
  rpc' = [rpc EXCEPT ![r] = [NewRpc("unary", FALSE) EXCEPT !.at = "returned"]]

(***************************************************************************)
(* The loop.                                                               *)
(***************************************************************************)
\* An attempt begins: gRPC loads the current picker.
Invoke(r) ==
  /\ rpc[r].at = "loop" /\ (Retries(r) => ~rpc[r].expired)
  /\ rpc' = [rpc EXCEPT ![r].at = "invoke", ![r].attempt = @ + 1,
                        ![r].picker = Len(pickers)]
  /\ UNCHANGED <<pickVars, config>>

BadLoopExpired(r) == FALSE

\* The context is done before the attempt.
LoopExpired(r) ==
  /\ rpc[r].at = "loop" /\ Retries(r) /\ rpc[r].expired
  /\ Returns(r)
  /\ UNCHANGED <<pickVars, config>>

\* Whether another attempt follows the failure of this one.
MayRetry(r) ==
  /\ Retries(r) /\ rpc[r].last \in Retryable /\ rpc[r].attempt < config.maxAttempts

GiveUp(r) ==
  /\ rpc[r].at = "failed" /\ ~MayRetry(r)
  /\ Returns(r)
  /\ UNCHANGED <<pickVars, config>>

Pause(r) == AttemptBackoff(rpc[r].attempt, config.initial, config.max,
                           config.multiplier)

Sleep(r) ==
  /\ rpc[r].at = "failed" /\ MayRetry(r)
  /\ rpc' = [rpc EXCEPT ![r].at = "sleep", ![r].pause = Pause(r)]
  /\ UNCHANGED <<pickVars, config>>

WakeUp(r) ==
  /\ rpc[r].at = "sleep"
  /\ Goes(r, "loop")
  /\ UNCHANGED <<pickVars, config>>

\* The context is done during the pause.
SleepExpired(r) ==
  /\ rpc[r].at = "sleep" /\ rpc[r].expired
  /\ Returns(r)
  /\ UNCHANGED <<pickVars, config>>

(***************************************************************************)
(* The pick of an attempt.  A picker records the address it chose in the   *)
(* tracker, if there is one.                                               *)
(***************************************************************************)
BadRecorded(r, e) == {}

Recorded(r, e) == rpc[r].tried \cup (IF Retries(r) THEN {e} ELSE {})

Chosen(r, e) ==
  rpc' = [rpc EXCEPT ![r].at = "picked", ![r].entry = e, ![r].tried = Recorded(r, e)]

RoundRobin(r, e) ==
  /\ config.policy = "round_robin" /\ rpc[r].at = "invoke"
  /\ RoundRobinPick(rpc[r].picker, rpc[r].tried, e)
  /\ Chosen(r, e)
  /\ UNCHANGED config

LeastRequestStart(r) ==
  /\ config.policy = "least_request" /\ rpc[r].at = "invoke"
  /\ LeastRequestBegin(r, rpc[r].picker, rpc[r].tried)
  /\ Goes(r, "picking")
  /\ UNCHANGED config

LeastRequestLook(r) ==
  /\ rpc[r].at = "picking"
  /\ LeastRequestLoad(r)
  /\ UNCHANGED <<rpc, config>>

LeastRequest(r, e) ==
  /\ rpc[r].at = "picking"
  /\ LeastRequestEnd(r, e)
  /\ Chosen(r, e)
  /\ UNCHANGED config

\* The picker has no entry: codes.Unavailable.
NoneHealthy(r) ==
  /\ rpc[r].at = "invoke" /\ pickers[rpc[r].picker].healthy = <<>>
  /\ rpc' = [rpc EXCEPT ![r].at = "failed", ![r].last = "Unavailable"]
  /\ UNCHANGED <<pickVars, config>>

\* The PickResult's Done, which round_robin does not set.
CallDone(r) == IF config.policy = "least_request"
               THEN Done(rpc[r].entry) /\ UNCHANGED pickers
               ELSE UNCHANGED pickVars

\* gRPC: the SubConn picked is not ready.  The call waits for the next picker
\* and asks that one, still in the same attempt.
Repick(r) ==
  /\ rpc[r].at = "picked" /\ rpc[r].picker < Len(pickers)
  /\ rpc' = [rpc EXCEPT ![r].at = "invoke", ![r].picker = Len(pickers)]
  /\ CallDone(r)
  /\ UNCHANGED config

\* gRPC: the attempt ends.  A stream that opens goes on without the interceptor.
Ends(r, code) ==
  /\ rpc[r].at = "picked"
  /\ code = "DeadlineExceeded" => rpc[r].expired
  /\ \/ /\ code = "OK" /\ rpc[r].kind = "stream"
        /\ Goes(r, "streaming") /\ UNCHANGED pickVars
     \/ /\ code = "OK" /\ rpc[r].kind = "unary"
        /\ Returns(r) /\ CallDone(r)
     \/ /\ code # "OK"
        /\ rpc' = [rpc EXCEPT ![r].at = "failed", ![r].last = code]
        /\ CallDone(r)
  /\ UNCHANGED config

StreamEnds(r) ==
  /\ rpc[r].at = "streaming"
  /\ Returns(r) /\ CallDone(r)
  /\ UNCHANGED config

(***************************************************************************)
(* The caller's context, and the balancer.                                 *)
(***************************************************************************)
Expire(r) ==
  /\ ~rpc[r].expired /\ rpc[r].at # "returned"
  /\ rpc' = [rpc EXCEPT ![r].expired = TRUE]
  /\ UNCHANGED <<pickVars, config>>

Rebuild(h) ==
  /\ Len(pickers) < MaxPickers
  /\ Replace(h)
  /\ UNCHANGED <<rpc, config>>

(***************************************************************************)
(* The specification.                                                      *)
(***************************************************************************)
Interceptor(r) ==
  Invoke(r) \/ LoopExpired(r) \/ GiveUp(r) \/ Sleep(r) \/ WakeUp(r) \/ SleepExpired(r)

PickStep(r) ==
  \/ LeastRequestStart(r) \/ LeastRequestLook(r) \/ NoneHealthy(r)
  \/ \E e \in Entry : RoundRobin(r, e) \/ LeastRequest(r, e)

Next ==
  \/ \E r \in Rpc :
       \/ Interceptor(r) \/ PickStep(r)
       \/ Repick(r) \/ (\E code \in Code : Ends(r, code)) \/ StreamEnds(r)
       \/ Expire(r)
  \/ \E h \in Healthy : Rebuild(h)

\* The interceptor and the pickers proceed and timers fire.  An attempt need
\* not end by itself, but gRPC ends it when the context does.
Fairness ==
  \A r \in Rpc : /\ WF_vars(Interceptor(r)) /\ WF_vars(PickStep(r))
                 /\ WF_vars(Ends(r, "DeadlineExceeded"))

Spec == Init /\ [][Next]_vars /\ Fairness

(***************************************************************************)
(* Properties.  Those of Pickers hold here too.                            *)
(***************************************************************************)
\* An RPC is attempted again only if it may be repeated, has failed with a code
\* that allows it, and has attempts left; never after it has succeeded or its
\* context was seen to be done (R7.2, R7.5-R7.8).
RetryJustified ==
  [][\A r \in Rpc :
       rpc'[r].attempt > rpc[r].attempt /\ rpc[r].attempt > 0 =>
         /\ ~rpc[r].nonIdempotent /\ rpc[r].last \in Retryable
         /\ rpc[r].attempt < config.maxAttempts /\ ~rpc[r].expired]_vars

\* A retry goes to an entry of an earlier pick only if the picker has no other:
\* the part of R7.3 the code keeps.
\* ("picked" is entered by a pick alone.)
RetryAvoidsTried ==
  [][\A r \in Rpc :
       /\ rpc[r].at # "picked" /\ rpc'[r].at = "picked" /\ Retries(r)
       /\ rpc'[r].entry \in rpc[r].tried \cup {rpc[r].entry}
       => LET healthy == pickers[rpc[r].picker].healthy
          IN \A j \in DOMAIN healthy : healthy[j] \in rpc[r].tried]_vars

\* The pause is the documented one, as long as the largest product that is
\* computed fits a Duration (R7.4).
PauseIsReference ==
  ProductsFit(config.initial, config.max, config.multiplier) =>
    \A r \in Rpc :
      rpc[r].at = "sleep" =>
        rpc[r].pause = Reference(rpc[r].attempt, config.initial, config.max,
                                 config.multiplier)

\* An RPC whose context is done comes to its end, wherever it is, streams aside
\* (R7.5).
ExpiredReturns ==
  \A r \in Rpc : rpc[r].expired ~> rpc[r].at \in {"returned", "streaming"}
=============================================================================
