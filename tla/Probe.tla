-------------------------------- MODULE Probe --------------------------------
(***************************************************************************)
(* What the balancer relies on in a health probe: it reports verdicts one  *)
(* at a time, each different from the one before, and stops after it has   *)
(* been cancelled.  K8sBalancer has these steps as Receive, HealthCallback *)
(* and DrainExit; HealthChecker implements them.                           *)
(***************************************************************************)
CONSTANTS Unknown, Verdict

VARIABLES current,   \* the last verdict taken note of
          pending,   \* the verdict that waits to be reported, or Unknown
          running,
          cancelled

vars == <<current, pending, running, cancelled>>

Init ==
  /\ current = Unknown /\ pending = Unknown
  /\ running = TRUE /\ cancelled = FALSE

Receive(h) ==
  /\ running /\ pending = Unknown /\ h # current
  /\ current' = h /\ pending' = h
  /\ UNCHANGED <<running, cancelled>>

Report ==
  /\ pending # Unknown
  /\ pending' = Unknown
  /\ UNCHANGED <<current, running, cancelled>>

Exit ==
  /\ running /\ cancelled /\ pending = Unknown
  /\ running' = FALSE
  /\ UNCHANGED <<current, pending, cancelled>>

Cancel ==
  /\ cancelled' = TRUE
  /\ UNCHANGED <<current, pending, running>>

Next == (\E h \in Verdict : Receive(h)) \/ Report \/ Exit \/ Cancel

Spec == Init /\ [][Next]_vars
=============================================================================
