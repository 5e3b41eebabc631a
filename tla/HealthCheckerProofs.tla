------------------------- MODULE HealthCheckerProofs -------------------------
(***************************************************************************)
(* A health probe behaves as the balancer takes it to, for any capacity of *)
(* its channel and whatever the backend does.                              *)
(***************************************************************************)
EXTENDS HealthChecker, TLAPS

(***************************************************************************)
(* Only verdicts are ever sent, so what Drain notes is never "Unknown".    *)
(***************************************************************************)
Place == RunnerState \ {"send"}

SendsVerdict ==
  /\ runner.at = "send" => runner.value \in Verdict
  /\ runner.next \in Place

CallbackInv == drain = "callback" => current \in Verdict

Inv == TypeOK /\ SendsVerdict /\ CallbackInv

RunnerRecord == [at : RunnerState, value : Health, next : RunnerState]

LEMMA Places ==
  /\ \A p \in Place : At(p) \in RunnerRecord
  /\ \A v \in Verdict, p \in Place : Sends(v, p) \in RunnerRecord
BY DEF Place, At, Sends, RunnerRecord, RunnerState, Health, Verdict

LEMMA Verdicts == \A s \in Status : ToHealthState(s) \in Verdict
BY DEF ToHealthState, Verdict

\* A step of the goroutine that sends nothing, and one that goes to send.
LEMMA RunnerInv ==
  ASSUME Inv, UNCHANGED <<backendVars, cancelled, ch, drainVars>>,
         stream' \in {"none", "open", "broken"}, seen' \in Status \cup {"none"},
         \/ \E p \in Place : runner' = At(p)
         \/ \E v \in Verdict, p \in Place : runner' = Sends(v, p)
  PROVE  Inv'
<1>1. runner' \in RunnerRecord
  BY Places
<1>2. SendsVerdict'
  BY DEF SendsVerdict, At, Sends, Place
<1> QED
  BY <1>1, <1>2 DEF Inv, TypeOK, CallbackInv, RunnerRecord, backendVars, drainVars

LEMMA InitInv == Init => Inv
<1> SUFFICES ASSUME Init PROVE Inv
  OBVIOUS
<1>1. "dial" \in Place
  BY DEF Place, RunnerState
<1>2. runner \in RunnerRecord
  BY <1>1, Places DEF Init
<1>3. ch \in Seq(Verdict) /\ Len(ch) <= Capacity
  BY CheckerAssumption DEF Init
<1> QED
  BY <1>1, <1>2, <1>3
  DEF Init, Inv, TypeOK, SendsVerdict, CallbackInv, RunnerRecord, At, Health

LEMMA RunnerStepInv ==
  ASSUME Inv, RunnerStep
  PROVE  Inv'
<1>0. /\ {"dial", "recv", "backoff", "ticking", "closed"} \subseteq Place
      /\ "NotServing" \in Verdict /\ status \in Status
      /\ stream \in {"none", "open", "broken"} /\ seen \in Status \cup {"none"}
  BY DEF Place, RunnerState, Verdict, Inv, TypeOK
<1>1. CASE DialOK \/ BackoffEnds \/ Unimplemented \/ RunnerExits
  BY <1>0, <1>1, RunnerInv DEF DialOK, BackoffEnds, Unimplemented, RunnerExits, streamVars
<1>2. CASE DialFails \/ RecvFails
  BY <1>0, <1>2, RunnerInv DEF DialFails, RecvFails, streamVars
<1>3. CASE RecvStatus
  BY <1>0, <1>3, Verdicts, RunnerInv DEF RecvStatus
<1>4. CASE Check
  <2>1. CheckResult \in Verdict
    BY <1>0, Verdicts DEF CheckResult
  <2>2. \E v \in Verdict : runner' = Sends(v, "ticking")
    BY <1>0, <1>4, <2>1 DEF Check
  <2> QED  BY <1>0, <1>4, <2>2, RunnerInv DEF Check, streamVars
<1>5. CASE Send
  <2>1. runner.value \in Verdict /\ runner.next \in Place
    BY <1>5 DEF Send, Inv, SendsVerdict
  <2>2. ch' \in Seq(Verdict) /\ Len(ch') <= Capacity
    BY <1>5, <2>1, CheckerAssumption DEF Send, Inv, TypeOK
  <2>3. runner' \in RunnerRecord /\ runner'.next = runner.next
    BY <1>5, <2>1, Places DEF Send, At
  <2>4. runner'.at # "send"
    BY <1>5, <2>1 DEF Send, At, Place
  <2> QED
    BY <1>5, <2>2, <2>3, <2>4
    DEF Send, Inv, TypeOK, SendsVerdict, CallbackInv, RunnerRecord, backendVars,
        streamVars, drainVars
<1> QED  BY <1>1, <1>2, <1>3, <1>4, <1>5 DEF RunnerStep

LEMMA DrainStepInv ==
  ASSUME Inv, DrainStep
  PROVE  Inv'
<1>1. ch \in Seq(Verdict) /\ Len(ch) <= Capacity /\ Verdict \subseteq Health
  BY DEF Inv, TypeOK, Health
<1>2. ch # <<>> => /\ Head(ch) \in Verdict /\ Tail(ch) \in Seq(Verdict)
                   /\ Len(Tail(ch)) <= Capacity
  BY <1>1, CheckerAssumption
<1>3. UNCHANGED <<backendVars, streamVars, cancelled, runner>>
  BY DEF DrainStep, Transition, NoTransition, OnTransition, DrainExits
<1>4. ch' \in Seq(Verdict) /\ Len(ch') <= Capacity
  BY <1>1, <1>2 DEF DrainStep, Transition, NoTransition, OnTransition, DrainExits
<1>5. /\ drain' \in {"select", "callback", "exited"}
      /\ current' \in Health /\ reported' \in Health /\ CallbackInv'
  BY <1>1, <1>2
  DEF DrainStep, Transition, NoTransition, OnTransition, DrainExits, drainVars, Inv,
      TypeOK, CallbackInv
<1> QED
  BY <1>3, <1>4, <1>5 DEF Inv, TypeOK, SendsVerdict, backendVars, streamVars

LEMMA NextInv == Inv /\ [Next]_vars => Inv'
<1> SUFFICES ASSUME Inv, [Next]_vars PROVE Inv'
  OBVIOUS
<1>1. CASE RunnerStep
  BY <1>1, RunnerStepInv
<1>2. CASE DrainStep
  BY <1>2, DrainStepInv
<1>3. CASE \/ \E s \in Status : StatusChanges(s)
           \/ \E r \in {"up", "refused", "silent"} : ReachChanges(r)
           \/ LosesWatch \/ HealthCancel
  <2>1. UNCHANGED <<seen, runner, ch, drainVars>>
    BY <1>3 DEF StatusChanges, ReachChanges, LosesWatch, HealthCancel, streamVars
  <2>2. /\ status' \in Status /\ reach' \in {"up", "refused", "silent"}
        /\ watches' \in BOOLEAN /\ cancelled' \in BOOLEAN
        /\ stream' \in {"none", "open", "broken"}
    BY <1>3
    DEF StatusChanges, ReachChanges, LosesWatch, HealthCancel, backendVars, streamVars,
        Inv, TypeOK
  <2> QED  BY <2>1, <2>2 DEF Inv, TypeOK, SendsVerdict, CallbackInv, drainVars
<1>4. CASE UNCHANGED vars
  BY <1>4
  DEF vars, backendVars, streamVars, drainVars, Inv, TypeOK, SendsVerdict, CallbackInv
<1> QED  BY <1>1, <1>2, <1>3, <1>4 DEF Next

LEMMA Invariant == Spec => []Inv
BY InitInv, NextInv, PTL DEF Spec

\* Every variable has its type; the channel never holds more than its capacity.
THEOREM CheckerTypeCorrect == Spec => []TypeOK
<1>1. Inv => TypeOK
  BY DEF Inv
<1> QED  BY <1>1, Invariant, PTL

(***************************************************************************)
(* The refinement: Drain takes verdicts, the callback reports them.        *)
(***************************************************************************)
LEMMA NextProbe == Inv /\ [Next]_vars => [P!Next]_P!vars
<1> SUFFICES ASSUME Inv, [Next]_vars PROVE P!Next \/ UNCHANGED P!vars
  OBVIOUS
<1> USE DEF P!vars
<1>1. CASE RunnerStep
  <2>1. UNCHANGED <<drain, current, cancelled>>
    BY <1>1
    DEF RunnerStep, DialOK, DialFails, BackoffEnds, RecvStatus, Unimplemented,
        RecvFails, Check, Send, RunnerExits, drainVars
  <2> QED  BY <2>1
<1>2. CASE Transition
  <2>1. Head(ch) \in Verdict
    BY <1>2 DEF Transition, Inv, TypeOK
  <2>2. P!Receive(Head(ch))
    BY <1>2 DEF Transition, P!Receive
  <2> QED  BY <2>1, <2>2 DEF P!Next
<1>3. CASE NoTransition
  BY <1>3 DEF NoTransition, drainVars
<1>4. CASE OnTransition
  <2>1. current # "Unknown"
    BY <1>4 DEF OnTransition, Inv, CallbackInv, Verdict
  <2> QED  BY <1>4, <2>1 DEF OnTransition, P!Report, P!Next
<1>5. CASE DrainExits
  BY <1>5 DEF DrainExits, P!Exit, P!Next
<1>6. CASE \/ \E s \in Status : StatusChanges(s)
           \/ \E r \in {"up", "refused", "silent"} : ReachChanges(r)
           \/ LosesWatch
  BY <1>6 DEF StatusChanges, ReachChanges, LosesWatch, drainVars
<1>7. CASE HealthCancel
  BY <1>7 DEF HealthCancel, drainVars, P!Cancel, P!Next
<1>8. CASE UNCHANGED vars
  BY <1>8 DEF vars, drainVars
<1> QED  BY <1>1, <1>2, <1>3, <1>4, <1>5, <1>6, <1>7, <1>8 DEF Next, DrainStep

\* The goroutine of Watch, the channel and Drain together are the probe that
\* K8sBalancer works with: verdicts one at a time, none twice in a row, none
\* after Drain has returned (R6.4, R6.5).
THEOREM ProbeImplemented == Spec => ImplementsProbe
<1>1. Init => P!Init
  BY DEF Init, P!Init
<1> QED
  BY <1>1, NextProbe, Invariant, PTL DEF Spec, ImplementsProbe, P!Spec
=============================================================================
