-------------------------- MODULE SubConnLifecycle --------------------------
(***************************************************************************)
(* What the SubConn pool promises, said without saying how.  A SubConn is  *)
(* created for one endpoint key, is the only live SubConn of that key, and *)
(* then either drains before it is closed (the resolver dropped the        *)
(* endpoint) or is closed at once because a SubConn for the same endpoint  *)
(* replaces it.  A closed SubConn never comes back.                        *)
(*                                                                         *)
(* Pool and K8sBalancer are both shown to implement this specification.    *)
(***************************************************************************)
CONSTANTS Key,      \* endpoints: (namespace, service, address, port)
          Entry     \* identities of the SubConns ever created

VARIABLES phase,    \* phase[e] \in {"unborn", "live", "draining", "closed"}
          owner     \* owner[k]: the live SubConns of endpoint k

vars == <<phase, owner>>

Init ==
  /\ phase = [e \in Entry |-> "unborn"]
  /\ owner = [k \in Key |-> {}]

\* A SubConn is created for endpoint k; one that was there before is closed.
Create(e, k) ==
  /\ phase[e] = "unborn"
  /\ phase' = [f \in Entry |-> IF f = e THEN "live"
                               ELSE IF f \in owner[k] THEN "closed"
                               ELSE phase[f]]
  /\ owner' = [owner EXCEPT ![k] = {e}]

\* The SubConn of k is closed and its replacement could not be created.
Drop(k) ==
  /\ phase' = [f \in Entry |-> IF f \in owner[k] THEN "closed" ELSE phase[f]]
  /\ owner' = [owner EXCEPT ![k] = {}]

\* The endpoint is gone: its SubConn takes no new work.
Retire(e, k) ==
  /\ owner[k] = {e}
  /\ phase' = [phase EXCEPT ![e] = "draining"]
  /\ owner' = [owner EXCEPT ![k] = {}]

Close(e) ==
  /\ phase[e] = "draining"
  /\ phase' = [phase EXCEPT ![e] = "closed"]
  /\ UNCHANGED owner

Next ==
  \/ \E e \in Entry, k \in Key : Create(e, k) \/ Retire(e, k)
  \/ \E k \in Key : Drop(k)
  \/ \E e \in Entry : Close(e)

Spec == Init /\ [][Next]_vars
=============================================================================
