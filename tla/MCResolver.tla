----------------------------- MODULE MCResolver -----------------------------
\* An EndpointSlice in the middle of a rolling update and before it: "a" serves
\* and "b" is not ready yet, then "a" terminates and "b" serves.  A foreign port
\* comes first in one of the two.
EXTENDS K8sResolver

Port(n, i) == [name |-> n, number |-> i]
Pod(r, t, as) == [ready |-> r, terminating |-> t, addresses |-> as]

Serving == [ports |-> <<Port("http", 8), Port("grpc", 5)>>,
            endpoints |-> {Pod("unset", "unset", {"a"}), Pod("false", "unset", {"b"})}]
Rolling == [ports |-> <<Port("grpc", 5)>>,
            endpoints |-> {Pod("true", "true", {"a"}), Pod("true", "false", {"b"})}]

MCOneSlice == {"s1"}
MCSliceValue == {Serving, Rolling}
MCTargetPort == Port("grpc", 0)
MCEndpoint == {"a", "b"} \X {5}
MCBackoff == <<1, 2>>
=============================================================================
