------------------------------ MODULE MCClient ------------------------------
\* Two clients that differ in policy, cap and health checking, of which the
\* first is called and closed, and one that NewClient refuses.
EXTENDS Client, TLC

MCConfig ==
  "c1" :> DefaultConfig @@
  "c2" :> [DefaultConfig EXCEPT !.policy = "custom", !.maxSubconns = 1,
                         !.healthCheck = FALSE] @@
  "c3" :> [DefaultConfig EXCEPT !.policy = "custom", !.multiplier = 99]

MCTargetText ==
  [c \in {"c1", "c2", "c3"} |-> [scheme |-> "dns", rest |-> <<"/", "s", ":", "8">>]]

MCBuiltIn == "round_robin" :> "newRRPicker" @@ "least_request" :> "newLRPicker"
MCOwner == [x \in {"k1", "k2", "x1", "x2"} |-> "c1"]
MCAnswer == <<{<<"a">>}, {<<":", ":", "8">>}>>

\* Every text of up to four of these characters: two digits, of which one makes
\* leading zeros, suffice for ports around the bound.
MCText == [scheme : {"k8s", "dns"}, rest : SeqOf({"/", ":", "s", "0", "8"}, 4)]
MCNamespace == {<<>>, <<"s">>, <<":">>}
MCHost == {<<"a">>, <<":", ":", "8">>}
=============================================================================
