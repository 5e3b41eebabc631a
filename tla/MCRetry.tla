------------------------------- MODULE MCRetry -------------------------------
EXTENDS Retry

MCConfig(p, n, i, m, x) ==
  [policy |-> p, maxAttempts |-> n, initial |-> i, max |-> m, multiplier |-> x]

\* Pauses of 2, 5 and 5, the last in spite of a product that does not fit a
\* Duration; of 1 and 3; of 5.
MCConfigs == {MCConfig("round_robin", 4, 2, 5, 3), MCConfig("round_robin", 3, 1, 5, 3),
              MCConfig("least_request", 2, 6, 5, 2)}

MCCalls == {<<"unary", FALSE>>, <<"stream", TRUE>>}
MCHealthy == {<<>>, <<2, 1>>}
=============================================================================
