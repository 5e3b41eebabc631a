------------------------------- MODULE Backoff -------------------------------
(***************************************************************************)
(* AttemptBackoff (src/internal/retry/backoff.go): the pause after the     *)
(* n-th attempt.                                                           *)
(*                                                                         *)
(* The code multiplies in float64 and converts to time.Duration, a signed  *)
(* integer, for each comparison.  A value that does not fit converts to    *)
(* the smallest integer (what amd64 does; the language leaves it open).    *)
(* Multipliers are whole numbers here, so the products are exact.          *)
(*                                                                         *)
(* Operators whose names begin with Bad are variants with a mistake; no    *)
(* specification uses them.                                                *)
(***************************************************************************)
EXTENDS Integers

CONSTANT Width   \* bits of a Duration; 64 in the code

ASSUME WidthAssumption == Width \in Nat \ {0}

\* The products a, a*m, a*m*m, ...; i is the number of factors m.
Products(a, m) ==
  LET product[i \in Nat] == IF i = 0 THEN a ELSE product[i - 1] * m
  IN product

Power(m, n) == Products(1, m)[n]

Duration(x) == IF x < Power(2, Width - 1) THEN x ELSE -Power(2, Width - 1)

\* The comparison in the loop is left out, the last one is not.
BadAttemptBackoff(n, initial, max, multiplier) ==
  LET dur == Duration(Products(initial, multiplier)[n - 1])
  IN IF n <= 1 THEN IF initial > max THEN max ELSE initial
     ELSE IF dur > max THEN max ELSE dur

\* The loop, whose turns are numbered as in the code, returns max at the first
\* product that reaches it.
AttemptBackoff(n, initial, max, multiplier) ==
  LET dur == Products(initial, multiplier)
  IN IF n <= 1 THEN IF initial > max THEN max ELSE initial
     ELSE IF \E i \in 1..(n - 1) : Duration(dur[i]) >= max THEN max
     ELSE Duration(dur[n - 1])

\* "min(MaxBackoff, InitialBackoff * BackoffMultiplier^(n-1))" (R7.4).
Reference(n, initial, max, multiplier) ==
  LET product == initial * Power(multiplier, n - 1)
  IN IF product < max THEN product ELSE max

\* No product that is converted overflows: the first to reach max ends the loop.
ProductsFit(initial, max, multiplier) ==
  /\ initial * multiplier < Power(2, Width - 1)
  /\ max * multiplier < Power(2, Width - 1)
=============================================================================
