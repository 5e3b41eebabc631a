----------------------------- MODULE RetryProofs -----------------------------
(***************************************************************************)
(* Pickers, pauses and retries, for any number of RPCs, entries and        *)
(* pickers and any configuration that validate accepts.                    *)
(***************************************************************************)
EXTENDS Retry, Recursion, FiniteSetTheorems

(***************************************************************************)
(* The entries a picker may choose from.                                   *)
(***************************************************************************)
Elements(s) == {s[i] : i \in DOMAIN s}

\* What the loop keeps of the first i healthy entries.
LEMMA KeptUnfold ==
  ASSUME NEW S, NEW s \in Seq(S), NEW X
  PROVE  /\ Kept(s, X) \in [0..Len(s) -> Seq(S)]
         /\ Kept(s, X)[0] = <<>>
         /\ \A i \in 1..Len(s) :
              Kept(s, X)[i] = IF s[i] \in X THEN Kept(s, X)[i - 1]
                              ELSE Append(Kept(s, X)[i - 1], s[i])
<1> DEFINE n == Len(s)
           step == [p \in Seq(S) \X Nat |->
                      IF p[2] \in 1..n /\ s[p[2]] \notin X THEN Append(p[1], s[p[2]])
                      ELSE p[1]]
           Def(g) == [i \in 0..n |-> IF i = 0 THEN <<>>
                                     ELSE IF s[i] \in X THEN g[i - 1]
                                          ELSE Append(g[i - 1], s[i])]
<1>1. step \in [Seq(S) \X Nat -> Seq(S)]
  OBVIOUS
<1>2. <<>> \in Seq(S) /\ n \in Nat
  OBVIOUS
<1>3. PICK g : IteratesUpTo(g, n, Seq(S), <<>>, step)
  <2>1. IsStep(step, Seq(S))
    BY <1>1 DEF IsStep
  <2> HIDE DEF step, n
  <2> QED  BY <1>2, <2>1, IterateUpTo
<1>4. \A i \in 1..n : g[i] = IF s[i] \in X THEN g[i - 1] ELSE Append(g[i - 1], s[i])
  <2> TAKE i \in 1..n
  <2>1. i - 1 \in 0..n /\ i \in Nat /\ g \in [0..n -> Seq(S)]
    BY <1>2, <1>3 DEF IteratesUpTo
  <2>2. <<g[i - 1], i>> \in Seq(S) \X Nat
    BY <2>1
  <2> QED  BY <1>3, <2>2 DEF IteratesUpTo
<1>5. g = Def(g)
  <2>1. g = [i \in 0..n |-> g[i]]
    BY <1>3 DEF IteratesUpTo
  <2>2. ASSUME NEW i \in 0..n
        PROVE  g[i] = IF i = 0 THEN <<>>
                      ELSE IF s[i] \in X THEN g[i - 1] ELSE Append(g[i - 1], s[i])
    <3>1. i = 0 \/ i \in 1..n
      BY <1>2
    <3>2. g[0] = <<>>
      BY <1>3 DEF IteratesUpTo
    <3> HIDE DEF n
    <3> QED  BY <1>4, <3>1, <3>2
  <2> HIDE DEF n
  <2> QED  BY <2>1, <2>2, Zenon
<1>6. Kept(s, X) = Def(Kept(s, X))
  BY <1>5, Zenon DEF Kept
<1> DEFINE k == Kept(s, X)
<1>7. ASSUME NEW i \in 0..n
      PROVE  k[i] = IF i = 0 THEN <<>>
                    ELSE IF s[i] \in X THEN k[i - 1] ELSE Append(k[i - 1], s[i])
  <2> HIDE DEF k, n
  <2>1. k = Def(k)
    BY <1>6 DEF k
  <2>2. Def(k)[i] = IF i = 0 THEN <<>>
                    ELSE IF s[i] \in X THEN k[i - 1] ELSE Append(k[i - 1], s[i])
    OBVIOUS
  <2> QED  BY <2>1, <2>2, Zenon
<1>8. \A i \in Nat : i <= n => k[i] \in Seq(S)
  <2> DEFINE T == {i \in Nat : i <= n => k[i] \in Seq(S)}
  <2> HIDE DEF k
  <2>1. 0 \in T
    <3>1. 0 \in 0..n
      BY <1>2
    <3> HIDE DEF n
    <3>2. k[0] = <<>>
      BY <1>7, <3>1
    <3> QED  BY <1>2, <3>2
  <2>2. ASSUME NEW i \in T \cap Nat
        PROVE  i + 1 \in T
    <3> SUFFICES ASSUME i + 1 <= n PROVE k[i + 1] \in Seq(S)
      OBVIOUS
    <3>1. i + 1 \in 0..n /\ i + 1 # 0 /\ (i + 1) - 1 = i /\ k[i] \in Seq(S)
      BY <1>2
    <3>2. s[i + 1] \in S
      BY <1>2
    <3> HIDE DEF n
    <3>3. k[i + 1] = IF s[i + 1] \in X THEN k[i] ELSE Append(k[i], s[i + 1])
      BY <1>7, <3>1
    <3> QED  BY <3>1, <3>2, <3>3
  <2> HIDE DEF T
  <2>3. \A i \in Nat : i \in T
    BY <2>1, <2>2, Induct
  <2> QED  BY <2>3 DEF T
<1>9. k = [i \in 0..n |-> k[i]]
  <2> HIDE DEF k, n
  <2>1. k = Def(k)
    BY <1>6 DEF k
  <2>2. Def(k) = [i \in 0..n |-> Def(k)[i]]
    OBVIOUS
  <2> QED  BY <2>1, <2>2, Zenon
<1>10. k \in [0..n -> Seq(S)]
  <2> HIDE DEF k
  <2>1. \A i \in 0..n : k[i] \in Seq(S)
    BY <1>2, <1>8
  <2> HIDE DEF n
  <2> QED  BY <1>9, <2>1
<1> QED
  <2> HIDE DEF k
  <2>1. k[0] = <<>> /\ \A i \in 1..n : k[i] = IF s[i] \in X THEN k[i - 1] ELSE Append(k[i - 1], s[i])
    BY <1>2, <1>7
  <2> QED  BY <1>10, <2>1 DEF k

LEMMA AppendElements ==
  ASSUME NEW S, NEW q \in Seq(S), NEW e \in S
  PROVE  Append(q, e) # <<>> /\ Elements(Append(q, e)) = Elements(q) \cup {e}
<1> DEFINE a == Append(q, e)
<1>1. /\ a # <<>> /\ Len(q) \in Nat
      /\ DOMAIN a = 1..(Len(q) + 1) /\ DOMAIN q = 1..Len(q)
      /\ a[Len(q) + 1] = e /\ \A i \in 1..Len(q) : a[i] = q[i]
  OBVIOUS
<1> HIDE DEF a
<1>2. \A i \in DOMAIN a : i \in DOMAIN q \/ i = Len(q) + 1
  BY <1>1
<1>3. \A i \in DOMAIN q : i \in DOMAIN a
  BY <1>1
<1>4. Len(q) + 1 \in DOMAIN a
  BY <1>1
<1> QED  BY <1>1, <1>2, <1>3, <1>4 DEF Elements, a

LEMMA KeptElements ==
  ASSUME NEW S, NEW s \in Seq(S), NEW X
  PROVE  \A i \in 0..Len(s) :
           /\ Elements(Kept(s, X)[i]) \subseteq Elements(s) \ X
           /\ Kept(s, X)[i] = <<>> => \A j \in 1..i : s[j] \in X
<1> DEFINE k == Kept(s, X)
           n == Len(s)
           P(i) == /\ Elements(k[i]) \subseteq Elements(s) \ X
                   /\ k[i] = <<>> => \A j \in 1..i : s[j] \in X
           T == {i \in Nat : i <= n => P(i)}
<1>1. /\ k \in [0..n -> Seq(S)] /\ k[0] = <<>>
      /\ \A i \in 1..n : k[i] = IF s[i] \in X THEN k[i - 1] ELSE Append(k[i - 1], s[i])
  BY KeptUnfold
<1> HIDE DEF k
<1>2. n \in Nat /\ DOMAIN s = 1..n
  OBVIOUS
<1>3. P(0)
  BY <1>1 DEF Elements
<1>4. ASSUME NEW i \in Nat, i + 1 <= n, P(i)
      PROVE  P(i + 1)
  <2>1. i + 1 \in 1..n /\ (i + 1) - 1 = i
    BY <1>2, <1>4
  <2>2. k[i] \in Seq(S) /\ s[i + 1] \in S
    BY <1>1, <1>2, <2>1
  <2>3. CASE s[i + 1] \in X
    <3>1. k[i + 1] = k[i]
      BY <1>1, <2>1, <2>3
    <3> QED  BY <1>4, <2>1, <2>3, <3>1
  <2>4. CASE s[i + 1] \notin X
    <3>1. k[i + 1] = Append(k[i], s[i + 1])
      BY <1>1, <2>1, <2>4
    <3>2. k[i + 1] # <<>> /\ Elements(k[i + 1]) = Elements(k[i]) \cup {s[i + 1]}
      BY <2>2, <3>1, AppendElements
    <3>3. s[i + 1] \in Elements(s)
      BY <1>2, <2>1 DEF Elements
    <3> QED  BY <1>4, <2>1, <2>4, <3>2, <3>3
  <2> QED  BY <2>3, <2>4
<1> HIDE DEF P
<1>5. \A i \in Nat : i \in T
  <2>1. 0 \in T
    BY <1>3
  <2>2. ASSUME NEW i \in T \cap Nat
        PROVE  i + 1 \in T
    BY <1>2, <1>4
  <2> HIDE DEF T
  <2> QED  BY <2>1, <2>2, Induct
<1>6. \A i \in 0..n : P(i)
  BY <1>2, <1>5
<1> QED  BY <1>6 DEF P, k

\* A picker leaves out what was tried unless that is all it has.
LEMMA CandidatesFacts ==
  ASSUME NEW S, NEW s \in Seq(S), s # <<>>, NEW X
  PROVE  /\ Candidates(s, X) \in Seq(S) /\ Candidates(s, X) # <<>>
         /\ \A e \in Elements(Candidates(s, X)) :
              e \in X => Candidates(s, X) = s /\ \A j \in DOMAIN s : s[j] \in X
<1> DEFINE fresh == Kept(s, X)[Len(s)]
<1>1. Len(s) \in 0..Len(s) /\ DOMAIN s = 1..Len(s)
  OBVIOUS
<1>2. fresh \in Seq(S)
  BY <1>1, KeptUnfold
<1>3. /\ Elements(fresh) \subseteq Elements(s) \ X
      /\ fresh = <<>> => \A j \in DOMAIN s : s[j] \in X
  BY <1>1, KeptElements
<1>4. Candidates(s, X) = IF fresh = <<>> THEN s ELSE fresh
  BY DEF Candidates
<1> HIDE DEF fresh
<1> QED  BY <1>2, <1>3, <1>4

(***************************************************************************)
(* The pause.                                                              *)
(***************************************************************************)
LEMMA ProductsUnfold ==
  ASSUME NEW a \in Nat, NEW m \in Nat
  PROVE  /\ Products(a, m) \in [Nat -> Nat] /\ Products(a, m)[0] = a
         /\ \A i \in Nat : Products(a, m)[i + 1] = Products(a, m)[i] * m
<1> DEFINE step == [p \in Nat \X Nat |-> p[1] * m]
           Def(g) == [i \in Nat |-> IF i = 0 THEN a ELSE g[i - 1] * m]
           p == Products(a, m)
<1>1. IsStep(step, Nat)
  BY DEF IsStep
<1>2. PICK g : Iterates(g, Nat, a, step)
  <2> HIDE DEF step
  <2> QED  BY <1>1, Iterate
<1>3. g = Def(g)
  <2>1. g = [i \in Nat |-> g[i]]
    BY <1>2 DEF Iterates
  <2>2. ASSUME NEW i \in Nat
        PROVE  g[i] = IF i = 0 THEN a ELSE g[i - 1] * m
    <3>1. CASE i = 0
      BY <1>2, <3>1 DEF Iterates
    <3>2. CASE i # 0
      <4>1. i - 1 \in Nat
        BY <3>2
      <4>2. <<g[i - 1], i>> \in Nat \X Nat
        BY <1>2, <4>1 DEF Iterates
      <4>3. g[i] = step[<<g[i - 1], i>>]
        BY <1>2, <3>2 DEF Iterates
      <4> QED  BY <3>2, <4>2, <4>3
    <3> QED  BY <3>1, <3>2
  <2> QED  BY <2>1, <2>2, Zenon
<1>4. p = Def(p)
  BY <1>3, Zenon DEF Products
<1> HIDE DEF p
<1>5. \A i \in Nat : p[i] = IF i = 0 THEN a ELSE p[i - 1] * m
  <2> TAKE i \in Nat
  <2>1. Def(p)[i] = IF i = 0 THEN a ELSE p[i - 1] * m
    OBVIOUS
  <2> QED  BY <1>4, <2>1, Zenon
<1>6. p[0] = a /\ \A i \in Nat : p[i + 1] = p[i] * m
  BY <1>5
<1>7. \A i \in Nat : p[i] \in Nat
  <2> DEFINE T == {i \in Nat : p[i] \in Nat}
  <2>1. 0 \in T /\ \A i \in T \cap Nat : i + 1 \in T
    BY <1>6
  <2> HIDE DEF T
  <2>2. \A i \in Nat : i \in T
    BY <2>1, Induct
  <2> QED  BY <2>2 DEF T
<1>8. p = [i \in Nat |-> p[i]]
  <2>1. Def(p) = [i \in Nat |-> Def(p)[i]]
    OBVIOUS
  <2> QED  BY <1>4, <2>1, Zenon
<1>9. p \in [Nat -> Nat]
  BY <1>7, <1>8
<1> QED  BY <1>6, <1>9 DEF p

LEMMA ProductsPower ==
  ASSUME NEW a \in Nat, NEW m \in Nat, NEW n \in Nat
  PROVE  Products(a, m)[n] = a * Power(m, n)
<1> DEFINE p == Products(a, m)
           q == Products(1, m)
           T == {i \in Nat : p[i] = a * q[i]}
<1>1. /\ p \in [Nat -> Nat] /\ p[0] = a /\ \A i \in Nat : p[i + 1] = p[i] * m
      /\ q \in [Nat -> Nat] /\ q[0] = 1 /\ \A i \in Nat : q[i + 1] = q[i] * m
  BY ProductsUnfold
<1> HIDE DEF p, q
<1>2. 0 \in T
  BY <1>1
<1>3. ASSUME NEW i \in T \cap Nat
      PROVE  i + 1 \in T
  <2>1. p[i + 1] = (a * q[i]) * m /\ q[i + 1] = q[i] * m /\ q[i] \in Nat
    BY <1>1
  <2>2. (a * q[i]) * m = a * (q[i] * m)
    BY <2>1
  <2> QED  BY <2>1, <2>2
<1> HIDE DEF T
<1>4. n \in T
  BY <1>2, <1>3, Induct
<1> QED  BY <1>4 DEF T, p, q, Power

LEMMA ProductsGrow ==
  ASSUME NEW a \in Nat, NEW m \in Nat \ {0}, NEW j \in Nat, NEW n \in Nat, j <= n
  PROVE  Products(a, m)[j] <= Products(a, m)[n]
<1> DEFINE p == Products(a, m)
           T == {i \in Nat : p[j] <= p[j + i]}
<1>1. /\ p \in [Nat -> Nat]  /\ \A i \in Nat : p[i + 1] = p[i] * m
  BY ProductsUnfold
<1> HIDE DEF p
<1>2. \A i \in Nat : p[i] <= p[i + 1]
  <2> TAKE i \in Nat
  <2>1. p[i] \in Nat /\ p[i + 1] = p[i] * m
    BY <1>1
  <2>2. p[i] * m = p[i] + p[i] * (m - 1) /\ p[i] * (m - 1) >= 0
    BY <2>1
  <2> QED  BY <2>1, <2>2
<1>3. 0 \in T
  BY <1>1
<1>4. ASSUME NEW i \in T \cap Nat
      PROVE  i + 1 \in T
  <2>1. p[j + i] <= p[(j + i) + 1] /\ (j + i) + 1 = j + (i + 1)
    BY <1>2
  <2>2. p[j] \in Nat /\ p[j + i] \in Nat /\ p[j + (i + 1)] \in Nat
    BY <1>1
  <2> QED  BY <2>1, <2>2
<1> HIDE DEF T
<1>5. n - j \in T
  BY <1>3, <1>4, Induct
<1>6. j + (n - j) = n
  OBVIOUS
<1> QED  BY <1>5, <1>6 DEF T, p

LEMMA DurationInt ==
  /\ Power(2, Width - 1) \in Nat
  /\ \A x \in Int : Duration(x) \in Int
  /\ \A x \in Int : x < Power(2, Width - 1) => Duration(x) = x
<1>1. Power(2, Width - 1) \in Nat
  BY WidthAssumption, ProductsUnfold DEF Power
<1> QED  BY <1>1 DEF Duration

LEMMA BackoffType ==
  ASSUME NEW n \in Nat, NEW initial \in Nat, NEW max \in Nat, NEW multiplier \in Nat
  PROVE  AttemptBackoff(n, initial, max, multiplier) \in Int
<1> DEFINE dur == Products(initial, multiplier)
<1>1. dur \in [Nat -> Nat]
  BY ProductsUnfold
<1>2. AttemptBackoff(n, initial, max, multiplier)
        \in {initial, max} \cup {Duration(dur[n - 1])} \/ n <= 1
  BY DEF AttemptBackoff
<1>3. n <= 1 => AttemptBackoff(n, initial, max, multiplier) \in {initial, max}
  BY DEF AttemptBackoff
<1> HIDE DEF dur
<1>4. n > 1 => Duration(dur[n - 1]) \in Int
  BY <1>1, DurationInt
<1> QED  BY <1>2, <1>3, <1>4

\* The pause of AttemptBackoff is the documented formula for every attempt and
\* every configuration whose products fit (R7.4).
LEMMA BackoffIsReference ==
  ASSUME NEW n \in Nat \ {0}, NEW initial \in Nat, NEW max \in Nat,
         NEW m \in Nat \ {0}, ProductsFit(initial, max, m)
  PROVE  AttemptBackoff(n, initial, max, m) = Reference(n, initial, max, m)
<1> DEFINE dur == Products(initial, m)
           limit == Power(2, Width - 1)
<1>1. /\ dur \in [Nat -> Nat] /\ dur[0] = initial
      /\ \A i \in Nat : dur[i + 1] = dur[i] * m
  BY ProductsUnfold
<1>2. Reference(n, initial, max, m) = IF dur[n - 1] < max THEN dur[n - 1] ELSE max
  BY ProductsPower DEF Reference
<1>3. \A j, k \in Nat : j <= k => dur[j] <= dur[k]
  BY ProductsGrow
<1>4. initial * m < limit /\ max * m < limit /\ limit \in Nat
  BY DurationInt DEF ProductsFit
<1>5. AttemptBackoff(n, initial, max, m) =
        IF n <= 1 THEN IF initial > max THEN max ELSE initial
        ELSE IF \E i \in 1..(n - 1) : Duration(dur[i]) >= max THEN max
        ELSE Duration(dur[n - 1])
  BY DEF AttemptBackoff
<1>6. \A x \in Nat : x < limit => Duration(x) = x
  BY DurationInt
<1> HIDE DEF dur, limit
<1>7. CASE n = 1
  BY <1>1, <1>2, <1>5, <1>7
<1>8. CASE n > 1 /\ \E i \in 1..(n - 1) : dur[i] >= max
  <2> DEFINE T == {i \in 1..(n - 1) : dur[i] >= max}
  <2>1. PICK j \in T : \A i \in T : j <= i
    <3>1. T \subseteq Nat /\ T # {}
      BY <1>8
    <3> HIDE DEF T
    <3> QED  BY <3>1, LeastNat
  <2>2. dur[j - 1] <= initial \/ dur[j - 1] < max
    <3>1. CASE j = 1
      BY <1>1, <3>1
    <3>2. CASE j # 1
      <4>1. j - 1 \in 1..(n - 1) /\ j - 1 \notin T
        BY <2>1, <3>2
      <4> QED  BY <1>1, <4>1
    <3> QED  BY <3>1, <3>2
  <2>3. dur[j] = dur[j - 1] * m /\ dur[j - 1] \in Nat /\ dur[j] \in Nat
    <3>1. j - 1 \in Nat /\ (j - 1) + 1 = j
      OBVIOUS
    <3> QED  BY <1>1, <3>1
  <2>4. dur[j] < limit
    <3>1. CASE dur[j - 1] <= initial
      <4>1. dur[j - 1] * m <= initial * m
        BY <2>3, <3>1
      <4> QED  BY <1>4, <2>3, <4>1
    <3>2. CASE dur[j - 1] < max
      <4>1. dur[j - 1] * m <= max * m
        BY <2>3, <3>2
      <4> QED  BY <1>4, <2>3, <4>1
    <3> QED  BY <2>2, <3>1, <3>2
  <2>5. Duration(dur[j]) >= max /\ j \in 1..(n - 1)
    BY <1>6, <2>1, <2>3, <2>4
  <2>6. dur[n - 1] >= max
    <3>1. j \in Nat /\ n - 1 \in Nat /\ j <= n - 1 /\ dur[j] >= max
      OBVIOUS
    <3>2. dur[j] <= dur[n - 1] /\ dur[n - 1] \in Nat
      BY <1>1, <1>3, <3>1
    <3> QED  BY <2>3, <3>1, <3>2
  <2>7. dur[n - 1] \in Nat
    BY <1>1
  <2> QED  BY <1>2, <1>5, <1>8, <2>5, <2>6, <2>7
<1>9. CASE n > 1 /\ \A i \in 1..(n - 1) : dur[i] < max
  <2>1. max <= max * m
    <3>1. max * m = max + max * (m - 1) /\ max * (m - 1) >= 0
      OBVIOUS
    <3> QED  BY <3>1
  <2>2. ASSUME NEW i \in 1..(n - 1)
        PROVE  Duration(dur[i]) = dur[i] /\ dur[i] < max
    <3>1. dur[i] \in Nat /\ dur[i] < max
      BY <1>1, <1>9
    <3> QED  BY <1>4, <1>6, <2>1, <3>1
  <2>3. n - 1 \in 1..(n - 1)
    BY <1>9
  <2> QED  BY <1>1, <1>2, <1>5, <1>9, <2>2, <2>3
<1>10. \A i \in 1..(n - 1) : dur[i] \in Nat
  BY <1>1
<1> QED  BY <1>7, <1>8, <1>9, <1>10

(***************************************************************************)
(* The pickers.                                                            *)
(***************************************************************************)
PickerRecord == [healthy : Seq(Entry), counter : Nat, picks : [Entry -> Nat],
                 filtered : BOOLEAN]

ScanRecord == [todo : Seq(Entry), candidates : SUBSET Entry, chosen : Entry \cup {0},
               count : Int, overlap : Nat]

Distinct(s) == \A i, j \in DOMAIN s : s[i] = s[j] => i = j

PickTypeInv ==
  /\ pickers \in Seq(PickerRecord) /\ pickers # <<>>
  /\ \A i \in DOMAIN pickers : Distinct(pickers[i].healthy)
  /\ inFlight \in [Entry -> Int]
  /\ scan \in [Rpc -> ScanRecord]

\* Of the n entries of a picker that never left one out, those at the places 2 to
\* counter % n + 1 are one pick ahead of the others.
Even(p) ==
  ~p.filtered =>
    \A j \in DOMAIN p.healthy :
      p.picks[p.healthy[j]] = p.picks[p.healthy[1]]
        + (IF j # 1 /\ j - 1 <= p.counter % Len(p.healthy) THEN 1 ELSE 0)

EvenInv == \A i \in DOMAIN pickers : Even(pickers[i])

\* What a scan has found out: the count it remembers was right up to the changes
\* since, for the entry it has chosen, and not above those of the others.
Bounded(s, count) ==
  /\ s.candidates # {} /\ Elements(s.todo) \subseteq s.candidates
  /\ s.chosen = 0 => s.candidates \subseteq Elements(s.todo)
  /\ s.chosen # 0 =>
       /\ s.chosen \in s.candidates
       /\ count[s.chosen] <= s.count + s.overlap
       /\ \A e \in s.candidates \ Elements(s.todo) :
            /\ s.count <= count[e] + s.overlap
            /\ count[s.chosen] <= count[e] + s.overlap

ScanInv == \A r \in Rpc : scan[r] # NoScan => Bounded(scan[r], inFlight)

PickInv == PickTypeInv /\ EvenInv /\ ScanInv

\* What a step of another RPC leaves as it is.
SameHealthy ==
  \A i \in DOMAIN pickers : i \in DOMAIN pickers' /\ pickers'[i].healthy = pickers[i].healthy

SameScan(q) ==
  (scan'[q] = NoScan <=> scan[q] = NoScan) /\ scan'[q].candidates = scan[q].candidates

LEMMA NoScanType == NoScan \in ScanRecord
BY DEF NoScan, ScanRecord

LEMMA NewPickerFacts ==
  ASSUME NEW h \in Healthy
  PROVE  NewPicker(h) \in PickerRecord /\ Distinct(NewPicker(h).healthy) /\ Even(NewPicker(h))
<1>1. h \in Seq(Entry) /\ Distinct(h)
  BY RetryAssumption DEF Distinct
<1>2. NewPicker(h) \in PickerRecord /\ NewPicker(h).healthy = h
  BY <1>1 DEF NewPicker, PickerRecord
<1>3. Even(NewPicker(h))
  <2> SUFFICES ASSUME NEW j \in DOMAIN h
               PROVE  ~(j # 1 /\ j - 1 <= 0 % Len(h))
    BY <1>1 DEF NewPicker, Even
  <2>1. Len(h) \in Nat \ {0} /\ j \in 1..Len(h)
    BY <1>1
  <2>2. 0 % Len(h) = 0
    BY <2>1
  <2> QED  BY <2>1, <2>2
<1> QED  BY <1>1, <1>2, <1>3

LEMMA InitPickInv == ASSUME NEW h \in Healthy, PickInit(h) PROVE PickInv
<1>1. pickers \in Seq(PickerRecord) /\ DOMAIN pickers = {1} /\ pickers[1] = NewPicker(h)
  BY NewPickerFacts DEF PickInit
<1> QED
  BY <1>1, NewPickerFacts, NoScanType
  DEF PickInit, PickInv, PickTypeInv, EvenInv, ScanInv

\* rebuildPickerLocked.
LEMMA ReplacePickInv == ASSUME PickInv, NEW h \in Healthy, Replace(h) PROVE PickInv'
<1>1. /\ pickers' \in Seq(PickerRecord)
      /\ \A i \in DOMAIN pickers' : IF i \in DOMAIN pickers THEN pickers'[i] = pickers[i]
                                                     ELSE pickers'[i] = NewPicker(h)
  BY NewPickerFacts DEF Replace, PickInv, PickTypeInv
<1> QED
  BY <1>1, NewPickerFacts
  DEF Replace, PickInv, PickTypeInv, EvenInv, ScanInv, Bounded

(***************************************************************************)
(* Round robin.                                                            *)
(***************************************************************************)
LEMMA DivMod ==
  ASSUME NEW n \in Nat \ {0}, NEW c \in Nat
  PROVE  c \div n \in Int /\ c % n \in 0..(n - 1) /\ c = n * (c \div n) + (c % n)
OBVIOUS

LEMMA SameRemainder ==
  ASSUME NEW n \in Nat \ {0}, NEW a \in Int, NEW b \in Int,
         NEW r \in 0..(n - 1), NEW t \in 0..(n - 1), n * a + r = n * b + t
  PROVE  r = t
<1>1. n * (a - b) = t - r
  OBVIOUS
<1>2. CASE a = b
  BY <1>2
<1>3. CASE a >= b + 1
  <2>1. n * (a - b) >= n
    BY <1>3
  <2> QED  BY <1>1, <2>1
<1>4. CASE b >= a + 1
  <2>1. n * (a - b) <= -n
    BY <1>4
  <2> QED  BY <1>1, <2>1
<1> QED  BY <1>2, <1>3, <1>4

LEMMA NextRemainder ==
  ASSUME NEW n \in Nat \ {0}, NEW c \in Nat
  PROVE  (c + 1) % n = IF (c % n) + 1 = n THEN 0 ELSE (c % n) + 1
<1> DEFINE q == c \div n
           p == (c + 1) \div n
           r == c % n
           t == (c + 1) % n
<1>1. /\ q \in Int /\ r \in 0..(n - 1) /\ c = n * q + r
      /\ p \in Int /\ t \in 0..(n - 1) /\ c + 1 = n * p + t
  BY DivMod
<1> HIDE DEF q, p, r, t
<1>2. CASE r + 1 = n
  <2>1. n * (q + 1) = n * q + n
    BY <1>1
  <2>2. n * (q + 1) + 0 = n * p + t
    BY <1>1, <1>2, <2>1
  <2>3. t = 0
    BY <1>1, <2>2, SameRemainder
  <2> QED  BY <1>2, <2>3 DEF t, r
<1>3. CASE r + 1 # n
  <2>1. n * q + (r + 1) = n * p + t /\ r + 1 \in 0..(n - 1)
    BY <1>1, <1>3
  <2>2. t = r + 1
    BY <1>1, <2>1, SameRemainder
  <2> QED  BY <1>3, <2>2 DEF t, r
<1> QED  BY <1>2, <1>3

\* The picker p after a pick of e.
LEMMA PickedEven ==
  ASSUME NEW p \in PickerRecord, Distinct(p.healthy), Even(p), p.healthy # <<>>,
         NEW q \in PickerRecord, NEW e,
         e = p.healthy[Index(p.counter + 1, Len(p.healthy))],
         q = [p EXCEPT !.counter = @ + 1, !.picks[e] = @ + 1]
  PROVE  Even(q)
<1> DEFINE h == p.healthy
           n == Len(h)
           s == p.counter % n
           t == (p.counter + 1) % n
<1>1. /\ h \in Seq(Entry) /\ n \in Nat \ {0} /\ DOMAIN h = 1..n /\ p.counter \in Nat
      /\ p.picks \in [Entry -> Nat]
  BY DEF PickerRecord
<1>2. /\ s \in 0..(n - 1) /\ t = IF s + 1 = n THEN 0 ELSE s + 1
  BY <1>1, DivMod, NextRemainder
<1>3. /\ q.healthy = h /\ q.counter = p.counter + 1 /\ q.filtered = p.filtered
      /\ q.picks = [p.picks EXCEPT ![e] = @ + 1]
  BY DEF PickerRecord
<1>4. t + 1 \in 1..n /\ e = h[t + 1]
  <2>1. Index(p.counter + 1, n) = t + 1
    BY DEF Index
  <2> QED  BY <1>2, <2>1
<1>5. \A j \in 1..n : /\ h[j] \in Entry /\ p.picks[h[j]] \in Nat
                      /\ h[j] = e <=> j = t + 1
                      /\ q.picks[h[j]] = p.picks[h[j]] + (IF j = t + 1 THEN 1 ELSE 0)
  BY <1>1, <1>3, <1>4 DEF Distinct
<1> SUFFICES ASSUME ~p.filtered, NEW j \in 1..n
             PROVE  q.picks[h[j]] = q.picks[h[1]] + (IF j # 1 /\ j - 1 <= t THEN 1 ELSE 0)
  BY <1>1, <1>3 DEF Even
<1>6. 1 \in 1..n
  BY <1>1
<1>7. p.picks[h[j]] = p.picks[h[1]] + (IF j # 1 /\ j - 1 <= s THEN 1 ELSE 0)
  BY <1>1 DEF Even
<1> HIDE DEF h, n, s, t
<1>8. q.picks[h[j]] = p.picks[h[j]] + (IF j = t + 1 THEN 1 ELSE 0)
      /\ q.picks[h[1]] = p.picks[h[1]] + (IF 1 = t + 1 THEN 1 ELSE 0)
  BY <1>5, <1>6
<1>9. p.picks[h[1]] \in Nat /\ p.picks[h[j]] \in Nat
  BY <1>5, <1>6
<1>10. CASE s + 1 = n
  BY <1>2, <1>7, <1>8, <1>9, <1>10
<1>11. CASE s + 1 # n
  <2>1. t = s + 1
    BY <1>2, <1>11
  <2> QED  BY <1>2, <1>7, <1>8, <1>9, <2>1
<1> QED  BY <1>10, <1>11

LEMMA PickedHealthy ==
  ASSUME PickInv, NEW i \in DOMAIN pickers, NEW X, NEW e, RoundRobinPick(i, X, e)
  PROVE  SameHealthy
<1> DEFINE p == pickers[i]
           f == p.filtered \/ Candidates(p.healthy, X) # p.healthy
           q == [p EXCEPT !.counter = @ + 1, !.picks[e] = @ + 1, !.filtered = f]
<1>1. p \in PickerRecord /\ pickers \in Seq(PickerRecord)
  BY DEF PickInv, PickTypeInv
<1>2. pickers' = [pickers EXCEPT ![i] = q]
  BY DEF RoundRobinPick
<1> HIDE DEF f
<1>3. q.healthy = p.healthy
  BY <1>1 DEF PickerRecord
<1> HIDE DEF q
<1> QED  BY <1>1, <1>2, <1>3 DEF SameHealthy

LEMMA RoundRobinPickInv ==
  ASSUME PickInv, NEW i \in DOMAIN pickers, NEW X, NEW e \in Entry, RoundRobinPick(i, X, e)
  PROVE  PickInv'
<1> DEFINE p == pickers[i]
           c == Candidates(p.healthy, X)
           q == [p EXCEPT !.counter = @ + 1, !.picks[e] = @ + 1,
                          !.filtered = @ \/ c # p.healthy]
<1>1. p \in PickerRecord /\ Distinct(p.healthy) /\ Even(p) /\ p.healthy # <<>>
  BY DEF PickInv, PickTypeInv, EvenInv, RoundRobinPick
<1>2. e = c[Index(p.counter + 1, Len(c))] /\ pickers' = [pickers EXCEPT ![i] = q]
  BY DEF RoundRobinPick
<1> HIDE DEF p, c
<1>3. q \in PickerRecord /\ q.healthy = p.healthy
  <2>1. [p.picks EXCEPT ![e] = @ + 1] \in [Entry -> Nat] /\ p.counter + 1 \in Nat
    BY <1>1 DEF PickerRecord
  <2>2. (p.filtered \/ c # p.healthy) \in BOOLEAN
    OBVIOUS
  <2> DEFINE f == p.filtered \/ c # p.healthy
             k == [p.picks EXCEPT ![e] = @ + 1]
  <2>3. q = [p EXCEPT !.counter = @ + 1, !.picks = k, !.filtered = f]
    BY <1>1 DEF PickerRecord
  <2> HIDE DEF f, k, q
  <2> QED  BY <1>1, <2>1, <2>2, <2>3 DEF PickerRecord, f, k
<1>4. Even(q)
  <2>1. CASE c = p.healthy
    <3> DEFINE u == [p EXCEPT !.counter = @ + 1, !.picks[e] = @ + 1]
    <3>1. u \in PickerRecord
      <4>1. [p.picks EXCEPT ![e] = @ + 1] \in [Entry -> Nat] /\ p.counter + 1 \in Nat
        BY <1>1 DEF PickerRecord
      <4> QED  BY <1>1, <4>1 DEF PickerRecord
    <3>2. Even(u)
      BY <1>1, <1>2, <2>1, <3>1, PickedEven
    <3>3. u = q
      BY <1>1, <2>1 DEF PickerRecord
    <3> QED  BY <3>2, <3>3
  <2>2. CASE c # p.healthy
    <3>1. q.filtered
      BY <1>1, <2>2 DEF PickerRecord
    <3> QED  BY <3>1 DEF Even
  <2> QED  BY <2>1, <2>2
<1> HIDE DEF q
<1>5. /\ pickers' \in Seq(PickerRecord) /\ DOMAIN pickers' = DOMAIN pickers
      /\ \A j \in DOMAIN pickers' : pickers'[j] = IF j = i THEN q ELSE pickers[j]
  BY <1>2, <1>3 DEF PickInv, PickTypeInv
<1>6. PickTypeInv'
  BY <1>1, <1>3, <1>5 DEF PickInv, PickTypeInv, RoundRobinPick
<1>7. EvenInv'
  BY <1>4, <1>5 DEF PickInv, EvenInv
<1>8. ScanInv'
  BY DEF PickInv, ScanInv, Bounded, RoundRobinPick
<1> QED  BY <1>6, <1>7, <1>8 DEF PickInv

(***************************************************************************)
(* Least request.                                                          *)
(***************************************************************************)
LEMMA HeadTail ==
  ASSUME NEW S, NEW q \in Seq(S), q # <<>>
  PROVE  /\ Head(q) \in S /\ Tail(q) \in Seq(S)
         /\ Elements(q) = {Head(q)} \cup Elements(Tail(q))
<1>1. /\ Len(q) \in Nat \ {0} /\ DOMAIN q = 1..Len(q) /\ Head(q) = q[1] /\ q[1] \in S
      /\ Tail(q) \in Seq(S) /\ Len(Tail(q)) = Len(q) - 1
      /\ DOMAIN Tail(q) = 1..(Len(q) - 1)
      /\ \A i \in 1..(Len(q) - 1) : Tail(q)[i] = q[i + 1]
  OBVIOUS
<1>2. Elements(q) \subseteq {Head(q)} \cup Elements(Tail(q))
  <2> SUFFICES ASSUME NEW i \in 1..Len(q), i # 1 PROVE q[i] \in Elements(Tail(q))
    BY <1>1 DEF Elements
  <2>1. i - 1 \in 1..(Len(q) - 1) /\ (i - 1) + 1 = i
    BY <1>1
  <2>2. Tail(q)[i - 1] = q[i]
    BY <1>1, <2>1
  <2> QED  BY <1>1, <2>1, <2>2 DEF Elements
<1>3. Elements(Tail(q)) \subseteq Elements(q)
  <2> SUFFICES ASSUME NEW i \in 1..(Len(q) - 1) PROVE Tail(q)[i] \in Elements(q)
    BY <1>1 DEF Elements
  <2>1. i + 1 \in 1..Len(q) /\ Tail(q)[i] = q[i + 1]
    BY <1>1
  <2> QED  BY <1>1, <2>1 DEF Elements
<1>4. Head(q) \in Elements(q)
  BY <1>1 DEF Elements
<1> QED  BY <1>1, <1>2, <1>3, <1>4

LEMMA LeastRequestBeginPickInv ==
  ASSUME PickInv, NEW r \in Rpc, NEW i \in DOMAIN pickers, NEW X, LeastRequestBegin(r, i, X)
  PROVE  PickInv'
<1> DEFINE c == Candidates(pickers[i].healthy, X)
           s == [NoScan EXCEPT !.todo = c, !.candidates = Elements(c)]
<1>1. pickers[i] \in PickerRecord /\ pickers[i].healthy # <<>>
  BY DEF PickInv, PickTypeInv, LeastRequestBegin
<1>2. c \in Seq(Entry) /\ c # <<>>
  BY <1>1, CandidatesFacts DEF PickerRecord
<1>3. scan' = [scan EXCEPT ![r] = s] /\ UNCHANGED <<pickers, inFlight>>
  BY DEF LeastRequestBegin, Elements
<1> HIDE DEF c
<1>4. Elements(c) \subseteq Entry /\ Elements(c) # {}
  <2>1. 1 \in DOMAIN c /\ \A j \in DOMAIN c : c[j] \in Entry
    BY <1>2
  <2> QED  BY <2>1 DEF Elements
<1>5. /\ s \in ScanRecord /\ s.todo = c /\ s.candidates = Elements(c) /\ s.chosen = 0
  <2>1. NoScan \in ScanRecord /\ NoScan.chosen = 0
    BY NoScanType DEF NoScan
  <2>2. Elements(c) \in SUBSET Entry
    BY <1>4
  <2> QED  BY <1>2, <2>1, <2>2 DEF ScanRecord
<1>6. Bounded(s, inFlight')
  BY <1>4, <1>5 DEF Bounded
<1> HIDE DEF s
<1>7. PickTypeInv'
  BY <1>3, <1>5 DEF PickInv, PickTypeInv
<1>8. ScanInv'
  BY <1>3, <1>6 DEF PickInv, PickTypeInv, ScanInv, Bounded
<1>9. EvenInv'
  BY <1>3 DEF PickInv, EvenInv
<1> QED  BY <1>7, <1>8, <1>9 DEF PickInv

LEMMA LeastRequestLoadPickInv ==
  ASSUME PickInv, NEW r \in Rpc, LeastRequestLoad(r)
  PROVE  PickInv'
<1> DEFINE s == scan[r]
           e == Head(s.todo)
           better == Better(inFlight[e], e, s)
           t == [s EXCEPT !.todo = Tail(@),
                          !.chosen = IF better THEN e ELSE @,
                          !.count = IF better THEN inFlight[e] ELSE @]
<1>1. /\ s \in ScanRecord /\ s.todo # <<>> /\ scan' = [scan EXCEPT ![r] = t]
      /\ UNCHANGED <<pickers, inFlight>> /\ inFlight \in [Entry -> Int]
  BY DEF PickInv, PickTypeInv, LeastRequestLoad
<1>2. Bounded(s, inFlight)
  BY <1>1 DEF PickInv, ScanInv, NoScan
<1>3. /\ e \in Entry /\ Tail(s.todo) \in Seq(Entry) /\ inFlight[e] \in Int
      /\ Elements(s.todo) = {e} \cup Elements(Tail(s.todo))
  BY <1>1, HeadTail DEF ScanRecord
<1>4. e \in Nat \ {0} /\ 0 \notin Entry
  BY <1>3, EntryAssumption
<1>5. /\ t \in ScanRecord /\ t.todo = Tail(s.todo) /\ t.candidates = s.candidates
      /\ t.overlap = s.overlap /\ t.chosen = (IF better THEN e ELSE s.chosen)
      /\ t.count = (IF better THEN inFlight[e] ELSE s.count)
  BY <1>1, <1>3 DEF ScanRecord
<1>6. s.chosen \in Nat /\ s.count \in Int /\ s.overlap \in Nat /\ s.candidates \subseteq Entry
  BY <1>1, EntryAssumption DEF ScanRecord
<1> HIDE DEF e, s, t, better
<1>7. Bounded(t, inFlight')
  <2>1. t.candidates # {} /\ Elements(t.todo) \subseteq t.candidates /\ e \in s.candidates
    BY <1>2, <1>3, <1>5 DEF Bounded
  <2>2. CASE better
    <3>1. t.chosen = e /\ t.count = inFlight[e]
      BY <1>5, <2>2
    <3>2. \A x \in t.candidates \ Elements(t.todo) : inFlight[e] <= inFlight[x] + t.overlap
      <4> SUFFICES ASSUME NEW x \in s.candidates, x \notin Elements(t.todo), x # e
                   PROVE  inFlight[e] <= inFlight[x] + s.overlap
        BY <1>3, <1>5, <1>6
      <4>1. x \notin Elements(s.todo) /\ inFlight[x] \in Int
        BY <1>1, <1>3, <1>5, <1>6
      <4>2. s.chosen # 0 /\ s.count <= inFlight[x] + s.overlap
        BY <1>2, <4>1 DEF Bounded
      <4>3. inFlight[e] <= s.count
        BY <1>3, <1>6, <2>2, <4>2 DEF better, Better
      <4> QED  BY <1>3, <1>6, <4>1, <4>2, <4>3
    <3>3. inFlight[e] <= inFlight[e] + t.overlap
      BY <1>3, <1>5, <1>6
    <3> QED  BY <1>1, <1>4, <1>5, <2>1, <3>1, <3>2, <3>3 DEF Bounded
  <2>3. CASE ~better
    <3>1. t.chosen = s.chosen /\ t.count = s.count
      BY <1>5, <2>3
    <3>2. s.chosen # 0 /\ s.count <= inFlight[e]
      BY <1>3, <1>6, <2>3 DEF better, Better
    <3>3. /\ s.chosen \in s.candidates /\ inFlight[s.chosen] <= s.count + s.overlap
          /\ \A x \in s.candidates \ Elements(s.todo) :
               /\ s.count <= inFlight[x] + s.overlap
               /\ inFlight[s.chosen] <= inFlight[x] + s.overlap
      BY <1>2, <3>2 DEF Bounded
    <3>4. /\ s.count <= inFlight[e] + s.overlap
          /\ inFlight[s.chosen] <= inFlight[e] + s.overlap
      <4>1. inFlight[s.chosen] \in Int
        BY <1>1, <1>6, <3>3
      <4> QED  BY <1>3, <1>6, <3>2, <3>3, <4>1
    <3>5. \A x \in t.candidates \ Elements(t.todo) : x = e \/ x \in s.candidates \ Elements(s.todo)
      BY <1>3, <1>5
    <3> QED  BY <1>1, <1>5, <2>1, <3>1, <3>2, <3>3, <3>4, <3>5 DEF Bounded
  <2> QED  BY <2>2, <2>3
<1>8. PickTypeInv'
  BY <1>1, <1>5 DEF PickInv, PickTypeInv
<1>9. ScanInv'
  BY <1>1, <1>7 DEF PickInv, PickTypeInv, ScanInv, Bounded
<1>10. EvenInv'
  BY <1>1 DEF PickInv, EvenInv
<1> QED  BY <1>8, <1>9, <1>10 DEF PickInv

\* Another RPC is counted in or out while a scan goes on.
LEMMA ChangePickInv ==
  ASSUME PickInv, NEW e \in Entry, NEW d \in {-1, 1}, NEW Others \in SUBSET Rpc,
         Change(e, d, Others), UNCHANGED pickers
  PROVE  PickInv'
<1>1. /\ inFlight \in [Entry -> Int] /\ scan \in [Rpc -> ScanRecord]
      /\ inFlight' = [inFlight EXCEPT ![e] = @ + d]
  BY DEF PickInv, PickTypeInv, Change
<1>2. inFlight' \in [Entry -> Int]
  BY <1>1
<1>3. ASSUME NEW r \in Rpc
      PROVE  scan'[r] \in ScanRecord /\ (scan'[r] # NoScan => Bounded(scan'[r], inFlight'))
  <2> DEFINE s == scan[r]
             t == [s EXCEPT !.overlap = @ + 1]
  <2>1. CASE r \in Others /\ s # NoScan
    <3>1. scan'[r] = t
      BY <2>1 DEF Change
    <3>2. s \in ScanRecord /\ Bounded(s, inFlight)
      BY <1>1, <2>1 DEF PickInv, ScanInv
    <3>3. /\ s.overlap \in Nat /\ s.count \in Int /\ s.candidates \subseteq Entry
      BY <3>2 DEF ScanRecord
    <3>4. /\ t \in ScanRecord /\ t.todo = s.todo /\ t.candidates = s.candidates
          /\ t.chosen = s.chosen /\ t.count = s.count /\ t.overlap = s.overlap + 1
      BY <3>2 DEF ScanRecord
    <3> HIDE DEF s, t
    <3>5. ASSUME s.chosen # 0
          PROVE  /\ inFlight'[s.chosen] <= s.count + t.overlap
                 /\ \A x \in s.candidates \ Elements(s.todo) :
                      /\ s.count <= inFlight'[x] + t.overlap
                      /\ inFlight'[s.chosen] <= inFlight'[x] + t.overlap
      <4>1. /\ s.chosen \in Entry /\ inFlight[s.chosen] \in Int
            /\ inFlight[s.chosen] <= s.count + s.overlap
        BY <1>1, <3>2, <3>3, <3>5 DEF Bounded
      <4>2. inFlight'[s.chosen] = inFlight[s.chosen] + (IF s.chosen = e THEN d ELSE 0)
        BY <1>1, <4>1
      <4>3. inFlight'[s.chosen] <= s.count + t.overlap
        BY <3>3, <3>4, <4>1, <4>2
      <4>4. ASSUME NEW x \in s.candidates \ Elements(s.todo)
            PROVE  /\ s.count <= inFlight'[x] + t.overlap
                   /\ inFlight'[s.chosen] <= inFlight'[x] + t.overlap
        <5>1. /\ x \in Entry /\ inFlight[x] \in Int
              /\ s.count <= inFlight[x] + s.overlap
              /\ inFlight[s.chosen] <= inFlight[x] + s.overlap
          BY <1>1, <3>2, <3>3, <3>5, <4>4 DEF Bounded
        <5>2. inFlight'[x] = inFlight[x] + (IF x = e THEN d ELSE 0)
          BY <1>1, <5>1
        <5> QED  BY <3>3, <3>4, <4>1, <4>2, <5>1, <5>2
      <4> QED  BY <4>3, <4>4
    <3>6. Bounded(t, inFlight')
      BY <3>2, <3>4, <3>5 DEF Bounded
    <3> QED  BY <3>1, <3>4, <3>6 DEF Bounded
  <2>2. CASE ~(r \in Others /\ s # NoScan)
    BY <2>2, NoScanType DEF Change
  <2> QED  BY <2>1, <2>2
<1>4. scan' = [r \in Rpc |-> scan'[r]]
  BY DEF Change
<1>5. PickTypeInv'
  BY <1>2, <1>3, <1>4 DEF PickInv, PickTypeInv
<1>6. ScanInv'
  BY <1>3 DEF ScanInv
<1>7. EvenInv'
  BY DEF PickInv, EvenInv
<1> QED  BY <1>5, <1>6, <1>7 DEF PickInv

(***************************************************************************)
(* The RPCs.                                                               *)
(***************************************************************************)
Place == {"loop", "invoke", "picking", "picked", "failed", "sleep", "streaming", "returned"}

RpcRecord == [at : Place, kind : {"unary", "stream"}, nonIdempotent : BOOLEAN,
              expired : BOOLEAN, attempt : Nat, picker : Nat, tried : SUBSET Entry,
              entry : Entry \cup {0}, last : Code, pause : Int]

RpcTypeInv == rpc \in [Rpc -> RpcRecord] /\ config \in Configs

\* An RPC picks from a picker there is, and as long as it does its scan is about the
\* entries that picker offers it; it is back at the loop, or asleep, only if
\* MayRetry held, and the entry it was at is one it has tried.
RpcInv(r) ==
  /\ rpc[r].at \in {"invoke", "picking", "picked"} => rpc[r].picker \in DOMAIN pickers
  /\ rpc[r].at \in {"invoke", "picking", "picked", "failed", "sleep"} => rpc[r].attempt > 0
  /\ rpc[r].at = "picking" <=> scan[r] # NoScan
  /\ rpc[r].at = "picking" =>
       scan[r].candidates
         = Elements(Candidates(pickers[rpc[r].picker].healthy, rpc[r].tried))
  /\ rpc[r].at \in {"loop", "sleep"} /\ rpc[r].attempt > 0 => MayRetry(r)
  /\ rpc[r].at = "sleep" => rpc[r].pause = Pause(r)
  /\ rpc[r].at \in {"picked", "streaming"} => rpc[r].entry \in Entry
  /\ Retries(r) /\ rpc[r].entry # 0 => rpc[r].entry \in rpc[r].tried

Inv == PickInv /\ RpcTypeInv /\ \A r \in Rpc : RpcInv(r)

LEMMA RpcFrame ==
  ASSUME Inv, NEW q \in Rpc, rpc'[q] = rpc[q], config' = config, SameHealthy, SameScan(q)
  PROVE  RpcInv(q)'
<1>1. RpcInv(q)
  BY DEF Inv
<1>2. Retries(q)' <=> Retries(q)
  BY DEF Retries
<1>3. MayRetry(q)' <=> MayRetry(q)
  BY <1>2 DEF MayRetry
<1>4. Pause(q)' = Pause(q)
  BY DEF Pause
<1> QED
  BY <1>1, <1>2, <1>3, <1>4 DEF RpcInv, SameHealthy, SameScan

\* A step of r.
LEMMA RpcStep ==
  ASSUME Inv, NEW r \in Rpc, NEW x \in RpcRecord, rpc' = [rpc EXCEPT ![r] = x],
         config' = config, PickInv', SameHealthy,
         \A q \in Rpc \ {r} : SameScan(q), RpcInv(r)'
  PROVE  Inv'
<1>1. RpcTypeInv'
  BY DEF Inv, RpcTypeInv
<1>2. ASSUME NEW q \in Rpc, q # r PROVE RpcInv(q)'
  BY <1>2, RpcFrame DEF Inv, RpcTypeInv
<1> QED  BY <1>1, <1>2 DEF Inv

\* A step of r that leaves the pickers alone.
LEMMA RpcStepOnly ==
  ASSUME Inv, NEW r \in Rpc, NEW x \in RpcRecord, rpc' = [rpc EXCEPT ![r] = x],
         UNCHANGED <<pickVars, config>>, RpcInv(r)'
  PROVE  Inv'
<1>1. PickInv' /\ SameHealthy /\ \A q \in Rpc : SameScan(q)
  BY DEF Inv, PickInv, PickTypeInv, EvenInv, ScanInv, pickVars, SameHealthy, SameScan
<1> QED  BY <1>1, RpcStep DEF pickVars

(***************************************************************************)
(* The loop.                                                               *)
(***************************************************************************)
LEMMA RpcFacts ==
  ASSUME Inv, NEW r \in Rpc
  PROVE  /\ rpc \in [Rpc -> RpcRecord] /\ rpc[r] \in RpcRecord /\ RpcInv(r)
         /\ config \in Configs /\ scan[r] \in ScanRecord
BY DEF Inv, RpcTypeInv, PickInv, PickTypeInv

LEMMA NewRpcType ==
  ASSUME NEW call \in {"unary", "stream"} \X BOOLEAN
  PROVE  /\ NewRpc(call[1], call[2]) \in RpcRecord
         /\ NewRpc(call[1], call[2]).at = "loop" /\ NewRpc(call[1], call[2]).entry = 0
         /\ NewRpc(call[1], call[2]).attempt = 0
BY DEF NewRpc, RpcRecord, Place, Code

LEMMA ReturnsInv ==
  ASSUME Inv, NEW r \in Rpc, Returns(r), config' = config, PickInv', SameHealthy,
         \A q \in Rpc \ {r} : SameScan(q), scan'[r] = NoScan
  PROVE  Inv'
<1> DEFINE x == [NewRpc("unary", FALSE) EXCEPT !.at = "returned"]
<1>1. /\ x \in RpcRecord /\ x.at = "returned" /\ x.entry = 0
  <2>1. <<"unary", FALSE>> \in {"unary", "stream"} \X BOOLEAN
    OBVIOUS
  <2>2. NewRpc("unary", FALSE) \in RpcRecord /\ NewRpc("unary", FALSE).entry = 0
    BY <2>1, NewRpcType
  <2> QED  BY <2>2 DEF RpcRecord, Place
<1>2. rpc' = [rpc EXCEPT ![r] = x]
  BY DEF Returns
<1> HIDE DEF x
<1>3. rpc'[r] = x
  BY <1>2, RpcFacts
<1>4. RpcInv(r)'
  BY <1>1, <1>3 DEF RpcInv
<1> QED  BY <1>1, <1>2, <1>4, RpcStep

LEMMA ReturnsOnlyInv ==
  ASSUME Inv, NEW r \in Rpc, Returns(r), UNCHANGED <<pickVars, config>>, rpc[r].at # "picking"
  PROVE  Inv'
<1>1. PickInv' /\ SameHealthy /\ \A q \in Rpc : SameScan(q)
  BY DEF Inv, PickInv, PickTypeInv, EvenInv, ScanInv, pickVars, SameHealthy, SameScan
<1>2. scan'[r] = NoScan
  BY RpcFacts DEF RpcInv, pickVars
<1> QED  BY <1>1, <1>2, ReturnsInv

\* The operators that the loop's decisions rest on, for a step that changes neither
\* the attempt nor its failure.
LEMMA SameDecisions ==
  ASSUME NEW r \in Rpc, rpc'[r].attempt = rpc[r].attempt, rpc'[r].last = rpc[r].last,
         rpc'[r].nonIdempotent = rpc[r].nonIdempotent, config' = config
  PROVE  /\ (Retries(r)' <=> Retries(r))
         /\ (MayRetry(r)' <=> MayRetry(r))
         /\ Pause(r)' = Pause(r)
BY DEF Retries, MayRetry, Pause

LEMMA InvokeInv == ASSUME Inv, NEW r \in Rpc, Invoke(r) PROVE Inv'
<1> DEFINE x == [rpc[r] EXCEPT !.at = "invoke", !.attempt = @ + 1, !.picker = Len(pickers)]
<1>1. Len(pickers) \in DOMAIN pickers /\ Len(pickers) \in Nat
  BY DEF Inv, PickInv, PickTypeInv
<1>2. /\ x \in RpcRecord /\ rpc' = [rpc EXCEPT ![r] = x] /\ x.at = "invoke"
      /\ x.attempt = rpc[r].attempt + 1 /\ x.nonIdempotent = rpc[r].nonIdempotent
      /\ x.picker = Len(pickers) /\ x.entry = rpc[r].entry /\ x.tried = rpc[r].tried
      /\ rpc[r].attempt \in Nat
  BY <1>1, RpcFacts DEF Invoke, RpcRecord, Place
<1>3. RpcInv(r)'
  <2>1. rpc'[r] = x /\ scan'[r] = scan[r] /\ config' = config /\ pickers' = pickers
    BY <1>2, RpcFacts DEF Invoke, pickVars
  <2> HIDE DEF x
  <2>2. Retries(r)' <=> Retries(r)
    BY <1>2, <2>1 DEF Retries
  <2>3. /\ scan[r] = NoScan
        /\ Retries(r) /\ rpc[r].entry # 0 => rpc[r].entry \in rpc[r].tried
    BY RpcFacts DEF RpcInv, Invoke
  <2> QED  BY <1>1, <1>2, <2>1, <2>2, <2>3 DEF RpcInv
<1> QED  BY <1>2, <1>3, RpcStepOnly DEF Invoke

LEMMA SleepInv == ASSUME Inv, NEW r \in Rpc, Sleep(r) PROVE Inv'
<1> DEFINE x == [rpc[r] EXCEPT !.at = "sleep", !.pause = Pause(r)]
<1>1. Pause(r) \in Int
  BY RpcFacts, BackoffType, RetryAssumption DEF Pause, RpcRecord
<1>2. /\ x \in RpcRecord /\ rpc' = [rpc EXCEPT ![r] = x] /\ x.at = "sleep" /\ x.pause = Pause(r)
      /\ x.attempt = rpc[r].attempt /\ x.last = rpc[r].last /\ x.nonIdempotent = rpc[r].nonIdempotent
      /\ x.entry = rpc[r].entry /\ x.tried = rpc[r].tried
  BY <1>1, RpcFacts DEF Sleep, RpcRecord, Place
<1>3. RpcInv(r)'
  <2>1. rpc'[r] = x /\ scan'[r] = scan[r] /\ config' = config
    BY <1>2, RpcFacts DEF Sleep, pickVars
  <2> HIDE DEF x
  <2>2. /\ Pause(r)' = Pause(r) /\ (Retries(r)' <=> Retries(r))
        /\ (MayRetry(r)' <=> MayRetry(r))
    BY <1>2, <2>1, SameDecisions
  <2>3. /\ MayRetry(r) /\ scan[r] = NoScan /\ rpc[r].attempt > 0
        /\ Retries(r) /\ rpc[r].entry # 0 => rpc[r].entry \in rpc[r].tried
    BY RpcFacts DEF RpcInv, Sleep
  <2> QED  BY <1>2, <2>1, <2>2, <2>3 DEF RpcInv
<1> QED  BY <1>2, <1>3, RpcStepOnly DEF Sleep

LEMMA WakeUpInv == ASSUME Inv, NEW r \in Rpc, WakeUp(r) PROVE Inv'
<1> DEFINE x == [rpc[r] EXCEPT !.at = "loop"]
<1>1. /\ x \in RpcRecord /\ rpc' = [rpc EXCEPT ![r] = x] /\ x.at = "loop"
      /\ x.attempt = rpc[r].attempt /\ x.last = rpc[r].last /\ x.nonIdempotent = rpc[r].nonIdempotent
      /\ x.entry = rpc[r].entry /\ x.tried = rpc[r].tried
  BY RpcFacts DEF WakeUp, Goes, RpcRecord, Place
<1>2. RpcInv(r)'
  <2>1. rpc'[r] = x /\ scan'[r] = scan[r] /\ config' = config
    BY <1>1, RpcFacts DEF WakeUp, pickVars
  <2> HIDE DEF x
  <2>2. (Retries(r)' <=> Retries(r)) /\ (MayRetry(r)' <=> MayRetry(r))
    BY <1>1, <2>1, SameDecisions
  <2>3. /\ MayRetry(r) /\ scan[r] = NoScan
        /\ Retries(r) /\ rpc[r].entry # 0 => rpc[r].entry \in rpc[r].tried
    BY RpcFacts DEF RpcInv, WakeUp
  <2> QED  BY <1>1, <2>1, <2>2, <2>3 DEF RpcInv
<1> QED  BY <1>1, <1>2, RpcStepOnly DEF WakeUp

LEMMA ExpireInv == ASSUME Inv, NEW r \in Rpc, Expire(r) PROVE Inv'
<1> DEFINE x == [rpc[r] EXCEPT !.expired = TRUE]
<1>1. /\ x \in RpcRecord /\ rpc' = [rpc EXCEPT ![r] = x] /\ x.at = rpc[r].at
      /\ x.attempt = rpc[r].attempt /\ x.last = rpc[r].last /\ x.nonIdempotent = rpc[r].nonIdempotent
      /\ x.entry = rpc[r].entry /\ x.tried = rpc[r].tried /\ x.pause = rpc[r].pause
      /\ x.picker = rpc[r].picker
  BY RpcFacts DEF Expire, RpcRecord
<1>2. RpcInv(r)'
  <2>1. rpc'[r] = x /\ scan' = scan /\ pickers' = pickers /\ config' = config
    BY <1>1, RpcFacts DEF Expire, pickVars
  <2> HIDE DEF x
  <2>2. /\ (Retries(r)' <=> Retries(r)) /\ (MayRetry(r)' <=> MayRetry(r))
        /\ Pause(r)' = Pause(r)
    BY <1>1, <2>1, SameDecisions
  <2> QED  BY <1>1, <2>1, <2>2, RpcFacts DEF RpcInv
<1> QED  BY <1>1, <1>2, RpcStepOnly DEF Expire

\* The attempt has failed with a code.
LEMMA FailedInv ==
  ASSUME Inv, NEW r \in Rpc, NEW code \in Code, rpc[r].at \in {"invoke", "picked"},
         rpc' = [rpc EXCEPT ![r].at = "failed", ![r].last = code], config' = config,
         PickInv', SameHealthy, \A q \in Rpc : SameScan(q)
  PROVE  Inv'
<1> DEFINE x == [rpc[r] EXCEPT !.at = "failed", !.last = code]
<1>1. /\ x \in RpcRecord /\ rpc' = [rpc EXCEPT ![r] = x] /\ x.at = "failed"
      /\ x.attempt = rpc[r].attempt /\ x.nonIdempotent = rpc[r].nonIdempotent
      /\ x.entry = rpc[r].entry /\ x.tried = rpc[r].tried
  BY RpcFacts DEF RpcRecord, Place
<1>2. RpcInv(r)'
  <2>1. rpc'[r] = x
    BY <1>1, RpcFacts
  <2> HIDE DEF x
  <2>2. Retries(r)' <=> Retries(r)
    BY <1>1, <2>1 DEF Retries
  <2>3. /\ rpc[r].attempt > 0 /\ scan'[r] = NoScan
        /\ Retries(r) /\ rpc[r].entry # 0 => rpc[r].entry \in rpc[r].tried
    BY RpcFacts DEF RpcInv, SameScan
  <2> QED  BY <1>1, <2>1, <2>2, <2>3 DEF RpcInv
<1> QED  BY <1>1, <1>2, RpcStep

(***************************************************************************)
(* The picks.                                                              *)
(***************************************************************************)
\* A pick of e has been made.
LEMMA ChosenInv ==
  ASSUME Inv, NEW r \in Rpc, NEW e \in Entry, rpc[r].at \in {"invoke", "picking"},
         Chosen(r, e), config' = config, PickInv', SameHealthy,
         \A q \in Rpc \ {r} : SameScan(q), scan'[r] = NoScan
  PROVE  Inv'
<1> DEFINE x == [rpc[r] EXCEPT !.at = "picked", !.entry = e, !.tried = Recorded(r, e)]
<1>1. Recorded(r, e) \in SUBSET Entry
  BY RpcFacts DEF Recorded, RpcRecord
<1>2. /\ x \in RpcRecord /\ rpc' = [rpc EXCEPT ![r] = x] /\ x.at = "picked"
      /\ x.attempt = rpc[r].attempt /\ x.nonIdempotent = rpc[r].nonIdempotent
      /\ x.entry = e /\ x.tried = Recorded(r, e) /\ x.picker = rpc[r].picker
  BY <1>1, RpcFacts DEF Chosen, RpcRecord, Place
<1>3. RpcInv(r)'
  <2>1. rpc'[r] = x
    BY <1>2, RpcFacts
  <2> HIDE DEF x
  <2>2. Retries(r)' <=> Retries(r)
    BY <1>2, <2>1 DEF Retries
  <2>3. rpc[r].attempt > 0 /\ rpc[r].picker \in DOMAIN pickers'
    BY RpcFacts DEF RpcInv, SameHealthy
  <2>4. Retries(r) => e \in Recorded(r, e)
    BY DEF Recorded
  <2> QED  BY <1>2, <2>1, <2>2, <2>3, <2>4 DEF RpcInv
<1> QED  BY <1>2, <1>3, RpcStep

LEMMA RoundRobinInv == ASSUME Inv, NEW r \in Rpc, NEW e \in Entry, RoundRobin(r, e) PROVE Inv'
<1>1. /\ rpc[r].at = "invoke" /\ RoundRobinPick(rpc[r].picker, rpc[r].tried, e)
      /\ Chosen(r, e) /\ config' = config
  BY DEF RoundRobin
<1>2. rpc[r].picker \in DOMAIN pickers /\ scan[r] = NoScan
  BY <1>1, RpcFacts DEF RpcInv
<1>3. PickInv'
  BY <1>1, <1>2, RoundRobinPickInv DEF Inv
<1>4. scan' = scan
  BY <1>1 DEF RoundRobinPick
<1>5. SameHealthy
  BY <1>1, <1>2, PickedHealthy DEF Inv
<1> QED  BY <1>1, <1>2, <1>3, <1>4, <1>5, ChosenInv DEF SameScan

LEMMA LeastRequestStartInv == ASSUME Inv, NEW r \in Rpc, LeastRequestStart(r) PROVE Inv'
<1> DEFINE x == [rpc[r] EXCEPT !.at = "picking"]
           i == rpc[r].picker
           c == Candidates(pickers[i].healthy, rpc[r].tried)
           s == [NoScan EXCEPT !.todo = c, !.candidates = Elements(c)]
<1>1. /\ rpc[r].at = "invoke" /\ LeastRequestBegin(r, i, rpc[r].tried) /\ config' = config
      /\ i \in DOMAIN pickers
  BY RpcFacts DEF LeastRequestStart, RpcInv
<1>2. PickInv'
  BY <1>1, LeastRequestBeginPickInv DEF Inv
<1>3. /\ scan' = [scan EXCEPT ![r] = s] /\ pickers' = pickers /\ scan \in [Rpc -> ScanRecord]
  BY <1>1 DEF LeastRequestBegin, Elements, Inv, PickInv, PickTypeInv
<1>4. s.candidates = Elements(c) /\ s.todo = c
  BY NoScanType DEF ScanRecord
<1>5. s # NoScan
  <2>1. c # <<>>
    <3>1. pickers[i].healthy \in Seq(Entry) /\ pickers[i].healthy # <<>>
      <4>1. pickers[i] \in PickerRecord
        BY <1>1 DEF Inv, PickInv, PickTypeInv
      <4>2. pickers[i].healthy # <<>>
        BY <1>1 DEF LeastRequestBegin
      <4> QED  BY <4>1, <4>2 DEF PickerRecord
    <3> QED  BY <3>1, CandidatesFacts
  <2> QED  BY <1>4, <2>1 DEF NoScan
<1>6. /\ x \in RpcRecord /\ rpc' = [rpc EXCEPT ![r] = x] /\ x.at = "picking"
      /\ x.attempt = rpc[r].attempt /\ x.nonIdempotent = rpc[r].nonIdempotent
      /\ x.entry = rpc[r].entry /\ x.tried = rpc[r].tried /\ x.picker = rpc[r].picker
  BY RpcFacts DEF LeastRequestStart, Goes, RpcRecord, Place
<1>7. RpcInv(r)'
  <2>1. rpc'[r] = x /\ scan'[r] = s
    BY <1>3, <1>6, RpcFacts
  <2> HIDE DEF x, s
  <2>2. Retries(r)' <=> Retries(r)
    BY <1>1, <1>6, <2>1 DEF Retries
  <2>3. /\ rpc[r].attempt > 0
        /\ Retries(r) /\ rpc[r].entry # 0 => rpc[r].entry \in rpc[r].tried
    BY <1>1, RpcFacts DEF RpcInv
  <2> QED  BY <1>1, <1>3, <1>4, <1>5, <1>6, <2>1, <2>2, <2>3 DEF RpcInv
<1>8. SameHealthy /\ \A q \in Rpc \ {r} : SameScan(q)
  BY <1>3 DEF SameHealthy, SameScan
<1> QED  BY <1>1, <1>2, <1>6, <1>7, <1>8, RpcStep

LEMMA LeastRequestLookInv == ASSUME Inv, NEW r \in Rpc, LeastRequestLook(r) PROVE Inv'
<1>1. /\ rpc[r].at = "picking" /\ LeastRequestLoad(r) /\ UNCHANGED <<rpc, config, pickers>>
  BY DEF LeastRequestLook, LeastRequestLoad
<1>2. PickInv'
  BY <1>1, LeastRequestLoadPickInv DEF Inv
<1>3. /\ scan[r] # NoScan /\ scan[r].candidates # {} /\ scan \in [Rpc -> ScanRecord]
  BY <1>1, RpcFacts DEF RpcInv, Inv, PickInv, PickTypeInv, ScanInv, Bounded
<1>4. scan'[r].candidates = scan[r].candidates /\ \A q \in Rpc \ {r} : scan'[q] = scan[q]
  BY <1>1, <1>3 DEF LeastRequestLoad, ScanRecord
<1>5. SameHealthy /\ \A q \in Rpc : SameScan(q)
  <2>1. NoScan.candidates = {}
    BY DEF NoScan
  <2>2. scan[r] # NoScan /\ scan'[r] # NoScan
    BY <1>3, <1>4, <2>1
  <2> QED  BY <1>1, <1>4, <2>2 DEF SameHealthy, SameScan
<1>6. \A q \in Rpc : RpcInv(q)'
  BY <1>1, <1>5, RpcFrame
<1> QED  BY <1>1, <1>2, <1>6 DEF Inv, RpcTypeInv

\* What a scan has chosen in the end.
LEMMA ScanChooses ==
  ASSUME Inv, NEW r \in Rpc, scan[r] # NoScan, scan[r].todo = <<>>
  PROVE  /\ scan[r].chosen \in scan[r].candidates /\ scan[r].candidates \subseteq Entry
         /\ \A e \in scan[r].candidates :
              inFlight[scan[r].chosen] <= inFlight[e] + scan[r].overlap
<1>1. Bounded(scan[r], inFlight) /\ scan[r] \in ScanRecord
  BY DEF Inv, PickInv, PickTypeInv, ScanInv
<1>2. Elements(scan[r].todo) = {}
  BY DEF Elements
<1> QED  BY <1>1, <1>2 DEF Bounded, ScanRecord

LEMMA ChangeFrame ==
  ASSUME Inv, NEW e, NEW d, NEW Others \in SUBSET Rpc, Change(e, d, Others)
  PROVE  /\ \A q \in Others : SameScan(q)
         /\ \A q \in Rpc \ Others : scan'[q] = NoScan
<1>1. ASSUME NEW q \in Others, scan[q] # NoScan PROVE SameScan(q)
  <2>1. scan[q] \in ScanRecord /\ scan[q].candidates # {}
    BY <1>1 DEF Inv, PickInv, PickTypeInv, ScanInv, Bounded
  <2>2. scan'[q] = [scan[q] EXCEPT !.overlap = @ + 1]
    BY <1>1 DEF Change
  <2>3. scan'[q].candidates = scan[q].candidates
    BY <2>1, <2>2 DEF ScanRecord
  <2> QED  BY <1>1, <2>1, <2>3 DEF SameScan, NoScan
<1>2. ASSUME NEW q \in Others, scan[q] = NoScan PROVE SameScan(q)
  BY <1>2 DEF Change, SameScan
<1> QED  BY <1>1, <1>2 DEF Change

LEMMA LeastRequestInv ==
  ASSUME Inv, NEW r \in Rpc, NEW e \in Entry, LeastRequest(r, e) PROVE Inv'
<1>1. /\ rpc[r].at = "picking" /\ Chosen(r, e) /\ Change(e, 1, Rpc \ {r})
      /\ UNCHANGED <<config, pickers>>
  BY DEF LeastRequest, LeastRequestEnd
<1>2. PickInv'
  BY <1>1, ChangePickInv DEF Inv
<1>3. (\A q \in Rpc \ {r} : SameScan(q)) /\ scan'[r] = NoScan
  BY <1>1, ChangeFrame
<1> QED  BY <1>1, <1>2, <1>3, ChosenInv DEF SameHealthy

(***************************************************************************)
(* The end of an attempt.                                                  *)
(***************************************************************************)
LEMMA CallDoneFrame ==
  ASSUME Inv, NEW r \in Rpc, rpc[r].at \in {"picked", "streaming"}, CallDone(r)
  PROVE  PickInv' /\ SameHealthy /\ (\A q \in Rpc : SameScan(q)) /\ pickers' = pickers
<1>1. CASE config.policy = "least_request"
  <2>1. /\ rpc[r].entry \in Entry /\ Change(rpc[r].entry, -1, Rpc) /\ UNCHANGED pickers
        /\ Rpc \in SUBSET Rpc
    BY <1>1, RpcFacts DEF CallDone, Done, RpcInv
  <2>2. PickInv'
    BY <2>1, ChangePickInv DEF Inv
  <2>3. \A q \in Rpc : SameScan(q)
    BY <2>1, ChangeFrame
  <2> QED  BY <2>1, <2>2, <2>3 DEF SameHealthy
<1>2. CASE config.policy # "least_request"
  BY <1>2
  DEF CallDone, Inv, PickInv, PickTypeInv, EvenInv, ScanInv, pickVars, SameHealthy, SameScan
<1> QED  BY <1>1, <1>2

LEMMA RepickInv == ASSUME Inv, NEW r \in Rpc, Repick(r) PROVE Inv'
<1> DEFINE x == [rpc[r] EXCEPT !.at = "invoke", !.picker = Len(pickers)]
<1>1. /\ rpc[r].at = "picked" /\ PickInv' /\ SameHealthy /\ (\A q \in Rpc : SameScan(q))
      /\ config' = config
  BY CallDoneFrame DEF Repick
<1>2. Len(pickers) \in DOMAIN pickers /\ Len(pickers) \in Nat
  BY DEF Inv, PickInv, PickTypeInv
<1>3. /\ x \in RpcRecord /\ rpc' = [rpc EXCEPT ![r] = x] /\ x.at = "invoke"
      /\ x.attempt = rpc[r].attempt /\ x.nonIdempotent = rpc[r].nonIdempotent
      /\ x.entry = rpc[r].entry /\ x.tried = rpc[r].tried /\ x.picker = Len(pickers)
  BY <1>2, RpcFacts DEF Repick, RpcRecord, Place
<1>4. RpcInv(r)'
  <2>1. rpc'[r] = x
    BY <1>3, RpcFacts
  <2> HIDE DEF x
  <2>2. Retries(r)' <=> Retries(r)
    BY <1>1, <1>3, <2>1 DEF Retries
  <2>3. /\ rpc[r].attempt > 0 /\ scan'[r] = NoScan /\ Len(pickers) \in DOMAIN pickers'
        /\ Retries(r) /\ rpc[r].entry # 0 => rpc[r].entry \in rpc[r].tried
    BY <1>1, <1>2, RpcFacts DEF RpcInv, SameScan, SameHealthy
  <2> QED  BY <1>3, <2>1, <2>2, <2>3 DEF RpcInv
<1> QED  BY <1>1, <1>3, <1>4, RpcStep

LEMMA EndsInv == ASSUME Inv, NEW r \in Rpc, NEW code \in Code, Ends(r, code) PROVE Inv'
<1>1. rpc[r].at = "picked" /\ config' = config
  BY DEF Ends
<1>2. CASE code = "OK" /\ rpc[r].kind = "stream" /\ Goes(r, "streaming") /\ UNCHANGED pickVars
  <2> DEFINE x == [rpc[r] EXCEPT !.at = "streaming"]
  <2>1. /\ x \in RpcRecord /\ rpc' = [rpc EXCEPT ![r] = x] /\ x.at = "streaming"
        /\ x.attempt = rpc[r].attempt /\ x.nonIdempotent = rpc[r].nonIdempotent
        /\ x.entry = rpc[r].entry /\ x.tried = rpc[r].tried
    BY <1>2, RpcFacts DEF Goes, RpcRecord, Place
  <2>2. RpcInv(r)'
    <3>1. rpc'[r] = x /\ scan'[r] = scan[r]
      BY <1>2, <2>1, RpcFacts DEF pickVars
    <3> HIDE DEF x
    <3>2. Retries(r)' <=> Retries(r)
      BY <1>1, <2>1, <3>1 DEF Retries
    <3>3. /\ scan[r] = NoScan /\ rpc[r].entry \in Entry
          /\ Retries(r) /\ rpc[r].entry # 0 => rpc[r].entry \in rpc[r].tried
      BY <1>1, RpcFacts DEF RpcInv
    <3> QED  BY <2>1, <3>1, <3>2, <3>3 DEF RpcInv
  <2> QED  BY <1>1, <1>2, <2>1, <2>2, RpcStepOnly
<1>3. CASE code = "OK" /\ Returns(r) /\ CallDone(r)
  <2>1. PickInv' /\ SameHealthy /\ \A q \in Rpc : SameScan(q)
    BY <1>1, <1>3, CallDoneFrame
  <2>2. scan'[r] = NoScan
    BY <1>1, <2>1, RpcFacts DEF RpcInv, SameScan
  <2> QED  BY <1>1, <1>3, <2>1, <2>2, ReturnsInv
<1>4. CASE /\ rpc' = [rpc EXCEPT ![r].at = "failed", ![r].last = code]
           /\ CallDone(r)
  <2>1. PickInv' /\ SameHealthy /\ \A q \in Rpc : SameScan(q)
    BY <1>1, <1>4, CallDoneFrame
  <2> QED  BY <1>1, <1>4, <2>1, FailedInv
<1> QED  BY <1>2, <1>3, <1>4 DEF Ends

LEMMA StreamEndsInv == ASSUME Inv, NEW r \in Rpc, StreamEnds(r) PROVE Inv'
<1>1. rpc[r].at = "streaming" /\ Returns(r) /\ CallDone(r) /\ config' = config
  BY DEF StreamEnds
<1>2. PickInv' /\ SameHealthy /\ \A q \in Rpc : SameScan(q)
  BY <1>1, CallDoneFrame
<1>3. scan'[r] = NoScan
  BY <1>1, <1>2, RpcFacts DEF RpcInv, SameScan
<1> QED  BY <1>1, <1>2, <1>3, ReturnsInv

LEMMA NoneHealthyInv == ASSUME Inv, NEW r \in Rpc, NoneHealthy(r) PROVE Inv'
<1>1. PickInv' /\ SameHealthy /\ \A q \in Rpc : SameScan(q)
  BY DEF NoneHealthy, Inv, PickInv, PickTypeInv, EvenInv, ScanInv, pickVars, SameHealthy, SameScan
<1>2. "Unavailable" \in Code
  BY DEF Code
<1> QED  BY <1>1, <1>2, FailedInv DEF NoneHealthy

LEMMA RebuildInv == ASSUME Inv, NEW h \in Healthy, Rebuild(h) PROVE Inv'
<1>1. PickInv'
  BY ReplacePickInv DEF Rebuild, Inv
<1>2. SameHealthy /\ \A q \in Rpc : SameScan(q)
  BY DEF Rebuild, Replace, SameHealthy, SameScan, Inv, PickInv, PickTypeInv
<1>3. \A q \in Rpc : RpcInv(q)'
  BY <1>2, RpcFrame DEF Rebuild
<1> QED  BY <1>1, <1>3 DEF Inv, RpcTypeInv, Rebuild

(***************************************************************************)
(* Together.                                                               *)
(***************************************************************************)
LEMMA InitInv == ASSUME Init PROVE Inv
<1>1. PickInv
  BY InitPickInv DEF Init
<1>2. ASSUME NEW r \in Rpc
      PROVE  /\ rpc[r] \in RpcRecord /\ rpc[r].at = "loop" /\ rpc[r].entry = 0
             /\ rpc[r].attempt = 0 /\ scan[r] = NoScan
  <2>1. PICK call \in Calls : rpc[r] = NewRpc(call[1], call[2])
    BY DEF Init
  <2>2. scan[r] = NoScan
    BY DEF Init, PickInit
  <2> QED  BY <2>1, <2>2, NewRpcType, RetryAssumption
<1>3. RpcTypeInv
  BY <1>2 DEF Init, RpcTypeInv
<1>4. \A r \in Rpc : RpcInv(r)
  BY <1>2 DEF RpcInv
<1> QED  BY <1>1, <1>3, <1>4 DEF Inv

LEMMA LoopInv == ASSUME Inv, NEW r \in Rpc, Interceptor(r) PROVE Inv'
<1>1. CASE Invoke(r)
  BY <1>1, InvokeInv
<1>2. CASE LoopExpired(r)
  BY <1>2, ReturnsOnlyInv DEF LoopExpired
<1>3. CASE GiveUp(r)
  BY <1>3, ReturnsOnlyInv DEF GiveUp
<1>4. CASE Sleep(r)
  BY <1>4, SleepInv
<1>5. CASE WakeUp(r)
  BY <1>5, WakeUpInv
<1>6. CASE SleepExpired(r)
  BY <1>6, ReturnsOnlyInv DEF SleepExpired
<1> QED  BY <1>1, <1>2, <1>3, <1>4, <1>5, <1>6 DEF Interceptor

LEMMA NextInv == ASSUME Inv, [Next]_vars PROVE Inv'
<1>1. CASE UNCHANGED vars
  BY <1>1
  DEF vars, pickVars, Inv, PickInv, PickTypeInv, EvenInv, ScanInv, RpcTypeInv, RpcInv, MayRetry,
      Retries, Pause
<1>2. ASSUME NEW r \in Rpc, PickStep(r) PROVE Inv'
  BY <1>2, LeastRequestStartInv, LeastRequestLookInv, NoneHealthyInv, RoundRobinInv, LeastRequestInv
  DEF PickStep
<1>3. ASSUME NEW r \in Rpc,
             Repick(r) \/ (\E code \in Code : Ends(r, code)) \/ StreamEnds(r) \/ Expire(r)
      PROVE  Inv'
  BY <1>3, RepickInv, EndsInv, StreamEndsInv, ExpireInv
<1>4. ASSUME NEW h \in Healthy, Rebuild(h) PROVE Inv'
  BY <1>4, RebuildInv
<1> QED  BY <1>1, <1>2, <1>3, <1>4, LoopInv DEF Next

LEMMA Invariant == Spec => []Inv
<1>1. Init => Inv
  BY InitInv
<1>2. Inv /\ [Next]_vars => Inv'
  BY NextInv
<1> QED  BY <1>1, <1>2, PTL DEF Spec

(***************************************************************************)
(* What follows.                                                           *)
(***************************************************************************)
LEMMA EvenSpread ==
  ASSUME NEW p \in PickerRecord, Even(p), ~p.filtered, NEW j \in DOMAIN p.healthy,
         NEW k \in DOMAIN p.healthy
  PROVE  p.picks[p.healthy[j]] <= p.picks[p.healthy[k]] + 1
<1>1. /\ DOMAIN p.healthy = 1..Len(p.healthy) /\ \A i \in DOMAIN p.healthy : p.healthy[i] \in Entry
      /\ p.picks \in [Entry -> Nat] /\ 1 \in DOMAIN p.healthy
  BY DEF PickerRecord
<1>2. \A i \in DOMAIN p.healthy : p.picks[p.healthy[i]] \in Nat
  BY <1>1
<1>3. \A i \in DOMAIN p.healthy :
        \/ p.picks[p.healthy[i]] = p.picks[p.healthy[1]]
        \/ p.picks[p.healthy[i]] = p.picks[p.healthy[1]] + 1
  BY <1>1, <1>2 DEF Even
<1> QED  BY <1>1, <1>2, <1>3

\* Round robin spreads evenly: as long as no retry has made it leave an entry out, no
\* entry of a picker is ever picked more than once oftener than another, with any
\* number of entries, of RPCs and of picks (picker_rr.go, R5.4).
THEOREM RoundRobinSpread == Spec => []RoundRobinEven
<1>1. Inv => RoundRobinEven
  BY EvenSpread DEF Inv, PickInv, PickTypeInv, EvenInv, RoundRobinEven
<1> QED  BY <1>1, Invariant, PTL

\* The entry least_request chooses is the least loaded one up to the changes made while
\* the pick looked (picker_lr.go, R5.5).
THEOREM LeastRequestNearMin == Spec => []LeastRequestBound
<1>1. Inv => LeastRequestBound
  BY ScanChooses DEF LeastRequestBound
<1> QED  BY <1>1, Invariant, PTL

\* The pause between two attempts is the documented one (backoff.go:31, R7.4), for
\* every base, multiplier, limit and attempt whose products fit the width.
THEOREM PausesAsDocumented == Spec => []PauseIsReference
<1>1. ASSUME Inv, ProductsFit(config.initial, config.max, config.multiplier),
             NEW r \in Rpc, rpc[r].at = "sleep"
      PROVE  rpc[r].pause = Reference(rpc[r].attempt, config.initial, config.max,
                                      config.multiplier)
  <2>1. rpc[r].pause = Pause(r) /\ rpc[r].attempt \in Nat \ {0}
    BY <1>1, RpcFacts DEF RpcInv, RpcRecord
  <2>2. /\ config.initial \in Nat /\ config.max \in Nat /\ config.multiplier \in Nat \ {0}
    BY <1>1, RpcFacts, RetryAssumption
  <2> QED  BY <1>1, <2>1, <2>2, BackoffIsReference DEF Pause
<1>2. Inv => PauseIsReference
  BY <1>1 DEF PauseIsReference
<1> QED  BY <1>2, Invariant, PTL

(***************************************************************************)
(* Which steps begin an attempt, and which enter "picked".                 *)
(***************************************************************************)
LEMMA ChangedRpc ==
  ASSUME Inv, [Next]_vars, NEW q \in Rpc, rpc'[q] # rpc[q]
  PROVE  \/ Interceptor(q) \/ LeastRequestStart(q) \/ NoneHealthy(q)
         \/ \E e \in Entry : RoundRobin(q, e) \/ LeastRequest(q, e)
         \/ Repick(q) \/ (\E code \in Code : Ends(q, code)) \/ StreamEnds(q) \/ Expire(q)
<1>1. rpc \in [Rpc -> RpcRecord]
  BY DEF Inv, RpcTypeInv
<1>2. ASSUME NEW r \in Rpc, Interceptor(r) PROVE r = q
  BY <1>1, <1>2
  DEF Interceptor, Invoke, LoopExpired, GiveUp, Sleep, WakeUp, SleepExpired, Goes, Returns
<1>3. ASSUME NEW r \in Rpc, PickStep(r)
      PROVE  /\ r = q /\ ~LeastRequestLook(r)
  BY <1>1, <1>3
  DEF PickStep, LeastRequestStart, LeastRequestLook, NoneHealthy, RoundRobin, LeastRequest,
      Goes, Chosen
<1>4. ASSUME NEW r \in Rpc,
             Repick(r) \/ (\E code \in Code : Ends(r, code)) \/ StreamEnds(r) \/ Expire(r)
      PROVE  r = q
  BY <1>1, <1>4 DEF Repick, Ends, StreamEnds, Expire, Goes, Returns
<1>5. ~(UNCHANGED vars) /\ ~(\E h \in Healthy : Rebuild(h))
  BY DEF vars, Rebuild
<1> QED  BY <1>2, <1>3, <1>4, <1>5 DEF Next, PickStep

\* No step but Invoke takes an RPC to a higher attempt.
LEMMA AttemptGrows ==
  ASSUME Inv, [Next]_vars, NEW q \in Rpc, rpc'[q].attempt > rpc[q].attempt
  PROVE  Invoke(q)
<1>1. rpc \in [Rpc -> RpcRecord] /\ rpc[q] \in RpcRecord /\ rpc[q].attempt \in Nat
  BY RpcFacts DEF RpcRecord
<1>2. rpc'[q] # rpc[q] /\ rpc'[q].attempt # rpc[q].attempt
  BY <1>1
<1>3. ~Returns(q)
  <2> SUFFICES ASSUME Returns(q) PROVE rpc'[q].attempt = 0
    BY <1>1
  <2>1. rpc'[q] = [NewRpc("unary", FALSE) EXCEPT !.at = "returned"]
    BY <1>1 DEF Returns
  <2> QED  BY <2>1 DEF NewRpc
<1>4. ~(LoopExpired(q) \/ GiveUp(q) \/ SleepExpired(q) \/ StreamEnds(q))
  BY <1>3 DEF LoopExpired, GiveUp, SleepExpired, StreamEnds
<1>5. ~(Sleep(q) \/ WakeUp(q) \/ LeastRequestStart(q) \/ NoneHealthy(q) \/ Repick(q) \/ Expire(q))
  BY <1>1, <1>2
  DEF Sleep, WakeUp, LeastRequestStart, NoneHealthy, Repick, Expire, Goes, RpcRecord
<1>6. ASSUME NEW e \in Entry PROVE ~(RoundRobin(q, e) \/ LeastRequest(q, e))
  BY <1>1, <1>2 DEF RoundRobin, LeastRequest, Chosen, RpcRecord
<1>7. ASSUME NEW code \in Code PROVE ~Ends(q, code)
  BY <1>1, <1>2, <1>3 DEF Ends, Goes, RpcRecord
<1> QED  BY <1>2, <1>4, <1>5, <1>6, <1>7, ChangedRpc DEF Interceptor

\* An RPC is attempted again only if it may be repeated, has failed with a code that
\* allows it, has attempts left, and its context was not seen to be done
\* (interceptor.go:44-85, R7.2, R7.5-R7.8).
THEOREM RetriesJustified == Spec => RetryJustified
<1>1. ASSUME Inv, [Next]_vars, NEW r \in Rpc,
             rpc'[r].attempt > rpc[r].attempt, rpc[r].attempt > 0
      PROVE  /\ ~rpc[r].nonIdempotent /\ rpc[r].last \in Retryable
             /\ rpc[r].attempt < config.maxAttempts /\ ~rpc[r].expired
  <2>1. Invoke(r)
    BY <1>1, AttemptGrows
  <2>2. MayRetry(r)
    BY <1>1, <2>1, RpcFacts DEF Invoke, RpcInv
  <2> QED  BY <2>1, <2>2 DEF Invoke, MayRetry, Retries
<1>2. Inv /\ [Next]_vars =>
        \A r \in Rpc :
          rpc'[r].attempt > rpc[r].attempt /\ rpc[r].attempt > 0 =>
            /\ ~rpc[r].nonIdempotent /\ rpc[r].last \in Retryable
            /\ rpc[r].attempt < config.maxAttempts /\ ~rpc[r].expired
  BY <1>1
<1> QED  BY <1>2, Invariant, PTL DEF Spec, RetryJustified

\* "picked" is entered by a pick.
LEMMA EntersPicked ==
  ASSUME Inv, [Next]_vars, NEW q \in Rpc, rpc[q].at # "picked", rpc'[q].at = "picked"
  PROVE  \E e \in Entry : RoundRobin(q, e) \/ LeastRequest(q, e)
<1>1. rpc \in [Rpc -> RpcRecord] /\ rpc[q] \in RpcRecord /\ rpc'[q] # rpc[q]
  BY RpcFacts
<1>2. ~Returns(q)
  BY <1>1 DEF Returns, NewRpc
<1>3. ~(LoopExpired(q) \/ GiveUp(q) \/ SleepExpired(q) \/ StreamEnds(q))
  BY <1>2 DEF LoopExpired, GiveUp, SleepExpired, StreamEnds
<1>4. ~(Invoke(q) \/ Sleep(q) \/ WakeUp(q) \/ LeastRequestStart(q) \/ NoneHealthy(q) \/ Repick(q)
        \/ Expire(q))
  BY <1>1
  DEF Invoke, Sleep, WakeUp, LeastRequestStart, NoneHealthy, Repick, Expire, Goes, RpcRecord
<1>5. ASSUME NEW code \in Code PROVE ~Ends(q, code)
  BY <1>1, <1>2 DEF Ends, Goes, RpcRecord
<1> QED  BY <1>1, <1>3, <1>4, <1>5, ChangedRpc DEF Interceptor

LEMMA PickedEntry ==
  ASSUME Inv, NEW q \in Rpc, NEW e \in Entry, RoundRobin(q, e) \/ LeastRequest(q, e)
  PROVE  /\ rpc'[q].entry = e /\ rpc[q].picker \in DOMAIN pickers
         /\ pickers[rpc[q].picker].healthy # <<>>
         /\ e \in Elements(Candidates(pickers[rpc[q].picker].healthy, rpc[q].tried))
<1> DEFINE p == pickers[rpc[q].picker]
           c == Candidates(p.healthy, rpc[q].tried)
<1>1. rpc \in [Rpc -> RpcRecord] /\ rpc[q] \in RpcRecord /\ RpcInv(q)
  BY RpcFacts
<1>2. /\ rpc'[q].entry = e /\ rpc[q].at \in {"invoke", "picking"}
  BY <1>1 DEF RoundRobin, LeastRequest, Chosen, RpcRecord
<1>3. rpc[q].picker \in DOMAIN pickers /\ p \in PickerRecord
  BY <1>1, <1>2 DEF RpcInv, Inv, PickInv, PickTypeInv
<1>4. CASE RoundRobin(q, e)
  <2>1. p.healthy # <<>> /\ e = c[Index(p.counter + 1, Len(c))]
    BY <1>4 DEF RoundRobin, RoundRobinPick
  <2>2. c \in Seq(Entry) /\ c # <<>>
    BY <1>3, <2>1, CandidatesFacts DEF PickerRecord
  <2>3. p.counter + 1 \in Nat /\ Len(c) \in Nat \ {0} /\ DOMAIN c = 1..Len(c)
    BY <1>3, <2>2 DEF PickerRecord
  <2> HIDE DEF c
  <2>4. Index(p.counter + 1, Len(c)) \in DOMAIN c
    BY <2>3 DEF Index
  <2>5. e \in Elements(c)
    BY <2>1, <2>4 DEF Elements
  <2> QED  BY <1>2, <1>3, <2>1, <2>5 DEF c
<1>5. CASE LeastRequest(q, e)
  <2>1. /\ rpc[q].at = "picking" /\ scan[q] # NoScan /\ scan[q].todo = <<>> /\ e = scan[q].chosen
    BY <1>5 DEF LeastRequest, LeastRequestEnd
  <2>2. e \in Elements(c)
    BY <1>1, <2>1, ScanChooses DEF RpcInv
  <2>3. p.healthy # <<>>
    <3> SUFFICES ASSUME p.healthy = <<>> PROVE Elements(c) = {}
      BY <2>2
    <3>1. p.healthy \in Seq(Entry) /\ Len(p.healthy) = 0
      BY <1>3 DEF PickerRecord
    <3>2. c = p.healthy
      <4>1. Kept(p.healthy, rpc[q].tried)[0] = <<>>
        <5>1. ASSUME NEW z \in Seq(Entry), NEW X PROVE Kept(z, X)[0] = <<>>
          BY KeptUnfold
        <5> QED  BY <3>1, <5>1
      <4> QED  BY <3>1, <4>1 DEF Candidates
    <3> QED  BY <3>2 DEF Elements
  <2> QED  BY <1>2, <1>3, <2>2, <2>3
<1> QED  BY <1>4, <1>5

\* A retry goes to an entry of an earlier pick only if the RPC has tried all that the
\* picker has (picker_rr.go, picker_lr.go, the part of R7.3 the code keeps).
THEOREM RetriesAvoidTried == Spec => RetryAvoidsTried
<1>1. ASSUME Inv, [Next]_vars, NEW r \in Rpc, rpc[r].at # "picked", rpc'[r].at = "picked",
             Retries(r), rpc'[r].entry \in rpc[r].tried \cup {rpc[r].entry},
             NEW j \in DOMAIN pickers[rpc[r].picker].healthy
      PROVE  pickers[rpc[r].picker].healthy[j] \in rpc[r].tried
  <2> DEFINE h == pickers[rpc[r].picker].healthy
  <2>1. PICK e \in Entry : RoundRobin(r, e) \/ LeastRequest(r, e)
    BY <1>1, EntersPicked
  <2>2. /\ rpc'[r].entry = e /\ h # <<>> /\ rpc[r].picker \in DOMAIN pickers
        /\ e \in Elements(Candidates(h, rpc[r].tried))
    BY <1>1, <2>1, PickedEntry
  <2>3. h \in Seq(Entry)
    <3>1. pickers[rpc[r].picker] \in PickerRecord
      BY <1>1, <2>2 DEF Inv, PickInv, PickTypeInv
    <3> QED  BY <3>1 DEF PickerRecord
  <2>4. e \in rpc[r].tried
    <3>1. e # 0
      BY EntryAssumption
    <3> QED  BY <1>1, <2>2, <3>1, RpcFacts DEF RpcInv
  <2> QED  BY <1>1, <2>2, <2>3, <2>4, CandidatesFacts
<1>2. Inv /\ [Next]_vars =>
        \A r \in Rpc :
          /\ rpc[r].at # "picked" /\ rpc'[r].at = "picked" /\ Retries(r)
          /\ rpc'[r].entry \in rpc[r].tried \cup {rpc[r].entry}
          => \A j \in DOMAIN pickers[rpc[r].picker].healthy :
               pickers[rpc[r].picker].healthy[j] \in rpc[r].tried
  BY <1>1
<1> QED  BY <1>2, Invariant, PTL DEF Spec, RetryAvoidsTried

(***************************************************************************)
(* The counts of least_request.                                            *)
(***************************************************************************)
\* The RPC is at the entry: it has picked it and its Done is still to come.
IsAt(r, e) == rpc[r].at \in {"picked", "streaming"} /\ rpc[r].entry = e

\* least_request counts every RPC at an entry once, and no other.
CountsExact ==
  config.policy = "least_request" =>
    \A e \in Entry : inFlight[e] = Cardinality({r \in Rpc : IsAt(r, e)})

LEMMA RpcSubsetFinite ==
  ASSUME NEW S \in SUBSET Rpc PROVE IsFiniteSet(S) /\ Cardinality(S) \in Nat
BY RetryAssumption, FS_Subset, FS_CardinalityType

LEMMA StillExact ==
  ASSUME CountsExact, config' = config, inFlight' = inFlight,
         \A q \in Rpc : \A e \in Entry : IsAt(q, e)' <=> IsAt(q, e)
  PROVE  CountsExact'
<1>1. ASSUME NEW e \in Entry
      PROVE  {r \in Rpc : IsAt(r, e)'} = {r \in Rpc : IsAt(r, e)}
  OBVIOUS
<1> QED  BY <1>1 DEF CountsExact

LEMMA ExactIn ==
  ASSUME Inv, CountsExact, NEW r \in Rpc, NEW e \in Entry, LeastRequest(r, e)
  PROVE  CountsExact'
<1>1. /\ rpc[r].at = "picking" /\ rpc \in [Rpc -> RpcRecord] /\ inFlight \in [Entry -> Int]
      /\ inFlight' = [inFlight EXCEPT ![e] = @ + 1] /\ config' = config
  BY RpcFacts DEF LeastRequest, LeastRequestEnd, Change, Inv, PickInv, PickTypeInv
<1>2. /\ rpc'[r].at = "picked" /\ rpc'[r].entry = e /\ \A q \in Rpc \ {r} : rpc'[q] = rpc[q]
  BY <1>1 DEF LeastRequest, Chosen, RpcRecord
<1>3. \A q \in Rpc : \A f \in Entry :
        IsAt(q, f)' <=> IsAt(q, f) \/ (q = r /\ f = e)
  BY <1>1, <1>2 DEF IsAt
<1>4. ASSUME config.policy = "least_request", NEW f \in Entry
      PROVE  inFlight'[f] = Cardinality({q \in Rpc : IsAt(q, f)'})
  <2> DEFINE S == {q \in Rpc : IsAt(q, f)}
             T == {q \in Rpc : IsAt(q, f)'}
  <2>1. inFlight[f] = Cardinality(S) /\ Cardinality(S) \in Nat /\ IsFiniteSet(S)
    BY <1>4, RpcSubsetFinite DEF CountsExact
  <2>2. CASE f = e
    <3>1. T = S \cup {r} /\ r \notin S
      BY <1>1, <1>3, <2>2 DEF IsAt
    <3> HIDE DEF S, T
    <3>2. Cardinality(T) = Cardinality(S) + 1
      BY <2>1, <3>1, FS_AddElement
    <3> QED  BY <1>1, <2>1, <2>2, <3>2 DEF T
  <2>3. CASE f # e
    <3>1. T = S
      BY <1>3, <2>3
    <3> QED  BY <1>1, <2>1, <2>3, <3>1
  <2> QED  BY <2>2, <2>3
<1> QED  BY <1>1, <1>4 DEF CountsExact

LEMMA ExactOut ==
  ASSUME Inv, CountsExact, NEW r \in Rpc, rpc[r].at \in {"picked", "streaming"}, CallDone(r),
         config' = config, rpc'[r].at \notin {"picked", "streaming"},
         \A q \in Rpc \ {r} : rpc'[q] = rpc[q]
  PROVE  CountsExact'
<1> DEFINE e == rpc[r].entry
<1>1. e \in Entry /\ inFlight \in [Entry -> Int]
  BY RpcFacts DEF RpcInv, Inv, PickInv, PickTypeInv
<1>2. \A q \in Rpc : \A f \in Entry :
        IsAt(q, f)' <=> IsAt(q, f) /\ q # r
  BY DEF IsAt
<1>3. ASSUME config.policy = "least_request", NEW f \in Entry
      PROVE  inFlight'[f] = Cardinality({q \in Rpc : IsAt(q, f)'})
  <2> DEFINE S == {q \in Rpc : IsAt(q, f)}
             T == {q \in Rpc : IsAt(q, f)'}
  <2>1. inFlight[f] = Cardinality(S) /\ Cardinality(S) \in Nat /\ IsFiniteSet(S)
    BY <1>3, RpcSubsetFinite DEF CountsExact
  <2>2. inFlight' = [inFlight EXCEPT ![e] = @ - 1]
    <3>1. inFlight' = [inFlight EXCEPT ![e] = @ + (-1)]
      BY <1>3 DEF CallDone, Done, Change
    <3> QED  BY <1>1, <3>1
  <2>3. CASE f = e
    <3>1. T = S \ {r} /\ r \in S
      BY <1>2, <2>3 DEF IsAt
    <3> HIDE DEF S, T, e
    <3>2. Cardinality(T) = Cardinality(S) - 1
      BY <2>1, <3>1, FS_RemoveElement
    <3> QED  BY <1>1, <2>1, <2>2, <2>3, <3>2 DEF T
  <2>4. CASE f # e
    <3>1. T = S
      BY <1>2, <2>4 DEF IsAt
    <3> QED  BY <1>1, <2>1, <2>2, <2>4, <3>1
  <2> QED  BY <2>3, <2>4
<1> QED  BY <1>3 DEF CountsExact

LEMMA NextExact == ASSUME Inv, CountsExact, [Next]_vars PROVE CountsExact'
<1>1. config' = config
  BY DEF Next, Interceptor, Invoke, LoopExpired, GiveUp, Sleep, WakeUp, SleepExpired, PickStep,
         LeastRequestStart, LeastRequestLook, NoneHealthy, RoundRobin, LeastRequest, Repick, Ends,
         StreamEnds, Expire, Rebuild, vars
<1> SUFFICES ASSUME config.policy = "least_request" PROVE CountsExact'
  BY <1>1 DEF CountsExact
<1>2. rpc \in [Rpc -> RpcRecord] 
  BY DEF Inv, RpcTypeInv
<1>3. ASSUME NEW r \in Rpc, inFlight' = inFlight, rpc[r].at \notin {"picked", "streaming"},
             rpc'[r].at \notin {"picked", "streaming"}, \A q \in Rpc \ {r} : rpc'[q] = rpc[q]
      PROVE  CountsExact'
  BY <1>1, <1>3, StillExact DEF IsAt
<1>4. ASSUME inFlight' = inFlight,
             \A q \in Rpc : /\ rpc'[q].entry = rpc[q].entry
                            /\ \/ rpc'[q].at = rpc[q].at
                               \/ {rpc'[q].at, rpc[q].at} = {"picked", "streaming"}
      PROVE  CountsExact'
  BY <1>1, <1>4, StillExact DEF IsAt
<1>5. ASSUME NEW r \in Rpc, Interceptor(r) PROVE CountsExact'
  <2>1. /\ inFlight' = inFlight /\ rpc[r].at \notin {"picked", "streaming"}
        /\ rpc'[r].at \notin {"picked", "streaming"} /\ \A q \in Rpc \ {r} : rpc'[q] = rpc[q]
    BY <1>2, <1>5
    DEF Interceptor, Invoke, LoopExpired, GiveUp, Sleep, WakeUp, SleepExpired, Goes, Returns,
        NewRpc, pickVars, RpcRecord
  <2> QED  BY <1>3, <2>1
<1>6. ASSUME NEW r \in Rpc, LeastRequestStart(r) \/ NoneHealthy(r) PROVE CountsExact'
  <2>1. /\ inFlight' = inFlight /\ rpc[r].at \notin {"picked", "streaming"}
        /\ rpc'[r].at \notin {"picked", "streaming"} /\ \A q \in Rpc \ {r} : rpc'[q] = rpc[q]
    BY <1>2, <1>6
    DEF LeastRequestStart, LeastRequestBegin, NoneHealthy, Goes, pickVars, RpcRecord
  <2> QED  BY <1>3, <2>1
<1>7. ASSUME NEW r \in Rpc, LeastRequestLook(r) PROVE CountsExact'
  BY <1>4, <1>7 DEF LeastRequestLook, LeastRequestLoad
<1>8. ASSUME NEW r \in Rpc, NEW e \in Entry, RoundRobin(r, e) \/ LeastRequest(r, e)
      PROVE  CountsExact'
  BY <1>8, ExactIn DEF RoundRobin
<1>9. ASSUME NEW r \in Rpc, Repick(r) \/ StreamEnds(r) PROVE CountsExact'
  <2>1. /\ rpc[r].at \in {"picked", "streaming"} /\ CallDone(r)
        /\ rpc'[r].at \notin {"picked", "streaming"} /\ \A q \in Rpc \ {r} : rpc'[q] = rpc[q]
    BY <1>2, <1>9 DEF Repick, StreamEnds, Returns, NewRpc, RpcRecord
  <2> QED  BY <1>1, <2>1, ExactOut
<1>10. ASSUME NEW r \in Rpc, NEW code \in Code, Ends(r, code) PROVE CountsExact'
  <2>1. CASE Goes(r, "streaming") /\ UNCHANGED pickVars
    <3>1. inFlight' = inFlight
      BY <2>1 DEF pickVars
    <3>2. ASSUME NEW q \in Rpc
          PROVE  /\ rpc'[q].entry = rpc[q].entry
                 /\ \/ rpc'[q].at = rpc[q].at
                    \/ {rpc'[q].at, rpc[q].at} = {"picked", "streaming"}
      BY <1>2, <1>10, <2>1 DEF Goes, Ends, RpcRecord
    <3> QED  BY <1>4, <3>1, <3>2
  <2>2. CASE CallDone(r) /\ (Returns(r) \/ rpc' = [rpc EXCEPT ![r].at = "failed", ![r].last = code])
    <3>1. /\ rpc[r].at = "picked"
          /\ rpc'[r].at \notin {"picked", "streaming"} /\ \A q \in Rpc \ {r} : rpc'[q] = rpc[q]
      BY <1>2, <1>10, <2>2 DEF Ends, Returns, NewRpc, RpcRecord
    <3> QED  BY <1>1, <2>2, <3>1, ExactOut
  <2> QED  BY <1>10, <2>1, <2>2 DEF Ends
<1>11. ASSUME NEW r \in Rpc, Expire(r) PROVE CountsExact'
  <2>1. /\ inFlight' = inFlight
        /\ \A q \in Rpc : rpc'[q].entry = rpc[q].entry /\ rpc'[q].at = rpc[q].at
    BY <1>2, <1>11 DEF Expire, pickVars, RpcRecord
  <2> QED  BY <1>4, <2>1
<1>12. CASE UNCHANGED vars \/ \E h \in Healthy : Rebuild(h)
  BY <1>4, <1>12 DEF vars, pickVars, Rebuild, Replace
<1> QED
  BY <1>5, <1>6, <1>7, <1>8, <1>9, <1>10, <1>11, <1>12 DEF Next, PickStep

\* least_request counts every attempt in and out once, whatever way it ends or is
\* picked again: no count drifts, and none is negative (picker_lr.go:66-80, P7).
THEOREM LeastRequestCounts ==
  Spec => [](CountsExact /\ (config.policy = "least_request" =>
                                 \A e \in Entry : inFlight[e] \in Nat))
<1>1. Init => CountsExact
  <2> SUFFICES ASSUME Init, NEW e \in Entry PROVE inFlight[e] = Cardinality({r \in Rpc : IsAt(r, e)})
    BY DEF CountsExact
  <2>1. \A r \in Rpc : ~IsAt(r, e)
    BY DEF Init, NewRpc, IsAt
  <2>2. {r \in Rpc : IsAt(r, e)} = {}
    BY <2>1
  <2> QED  BY <2>2, FS_EmptySet DEF Init, PickInit
<1>2. Inv /\ CountsExact /\ [Next]_vars => CountsExact'
  BY NextExact
<1>3. CountsExact =>
        (config.policy = "least_request" => \A e \in Entry : inFlight[e] \in Nat)
  BY RpcSubsetFinite DEF CountsExact
<1> QED  BY <1>1, <1>2, <1>3, Invariant, PTL DEF Spec
=============================================================================
