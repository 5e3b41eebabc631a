---------------------------- MODULE ClientProofs ----------------------------
(***************************************************************************)
(* Targets of any length are the same after they were printed and parsed   *)
(* again, and get to the balancer with the port they name.  For any number *)
(* of clients, calls and Closes, a balancer that has endpoints works with  *)
(* its client's configuration and policy, and a Close that has returned    *)
(* has closed everything.                                                  *)
(***************************************************************************)
EXTENDS Client, Recursion, SequenceTheorems

(***************************************************************************)
(* Places of a character, and what is before and after them.               *)
(***************************************************************************)
LEMMA GreatestUpTo ==
  ASSUME NEW n \in Nat, NEW T, T \subseteq 1..n, T # {}
  PROVE  \E m \in T : \A i \in T : i <= m
<1> DEFINE D == {n - i : i \in T}
<1>1. D \subseteq Nat /\ D # {}
  <2>1. \A i \in T : n - i \in Nat
    OBVIOUS
  <2> QED  BY <2>1
<1>2. PICK d \in D : \A e \in D : d <= e
  BY <1>1, LeastNat
<1>3. PICK m \in T : d = n - m
  BY <1>2
<1>4. \A i \in T : n - m <= n - i
  BY <1>2, <1>3
<1> QED  BY <1>3, <1>4

\* Index is the first place of c, or 0.
LEMMA IndexFacts ==
  ASSUME NEW S, NEW s \in Seq(S), NEW c
  PROVE  /\ Index(s, c) \in 0..Len(s)
         /\ Index(s, c) = 0 => \A i \in 1..Len(s) : s[i] # c
         /\ Index(s, c) # 0 =>
              s[Index(s, c)] = c /\ \A i \in 1..Len(s) : s[i] = c => Index(s, c) <= i
<1> DEFINE I == {i \in 1..Len(s) : s[i] = c}
<1>1. Index(s, c) = IF I # {} THEN Min(I) ELSE 0
  BY DEF Index, SelectInSeq
<1>2. ASSUME I # {}
      PROVE  Min(I) \in I /\ \A i \in I : Min(I) <= i
  <2>1. I \subseteq Nat
    OBVIOUS
  <2>2. \E m \in I : \A i \in I : m <= i
    BY <1>2, <2>1, LeastNat
  <2> QED  BY <2>2 DEF Min
<1> QED  BY <1>1, <1>2

LEMMA LastIndexFacts ==
  ASSUME NEW S, NEW s \in Seq(S), NEW c
  PROVE  /\ LastIndex(s, c) \in 0..Len(s)
         /\ LastIndex(s, c) = 0 => \A i \in 1..Len(s) : s[i] # c
         /\ LastIndex(s, c) # 0 =>
              s[LastIndex(s, c)] = c /\ \A i \in 1..Len(s) : s[i] = c => i <= LastIndex(s, c)
<1> DEFINE I == {i \in 1..Len(s) : s[i] = c}
<1>1. LastIndex(s, c) = IF I # {} THEN Max(I) ELSE 0
  BY DEF LastIndex, SelectLastInSeq
<1>2. ASSUME I # {}
      PROVE  Max(I) \in I /\ \A i \in I : i <= Max(I)
  <2>1. Len(s) \in Nat /\ I \subseteq 1..Len(s)
    OBVIOUS
  <2>3. \E m \in I : \A i \in I : i <= m
    <3> HIDE DEF I
    <3> QED  BY <1>2, <2>1, GreatestUpTo
  <2>2. \E m \in I : \A i \in I : m >= i
    BY <2>1, <2>3
  <2> QED  BY <2>2 DEF Max
<1> QED  BY <1>1, <1>2

LEMMA BeforeFacts ==
  ASSUME NEW S, NEW s \in Seq(S), NEW i \in 1..(Len(s) + 1)
  PROVE  /\ Before(s, i) \in Seq(S) /\ Len(Before(s, i)) = i - 1
         /\ \A j \in 1..(i - 1) : Before(s, i)[j] = s[j]
BY SubSeqProperties DEF Before

LEMMA BeforeNone ==
  ASSUME NEW s PROVE Before(s, 0) = <<>>
BY SubSeqEmpty DEF Before

LEMMA AfterFacts ==
  ASSUME NEW S, NEW s \in Seq(S), NEW i \in 0..Len(s)
  PROVE  /\ After(s, i) \in Seq(S) /\ Len(After(s, i)) = Len(s) - i
         /\ \A j \in 1..(Len(s) - i) : After(s, i)[j] = s[i + j]
BY SubSeqProperties DEF After

\* Two texts joined by c.
LEMMA JoinedFacts ==
  ASSUME NEW S, NEW p \in Seq(S), NEW q \in Seq(S), NEW c \in S
  PROVE  LET s == p \o <<c>> \o q
         IN /\ s \in Seq(S) /\ Len(s) = Len(p) + 1 + Len(q)
            /\ s[Len(p) + 1] = c
            /\ \A i \in 1..Len(p) : s[i] = p[i]
            /\ \A i \in 1..Len(q) : s[Len(p) + 1 + i] = q[i]
            /\ Before(s, Len(p) + 1) = p /\ After(s, Len(p) + 1) = q
<1> DEFINE s == p \o <<c>> \o q
<1>1. /\ s \in Seq(S) /\ Len(s) = Len(p) + 1 + Len(q) /\ Len(p) \in Nat /\ Len(q) \in Nat
      /\ s[Len(p) + 1] = c
      /\ \A i \in 1..Len(p) : s[i] = p[i]
      /\ \A i \in 1..Len(q) : s[Len(p) + 1 + i] = q[i]
  OBVIOUS
<1> HIDE DEF s
<1>2. Before(s, Len(p) + 1) = p
  <2> DEFINE k == Len(p) + 1
             b == Before(s, k)
  <2>1. k \in 1..(Len(s) + 1) /\ k - 1 = Len(p)
    BY <1>1
  <2> HIDE DEF k
  <2>2. /\ b \in Seq(S) /\ Len(b) = k - 1
        /\ \A j \in 1..(k - 1) : b[j] = s[j]
    BY <1>1, <2>1, BeforeFacts
  <2> HIDE DEF b
  <2>3. b = p
    BY <1>1, <2>1, <2>2, SeqEqual
  <2> QED  BY <2>3 DEF b, k
<1>3. After(s, Len(p) + 1) = q
  <2> DEFINE k == Len(p) + 1
             b == After(s, k)
  <2>1. k \in 0..Len(s) /\ Len(s) - k = Len(q) /\ \A i \in 1..Len(q) : s[k + i] = q[i]
    BY <1>1
  <2> HIDE DEF k
  <2>2. /\ b \in Seq(S) /\ Len(b) = Len(s) - k
        /\ \A j \in 1..(Len(s) - k) : b[j] = s[k + j]
    BY <1>1, <2>1, AfterFacts
  <2> HIDE DEF b
  <2>3. b = q
    BY <2>1, <2>2, SeqEqual
  <2> QED  BY <2>3 DEF b, k
<1> QED  BY <1>1, <1>2, <1>3 DEF s

LEMMA CutAtLast ==
  ASSUME NEW S, NEW p \in Seq(S), NEW q \in Seq(S), NEW c \in S,
         \A i \in 1..Len(q) : q[i] # c
  PROVE  LET s == p \o <<c>> \o q
         IN /\ LastIndex(s, c) = Len(p) + 1
            /\ Before(s, LastIndex(s, c)) = p /\ After(s, LastIndex(s, c)) = q
<1> DEFINE s == p \o <<c>> \o q
           k == LastIndex(s, c)
<1>1. /\ s \in Seq(S) /\ Len(s) = Len(p) + 1 + Len(q) /\ Len(p) \in Nat /\ Len(q) \in Nat
      /\ s[Len(p) + 1] = c
      /\ \A i \in 1..Len(q) : s[Len(p) + 1 + i] = q[i]
      /\ Before(s, Len(p) + 1) = p /\ After(s, Len(p) + 1) = q
  BY JoinedFacts
<1> HIDE DEF s
<1>2. /\ k \in 0..Len(s)
      /\ k = 0 => \A i \in 1..Len(s) : s[i] # c
      /\ k # 0 => s[k] = c /\ \A i \in 1..Len(s) : s[i] = c => i <= k
  <2>1. s \in Seq(S)
    BY <1>1
  <2> QED  BY <2>1, LastIndexFacts
<1>3. Len(p) + 1 \in 1..Len(s) /\ k # 0 /\ k >= Len(p) + 1
  BY <1>1, <1>2
<1>4. ~(k > Len(p) + 1)
  <2> SUFFICES ASSUME k > Len(p) + 1 PROVE FALSE
    OBVIOUS
  <2>1. k - (Len(p) + 1) \in 1..Len(q) /\ k = Len(p) + 1 + (k - (Len(p) + 1))
    BY <1>1, <1>2, <1>3
  <2>2. s[k] = q[k - (Len(p) + 1)]
    BY <1>1, <2>1
  <2> QED  BY <1>2, <1>3, <2>1, <2>2
<1>5. k = Len(p) + 1
  BY <1>1, <1>2, <1>3, <1>4
<1> QED  BY <1>1, <1>5 DEF s

LEMMA CutAtFirst ==
  ASSUME NEW S, NEW p \in Seq(S), NEW q \in Seq(S), NEW c \in S,
         \A i \in 1..Len(p) : p[i] # c
  PROVE  LET s == p \o <<c>> \o q
         IN /\ Index(s, c) = Len(p) + 1
            /\ Before(s, Index(s, c)) = p /\ After(s, Index(s, c)) = q
<1> DEFINE s == p \o <<c>> \o q
           k == Index(s, c)
<1>1. /\ s \in Seq(S) /\ Len(s) = Len(p) + 1 + Len(q) /\ Len(p) \in Nat /\ Len(q) \in Nat
      /\ s[Len(p) + 1] = c
      /\ \A i \in 1..Len(p) : s[i] = p[i]
      /\ Before(s, Len(p) + 1) = p /\ After(s, Len(p) + 1) = q
  BY JoinedFacts
<1> HIDE DEF s
<1>2. /\ k \in 0..Len(s)
      /\ k = 0 => \A i \in 1..Len(s) : s[i] # c
      /\ k # 0 => s[k] = c /\ \A i \in 1..Len(s) : s[i] = c => k <= i
  BY <1>1, IndexFacts
<1>3. Len(p) + 1 \in 1..Len(s) /\ k # 0 /\ k <= Len(p) + 1
  BY <1>1, <1>2
<1>4. ~(k < Len(p) + 1)
  <2> SUFFICES ASSUME k < Len(p) + 1 PROVE FALSE
    OBVIOUS
  <2>1. k \in 1..Len(p) /\ s[k] = c
    BY <1>1, <1>2, <1>3
  <2> QED  BY <1>1, <2>1
<1>5. k = Len(p) + 1
  BY <1>1, <1>2, <1>3, <1>4
<1> QED  BY <1>1, <1>5 DEF s

(***************************************************************************)
(* Numbers.                                                                *)
(***************************************************************************)
\* The characters that texts are made of; the provers do not know that a literal
\* is in STRING.
Character == STRING \cup {"/", ":"} \cup ToSet(Digit)

LEMMA DigitFacts ==
  /\ Digit \in Seq(Character) /\ Len(Digit) = 10
  /\ \A i \in 1..10 : Digit[i] \in Character /\ IsDigit(Digit[i])
  /\ \A i, j \in 1..10 : Digit[i] = Digit[j] => i = j
  /\ \A x : IsDigit(x) <=> \E i \in 1..10 : x = Digit[i]
  /\ ~IsDigit(":") /\ ~IsDigit("/")
<1>1. /\ Digit[1] = "0" /\ Digit[2] = "1" /\ Digit[3] = "2" /\ Digit[4] = "3" /\ Digit[5] = "4"
      /\ Digit[6] = "5" /\ Digit[7] = "6" /\ Digit[8] = "7" /\ Digit[9] = "8" /\ Digit[10] = "9"
  BY DEF Digit
<1>2. Len(Digit) = 10 /\ DOMAIN Digit = 1..10 /\ Digit = [i \in 1..10 |-> Digit[i]]
  BY DEF Digit
<1> HIDE DEF Digit
<1>3. \A x : IsDigit(x) <=> \E i \in 1..10 : x = Digit[i]
  BY <1>2 DEF IsDigit, ToSet
<1>4. \A i \in 1..10 : Digit[i] \in Character /\ IsDigit(Digit[i])
  BY <1>3 DEF IsDigit, Character
<1>5. Digit \in Seq(Character)
  <2>1. Digit \in [1..10 -> Character]
    BY <1>2, <1>4
  <2> QED  BY <2>1, SeqDef
<1>6. \A i, j \in 1..10 : Digit[i] = Digit[j] => i = j
  BY <1>1
<1>7. ~IsDigit(":") /\ ~IsDigit("/")
  BY <1>1, <1>3
<1> QED  BY <1>2, <1>3, <1>4, <1>5, <1>6, <1>7

\* Reading a digit is the inverse of writing it.
LEMMA DigitIndex ==
  /\ \A i \in 1..10 : Index(Digit, Digit[i]) = i
  /\ \A x : Index(Digit, x) \in 0..10
<1>1. ASSUME NEW x
      PROVE  /\ Index(Digit, x) \in 0..10
             /\ Index(Digit, x) = 0 => \A i \in 1..10 : Digit[i] # x
             /\ Index(Digit, x) # 0 => Digit[Index(Digit, x)] = x
  BY DigitFacts, IndexFacts
<1>2. ASSUME NEW i \in 1..10
      PROVE  Index(Digit, Digit[i]) = i
  <2>1. Index(Digit, Digit[i]) # 0 /\ Index(Digit, Digit[i]) \in 1..10
    BY <1>1
  <2> QED  BY <1>1, <2>1, DigitFacts
<1> QED  BY <1>1, <1>2

LEMMA ValueUnfold ==
  ASSUME NEW S, NEW s \in Seq(S)
  PROVE  /\ Value(s) \in [0..Len(s) -> Int] /\ Value(s)[0] = 0
         /\ \A i \in 1..Len(s) :
              Value(s)[i] = 10 * Value(s)[i - 1] + Index(Digit, s[i]) - 1
<1> DEFINE n == Len(s)
           d == [i \in Nat |-> IF i \in 1..n THEN Index(Digit, s[i]) - 1 ELSE 0]
           step == [p \in Int \X Nat |-> 10 * p[1] + d[p[2]]]
           Def(g) == [i \in 0..n |-> IF i = 0 THEN 0
                                     ELSE 10 * g[i - 1] + Index(Digit, s[i]) - 1]
<1>1. n \in Nat /\ d \in [Nat -> Int]
  <2>1. \A i \in Nat : Index(Digit, s[i]) \in Int
    BY DigitIndex
  <2> QED  BY <2>1
<1>2. \A i \in 1..n : d[i] = Index(Digit, s[i]) - 1
  BY <1>1
<1>3. PICK g : IteratesUpTo(g, n, Int, 0, step)
  <2> HIDE DEF d, n
  <2>1. step \in [Int \X Nat -> Int]
    BY <1>1
  <2>2. IsStep(step, Int)
    BY <2>1 DEF IsStep
  <2> HIDE DEF step
  <2>3. n \in Nat /\ 0 \in Int
    BY <1>1
  <2> QED  BY <2>2, <2>3, IterateUpTo
<1>4. \A i \in 1..n : g[i] = 10 * g[i - 1] + Index(Digit, s[i]) - 1
  <2> TAKE i \in 1..n
  <2>1. i - 1 \in 0..n /\ i \in Nat /\ g \in [0..n -> Int]
    BY <1>1, <1>3 DEF IteratesUpTo
  <2>2. <<g[i - 1], i>> \in Int \X Nat
    BY <2>1
  <2>3. g[i] = 10 * g[i - 1] + d[i]
    <3> HIDE DEF d, n
    <3> QED  BY <1>3, <2>2 DEF IteratesUpTo
  <2>4. Index(Digit, s[i]) \in Int
    BY DigitIndex
  <2> HIDE DEF d
  <2> QED  BY <1>2, <2>1, <2>3, <2>4
<1>5. g = Def(g)
  <2>1. g = [i \in 0..n |-> g[i]]
    BY <1>3 DEF IteratesUpTo
  <2>2. ASSUME NEW i \in 0..n
        PROVE  g[i] = IF i = 0 THEN 0 ELSE 10 * g[i - 1] + Index(Digit, s[i]) - 1
    BY <1>1, <1>3, <1>4 DEF IteratesUpTo
  <2> QED  BY <2>1, <2>2
<1>6. Value(s) = Def(Value(s))
  BY <1>5, Zenon DEF Value
<1> DEFINE v == Value(s)
<1>7. ASSUME NEW i \in 0..n
      PROVE  v[i] = IF i = 0 THEN 0 ELSE 10 * v[i - 1] + Index(Digit, s[i]) - 1
  <2> HIDE DEF v, n
  <2>1. v = Def(v)
    BY <1>6 DEF v
  <2>2. Def(v)[i] = IF i = 0 THEN 0 ELSE 10 * v[i - 1] + Index(Digit, s[i]) - 1
    OBVIOUS
  <2> QED  BY <2>1, <2>2, Zenon
<1>8. \A i \in Nat : i <= n => v[i] \in Int
  <2> DEFINE T == {i \in Nat : i <= n => v[i] \in Int}
  <2> HIDE DEF v
  <2>1. 0 \in T
    BY <1>1, <1>7
  <2>2. ASSUME NEW i \in T \cap Nat
        PROVE  i + 1 \in T
    <3> SUFFICES ASSUME i + 1 <= n PROVE v[i + 1] \in Int
      OBVIOUS
    <3>1. i + 1 \in 0..n /\ i + 1 # 0 /\ (i + 1) - 1 = i /\ v[i] \in Int
      BY <1>1
    <3>2. v[i + 1] = 10 * v[i] + Index(Digit, s[i + 1]) - 1
      BY <1>7, <3>1
    <3>3. Index(Digit, s[i + 1]) \in Int
      BY DigitIndex
    <3> QED  BY <3>1, <3>2, <3>3
  <2> HIDE DEF T
  <2>3. \A i \in Nat : i \in T
    BY <2>1, <2>2, Induct
  <2> QED  BY <2>3 DEF T
<1>9. v = [i \in 0..n |-> v[i]]
  <2>1. Def(v) = [i \in 0..n |-> Def(v)[i]]
    OBVIOUS
  <2> HIDE DEF v, n
  <2> QED  BY <1>6, <2>1, Zenon DEF v
<1> HIDE DEF v
<1>10. v \in [0..n -> Int]
  BY <1>1, <1>8, <1>9
<1>11. v[0] = 0 /\ \A i \in 1..n : v[i] = 10 * v[i - 1] + Index(Digit, s[i]) - 1
  BY <1>1, <1>7
<1> QED  BY <1>10, <1>11 DEF v

LEMMA AtoiAppend ==
  ASSUME NEW S, NEW s \in Seq(S), NEW x \in S
  PROVE  Atoi(Append(s, x)) = 10 * Atoi(s) + Index(Digit, x) - 1
<1> DEFINE t == Append(s, x)
           n == Len(s)
           v == Value(s)
           w == Value(t)
           T == {i \in Nat : i <= n => w[i] = v[i]}
<1>1. /\ n \in Nat /\ t \in Seq(S) /\ Len(t) = n + 1 /\ t[n + 1] = x
      /\ \A i \in 1..n : t[i] = s[i]
  OBVIOUS
<1>2. /\ v[0] = 0
      /\ \A i \in 1..n : v[i] = 10 * v[i - 1] + Index(Digit, s[i]) - 1
  BY ValueUnfold
<1>3. /\ w[0] = 0
      /\ \A i \in 1..(n + 1) : w[i] = 10 * w[i - 1] + Index(Digit, t[i]) - 1
  <2> HIDE DEF t
  <2> QED  BY <1>1, ValueUnfold
<1> HIDE DEF t, n, v, w
<1>4. 0 \in T
  BY <1>2, <1>3
<1>5. ASSUME NEW i \in T \cap Nat
      PROVE  i + 1 \in T
  <2> SUFFICES ASSUME i + 1 <= n PROVE w[i + 1] = v[i + 1]
    OBVIOUS
  <2>1. i + 1 \in 1..n /\ i + 1 \in 1..(n + 1) /\ (i + 1) - 1 = i /\ w[i] = v[i]
    BY <1>1
  <2>2. v[i + 1] = 10 * v[i] + Index(Digit, s[i + 1]) - 1
    BY <1>2, <2>1
  <2>3. w[i + 1] = 10 * w[i] + Index(Digit, t[i + 1]) - 1
    BY <1>3, <2>1
  <2> QED  BY <1>1, <2>1, <2>2, <2>3
<1> HIDE DEF T
<1>6. n \in T
  BY <1>1, <1>4, <1>5, Induct
<1>7. w[n] = v[n]
  BY <1>1, <1>6 DEF T
<1>8. w[n + 1] = 10 * w[n] + Index(Digit, x) - 1
  <2>1. n + 1 \in 1..(n + 1) /\ (n + 1) - 1 = n
    BY <1>1
  <2> QED  BY <1>1, <1>3, <2>1
<1> QED  BY <1>1, <1>7, <1>8 DEF Atoi, v, w, n, t

LEMMA AtoiEmpty == Atoi(<<>>) = 0
<1>1. <<>> \in Seq(Character) /\ Len(<<>>) = 0
  OBVIOUS
<1> QED  BY <1>1, ValueUnfold DEF Atoi

(***************************************************************************)
(* Itoa: its recursion goes down, from n to n \div 10.                     *)
(***************************************************************************)
LEMMA Tenth ==
  ASSUME NEW n \in Nat
  PROVE  /\ n \div 10 \in Nat /\ n % 10 \in 0..9 /\ n = 10 * (n \div 10) + (n % 10)
         /\ n >= 10 => n \div 10 < n /\ n \div 10 > 0
OBVIOUS

NextItoa(h) ==
  [n \in Nat |-> IF n < 10 THEN <<Digit[n + 1]>>
                 ELSE Append(h[n \div 10], Digit[(n % 10) + 1])]

LEMMA NextItoaType ==
  ASSUME NEW h \in [Nat -> Seq(Character)]
  PROVE  NextItoa(h) \in [Nat -> Seq(Character)]
<1>1. ASSUME NEW n \in Nat
      PROVE  (IF n < 10 THEN <<Digit[n + 1]>>
              ELSE Append(h[n \div 10], Digit[(n % 10) + 1])) \in Seq(Character)
  <2>1. n \div 10 \in Nat /\ (n % 10) + 1 \in 1..10
    BY Tenth
  <2>2. \A i \in 1..10 : Digit[i] \in Character
    BY DigitFacts
  <2>3. CASE n < 10
    <3>1. n + 1 \in 1..10
      BY <2>3
    <3>2. Digit[n + 1] \in Character
      BY <2>2, <3>1
    <3> QED  BY <2>3, <3>2
  <2>4. CASE ~(n < 10)
    <3>1. Digit[(n % 10) + 1] \in Character /\ h[n \div 10] \in Seq(Character)
      BY <2>1, <2>2
    <3> QED  BY <2>4, <3>1
  <2> QED  BY <2>3, <2>4
<1> QED  BY <1>1 DEF NextItoa

\* There is a function that the recursion defines: the limit of the tables in
\* which it has been carried out i times.
LEMMA ItoaExists ==
  \E g \in [Nat -> Seq(Character)] : g = NextItoa(g)
<1> DEFINE V == [Nat -> Seq(Character)]
           v == [n \in Nat |-> <<>>]
           step == [p \in V \X Nat |-> NextItoa(p[1])]
<1>1. v \in V
  OBVIOUS
<1>2. IsStep(step, V)
  <2>1. \A p \in V \X Nat : NextItoa(p[1]) \in V
    BY NextItoaType
  <2> QED  BY <2>1 DEF IsStep
<1>3. PICK h : Iterates(h, V, v, step)
  <2> HIDE DEF V, v, step
  <2> QED  BY <1>1, <1>2, Iterate
<1>4. /\ h \in [Nat -> V]
      /\ \A i \in Nat \ {0} : h[i] = NextItoa(h[i - 1])
  <2>1. h \in [Nat -> V] /\ \A i \in Nat \ {0} : h[i] = step[<<h[i - 1], i>>]
    BY <1>3 DEF Iterates
  <2>2. ASSUME NEW i \in Nat \ {0}
        PROVE  h[i] = NextItoa(h[i - 1])
    <3> HIDE DEF V
    <3>1. i - 1 \in Nat /\ i \in Nat
      OBVIOUS
    <3>2. h[i - 1] \in V /\ <<h[i - 1], i>> \in V \X Nat
      BY <2>1, <3>1
    <3> QED  BY <2>1, <3>2
  <2> QED  BY <2>1, <2>2
<1> HIDE DEF V, v, step
\* The table does not change any more below i.
<1> DEFINE T == {i \in Nat : \A n, j \in Nat : n < i /\ i <= j => h[j][n] = h[i][n]}
<1>5. \A i \in Nat : i \in T
  <2>1. 0 \in T
    OBVIOUS
  <2>2. ASSUME NEW i \in T \cap Nat
        PROVE  i + 1 \in T
    <3> SUFFICES ASSUME NEW n \in Nat, NEW j \in Nat, n < i + 1, i + 1 <= j
                 PROVE  h[j][n] = h[i + 1][n]
      OBVIOUS
    <3>1. /\ j \in Nat \ {0} /\ i + 1 \in Nat \ {0} /\ (i + 1) - 1 = i /\ j - 1 \in Nat
          /\ i <= j - 1
      OBVIOUS
    <3>2. h[j] = NextItoa(h[j - 1]) /\ h[i + 1] = NextItoa(h[i])
      BY <1>4, <3>1
    <3>3. n >= 10 => n \div 10 \in Nat /\ n \div 10 < i
      BY Tenth
    <3>4. n >= 10 => h[j - 1][n \div 10] = h[i][n \div 10]
      BY <3>1, <3>3
    <3> QED  BY <3>2, <3>4 DEF NextItoa
  <2> HIDE DEF T
  <2> QED  BY <2>1, <2>2, Induct
<1> DEFINE g == [n \in Nat |-> h[n + 1][n]]
<1>6. g \in [Nat -> Seq(Character)]
  BY <1>4 DEF V
<1>7. g = NextItoa(g)
  <2>1. ASSUME NEW n \in Nat
        PROVE  g[n] = NextItoa(g)[n]
    <3>1. n + 1 \in Nat \ {0} /\ (n + 1) - 1 = n
      OBVIOUS
    <3>2. h[n + 1] = NextItoa(h[n])
      BY <1>4, <3>1
    <3>3. n >= 10 => /\ n \div 10 \in Nat /\ (n \div 10) + 1 \in Nat
                     /\ (n \div 10) + 1 <= n
      BY Tenth
    <3>4. n >= 10 => h[n][n \div 10] = h[(n \div 10) + 1][n \div 10]
      BY <1>5, <3>3
    <3>5. n >= 10 => g[n \div 10] = h[n][n \div 10]
      BY <3>3, <3>4
    <3>6. g[n] = NextItoa(h[n])[n]
      BY <3>2
    <3> HIDE DEF g
    <3> QED  BY <3>5, <3>6 DEF NextItoa
  <2>2. NextItoa(g) = [n \in Nat |-> NextItoa(g)[n]]
    BY DEF NextItoa
  <2>3. g = [n \in Nat |-> g[n]]
    OBVIOUS
  <2> HIDE DEF g
  <2> QED  BY <2>1, <2>2, <2>3
<1> HIDE DEF g
<1> QED  BY <1>6, <1>7

LEMMA ItoaUnfold == Itoa = NextItoa(Itoa)
BY ItoaExists, Zenon DEF Itoa, NextItoa

\* A number is printed with digits that are read as the number.
LEMMA AppendDigit ==
  ASSUME NEW z \in Seq(Character), \A j \in 1..Len(z) : IsDigit(z[j]),
         NEW d \in Character, IsDigit(d)
  PROVE  /\ Append(z, d) \in Seq(Character) /\ Append(z, d) # <<>>
         /\ \A j \in 1..Len(Append(z, d)) : IsDigit(Append(z, d)[j])
<1> DEFINE y == Append(z, d)
<1>1. /\ y \in Seq(Character) /\ Len(y) = Len(z) + 1 /\ Len(z) \in Nat
      /\ y[Len(z) + 1] = d /\ \A j \in 1..Len(z) : y[j] = z[j]
  OBVIOUS
<1> HIDE DEF y
<1>2. y # <<>>
  <2>1. Len(y) # 0
    BY <1>1
  <2> QED  BY <2>1
<1>3. ASSUME NEW j \in 1..Len(y) PROVE IsDigit(y[j])
  <2>1. j \in 1..Len(z) \/ j = Len(z) + 1
    BY <1>1
  <2> QED  BY <1>1, <2>1
<1>4. y \in Seq(Character) /\ y # <<>> /\ \A j \in 1..Len(y) : IsDigit(y[j])
  BY <1>1, <1>2, <1>3
<1> QED  BY <1>4 DEF y

LEMMA ItoaAtoi ==
  ASSUME NEW n \in Nat
  PROVE  /\ Itoa[n] \in Seq(Character) /\ Itoa[n] # <<>>
         /\ \A i \in 1..Len(Itoa[n]) : IsDigit(Itoa[n][i])
         /\ Atoi(Itoa[n]) = n
<1> DEFINE P(m) == /\ Itoa[m] \in Seq(Character) /\ Itoa[m] # <<>>
                   /\ \A j \in 1..Len(Itoa[m]) : IsDigit(Itoa[m][j])
                   /\ Atoi(Itoa[m]) = m
           T == {i \in Nat : \A m \in Nat : m < i => P(m)}
<1>1. 0 \in T
  OBVIOUS
<1>2. ASSUME NEW i \in T \cap Nat
      PROVE  i + 1 \in T
  <2> SUFFICES ASSUME NEW m \in Nat, m < i + 1 PROVE P(m)
    OBVIOUS
  <2>1. Itoa[m] = IF m < 10 THEN <<Digit[m + 1]>>
                  ELSE Append(Itoa[m \div 10], Digit[(m % 10) + 1])
    <3>1. Itoa[m] = NextItoa(Itoa)[m]
      BY ItoaUnfold
    <3> QED  BY <3>1 DEF NextItoa
  <2>2. CASE m < 10
    <3> DEFINE d == Digit[m + 1]
    <3>1. m + 1 \in 1..10
      BY <2>2
    <3>2. d \in Character /\ IsDigit(d) /\ Index(Digit, d) = m + 1
      BY <3>1, DigitFacts, DigitIndex
    <3>3. Itoa[m] = Append(<<>>, d) /\ Itoa[m] = <<d>>
      BY <2>1, <2>2
    <3> HIDE DEF d
    <3>4. Atoi(Append(<<>>, d)) = m
      <4>1. <<>> \in Seq(Character)
        OBVIOUS
      <4>2. Atoi(Append(<<>>, d)) = 10 * Atoi(<<>>) + Index(Digit, d) - 1
        BY <3>2, <4>1, AtoiAppend
      <4> QED  BY <3>2, <4>2, AtoiEmpty
    <3> QED  BY <3>2, <3>3, <3>4
  <2>3. CASE m >= 10
    <3> DEFINE q == m \div 10
               d == Digit[(m % 10) + 1]
    <3>1. q \in Nat /\ q < i /\ (m % 10) + 1 \in 1..10 /\ m = 10 * q + (m % 10) /\ m % 10 \in Nat
      BY <2>3, Tenth
    <3>2. d \in Character /\ IsDigit(d) /\ Index(Digit, d) = (m % 10) + 1
      BY <3>1, DigitFacts, DigitIndex
    <3>3. Itoa[m] = Append(Itoa[q], d)
      BY <2>1, <2>3
    <3>4. P(q)
      BY <3>1
    <3> HIDE DEF d, q
    <3>5. Atoi(Append(Itoa[q], d)) = m
      <4>1. Atoi(Append(Itoa[q], d)) = 10 * Atoi(Itoa[q]) + Index(Digit, d) - 1
        BY <3>2, <3>4, AtoiAppend
      <4> QED  BY <3>1, <3>2, <3>4, <4>1
    <3>6. /\ Append(Itoa[q], d) \in Seq(Character) /\ Append(Itoa[q], d) # <<>>
          /\ \A j \in 1..Len(Append(Itoa[q], d)) : IsDigit(Append(Itoa[q], d)[j])
      <4>1. Itoa[q] \in Seq(Character) /\ \A j \in 1..Len(Itoa[q]) : IsDigit(Itoa[q][j])
        BY <3>4
      <4> QED  BY <3>2, <4>1, AppendDigit
    <3> QED  BY <3>3, <3>5, <3>6
  <2> QED  BY <2>2, <2>3
<1> HIDE DEF T
<1>3. n + 1 \in T
  BY <1>1, <1>2, Induct
<1> QED  BY <1>3 DEF T

(***************************************************************************)
(* Slashes at the beginning, ports and addresses.                          *)
(***************************************************************************)
LEMMA TrimFacts ==
  ASSUME NEW S, NEW s \in Seq(S)
  PROVE  /\ TrimSlashes(s) \in Seq(S)
         /\ TrimSlashes(s) # <<>> => TrimSlashes(s)[1] # "/"
<1> DEFINE I == {i \in 1..Len(s) : s[i] # "/"}
<1>1. TrimSlashes(s) = IF (IF I # {} THEN Min(I) ELSE 0) = 0 THEN <<>>
                       ELSE After(s, (IF I # {} THEN Min(I) ELSE 0) - 1)
  BY DEF TrimSlashes, SelectInSeq
<1>2. CASE I = {}
  BY <1>1, <1>2
<1>3. CASE I # {}
  <2>1. I \subseteq Nat
    OBVIOUS
  <2>2. \E m \in I : \A i \in I : m <= i
    BY <1>3, <2>1, LeastNat
  <2>3. Min(I) \in I
    BY <2>2 DEF Min
  <2> DEFINE m == Min(I)
  <2> HIDE DEF m
  <2>4. m \in 1..Len(s) /\ s[m] # "/"
    BY <2>3 DEF m
  <2>5. TrimSlashes(s) = After(s, m - 1)
    BY <1>1, <1>3, <2>4 DEF m
  <2>6. m - 1 \in 0..Len(s) /\ 1 \in 1..(Len(s) - (m - 1)) /\ (m - 1) + 1 = m
    BY <2>4
  <2>7. After(s, m - 1) \in Seq(S) /\ After(s, m - 1)[1] = s[(m - 1) + 1]
    BY <2>6, AfterFacts
  <2> QED  BY <2>4, <2>5, <2>6, <2>7
<1> QED  BY <1>2, <1>3

LEMMA TrimOne ==
  ASSUME NEW S, NEW s \in Seq(S), s # <<>>, s[1] # "/", "/" \in S
  PROVE  TrimSlashes(<<"/">> \o s) = s
<1> DEFINE u == <<"/">> \o s
           I == {i \in 1..Len(u) : u[i] # "/"}
<1>1. /\ u \in Seq(S) /\ Len(u) = Len(s) + 1 /\ Len(s) \in Nat \ {0}
      /\ u[1] = "/" /\ \A i \in 1..Len(s) : u[1 + i] = s[i]
  OBVIOUS
<1> HIDE DEF u
<1>2. TrimSlashes(u) = IF (IF I # {} THEN Min(I) ELSE 0) = 0 THEN <<>>
                       ELSE After(u, (IF I # {} THEN Min(I) ELSE 0) - 1)
  BY DEF TrimSlashes, SelectInSeq
<1>3. u[2] # "/"
  <2>1. 1 \in 1..Len(s) /\ 1 + 1 = 2
    BY <1>1
  <2>2. u[1 + 1] = s[1]
    BY <1>1, <2>1
  <2> QED  BY <2>1, <2>2
<1>4. 2 \in I /\ \A i \in I : 2 <= i
  BY <1>1, <1>3
<1>5. Min(I) = 2
  <2>1. \A m \in I : (\A i \in I : m <= i) => m = 2
    BY <1>4
  <2> HIDE DEF I
  <2> QED  BY <1>4, <2>1 DEF Min
<1>6. TrimSlashes(u) = After(u, 1)
  <2>1. I # {}
    BY <1>4
  <2> HIDE DEF I
  <2> QED  BY <1>2, <1>5, <2>1
<1>7. After(u, 1) = s
  <2> DEFINE a == After(u, 1)
  <2>1. 1 \in 0..Len(u) /\ Len(u) - 1 = Len(s)
    BY <1>1
  <2>2. a \in Seq(S) /\ Len(a) = Len(u) - 1 /\ \A j \in 1..(Len(u) - 1) : a[j] = u[1 + j]
    BY <1>1, <2>1, AfterFacts
  <2> HIDE DEF a
  <2>3. a = s
    BY <1>1, <2>1, <2>2, SeqEqual
  <2> QED  BY <2>3 DEF a
<1> QED  BY <1>6, <1>7 DEF u

LEMMA Characters ==
  /\ "/" \in Character /\ ":" \in Character
  /\ \A s \in Seq(STRING) : s \in Seq(Character)
<1>1. STRING \subseteq Character
  BY DEF Character
<1>2. ASSUME NEW s \in Seq(STRING) PROVE s \in Seq(Character)
  BY <1>1, SeqMonotonic
<1> QED  BY <1>2 DEF Character

\* What a port that could be parsed is, and what is printed for it.
LEMMA PortFacts ==
  ASSUME NEW q \in Seq(Character), \A i \in 1..Len(q) : q[i] # ":",
         ~IsError(ParsePort(q))
  PROVE  LET p == ParsePort(q)
             w == PortString(p)
         IN /\ \/ p.number \in 1..MaxPort /\ p.name = <<>>
               \/ p.number = 0 /\ p.name # <<>>
            /\ w \in Seq(Character) /\ \A i \in 1..Len(w) : w[i] # ":"
            /\ ParsePort(w) = p
<1> DEFINE p == ParsePort(q)
           Numeric(s) == \A i \in DOMAIN s : IsDigit(s[i])
<1>1. \A s : ParsePort(s) = CASE s = <<>> -> Error("ErrTargetInvalid")
                [] Numeric(s) /\ Atoi(s) \notin 1..MaxPort -> Error("ErrTargetInvalid")
                [] OTHER -> IF Numeric(s) THEN [number |-> Atoi(s), name |-> <<>>]
                            ELSE [number |-> 0, name |-> s]
  BY DEF ParsePort
<1>2. IsError(Error("ErrTargetInvalid"))
  BY DEF IsError, Error
<1> HIDE DEF Numeric
<1>3. \A s : /\ s # <<>> /\ Numeric(s) /\ Atoi(s) \in 1..MaxPort
                => ParsePort(s) = [number |-> Atoi(s), name |-> <<>>]
             /\ s # <<>> /\ ~Numeric(s) => ParsePort(s) = [number |-> 0, name |-> s]
             /\ s = <<>> \/ (Numeric(s) /\ Atoi(s) \notin 1..MaxPort)
                => ParsePort(s) = Error("ErrTargetInvalid")
  BY <1>1
<1>4. q # <<>> /\ (Numeric(q) => Atoi(q) \in 1..MaxPort)
  BY <1>2, <1>3
<1>5. CASE Numeric(q)
  <2> DEFINE n == Atoi(q)
             w == Itoa[n]
  <2>1. n \in 1..MaxPort /\ n \in Nat /\ n # 0
    BY <1>4, <1>5, TargetAssumption
  <2>2. p = [number |-> n, name |-> <<>>]
    BY <1>3, <1>4, <1>5
  <2> HIDE DEF n
  <2>3. PortString(p) = w
    BY <2>1, <2>2 DEF PortString
  <2>4. /\ w \in Seq(Character) /\ w # <<>>
        /\ \A i \in 1..Len(w) : IsDigit(w[i])
        /\ Atoi(w) = n
    BY <2>1, ItoaAtoi
  <2> HIDE DEF w
  <2>5. Numeric(w) /\ \A i \in 1..Len(w) : w[i] # ":"
    <3>1. DOMAIN w = 1..Len(w)
      BY <2>4
    <3>2. \A i \in 1..Len(w) : w[i] # ":"
      BY <2>4, DigitFacts
    <3> QED  BY <2>4, <3>1, <3>2 DEF Numeric
  <2>6. ParsePort(w) = p
    BY <1>3, <2>1, <2>2, <2>4, <2>5
  <2> QED  BY <2>1, <2>2, <2>3, <2>4, <2>5, <2>6
<1>6. CASE ~Numeric(q)
  <2>1. p = [number |-> 0, name |-> q]
    BY <1>3, <1>4, <1>6
  <2>2. PortString(p) = q
    BY <2>1 DEF PortString
  <2> QED  BY <1>4, <2>1, <2>2
<1> QED  BY <1>5, <1>6

\* The balancer reads the address the adapter prints, if the port is one.
LEMMA AddressRead ==
  ASSUME NEW h \in Seq(Character), NEW n \in Nat
  PROVE  ParseAddr(FormatAddr(h, n)) = IF n \in 1..MaxPort THEN {<<h, n>>} ELSE {}
<1> DEFINE w == Itoa[n]
           s == FormatAddr(h, n)
<1>1. /\ w \in Seq(Character) /\ w # <<>>
      /\ \A i \in 1..Len(w) : IsDigit(w[i])
      /\ Atoi(w) = n
  BY ItoaAtoi
<1>2. \A i \in 1..Len(w) : w[i] # ":"
  BY <1>1, DigitFacts
<1>3. s = h \o <<":">> \o w
  BY DEF FormatAddr
<1> HIDE DEF s, w
<1>4. /\ LastIndex(s, ":") = Len(h) + 1 /\ Len(h) \in Nat
      /\ Before(s, LastIndex(s, ":")) = h /\ After(s, LastIndex(s, ":")) = w
  <2>1. ":" \in Character /\ Len(h) \in Nat
    BY Characters
  <2>2. /\ LastIndex(h \o <<":">> \o w, ":") = Len(h) + 1
        /\ Before(h \o <<":">> \o w, LastIndex(h \o <<":">> \o w, ":")) = h
        /\ After(h \o <<":">> \o w, LastIndex(h \o <<":">> \o w, ":")) = w
    BY <1>1, <1>2, <2>1, CutAtLast
  <2> QED  BY <1>3, <2>1, <2>2
<1>5. SelectInSeq(w, LAMBDA x : ~IsDigit(x)) = 0
  <2>1. {i \in 1..Len(w) : ~IsDigit(w[i])} = {}
    BY <1>1
  <2> QED  BY <2>1 DEF SelectInSeq
<1>6. LastIndex(s, ":") # 0
  BY <1>4
<1> QED  BY <1>1, <1>4, <1>5, <1>6 DEF ParseAddr, s

(***************************************************************************)
(* Targets: what the parser returns, and what it makes of what is printed. *)
(***************************************************************************)
NoColon(q) == \A i \in 1..Len(q) : q[i] # ":"
NoSlash(q) == \A i \in 1..Len(q) : q[i] # "/"

\* A text before and after its last colon.
LEMMA ColonCut ==
  ASSUME NEW s \in Seq(Character), LastIndex(s, ":") # 0
  PROVE  LET k == LastIndex(s, ":")
         IN /\ k \in 1..Len(s)
            /\ Before(s, k) \in Seq(Character) /\ Len(Before(s, k)) = k - 1
            /\ \A j \in 1..(k - 1) : Before(s, k)[j] = s[j]
            /\ After(s, k) \in Seq(Character) /\ NoColon(After(s, k))
<1> DEFINE k == LastIndex(s, ":")
<1>1. /\ k \in 1..Len(s) /\ Len(s) \in Nat
      /\ \A i \in 1..Len(s) : s[i] = ":" => i <= k
  BY LastIndexFacts
<1> HIDE DEF k
<1>2. /\ Before(s, k) \in Seq(Character) /\ Len(Before(s, k)) = k - 1
      /\ \A j \in 1..(k - 1) : Before(s, k)[j] = s[j]
  <2>1. k \in 1..(Len(s) + 1)
    BY <1>1
  <2> QED  BY <2>1, BeforeFacts
<1>3. /\ After(s, k) \in Seq(Character) /\ Len(After(s, k)) = Len(s) - k
      /\ \A j \in 1..(Len(s) - k) : After(s, k)[j] = s[k + j]
  <2>1. k \in 0..Len(s)
    BY <1>1
  <2> QED  BY <2>1, AfterFacts
<1>4. NoColon(After(s, k))
  <2>1. ASSUME NEW i \in 1..(Len(s) - k) PROVE s[k + i] # ":"
    BY <1>1
  <2> QED  BY <1>3, <2>1 DEF NoColon
<1> QED  BY <1>1, <1>2, <1>3, <1>4 DEF k

LEMMA DnsParts ==
  ASSUME NEW path \in Seq(Character), ~IsError(SplitDNSPath(path))
  PROVE  LET parts == SplitDNSPath(path)
         IN /\ parts.service \in Seq(Character) /\ parts.service # <<>>
            /\ parts.service[1] # "/"
            /\ parts.port \in Seq(Character) /\ NoColon(parts.port)
<1> DEFINE s == TrimSlashes(path)
           k == LastIndex(s, ":")
<1>1. s \in Seq(Character) /\ (s # <<>> => s[1] # "/")
  BY TrimFacts
<1>2. k \in 0..Len(s) /\ Len(s) \in Nat
  BY <1>1, LastIndexFacts
<1>3. SplitDNSPath(path) = IF k <= 1 THEN Error("ErrTargetInvalid")
                           ELSE [service |-> Before(s, k), port |-> After(s, k)]
  BY DEF SplitDNSPath
<1>4. ~(k <= 1)
  BY <1>3 DEF IsError, Error
<1> HIDE DEF s
<1>5. /\ k \in 1..Len(s)
      /\ Before(s, k) \in Seq(Character) /\ Len(Before(s, k)) = k - 1
      /\ \A j \in 1..(k - 1) : Before(s, k)[j] = s[j]
      /\ After(s, k) \in Seq(Character) /\ NoColon(After(s, k))
  <2>1. k # 0
    BY <1>2, <1>4
  <2> QED  BY <1>1, <2>1, ColonCut
<1> HIDE DEF k
<1>6. Before(s, k) # <<>> /\ Before(s, k)[1] = s[1] /\ s # <<>>
  <2>1. 1 \in 1..(k - 1) /\ Len(Before(s, k)) # 0
    BY <1>2, <1>4, <1>5
  <2> QED  BY <1>2, <1>4, <1>5, <2>1
<1> QED  BY <1>1, <1>3, <1>4, <1>5, <1>6

LEMMA DnsPrinted ==
  ASSUME NEW v \in Seq(Character), v # <<>>, v[1] # "/",
         NEW w \in Seq(Character), NoColon(w)
  PROVE  SplitDNSPath(<<"/">> \o <<>> \o v \o <<":">> \o w) = [service |-> v, port |-> w]
<1> DEFINE s == v \o <<":">> \o w
<1>1. "/" \in Character /\ ":" \in Character /\ Len(v) \in Nat \ {0}
  BY Characters
<1>2. <<"/">> \o <<>> \o v \o <<":">> \o w = <<"/">> \o s
  BY <1>1
<1>3. s \in Seq(Character) /\ s # <<>> /\ s[1] = v[1]
  BY <1>1
<1>4. /\ LastIndex(s, ":") = Len(v) + 1
      /\ Before(s, LastIndex(s, ":")) = v /\ After(s, LastIndex(s, ":")) = w
  BY <1>1, CutAtLast DEF NoColon
<1> HIDE DEF s
<1>5. TrimSlashes(<<"/">> \o s) = s
  BY <1>1, <1>3, TrimOne
<1>6. ~(LastIndex(s, ":") <= 1)
  BY <1>1, <1>4
<1> QED  BY <1>2, <1>4, <1>5, <1>6 DEF SplitDNSPath

LEMMA K8sParts ==
  ASSUME NEW path \in Seq(Character), ~IsError(SplitK8sPath(path))
  PROVE  LET parts == SplitK8sPath(path)
         IN /\ parts.namespace \in Seq(Character) /\ NoSlash(parts.namespace)
            /\ parts.service \in Seq(Character) /\ parts.service # <<>>
            /\ parts.port \in Seq(Character) /\ NoColon(parts.port)
<1> DEFINE s == TrimSlashes(path)
           k == LastIndex(s, ":")
           name == Before(s, k)
           l == Index(name, "/")
<1>1. s \in Seq(Character)
  BY TrimFacts
<1>2. SplitK8sPath(path) = IF k = 0 \/ l = Len(name) THEN Error("ErrTargetInvalid")
                           ELSE [namespace |-> Before(name, l), service |-> After(name, l),
                                 port |-> After(s, k)]
  BY DEF SplitK8sPath
<1>3. k # 0 /\ l # Len(name)
  BY <1>2 DEF IsError, Error
<1> HIDE DEF s
<1>4. name \in Seq(Character) /\ After(s, k) \in Seq(Character) /\ NoColon(After(s, k))
  BY <1>1, <1>3, ColonCut
<1> HIDE DEF name
<1>5. /\ l \in 0..Len(name) /\ Len(name) \in Nat
      /\ l # 0 => \A i \in 1..Len(name) : name[i] = "/" => l <= i
  BY <1>4, IndexFacts
<1> HIDE DEF l
<1>6. Before(name, l) \in Seq(Character) /\ NoSlash(Before(name, l))
  <2>1. CASE l = 0
    <3>1. Before(name, l) = <<>>
      BY <2>1, BeforeNone
    <3> QED  BY <3>1 DEF NoSlash
  <2>2. CASE l # 0
    <3>1. l \in 1..(Len(name) + 1)
      BY <1>5, <2>2
    <3>2. /\ Before(name, l) \in Seq(Character) /\ Len(Before(name, l)) = l - 1
          /\ \A j \in 1..(l - 1) : Before(name, l)[j] = name[j]
      BY <1>4, <3>1, BeforeFacts
    <3>3. \A j \in 1..(l - 1) : name[j] # "/"
      BY <1>5, <2>2
    <3> QED  BY <3>2, <3>3 DEF NoSlash
  <2> QED  BY <2>1, <2>2
<1>7. After(name, l) \in Seq(Character) /\ After(name, l) # <<>>
  <2>1. After(name, l) \in Seq(Character) /\ Len(After(name, l)) = Len(name) - l
    BY <1>4, <1>5, AfterFacts
  <2> QED  BY <1>3, <1>5, <2>1
<1> QED  BY <1>2, <1>3, <1>4, <1>6, <1>7

LEMMA K8sPrinted ==
  ASSUME NEW n \in Seq(Character), n # <<>>, NoSlash(n),
         NEW v \in Seq(Character), v # <<>>,
         NEW w \in Seq(Character), NoColon(w)
  PROVE  SplitK8sPath(<<"/">> \o (n \o <<"/">>) \o v \o <<":">> \o w)
           = [namespace |-> n, service |-> v, port |-> w]
<1> DEFINE name == n \o <<"/">> \o v
           s == name \o <<":">> \o w
<1>1. /\ "/" \in Character /\ ":" \in Character
      /\ Len(n) \in Nat \ {0} /\ Len(v) \in Nat \ {0}
  BY Characters
<1>2. name \in Seq(Character) /\ Len(name) = Len(n) + 1 + Len(v) /\ name[1] = n[1]
  BY <1>1
<1>3. /\ Index(name, "/") = Len(n) + 1
      /\ Before(name, Index(name, "/")) = n /\ After(name, Index(name, "/")) = v
  BY <1>1, CutAtFirst DEF NoSlash
<1>4. <<"/">> \o (n \o <<"/">>) \o v \o <<":">> \o w = <<"/">> \o s
  <2> DEFINE x == <<"/">> \o (n \o <<"/">>) \o v \o <<":">> \o w
             y == <<"/">> \o s
             t == <<"/">> \o n \o <<"/">> \o v \o <<":">> \o w
  <2>1. x = t
    BY <1>1
  <2>2. y = t
    BY <1>1
  <2> QED  BY <2>1, <2>2
<1> HIDE DEF name
<1>5. s \in Seq(Character) /\ s # <<>> /\ s[1] = n[1]
  BY <1>1, <1>2
<1>6. /\ LastIndex(s, ":") = Len(name) + 1
      /\ Before(s, LastIndex(s, ":")) = name /\ After(s, LastIndex(s, ":")) = w
  <2>1. \A i \in 1..Len(w) : w[i] # ":"
    BY DEF NoColon
  <2>2. name \in Seq(Character) /\ ":" \in Character
    BY <1>1, <1>2
  <2> QED  BY <2>1, <2>2, CutAtLast
<1> HIDE DEF s
<1>7. n[1] # "/"
  BY <1>1 DEF NoSlash
<1>8. TrimSlashes(<<"/">> \o s) = s
  BY <1>1, <1>5, <1>7, TrimOne
<1>9. LastIndex(s, ":") # 0 /\ Index(name, "/") # Len(name)
  BY <1>1, <1>2, <1>3, <1>6
<1> QED  BY <1>3, <1>4, <1>6, <1>8, <1>9 DEF SplitK8sPath

\* A target that could be parsed has parts that may be printed and parsed again.
LEMMA Parsed ==
  ASSUME NEW text \in Text, NEW default \in Seq(Character), NoSlash(default),
         ~IsError(ParseTarget(text, default))
  PROVE  LET t == ParseTarget(text, default)
         IN /\ t = [scheme |-> t.scheme, namespace |-> t.namespace,
                    service |-> t.service, port |-> t.port]
            /\ t.service \in Seq(Character) /\ t.service # <<>>
            /\ \E q \in Seq(Character) :
                 NoColon(q) /\ ~IsError(ParsePort(q)) /\ t.port = ParsePort(q)
            /\ \/ t.scheme = "dns" /\ t.namespace = <<>> /\ t.service[1] # "/"
               \/ /\ t.scheme = "k8s" /\ t.namespace \in Seq(Character)
                  /\ t.namespace # <<>> /\ NoSlash(t.namespace)
            /\ text.scheme = t.scheme
<1> DEFINE t == ParseTarget(text, default)
<1>1. text.rest \in Seq(Character)
  BY Characters, TargetAssumption
<1>2. \A e \in {"ErrTargetInvalid", "ErrMissingNamespace", "ErrUnsupportedScheme"} :
        IsError(Error(e))
  BY DEF IsError, Error
<1>3. CASE text.scheme = "dns"
  <2> DEFINE parts == SplitDNSPath(text.rest)
             port == ParsePort(parts.port)
  <2>1. t = ParseDns(text.rest)
    BY <1>2, <1>3 DEF ParseTarget
  <2>2. /\ ~IsError(parts) /\ ~IsError(port)
        /\ t = [scheme |-> "dns", namespace |-> <<>>, service |-> parts.service, port |-> port]
    BY <2>1 DEF ParseDns
  <2>3. /\ parts.service \in Seq(Character) /\ parts.service # <<>>
        /\ parts.service[1] # "/"
        /\ parts.port \in Seq(Character) /\ NoColon(parts.port)
    BY <1>1, <2>2, DnsParts
  <2> HIDE DEF parts, t
  <2> QED  BY <1>3, <2>2, <2>3 DEF t
<1>4. CASE text.scheme = "k8s"
  <2> DEFINE parts == SplitK8sPath(text.rest)
             namespace == IF parts.namespace = <<>> THEN default ELSE parts.namespace
             port == ParsePort(parts.port)
  <2>1. t = ParseK8s(text.rest, default)
    BY <1>2, <1>4 DEF ParseTarget
  <2>2. /\ ~IsError(parts) /\ ~IsError(port) /\ namespace # <<>>
        /\ t = [scheme |-> "k8s", namespace |-> namespace, service |-> parts.service, port |-> port]
    BY <1>2, <2>1 DEF ParseK8s
  <2>3. /\ parts.namespace \in Seq(Character) /\ NoSlash(parts.namespace)
        /\ parts.service \in Seq(Character) /\ parts.service # <<>>
        /\ parts.port \in Seq(Character) /\ NoColon(parts.port)
    BY <1>1, <2>2, K8sParts
  <2>4. namespace \in Seq(Character) /\ NoSlash(namespace)
    BY <2>3
  <2> HIDE DEF parts, namespace, t
  <2> QED  BY <1>4, <2>2, <2>3, <2>4 DEF t
<1>5. CASE text.scheme \notin {"dns", "k8s"}
  BY <1>2, <1>5 DEF ParseTarget
<1> QED  BY <1>3, <1>4, <1>5

\* Every target, with any slashes, colons, leading zeros and ports, is the same
\* after it was printed and parsed again (R2.5).
THEOREM Printed == PrintParses
<1> SUFFICES ASSUME NEW text \in Text, NEW default \in Namespace,
                    ~IsError(ParseTarget(text, default))
             PROVE  ParseTarget(TargetString(ParseTarget(text, default)),
                                ParseTarget(text, default).namespace)
                      = ParseTarget(text, default)
  BY DEF PrintParses
<1> DEFINE t == ParseTarget(text, default)
           w == PortString(t.port)
<1>1. default \in Seq(Character) /\ NoSlash(default)
  <2>1. default \in Seq(STRING) /\ \A i \in DOMAIN default : default[i] # "/"
    BY TargetAssumption
  <2>2. DOMAIN default = 1..Len(default)
    BY <2>1
  <2> QED  BY <2>1, <2>2, Characters DEF NoSlash
<1>2. /\ t = [scheme |-> t.scheme, namespace |-> t.namespace,
              service |-> t.service, port |-> t.port]
      /\ t.service \in Seq(Character) /\ t.service # <<>>
      /\ \/ t.scheme = "dns" /\ t.namespace = <<>> /\ t.service[1] # "/"
         \/ /\ t.scheme = "k8s" /\ t.namespace \in Seq(Character)
            /\ t.namespace # <<>> /\ NoSlash(t.namespace)
      /\ text.scheme = t.scheme
  BY <1>1, Parsed
<1>3. PICK q \in Seq(Character) :
        NoColon(q) /\ ~IsError(ParsePort(q)) /\ t.port = ParsePort(q)
  BY <1>1, Parsed
<1>4. w \in Seq(Character) /\ NoColon(w) /\ ParsePort(w) = t.port
  BY <1>3, PortFacts DEF NoColon
<1>5. ~IsError(t.port)
  BY <1>3
<1> HIDE DEF t, w
<1>6. CASE t.scheme = "dns"
  <2> DEFINE path == <<"/">> \o <<>> \o t.service \o <<":">> \o w
  <2>1. TargetString(t) = [scheme |-> "dns", rest |-> path]
    BY <1>2, <1>6 DEF TargetString, w
  <2>2. SplitDNSPath(path) = [service |-> t.service, port |-> w]
    BY <1>2, <1>4, <1>6, DnsPrinted
  <2>3. ~IsError(SplitDNSPath(path))
    BY <2>2 DEF IsError
  <2> HIDE DEF path
  <2>4. ParseDns(path) = [scheme |-> "dns", namespace |-> <<>>, service |-> t.service,
                          port |-> t.port]
    BY <1>4, <1>5, <2>2, <2>3 DEF ParseDns
  <2>5. ParseTarget(TargetString(t), t.namespace) = ParseDns(path)
    BY <2>1 DEF ParseTarget
  <2> QED  BY <1>2, <1>6, <2>4, <2>5 DEF t
<1>7. CASE t.scheme = "k8s"
  <2> DEFINE path == <<"/">> \o (t.namespace \o <<"/">>) \o t.service \o <<":">> \o w
  <2>1. TargetString(t) = [scheme |-> "k8s", rest |-> path]
    BY <1>2, <1>7 DEF TargetString, w
  <2>2. SplitK8sPath(path) = [namespace |-> t.namespace, service |-> t.service, port |-> w]
    BY <1>2, <1>4, <1>7, K8sPrinted
  <2>3. ~IsError(SplitK8sPath(path))
    BY <2>2 DEF IsError
  <2> HIDE DEF path
  <2>4. ParseK8s(path, t.namespace)
          = [scheme |-> "k8s", namespace |-> t.namespace, service |-> t.service,
             port |-> t.port]
    BY <1>2, <1>4, <1>5, <1>7, <2>2, <2>3 DEF ParseK8s
  <2>5. ParseTarget(TargetString(t), t.namespace) = ParseK8s(path, t.namespace)
    BY <2>1 DEF ParseTarget
  <2> QED  BY <1>2, <1>7, <2>4, <2>5 DEF t
<1> QED  BY <1>2, <1>6, <1>7 DEF t

\* Every address of a numeric port that ParsePort accepts is read by the balancer
\* as it was written, whatever colons the host has.
THEOREM PortsReach == PortsAgree
<1> SUFFICES ASSUME NEW text \in Text, text.scheme = "dns",
                    ~IsError(ParseTarget(text, <<>>)), NEW h \in Host
             PROVE  LET t == ParseTarget(text, <<>>)
                    IN EndpointsOf(t, {h})
                         = IF t.port.name = <<>> THEN {<<h, t.port.number>>} ELSE {}
  BY DEF PortsAgree
<1> DEFINE t == ParseTarget(text, <<>>)
           n == t.port.number
<1>1. <<>> \in Seq(Character) /\ NoSlash(<<>>)
  BY DEF NoSlash
<1>2. PICK q \in Seq(Character) :
        NoColon(q) /\ ~IsError(ParsePort(q)) /\ t.port = ParsePort(q)
  BY <1>1, Parsed
<1>3. \/ n \in 1..MaxPort /\ t.port.name = <<>>
      \/ n = 0 /\ t.port.name # <<>>
  BY <1>2, PortFacts DEF NoColon
<1> HIDE DEF t
<1>4. n \in Nat
  BY <1>3, TargetAssumption
<1>5. h \in Seq(Character)
  BY Characters, TargetAssumption
<1>6. EndpointsOf(t, {h}) = ParseAddr(FormatAddr(h, n))
  BY DEF EndpointsOf
<1> HIDE DEF n
<1>7. EndpointsOf(t, {h}) = IF n \in 1..MaxPort THEN {<<h, n>>} ELSE {}
  BY <1>4, <1>5, <1>6, AddressRead
<1>8. 0 \notin 1..MaxPort
  BY TargetAssumption
<1> QED  BY <1>3, <1>7, <1>8 DEF t, n

\* In the states the runs look at, as everywhere, targets survive being printed.
THEOREM TargetsRoundTrip == Spec => []RoundTrip
<1>1. RoundTrip
  BY Printed DEF RoundTrip
<1> QED  BY <1>1, PTL

\* And endpoints get to the balancer with their addresses and ports.
THEOREM PortsGetThrough == Spec => []PortReachesBalancer
<1>1. PortReachesBalancer
  BY PortsReach DEF PortReachesBalancer
<1> QED  BY <1>1, PTL

(***************************************************************************)
(* The invariant.                                                          *)
(***************************************************************************)
\* A client that has been configured was validated with the factory that the
\* registry still has, and only such a client has calls and a channel in use.
MadeInv ==
  /\ \A c \in Client : made[c] # "no" =>
       validated[c] = registry[Config[c].policy] /\ validated[c] # None
  /\ \A k \in Call : call[k].at # "idle" => made[Owner[k]] = "made"
  /\ \A c \in Client : conn[c] \in {"active", "idling"} => made[c] = "made"

\* The balancer has its client's configuration from its first update on, and a
\* picker of its policy from then on too, if it has any.
Configured(c) ==
  /\ balancer[c] = None => serving[c] = None
  /\ serving[c] # None => balancer[c].cfg = Attribute(c)
  /\ balancer[c] # None => made[c] # "no" /\ balancer[c].factory \in {None, validated[c]}

ConfigInv == \A c \in Client : Configured(c)

\* What a Close has done when it is at each of its steps.
CloseInv ==
  /\ \A x \in Closer :
       /\ closer[x] \in {"marked", "closing"} => closed[Owner[x]]
       /\ closer[x] = "closing" => conn[Owner[x]] = "closed"
       /\ closer[x] = "returned" => once[Owner[x]] = "finished"
  /\ \A c \in Client : once[c] = "finished" =>
       closed[c] /\ conn[c] = "closed" /\ loop[c].at \in {"none", "done"}

\* A late call finds the client closed.
LateInv ==
  \A k \in Call : call[k].late =>
    /\ closed[Owner[k]] /\ call[k].at \notin {"checked", "sent"}
    /\ call[k].at = "ended" => call[k].result = "ErrClientClosed"

Inv == TypeOK /\ MadeInv /\ ConfigInv /\ CloseInv /\ LateInv

LEMMA InitInv == Init => Inv
<1> SUFFICES ASSUME Init
             PROVE  Inv
  OBVIOUS
<1> USE DnsAssumption, ClientAssumption DEF Init, DnsInit
<1>1. TypeOK
  <2>1. DnsTypeOK
    BY DEF DnsTypeOK, NoLoop, LoopState, Found
  <2>2. registry \in [Name -> PickerMaker \cup {None}]
    BY DEF Name, PickerMaker
  <2> QED  BY <2>1, <2>2 DEF TypeOK, CallState, Result, CloserState
<1>2. MadeInv
  BY DEF MadeInv
<1>3. ConfigInv
  BY DEF ConfigInv, Configured
<1>4. CloseInv
  BY DEF CloseInv
<1>5. LateInv
  BY DEF LateInv
<1> QED  BY <1>1, <1>2, <1>3, <1>4, <1>5 DEF Inv

(***************************************************************************)
(* One field of a call or of a loop changes.                               *)
(***************************************************************************)
CallRecord == [at : CallState, late : BOOLEAN, result : Result]
LoopRecord == [at : LoopState, result : Found, cancelled : BOOLEAN]

LEMMA CallMoves ==
  ASSUME TypeOK, NEW k \in Call, NEW at \in CallState, call' = [call EXCEPT ![k].at = at]
  PROVE  /\ call' \in [Call -> CallRecord]
         /\ call'[k].at = at /\ call'[k].late = call[k].late
         /\ \A l \in Call : l # k => call'[l] = call[l]
<1>1. call \in [Call -> CallRecord] /\ call[k] \in CallRecord
  BY DEF TypeOK, CallRecord
<1>2. [call[k] EXCEPT !.at = at] \in CallRecord
  BY <1>1 DEF CallRecord
<1>3. call' = [call EXCEPT ![k] = [call[k] EXCEPT !.at = at]]
  BY <1>1
<1>4. call'[k] = [call[k] EXCEPT !.at = at]
  BY <1>1, <1>3
<1> QED  BY <1>1, <1>2, <1>3, <1>4 DEF CallRecord

LEMMA CallEnds ==
  ASSUME TypeOK, NEW k \in Call, NEW r \in Result, End(k, r)
  PROVE  /\ call' \in [Call -> CallRecord]
         /\ call'[k].at = "ended" /\ call'[k].late = call[k].late /\ call'[k].result = r
         /\ \A l \in Call : l # k => call'[l] = call[l]
<1> DEFINE ended == [[call[k] EXCEPT !.at = "ended"] EXCEPT !.result = r]
<1>1. call \in [Call -> CallRecord] /\ call[k] \in CallRecord
  BY DEF TypeOK, CallRecord
<1>2. /\ ended \in CallRecord /\ ended.at = "ended"
      /\ ended.late = call[k].late /\ ended.result = r
  BY <1>1 DEF CallRecord, CallState
<1>3. call' = [call EXCEPT ![k] = ended]
  BY <1>1 DEF End
<1>4. call'[k] = ended
  BY <1>1, <1>3
<1> HIDE DEF ended
<1> QED  BY <1>1, <1>2, <1>3, <1>4

LEMMA CallEnters ==
  ASSUME TypeOK, NEW k \in Call, Enter(k)
  PROVE  /\ call' \in [Call -> CallRecord]
         /\ call'[k].at = "entered" /\ call'[k].late = CloseReturned(Owner[k])
         /\ \A l \in Call : l # k => call'[l] = call[l]
<1> DEFINE late == CloseReturned(Owner[k])
           entered == [[call[k] EXCEPT !.at = "entered"] EXCEPT !.late = late]
<1>0. late \in BOOLEAN
  BY DEF CloseReturned
<1>1. call \in [Call -> CallRecord] /\ call[k] \in CallRecord
  BY DEF TypeOK, CallRecord
<1>3. call' = [call EXCEPT ![k] = entered]
  BY <1>1 DEF Enter
<1> HIDE DEF late
<1>2. entered \in CallRecord /\ entered.at = "entered" /\ entered.late = late
  BY <1>0, <1>1 DEF CallRecord, CallState
<1>4. call'[k] = entered
  BY <1>1, <1>3
<1> HIDE DEF entered
<1> QED  BY <1>1, <1>2, <1>3, <1>4 DEF late

LEMMA LoopMoves ==
  ASSUME TypeOK, NEW c \in Client, NEW at \in LoopState, loop' = [loop EXCEPT ![c].at = at]
  PROVE  /\ loop' \in [Client -> LoopRecord]
         /\ loop'[c].at = at
         /\ \A d \in Client : d # c => loop'[d] = loop[d]
<1>1. loop \in [Client -> LoopRecord] /\ loop[c] \in LoopRecord
  BY DEF TypeOK, DnsTypeOK, LoopRecord
<1>2. [loop[c] EXCEPT !.at = at] \in LoopRecord
  BY <1>1 DEF LoopRecord
<1>3. loop' = [loop EXCEPT ![c] = [loop[c] EXCEPT !.at = at]]
  BY <1>1
<1>4. loop'[c] = [loop[c] EXCEPT !.at = at]
  BY <1>1, <1>3
<1> QED  BY <1>1, <1>2, <1>3, <1>4 DEF LoopRecord

LEMMA LoopFinds ==
  ASSUME TypeOK, NEW c \in Client, NEW found \in Found,
         loop' = [loop EXCEPT ![c].at = "send", ![c].result = found]
  PROVE  /\ loop' \in [Client -> LoopRecord]
         /\ loop'[c].at = "send"
         /\ \A d \in Client : d # c => loop'[d] = loop[d]
<1> DEFINE finds == [[loop[c] EXCEPT !.at = "send"] EXCEPT !.result = found]
<1>1. loop \in [Client -> LoopRecord] /\ loop[c] \in LoopRecord
  BY DEF TypeOK, DnsTypeOK, LoopRecord
<1>2. finds \in LoopRecord /\ finds.at = "send"
  BY <1>1 DEF LoopRecord, LoopState
<1>3. loop' = [loop EXCEPT ![c] = finds]
  BY <1>1
<1>4. loop'[c] = finds
  BY <1>1, <1>3
<1> HIDE DEF finds
<1> QED  BY <1>1, <1>2, <1>3, <1>4

LEMMA LoopCancelled ==
  ASSUME TypeOK, NEW c \in Client, loop' = [loop EXCEPT ![c].cancelled = TRUE]
  PROVE  /\ loop' \in [Client -> LoopRecord]
         /\ \A d \in Client : loop'[d].at = loop[d].at
<1>1. loop \in [Client -> LoopRecord] /\ loop[c] \in LoopRecord
  BY DEF TypeOK, DnsTypeOK, LoopRecord
<1>2. /\ [loop[c] EXCEPT !.cancelled = TRUE] \in LoopRecord
      /\ [loop[c] EXCEPT !.cancelled = TRUE].at = loop[c].at
  BY <1>1 DEF LoopRecord
<1>3. loop' = [loop EXCEPT ![c] = [loop[c] EXCEPT !.cancelled = TRUE]]
  BY <1>1
<1> QED  BY <1>1, <1>2, <1>3 DEF LoopRecord

(***************************************************************************)
(* What the steps of NewClient and of the registry keep.                   *)
(***************************************************************************)
LEMMA RegisterInv ==
  ASSUME Inv, NEW name \in Name, NEW factory \in Factory, RegisterPolicy(name, factory)
  PROVE  Inv'
<1> USE DEF RegisterPolicy, dnsVars, closeVars, connVars
<1>1. TypeOK'
  BY DEF Inv, TypeOK, DnsTypeOK, PickerMaker
<1>2. MadeInv'
  BY ClientAssumption DEF Inv, TypeOK, MadeInv, Name
<1>3. ConfigInv' /\ CloseInv' /\ LateInv'
  BY DEF Inv, ConfigInv, Configured, CloseInv, LateInv
<1> QED  BY <1>1, <1>2, <1>3 DEF Inv

LEMMA SetActiveConfigInv ==
  ASSUME Inv, NEW c \in Client, SetActiveConfig(c)
  PROVE  Inv'
<1> USE DEF SetActiveConfig, dnsVars, closeVars, connVars
<1>1. Config[c].policy \in Name /\ registry[Config[c].policy] # None
  BY ClientAssumption DEF Accepted, Name
<1>2. registry[Config[c].policy] \in PickerMaker \cup {None}
  BY <1>1 DEF Inv, TypeOK
<1>3. TypeOK'
  BY <1>2 DEF Inv, TypeOK, DnsTypeOK
<1>4. MadeInv'
  BY <1>1 DEF Inv, TypeOK, MadeInv
<1>5. ConfigInv'
  BY DEF Inv, TypeOK, ConfigInv, Configured
<1>6. CloseInv' /\ LateInv'
  BY DEF Inv, CloseInv, LateInv
<1> QED  BY <1>3, <1>4, <1>5, <1>6 DEF Inv

LEMMA DialInv ==
  ASSUME Inv, NEW c \in Client, Dial(c)
  PROVE  Inv'
<1> USE DEF Dial, dnsVars, closeVars, connVars
<1>1. TypeOK'
  BY DEF Inv, TypeOK, DnsTypeOK
<1>2. MadeInv'
  BY ClientAssumption DEF Inv, TypeOK, MadeInv
<1>3. ConfigInv'
  BY DEF Inv, TypeOK, ConfigInv, Configured
<1>4. CloseInv' /\ LateInv'
  BY DEF Inv, CloseInv, LateInv
<1> QED  BY <1>1, <1>2, <1>3, <1>4 DEF Inv

(***************************************************************************)
(* Calls and idle mode.                                                    *)
(***************************************************************************)
LEMMA ReturnedClosed ==
  ASSUME Inv, NEW c \in Client, CloseReturned(c)
  PROVE  closed[c] /\ conn[c] = "closed" /\ loop[c].at \in {"none", "done"}
BY DEF Inv, CloseInv, CloseReturned

LEMMA EnterInv ==
  ASSUME Inv, NEW k \in Call, Enter(k)
  PROVE  Inv'
<1> USE ClientAssumption DEF dnsVars, newVars, closeVars, connVars
<1>0. TypeOK /\ UNCHANGED <<dnsVars, newVars, closeVars, connVars>>
  BY DEF Inv, Enter
<1>1. TypeOK'
  BY <1>0, CallEnters DEF TypeOK, DnsTypeOK, CallRecord
<1>2. MadeInv'
  <2>1. made[Owner[k]] = "made"
    BY DEF Enter
  <2> QED  BY <1>0, <2>1, CallEnters DEF Inv, MadeInv
<1>3. ConfigInv' /\ CloseInv'
  BY <1>0 DEF Inv, ConfigInv, Configured, CloseInv
<1>4. LateInv'
  BY <1>0, CallEnters, ReturnedClosed DEF Inv, LateInv
<1> QED  BY <1>1, <1>2, <1>3, <1>4 DEF Inv

LEMMA CheckInv ==
  ASSUME Inv, NEW k \in Call, Check(k)
  PROVE  Inv'
<1> USE ClientAssumption DEF dnsVars, newVars, closeVars, connVars
<1>0. TypeOK /\ UNCHANGED <<dnsVars, newVars, closeVars, connVars>>
  BY DEF Inv, Check
<1>1. /\ call' \in [Call -> CallRecord]
      /\ call'[k].late = call[k].late /\ call[k].at = "entered"
      /\ IF closed[Owner[k]]
            THEN call'[k].at = "ended" /\ call'[k].result = "ErrClientClosed"
            ELSE call'[k].at = "checked"
      /\ \A l \in Call : l # k => call'[l] = call[l]
  <2>1. "checked" \in CallState /\ "ErrClientClosed" \in Result
    BY DEF CallState, Result
  <2>2. CASE closed[Owner[k]]
    BY <1>0, <2>1, <2>2, CallEnds DEF Check
  <2>3. CASE ~closed[Owner[k]]
    BY <1>0, <2>1, <2>3, CallMoves DEF Check
  <2> QED  BY <2>2, <2>3
<1>2. TypeOK'
  BY <1>0, <1>1 DEF TypeOK, DnsTypeOK, CallRecord
<1>3. MadeInv'
  BY <1>0, <1>1 DEF Inv, MadeInv
<1>4. ConfigInv' /\ CloseInv'
  BY <1>0 DEF Inv, ConfigInv, Configured, CloseInv
<1>5. LateInv'
  BY <1>0, <1>1 DEF Inv, LateInv
<1> QED  BY <1>2, <1>3, <1>4, <1>5 DEF Inv

LEMMA SendInv ==
  ASSUME Inv, NEW k \in Call, Send(k)
  PROVE  Inv'
<1> USE ClientAssumption DEF newVars, closeVars
<1> DEFINE c == Owner[k]
<1>0. TypeOK /\ c \in Client /\ UNCHANGED <<newVars, closeVars, balancer, serving>>
  BY DEF Inv, Send
<1>1. /\ call' \in [Call -> CallRecord]
      /\ call[k].at = "checked" /\ call'[k].at # "idle"
      /\ call'[k].late = call[k].late
      /\ \A l \in Call : l # k => call'[l] = call[l]
  <2>1. "sent" \in CallState /\ "Canceled" \in Result
    BY DEF CallState, Result
  <2> QED  BY <1>0, <2>1, CallEnds, CallMoves DEF Send
<1>2. /\ host' = host /\ loop' \in [Client -> LoopRecord]
      /\ \A d \in Client : loop'[d].at # loop[d].at => d = c /\ conn[c] = "idle"
  <2>1. CASE conn[c] = "idle"
    <3>1. "lookup" \in LoopState
      BY DEF LoopState
    <3> QED  BY <1>0, <2>1, <3>1, LoopMoves DEF Send, DnsStart, Loop
  <2>2. CASE conn[c] # "idle"
    BY <1>0, <2>2 DEF Send, dnsVars, TypeOK, DnsTypeOK, LoopRecord
  <2> QED  BY <2>1, <2>2
<1>3. /\ conn' \in [Client -> {"idle", "active", "idling", "closed"}]
      /\ \A d \in Client : conn'[d] # conn[d] =>
           d = c /\ conn[c] = "idle" /\ conn'[c] = "active"
  BY <1>0 DEF Send, TypeOK
<1>4. TypeOK'
  BY <1>0, <1>1, <1>2, <1>3 DEF TypeOK, DnsTypeOK, CallRecord, LoopRecord
<1>5. MadeInv'
  BY <1>0, <1>1, <1>3 DEF Inv, MadeInv
<1>6. ConfigInv'
  BY <1>0 DEF Inv, ConfigInv, Configured
<1>7. CloseInv'
  BY <1>0, <1>2, <1>3 DEF Inv, CloseInv
<1>8. LateInv'
  BY <1>0, <1>1 DEF Inv, LateInv
<1> QED  BY <1>4, <1>5, <1>6, <1>7, <1>8 DEF Inv

LEMMA ReplyInv ==
  ASSUME Inv, NEW k \in Call, Reply(k)
  PROVE  Inv'
<1> USE ClientAssumption DEF dnsVars, newVars, closeVars, connVars
<1>0. TypeOK /\ UNCHANGED <<dnsVars, newVars, closeVars, connVars>>
  BY DEF Inv, Reply
<1>1. /\ call' \in [Call -> CallRecord]
      /\ call[k].at = "sent" /\ call'[k].at # "idle" /\ call'[k].late = call[k].late
      /\ \A l \in Call : l # k => call'[l] = call[l]
  <2>1. {"OK", "Unavailable", "Canceled"} \subseteq Result
    BY DEF Result
  <2>2. PICK r \in Result : End(k, r)
    BY <2>1 DEF Reply
  <2> QED  BY <1>0, <2>2, CallEnds DEF Reply
<1>2. TypeOK'
  BY <1>0, <1>1 DEF TypeOK, DnsTypeOK, CallRecord
<1>3. MadeInv'
  BY <1>0, <1>1 DEF Inv, MadeInv
<1>4. ConfigInv' /\ CloseInv'
  BY <1>0 DEF Inv, ConfigInv, Configured, CloseInv
<1>5. LateInv'
  BY <1>0, <1>1 DEF Inv, LateInv
<1> QED  BY <1>2, <1>3, <1>4, <1>5 DEF Inv

LEMMA EnterIdleInv ==
  ASSUME Inv, NEW c \in Client, EnterIdle(c)
  PROVE  Inv'
<1> USE DEF newVars, closeVars
<1>0. TypeOK /\ UNCHANGED <<newVars, closeVars, call>> /\ Release(c, "idling")
  BY DEF Inv, EnterIdle
<1>1. /\ host' = host /\ loop' \in [Client -> LoopRecord]
      /\ \A d \in Client : loop'[d].at = loop[d].at
  BY <1>0, LoopCancelled DEF Release, DnsCancel
<1>2. conn[c] = "active" /\ conn' = [conn EXCEPT ![c] = "idling"]
  BY <1>0 DEF EnterIdle, Release
<1>3. TypeOK'
  BY <1>0, <1>1, <1>2 DEF TypeOK, DnsTypeOK, LoopRecord, Release
<1>4. MadeInv'
  BY <1>0, <1>2 DEF Inv, TypeOK, MadeInv
<1>5. ConfigInv'
  BY <1>0 DEF Inv, TypeOK, ConfigInv, Configured, Release
<1>6. CloseInv'
  BY <1>0, <1>1, <1>2, ClientAssumption DEF Inv, TypeOK, CloseInv
<1>7. LateInv'
  BY <1>0 DEF Inv, LateInv
<1> QED  BY <1>3, <1>4, <1>5, <1>6, <1>7 DEF Inv

LEMMA IdleInv ==
  ASSUME Inv, NEW c \in Client, Idle(c)
  PROVE  Inv'
<1> USE DEF Idle, DnsForget, newVars, closeVars
<1>1. TypeOK'
  BY DEF Inv, TypeOK, DnsTypeOK, NoLoop, LoopState, Found
<1>2. MadeInv'
  BY DEF Inv, TypeOK, MadeInv
<1>3. ConfigInv'
  BY DEF Inv, ConfigInv, Configured
<1>4. CloseInv'
  BY ClientAssumption DEF Inv, TypeOK, DnsTypeOK, CloseInv, NoLoop
<1>5. LateInv'
  BY DEF Inv, LateInv
<1> QED  BY <1>1, <1>2, <1>3, <1>4, <1>5 DEF Inv

(***************************************************************************)
(* Close.                                                                  *)
(***************************************************************************)
LEMMA CloseOnceInv ==
  ASSUME Inv, NEW x \in Closer, CloseOnce(x)
  PROVE  Inv'
<1> USE ClientAssumption DEF CloseOnce, dnsVars, newVars, connVars
<1>1. TypeOK'
  BY DEF Inv, TypeOK, DnsTypeOK, CloserState
<1>2. MadeInv' /\ ConfigInv' /\ LateInv'
  BY DEF Inv, MadeInv, ConfigInv, Configured, LateInv
<1>3. CloseInv'
  <2> DEFINE c == Owner[x]
  <2>1. /\ \A y \in Closer : y # x => closer'[y] = closer[y]
        /\ closer'[x] \in {"begun", "waiting", "returned"}
        /\ closer'[x] = "returned" => once[c] = "finished"
    BY DEF Inv, TypeOK
  <2>2. \A d \in Client : once'[d] = "finished" <=> once[d] = "finished"
    BY DEF Inv, TypeOK
  <2>3. UNCHANGED <<closed, conn, loop>>
    OBVIOUS
  <2> HIDE DEF CloseOnce
  <2> QED  BY <2>1, <2>2, <2>3 DEF Inv, CloseInv
<1> QED  BY <1>1, <1>2, <1>3 DEF Inv

LEMMA CloseMarkInv ==
  ASSUME Inv, NEW x \in Closer, CloseMark(x)
  PROVE  Inv'
<1> USE ClientAssumption DEF CloseMark, dnsVars, newVars, connVars
<1>1. TypeOK'
  BY DEF Inv, TypeOK, DnsTypeOK, CloserState
<1>2. MadeInv' /\ ConfigInv'
  BY DEF Inv, MadeInv, ConfigInv, Configured
<1>3. CloseInv'
  <2>1. /\ \A y \in Closer : y # x => closer'[y] = closer[y]
        /\ closer'[x] = "marked"
    BY DEF Inv, TypeOK
  <2>2. \A d \in Client : closed[d] \/ d = Owner[x] => closed'[d]
    BY DEF Inv, TypeOK
  <2> QED  BY <2>1, <2>2 DEF Inv, CloseInv
<1>4. LateInv'
  BY DEF Inv, TypeOK, LateInv
<1> QED  BY <1>1, <1>2, <1>3, <1>4 DEF Inv

LEMMA CloseConnInv ==
  ASSUME Inv, NEW x \in Closer, CloseConn(x)
  PROVE  Inv'
<1> USE ClientAssumption DEF newVars
<1> DEFINE c == Owner[x]
<1>0. /\ TypeOK /\ c \in Client /\ Release(c, "closed")
      /\ UNCHANGED <<newVars, closed, once, call>>
  BY DEF Inv, CloseConn
<1>1. /\ host' = host /\ loop' \in [Client -> LoopRecord]
      /\ \A d \in Client : loop'[d].at = loop[d].at
  BY <1>0, LoopCancelled DEF Release, DnsCancel
<1>2. /\ closer[x] = "marked" /\ closer' = [closer EXCEPT ![x] = "closing"]
      /\ conn' = [conn EXCEPT ![c] = "closed"]
  BY <1>0 DEF CloseConn, Release
<1>3. TypeOK'
  <2>1. closer' \in [Closer -> CloserState]
    BY <1>0, <1>2 DEF TypeOK, CloserState
  <2>2. balancer' \in [Client -> Balancer \cup {None}] /\ serving' \in [Client -> Found \cup {None}]
    BY <1>0 DEF TypeOK, Release
  <2>3. conn' \in [Client -> {"idle", "active", "idling", "closed"}]
    BY <1>0, <1>2 DEF TypeOK
  <2> QED  BY <1>0, <1>1, <2>1, <2>2, <2>3 DEF TypeOK, DnsTypeOK, LoopRecord
<1>4. MadeInv'
  BY <1>0, <1>2 DEF Inv, TypeOK, MadeInv
<1>5. ConfigInv'
  BY <1>0 DEF Inv, TypeOK, ConfigInv, Configured, Release
<1>6. CloseInv'
  BY <1>0, <1>1, <1>2 DEF Inv, TypeOK, CloseInv
<1>7. LateInv'
  BY <1>0 DEF Inv, LateInv
<1> QED  BY <1>3, <1>4, <1>5, <1>6, <1>7 DEF Inv

LEMMA CloseFinishInv ==
  ASSUME Inv, NEW x \in Closer, CloseFinish(x)
  PROVE  Inv'
<1> USE ClientAssumption DEF CloseFinish, DnsClosed, dnsVars, newVars, connVars
<1>1. TypeOK'
  BY DEF Inv, TypeOK, DnsTypeOK, CloserState
<1>2. MadeInv' /\ ConfigInv' /\ LateInv'
  BY DEF Inv, MadeInv, ConfigInv, Configured, LateInv
<1>3. CloseInv'
  <2>1. /\ \A y \in Closer : y # x => closer'[y] = closer[y]
        /\ closer'[x] = "returned"
    BY DEF Inv, TypeOK
  <2>2. /\ closer[x] = "closing" /\ once'[Owner[x]] = "finished"
        /\ \A d \in Client : d # Owner[x] => once'[d] = once[d]
    BY DEF Inv, TypeOK
  <2> QED  BY <2>1, <2>2 DEF Inv, CloseInv
<1> QED  BY <1>1, <1>2, <1>3 DEF Inv

LEMMA CloseWaitedInv ==
  ASSUME Inv, NEW x \in Closer, CloseWaited(x)
  PROVE  Inv'
<1> USE ClientAssumption DEF CloseWaited, OnceOver, dnsVars, newVars, connVars
<1>1. TypeOK'
  BY DEF Inv, TypeOK, DnsTypeOK, CloserState
<1>2. MadeInv' /\ ConfigInv' /\ LateInv'
  BY DEF Inv, MadeInv, ConfigInv, Configured, LateInv
<1>3. CloseInv'
  <2>1. /\ \A y \in Closer : y # x => closer'[y] = closer[y]
        /\ closer'[x] = "returned"
    BY DEF Inv, TypeOK
  <2>2. once' = once /\ once[Owner[x]] = "finished"
    OBVIOUS
  <2> QED  BY <2>1, <2>2 DEF Inv, CloseInv
<1> QED  BY <1>1, <1>2, <1>3 DEF Inv

(***************************************************************************)
(* The resolver's loop, the balancer and the host.                         *)
(***************************************************************************)
\* A client whose Close has returned has a loop that makes no step.
LEMMA LoopOver ==
  ASSUME Inv, NEW c \in Client, loop[c].at \notin {"none", "done"},
         UNCHANGED <<once, closed, conn, closer>>,
         \A d \in Client : d # c => loop'[d] = loop[d]
  PROVE  CloseInv'
BY ClientAssumption DEF Inv, CloseInv

LEMMA LoopInv ==
  ASSUME Inv, NEW c \in Client,
         LookupReturns(c) \/ LookupFails(c) \/ TickerFires(c) \/ LoopQuits(c),
         UNCHANGED clientVars
  PROVE  Inv'
<1> USE DEF clientVars, newVars, closeVars, connVars
<1>0. TypeOK
  BY DEF Inv
<1>1. /\ loop' \in [Client -> LoopRecord]
      /\ loop[c].at \notin {"none", "done"}
      /\ \A d \in Client : d # c => loop'[d] = loop[d]
  <2>1. CASE LookupReturns(c)
    <3>1. Addresses \in Found
      BY <1>0 DEF TypeOK, DnsTypeOK, Found, Addresses
    <3> QED  BY <1>0, <2>1, <3>1, LoopFinds DEF LookupReturns
  <2>2. CASE LookupFails(c)
    <3>1. {} \in Found
      BY DEF Found
    <3> QED  BY <1>0, <2>2, <3>1, LoopFinds DEF LookupFails
  <2>3. CASE TickerFires(c) \/ LoopQuits(c)
    <3>1. "lookup" \in LoopState /\ "done" \in LoopState
      BY DEF LoopState
    <3> QED  BY <1>0, <2>3, <3>1, LoopMoves DEF TickerFires, LoopQuits, Loop
  <2> QED  BY <2>1, <2>2, <2>3
<1>2. host' \in [answer : DOMAIN Answer, failures : 0..MaxFailures]
  <2>1. CASE LookupFails(c) /\ ~loop[c].cancelled
    <3>1. /\ host \in [answer : DOMAIN Answer, failures : 0..MaxFailures]
          /\ host.failures < MaxFailures /\ host' = [host EXCEPT !.failures = @ + 1]
      BY <1>0, <2>1 DEF LookupFails, TypeOK, DnsTypeOK
    <3>2. host.failures + 1 \in 0..MaxFailures
      BY <3>1, DnsAssumption
    <3> QED  BY <3>1, <3>2
  <2>2. CASE host' = host
    BY <1>0, <2>2 DEF TypeOK, DnsTypeOK
  <2> QED  BY <2>1, <2>2 DEF LookupReturns, LookupFails, TickerFires, LoopQuits
<1>3. TypeOK'
  BY <1>0, <1>1, <1>2 DEF TypeOK, DnsTypeOK, LoopRecord
<1>4. MadeInv' /\ ConfigInv' /\ LateInv'
  BY DEF Inv, MadeInv, ConfigInv, Configured, LateInv
<1>5. CloseInv'
  BY <1>1, LoopOver
<1> QED  BY <1>3, <1>4, <1>5 DEF Inv

\* Whenever a picker is built, the client's policy is still the factory it was
\* validated with.
LEMMA RebuiltValidated ==
  ASSUME Inv, NEW c \in Client, made[c] # "no",
         NEW hosts, NEW f \in Rebuilt(Config[c].policy, hosts)
  PROVE  f \in {None, validated[c]} /\ f \in PickerMaker \cup {None}
<1>1. validated[c] = registry[Config[c].policy] /\ validated[c] # None
  BY DEF Inv, MadeInv
<1>2. validated[c] \in PickerMaker \cup {None}
  BY DEF Inv, TypeOK
<1> QED  BY <1>1, <1>2 DEF Rebuilt, PickerFactory

LEMMA BuildInv ==
  ASSUME Inv, NEW c \in Client, Build(c)
  PROVE  Inv'
<1> USE DEF Build, dnsVars, newVars, closeVars
<1>1. TypeOK'
  <2>1. [cfg |-> activeConfig, factory |-> None] \in Balancer
    BY DEF Inv, TypeOK, Balancer
  <2> QED  BY <2>1 DEF Inv, TypeOK, DnsTypeOK
<1>2. MadeInv' /\ CloseInv' /\ LateInv'
  BY DEF Inv, MadeInv, CloseInv, LateInv
<1>3. ConfigInv'
  <2>1. made[c] = "made" /\ serving[c] = None
    BY DEF Inv, MadeInv, ConfigInv, Configured
  <2>2. /\ balancer'[c] = [cfg |-> activeConfig, factory |-> None]
        /\ \A d \in Client : d # c => balancer'[d] = balancer[d]
    BY DEF Inv, TypeOK
  <2> QED  BY <2>1, <2>2 DEF Inv, ConfigInv, Configured
<1> QED  BY <1>1, <1>2, <1>3 DEF Inv

LEMMA UpdateInv ==
  ASSUME Inv, NEW c \in Client, Update(c)
  PROVE  Inv'
<1> USE DEF newVars, closeVars
<1>0. TypeOK /\ made[c] = "made" /\ UNCHANGED <<newVars, closeVars, conn, call, host>>
  BY DEF Inv, MadeInv, Update, Sent
<1>1. PICK f \in Rebuilt(Config[c].policy, loop[c].result) :
        balancer' = [balancer EXCEPT ![c] = [cfg |-> Attribute(c), factory |-> f]]
  BY DEF Update, InForce, Attribute, BuildConfig
<1>2. f \in {None, validated[c]} /\ f \in PickerMaker \cup {None}
  BY <1>0, <1>1, RebuiltValidated
<1>3. [cfg |-> Attribute(c), factory |-> f] \in Balancer
  BY <1>2 DEF Balancer
<1>4. /\ loop' \in [Client -> LoopRecord] /\ loop[c].at = "send"
      /\ \A d \in Client : d # c => loop'[d] = loop[d]
  <2>1. "wait" \in LoopState
    BY DEF LoopState
  <2> QED  BY <1>0, <2>1, LoopMoves DEF Update, Sent, Loop
<1>5. loop[c].result \in Found /\ serving' = [serving EXCEPT ![c] = loop[c].result]
  BY <1>0 DEF Update, TypeOK, DnsTypeOK
<1>6. TypeOK'
  BY <1>0, <1>1, <1>3, <1>4, <1>5 DEF TypeOK, DnsTypeOK, LoopRecord
<1>7. MadeInv' /\ LateInv'
  BY <1>0 DEF Inv, MadeInv, LateInv
<1>8. ConfigInv'
  <2>1. /\ balancer'[c] = [cfg |-> Attribute(c), factory |-> f]
        /\ \A d \in Client : d # c => balancer'[d] = balancer[d] /\ serving'[d] = serving[d]
    BY <1>0, <1>1, <1>5 DEF TypeOK
  <2>2. balancer'[c] # None
    BY <1>3, <2>1, NoneAssumption
  <2>3. serving'[c] = loop[c].result
    BY <1>0, <1>5 DEF TypeOK
  <2> SUFFICES ASSUME NEW d \in Client
               PROVE  Configured(d)'
    BY DEF ConfigInv
  <2>4. CASE d = c
    BY <1>0, <1>2, <2>1, <2>2, <2>4 DEF Configured
  <2>5. CASE d # c
    <3>1. Configured(d)
      BY DEF Inv, ConfigInv
    <3> QED  BY <1>0, <2>1, <2>5, <3>1 DEF Configured, Attribute, BuildConfig
  <2> QED  BY <2>4, <2>5
<1>9. CloseInv'
  BY <1>0, <1>4, LoopOver
<1> QED  BY <1>6, <1>7, <1>8, <1>9 DEF Inv

LEMMA RebuildPickerInv ==
  ASSUME Inv, NEW c \in Client, RebuildPicker(c)
  PROVE  Inv'
<1> USE DEF RebuildPicker, dnsVars, newVars, closeVars
<1>0. /\ TypeOK /\ made[c] = "made" /\ serving[c] # None
      /\ balancer[c] # None /\ balancer[c].cfg = Attribute(c)
  BY DEF Inv, MadeInv, ConfigInv, Configured
<1>1. PICK f \in Rebuilt(Config[c].policy, serving[c]) :
        balancer' = [balancer EXCEPT ![c].factory = f]
  BY <1>0 DEF Attribute, BuildConfig
<1>2. f \in {None, validated[c]} /\ f \in PickerMaker \cup {None}
  BY <1>0, <1>1, RebuiltValidated
<1>3. balancer[c] \in Balancer /\ balancer'[c] = [balancer[c] EXCEPT !.factory = f]
  BY <1>0, <1>1 DEF TypeOK
<1>4. /\ balancer'[c] \in Balancer
      /\ balancer'[c].cfg = Attribute(c) /\ balancer'[c].factory = f
  BY <1>0, <1>2, <1>3 DEF Balancer
<1>5. \A d \in Client : d # c => balancer'[d] = balancer[d]
  BY <1>0, <1>1 DEF TypeOK
<1>6. TypeOK'
  <2>1. balancer' \in [Client -> Balancer \cup {None}]
    BY <1>0, <1>1, <1>4, <1>5 DEF TypeOK
  <2> QED  BY <1>0, <2>1 DEF TypeOK, DnsTypeOK
<1>7. MadeInv' /\ CloseInv' /\ LateInv'
  BY DEF Inv, MadeInv, CloseInv, LateInv
<1>8. ConfigInv'
  <2> SUFFICES ASSUME NEW d \in Client
               PROVE  Configured(d)'
    BY DEF ConfigInv
  <2>1. CASE d = c
    <3>1. balancer'[c] # None
      BY <1>4, NoneAssumption
    <3> QED  BY <1>0, <1>2, <1>4, <2>1, <3>1 DEF Configured
  <2>2. CASE d # c
    <3>1. Configured(d)
      BY DEF Inv, ConfigInv
    <3> QED  BY <1>5, <2>2, <3>1 DEF Configured
  <2> QED  BY <2>1, <2>2
<1> QED  BY <1>6, <1>7, <1>8 DEF Inv

LEMMA UpdateIgnoredInv ==
  ASSUME Inv, NEW c \in Client, UpdateIgnored(c)
  PROVE  Inv'
<1> USE DEF clientVars, newVars, closeVars, connVars
<1>0. TypeOK /\ UNCHANGED <<clientVars, host>>
  BY DEF Inv, UpdateIgnored, Sent
<1>1. /\ loop' \in [Client -> LoopRecord] /\ loop[c].at = "send"
      /\ \A d \in Client : d # c => loop'[d] = loop[d]
  <2>1. "wait" \in LoopState
    BY DEF LoopState
  <2> QED  BY <1>0, <2>1, LoopMoves DEF UpdateIgnored, Sent, Loop
<1>2. TypeOK'
  BY <1>0, <1>1 DEF TypeOK, DnsTypeOK, LoopRecord
<1>3. MadeInv' /\ ConfigInv' /\ LateInv'
  BY <1>0 DEF Inv, MadeInv, ConfigInv, Configured, LateInv
<1>4. CloseInv'
  BY <1>0, <1>1, LoopOver
<1> QED  BY <1>2, <1>3, <1>4 DEF Inv

LEMMA HostChangesInv ==
  ASSUME Inv, HostChanges, UNCHANGED clientVars
  PROVE  Inv'
<1> USE DEF HostChanges, clientVars, newVars, closeVars, connVars
<1>1. host' \in [answer : DOMAIN Answer, failures : 0..MaxFailures]
  BY DnsAssumption DEF Inv, TypeOK, DnsTypeOK
<1>2. TypeOK'
  BY <1>1 DEF Inv, TypeOK, DnsTypeOK
<1>3. MadeInv' /\ ConfigInv' /\ CloseInv' /\ LateInv'
  BY DEF Inv, MadeInv, ConfigInv, Configured, CloseInv, LateInv
<1> QED  BY <1>2, <1>3 DEF Inv

(***************************************************************************)
(* The theorems.                                                           *)
(***************************************************************************)
LEMMA NextInv == Inv /\ [Next]_vars => Inv'
<1> SUFFICES ASSUME Inv, [Next]_vars
             PROVE  Inv'
  OBVIOUS
<1>1. CASE \E name \in Name, factory \in Factory : RegisterPolicy(name, factory)
  BY <1>1, RegisterInv
<1>2. CASE \E c \in Client : SetActiveConfig(c) \/ Dial(c)
  BY <1>2, SetActiveConfigInv, DialInv
<1>3. CASE \E c \in Client : LoopStep(c)
  BY <1>3, LoopInv, BuildInv, UpdateInv, UpdateIgnoredInv DEF LoopStep
<1>4. CASE \E c \in Client : RebuildPicker(c) \/ EnterIdle(c) \/ Idle(c)
  BY <1>4, RebuildPickerInv, EnterIdleInv, IdleInv
<1>5. CASE \E k \in Call : Enter(k) \/ CallStep(k)
  BY <1>5, EnterInv, CheckInv, SendInv, ReplyInv DEF CallStep
<1>6. CASE \E x \in Closer : CloseOnce(x) \/ CloserStep(x)
  BY <1>6, CloseOnceInv, CloseMarkInv, CloseConnInv, CloseFinishInv, CloseWaitedInv
  DEF CloserStep
<1>7. CASE HostChanges /\ UNCHANGED clientVars
  BY <1>7, HostChangesInv
<1>8. CASE UNCHANGED vars
  <2>1. TypeOK'
    BY <1>8 DEF Inv, TypeOK, DnsTypeOK, vars, dnsVars, clientVars, newVars, closeVars, connVars
  <2>2. MadeInv' /\ ConfigInv' /\ CloseInv' /\ LateInv'
    BY <1>8 DEF Inv, MadeInv, ConfigInv, Configured, CloseInv, LateInv,
                vars, dnsVars, clientVars, newVars, closeVars, connVars
  <2> QED  BY <2>1, <2>2 DEF Inv
<1> QED
  BY <1>1, <1>2, <1>3, <1>4, <1>5, <1>6, <1>7, <1>8 DEF Next

LEMMA Invariant == Spec => []Inv
<1>1. Init => Inv
  BY InitInv
<1> QED  BY <1>1, NextInv, PTL DEF Spec

\* Types, for any number of clients, calls and Closes.
THEOREM ClientTypeCorrect == Spec => []TypeOK
<1>1. Inv => TypeOK
  BY DEF Inv
<1> QED  BY <1>1, Invariant, PTL

\* However many clients race for activeConfig, each balancer that has endpoints
\* works with the policy and the cap of its own client (SetActiveConfig and
\* UpdateClientConnState of builder.go).
THEOREM ConfigOwn == Spec => []OwnConfig
<1>1. Inv => OwnConfig
  BY DEF Inv, ConfigInv, Configured, OwnConfig, Attribute, BuildConfig
<1> QED  BY <1>1, Invariant, PTL

\* Whatever is registered while clients are at work, a picker is made by the
\* factory its client was validated with (registry.go, rebuildPickerLocked).
THEOREM PolicyKept == Spec => []PolicyAsValidated
<1>1. Inv => PolicyAsValidated
  BY DEF Inv, ConfigInv, Configured, PolicyAsValidated
<1> QED  BY <1>1, Invariant, PTL

\* A call made after any Close of the client has returned is refused (Invoke,
\* NewStream and Close of balancer.go).
THEOREM LateRefused == Spec => []LateCallRefused
<1>1. Inv => LateCallRefused
  BY DEF Inv, LateInv, LateCallRefused
<1> QED  BY <1>1, Invariant, PTL

\* When one of several concurrent Closes has returned, the channel is closed and
\* the resolver's goroutine has ended (Close of balancer.go and of the adapter).
THEOREM ClosedReleased == Spec => []CloseReleases
<1>1. Inv => CloseReleases
  BY ReturnedClosed DEF CloseReleases
<1> QED  BY <1>1, Invariant, PTL

=============================================================================
