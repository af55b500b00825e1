---------------------------- MODULE BackoffProofs ----------------------------
(***************************************************************************)
(* How the attempts of a delivery end and how long they wait in between,   *)
(* for every set of statuses and headers, every duration and every number  *)
(* of attempts whose doubled base fits the width of a duration.            *)
(*                                                                         *)
(* What a shift is bit by bit needs the powers of two, and those induction *)
(* over the naturals.  No prover here instantiates the induction theorems  *)
(* of the library, which take an operator; SetInduction is the same        *)
(* principle for a set, from the well-foundedness of < on the naturals.    *)
(***************************************************************************)
EXTENDS Backoff, WellFoundedInduction, TLAPS

(* Induction over the naturals as a fact about sets: a counterexample would *)
(* have a least one.                                                        *)
LEMMA SetInduction ==
    ASSUME NEW S, 0 \in S, \A n \in Nat : n \in S => n + 1 \in S
    PROVE  Nat \subseteq S
<1> DEFINE Out == Nat \ S
           Less == OpToRel(<, Nat)
<1>1. SUFFICES ASSUME Out # {} PROVE FALSE
  OBVIOUS
<1>2. Out \subseteq Nat /\ IsWellFoundedOn(Less, Nat)
  BY NatLessThanWellFounded
<1> HIDE DEF Less
<1>3. PICK x \in Out : \A y \in Out : ~ (<<y, x>> \in Less)
  <2> HIDE DEF Out
  <2> QED
    BY <1>1, <1>2, WFMin
<1>4. x \in Nat /\ x # 0 /\ x - 1 \in Nat /\ x - 1 + 1 = x
  BY <1>3
<1>5. x - 1 \in Out
  BY <1>4, <1>3
<1>6. <<x - 1, x>> \in Less
  BY <1>4 DEF Less, OpToRel
<1> QED
  BY <1>3, <1>5, <1>6

-----------------------------------------------------------------------------
(* Powers of two.  f lists them up to 2^n. *)
Powers(f, n) == f[0] = 1 /\ \A i \in 1..n : f[i] = 2 * f[i - 1]

LEMMA TableExists == \A n \in Nat : \E f \in [0..n -> Nat] : Powers(f, n)
<1> DEFINE S == {n \in Nat : \E f \in [0..n -> Nat] : Powers(f, n)}
<1>1. 0 \in S
  <2> DEFINE f == [i \in 0..0 |-> 1]
  <2>1. f \in [0..0 -> Nat] /\ Powers(f, 0)
    BY DEF Powers
  <2> QED
    BY <2>1
<1>2. ASSUME NEW n \in Nat, n \in S PROVE n + 1 \in S
  <2>1. PICK f \in [0..n -> Nat] : Powers(f, n)
    BY <1>2
  <2> DEFINE g == [i \in 0..(n + 1) |-> IF i = n + 1 THEN 2 * f[n] ELSE f[i]]
  <2>2. g \in [0..(n + 1) -> Nat]
    OBVIOUS
  <2>3. g[0] = 1
    BY <2>1 DEF Powers
  <2>4. ASSUME NEW i \in 1..(n + 1) PROVE g[i] = 2 * g[i - 1]
    <3>1. CASE i = n + 1
      BY <3>1
    <3>2. CASE i \in 1..n
      BY <3>2, <2>1 DEF Powers
    <3> QED
      BY <3>1, <3>2
  <2>5. Powers(g, n + 1)
    BY <2>3, <2>4 DEF Powers
  <2> HIDE DEF g
  <2>6. \E h \in [0..(n + 1) -> Nat] : Powers(h, n + 1)
    BY <2>2, <2>5
  <2> QED
    BY <2>6
<1> HIDE DEF S
<1>3. Nat \subseteq S
  BY <1>1, <1>2, SetInduction
<1> QED
  BY <1>3 DEF S

LEMMA TableUnique ==
    ASSUME NEW m \in Nat, NEW n \in Nat, m <= n,
           NEW f \in [0..m -> Nat], NEW g \in [0..n -> Nat],
           Powers(f, m), Powers(g, n)
    PROVE  \A i \in 0..m : f[i] = g[i]
<1> DEFINE S == {i \in Nat : i <= m => f[i] = g[i]}
<1>1. 0 \in S
  BY DEF Powers
<1>2. ASSUME NEW i \in Nat, i \in S PROVE i + 1 \in S
  <2> SUFFICES ASSUME i + 1 <= m PROVE f[i + 1] = g[i + 1]
    OBVIOUS
  <2>1. f[i] = g[i] /\ i + 1 \in 1..m /\ i + 1 \in 1..n /\ i + 1 - 1 = i
    BY <1>2
  <2>2. PICK j \in Nat : j = i + 1 /\ j \in 1..m /\ j \in 1..n /\ j - 1 = i
    BY <2>1
  <2>3. f[j] = 2 * f[j - 1] /\ g[j] = 2 * g[j - 1]
    BY <2>2 DEF Powers
  <2> QED
    BY <2>1, <2>2, <2>3
<1> HIDE DEF S
<1>3. Nat \subseteq S
  BY <1>1, <1>2, SetInduction
<1> QED
  BY <1>3 DEF S

(* The recursive definition of Pow2 does define a function. *)
LEMMA Pow2Unfolds ==
    /\ Pow2 = [n \in Nat |-> IF n = 0 THEN 1 ELSE 2 * Pow2[n - 1]]
    /\ Pow2 \in [Nat -> Nat]
<1> DEFINE table(n) == CHOOSE f \in [0..n -> Nat] : Powers(f, n)
           p == [n \in Nat |-> table(n)[n]]
           body(f) == [n \in Nat |-> IF n = 0 THEN 1 ELSE 2 * f[n - 1]]
<1>1. ASSUME NEW n \in Nat
      PROVE  table(n) \in [0..n -> Nat] /\ Powers(table(n), n)
  BY TableExists
<1> HIDE DEF table
<1>2. p \in [Nat -> Nat]
  BY <1>1
<1>3. ASSUME NEW n \in Nat PROVE p[n] = IF n = 0 THEN 1 ELSE 2 * p[n - 1]
  <2>1. CASE n = 0
    BY <2>1, <1>1 DEF Powers
  <2>2. CASE n # 0
    <3>1. n - 1 \in Nat /\ n - 1 <= n /\ n - 1 \in 0..(n - 1) /\ n \in 1..n
      BY <2>2
    <3>2. table(n)[n - 1] = table(n - 1)[n - 1]
      <4>1. PICK m \in Nat : m = n - 1 /\ m <= n /\ m \in 0..m
        BY <3>1
      <4>2. table(m) \in [0..m -> Nat] /\ Powers(table(m), m)
        BY <1>1
      <4>3. table(n) \in [0..n -> Nat] /\ Powers(table(n), n)
        BY <1>1
      <4>4. \A i \in 0..m : table(m)[i] = table(n)[i]
        BY <4>1, <4>2, <4>3, TableUnique
      <4> QED
        BY <4>1, <4>4
    <3>3. table(n)[n] = 2 * table(n)[n - 1]
      BY <3>1, <1>1 DEF Powers
    <3> QED
      BY <2>2, <3>1, <3>2, <3>3
  <2> QED
    BY <2>1, <2>2
<1>4. p = body(p)
  BY <1>2, <1>3
<1> HIDE DEF p
<1>5. Pow2 = CHOOSE f : f = body(f)
  BY DEF Pow2
<1>6. Pow2 = body(Pow2)
  <2> HIDE DEF body
  <2> QED
    BY <1>4, <1>5
<1>7. ASSUME NEW f, f = body(f), NEW g, g = body(g) PROVE f = g
  <2> DEFINE S == {n \in Nat : f[n] = g[n]}
  <2>0. \A n \in Nat : /\ f[n] = IF n = 0 THEN 1 ELSE 2 * f[n - 1]
                       /\ g[n] = IF n = 0 THEN 1 ELSE 2 * g[n - 1]
    BY <1>7
  <2>1. 0 \in S
    BY <2>0
  <2>2. ASSUME NEW n \in Nat, n \in S PROVE n + 1 \in S
    BY <2>0, <2>2
  <2> HIDE DEF S
  <2>3. Nat \subseteq S
    BY <2>1, <2>2, SetInduction
  <2> QED
    BY <2>3, <1>7 DEF S
<1>8. Pow2 = p
  <2> HIDE DEF body
  <2> QED
    BY <1>4, <1>6, <1>7
<1> QED
  BY <1>2, <1>6, <1>8

LEMMA Pow2Steps ==
    /\ Pow2[0] = 1
    /\ \A n \in Nat : Pow2[n + 1] = 2 * Pow2[n]
    /\ \A n \in Nat : Pow2[n] \in Nat \ {0}
<1>1. Pow2[0] = 1 /\ \A n \in Nat : Pow2[n + 1] = 2 * Pow2[n]
  <2>0. \A n \in Nat : Pow2[n] = IF n = 0 THEN 1 ELSE 2 * Pow2[n - 1]
    BY Pow2Unfolds
  <2> QED
    BY <2>0
<1> DEFINE S == {n \in Nat : Pow2[n] \in Nat \ {0}}
<1>2. Nat \subseteq S
  <2>1. 0 \in S
    BY <1>1
  <2>2. ASSUME NEW n \in Nat, n \in S PROVE n + 1 \in S
    BY <1>1, <2>2
  <2> HIDE DEF S
  <2> QED
    BY <2>1, <2>2, SetInduction
<1> QED
  BY <1>1, <1>2

(* 2^(m + n) = 2^m * 2^n, and more is not less. *)
LEMMA Pow2Sum == \A m, n \in Nat : Pow2[m + n] = Pow2[m] * Pow2[n]
<1> SUFFICES ASSUME NEW m \in Nat
             PROVE  \A n \in Nat : Pow2[m + n] = Pow2[m] * Pow2[n]
  OBVIOUS
<1> DEFINE S == {n \in Nat : Pow2[m + n] = Pow2[m] * Pow2[n]}
<1>1. 0 \in S
  BY Pow2Steps
<1>2. ASSUME NEW n \in Nat, n \in S PROVE n + 1 \in S
  <2>1. Pow2[m + n] = Pow2[m] * Pow2[n]
    BY <1>2
  <2>2. m + (n + 1) = (m + n) + 1 /\ m + n \in Nat
    OBVIOUS
  <2>3. Pow2[m + (n + 1)] = 2 * Pow2[m + n] /\ Pow2[n + 1] = 2 * Pow2[n]
    BY <2>2, Pow2Steps
  <2>4. Pow2[m] \in Nat /\ Pow2[n] \in Nat
    BY Pow2Steps
  <2>5. 2 * (Pow2[m] * Pow2[n]) = Pow2[m] * (2 * Pow2[n])
    BY <2>4
  <2> QED
    BY <2>1, <2>3, <2>5
<1> HIDE DEF S
<1>3. Nat \subseteq S
  BY <1>1, <1>2, SetInduction
<1> QED
  BY <1>3 DEF S

LEMMA Pow2Grows == \A m, n \in Nat : m <= n => Pow2[m] <= Pow2[n]
<1> SUFFICES ASSUME NEW m \in Nat, NEW n \in Nat, m <= n
             PROVE  Pow2[m] <= Pow2[n]
  OBVIOUS
<1>1. PICK d \in Nat : n = m + d
  <2>1. n - m \in Nat /\ n = m + (n - m)
    OBVIOUS
  <2> QED
    BY <2>1
<1>2. Pow2[n] = Pow2[m] * Pow2[d]
  BY <1>1, Pow2Sum
<1>3. PICK a \in Nat \ {0}, b \in Nat \ {0} : a = Pow2[m] /\ b = Pow2[d]
  BY Pow2Steps
<1>4. a <= a * b
  BY <1>3
<1> QED
  BY <1>2, <1>3, <1>4

-----------------------------------------------------------------------------
(* x \div d is 1 between d and twice d, and 0 below. *)
LEMMA DivOne ==
    ASSUME NEW x \in Nat, NEW d \in Nat \ {0}
    PROVE  /\ x < d => x \div d = 0
           /\ d <= x /\ x < 2 * d => x \div d = 1
<1>1. PICK q \in Int, r \in 0..(d - 1) :
          x = d * q + r /\ q = x \div d /\ r = x % d
  OBVIOUS
<1>2. ASSUME q >= 2 PROVE x >= 2 * d
  BY <1>1, <1>2
<1>3. ASSUME q <= -1 PROVE x < 0
  BY <1>1, <1>3
<1>4. q \in {0, 1} => (x < d <=> q = 0)
  BY <1>1
<1> QED
  BY <1>1, <1>2, <1>3, <1>4

(* A number with a bit set is not below the power of that bit. *)
LEMMA BitSet ==
    ASSUME NEW x \in Nat, NEW k \in Nat, (x \div Pow2[k]) % 2 = 1
    PROVE  Pow2[k] <= x
<1>1. PICK d \in Nat \ {0} : d = Pow2[k]
  BY Pow2Steps
<1>2. x < d => x \div d = 0
  BY DivOne
<1> QED
  BY <1>1, <1>2

(* A number with less than 32 bits that is not below 2^m has a bit from m on. *)
LEMMA HighBit ==
    ASSUME NEW x \in Nat, NEW m \in 0..30, Pow2[m] <= x, x < Pow2[31]
    PROVE  \E k \in m..30 : (x \div Pow2[k]) % 2 = 1
<1> SUFFICES ASSUME \A k \in m..30 : (x \div Pow2[k]) % 2 # 1 PROVE FALSE
  OBVIOUS
<1> DEFINE S == {j \in Nat : m + j <= 31 => Pow2[m + j] <= x}
<1>1. 0 \in S
  OBVIOUS
<1>2. ASSUME NEW j \in Nat, j \in S PROVE j + 1 \in S
  <2> SUFFICES ASSUME m + (j + 1) <= 31 PROVE Pow2[m + (j + 1)] <= x
    OBVIOUS
  <2>1. PICK k \in m..30 : k = m + j /\ k \in Nat
    OBVIOUS
  <2>2. Pow2[k] <= x /\ (x \div Pow2[k]) % 2 # 1
    BY <1>2, <2>1
  <2>3. PICK d \in Nat \ {0} : d = Pow2[k] /\ 2 * d = Pow2[k + 1]
    BY <2>1, Pow2Steps
  <2>4. d <= x /\ x < 2 * d => x \div d = 1
    BY DivOne
  <2>5. 2 * d <= x
    BY <2>2, <2>3, <2>4
  <2> QED
    BY <2>1, <2>3, <2>5
<1> HIDE DEF S
<1>3. Nat \subseteq S
  BY <1>1, <1>2, SetInduction
<1>4. 31 - m \in S /\ 31 - m \in Nat /\ m + (31 - m) = 31
  BY <1>3
<1>5. Pow2[31] <= x
  BY <1>4 DEF S
<1>6. Pow2[31] \in Nat
  BY Pow2Steps
<1> QED
  BY <1>5, <1>6

(* A bit of x << n that is set is a power x * 2^n reaches. *)
LEMMA ShiftedBit ==
    ASSUME NEW x \in Nat, NEW n \in Nat, NEW k \in Nat, Bit(x, n, k) = 1
    PROVE  Pow2[k] <= x * Pow2[n]
<1>1. k - n \in 0..30 /\ (x \div Pow2[k - n]) % 2 = 1
  BY DEF Bit
<1>2. PICK j \in Nat : j = k - n /\ k = j + n
  BY <1>1
<1>3. Pow2[j] <= x
  BY <1>1, <1>2, BitSet
<1>4. Pow2[k] = Pow2[j] * Pow2[n]
  BY <1>2, Pow2Sum
<1>5. PICK a \in Nat, b \in Nat \ {0} : a = Pow2[j] /\ b = Pow2[n]
  BY Pow2Steps
<1>6. a * b <= x * b
  BY <1>3, <1>5
<1> QED
  BY <1>4, <1>5, <1>6

(* What passes the 31 low bits shows in a bit of its own. *)
LEMMA Overflow ==
    ASSUME NEW x \in Nat, NEW n \in Nat, x < Pow2[31], Pow2[31] <= x * Pow2[n],
           x * Pow2[n] < Pow2[Bits - 1]
    PROVE  \E k \in 31..(Bits - 2) : Bit(x, n, k) = 1
<1>0. Bits - 1 \in Nat /\ Bits \in Nat
  BY DurationAssumption
<1>1. PICK m \in 0..30 : Pow2[m] <= x /\ m + n >= 31
  <2>0. PICK p \in Nat \ {0}, b \in Nat \ {0} : p = Pow2[31] /\ b = Pow2[n]
    BY Pow2Steps
  <2>1. CASE n > 30
    <3>1. x >= 1
      BY <2>0
    <3> QED
      BY <2>1, <3>1, Pow2Steps
  <2>2. CASE n <= 30
    <3>1. n # 0
      BY <2>0, Pow2Steps
    <3>2. PICK m \in 0..30 : m = 31 - n /\ m + n = 31 /\ m \in Nat
      BY <2>2, <3>1
    <3>3. PICK a \in Nat : a = Pow2[m]
      BY <3>2, Pow2Steps
    <3>4. p = a * b
      BY <2>0, <3>2, <3>3, Pow2Sum
    <3>5. a * b <= x * b
      BY <2>0, <3>4
    <3>6. a <= x
      BY <2>0, <3>3, <3>5
    <3> QED
      BY <3>2, <3>3, <3>6
  <2> QED
    BY <2>1, <2>2
<1>2. PICK j \in m..30 : (x \div Pow2[j]) % 2 = 1
  BY <1>1, HighBit
<1>3. PICK k \in Nat : k = j + n /\ k - n = j /\ k >= 31
  BY <1>1, <1>2
<1>4. Bit(x, n, k) = 1
  BY <1>2, <1>3 DEF Bit
<1>5. Pow2[k] <= x * Pow2[n]
  BY <1>4, ShiftedBit
<1>6. k < Bits - 1
  <2> SUFFICES ASSUME Bits - 1 <= k PROVE FALSE
    BY <1>0
  <2>1. Pow2[Bits - 1] <= Pow2[k]
    BY <1>0, Pow2Grows
  <2>2. Pow2[Bits - 1] \in Nat /\ Pow2[k] \in Nat /\ x * Pow2[n] \in Int
    BY <1>0, Pow2Steps
  <2> QED
    BY <2>1, <2>2, <1>5
<1> QED
  BY <1>0, <1>3, <1>4, <1>6

(* A shift that fits its width is a product, and the cap caps it. *)
LEMMA CappedFits ==
    ASSUME NEW x \in Nat, NEW n \in Nat, NEW cap \in Nat,
           x < Pow2[31], cap < Pow2[31], x * Pow2[n] < Pow2[Bits - 1]
    PROVE  Capped(x, n, cap) = Smaller(x * Pow2[n], cap)
<1>0. PICK w \in Nat, b \in Nat \ {0}, p \in Nat, s \in Nat :
          w = x * b /\ b = Pow2[n] /\ p = Pow2[31] /\ s = Pow2[Bits - 1]
  <2>1. Bits - 1 \in Nat
    BY DurationAssumption
  <2>2. Pow2[n] \in Nat \ {0} /\ Pow2[31] \in Nat /\ Pow2[Bits - 1] \in Nat
    BY <2>1, Pow2Steps
  <2>3. x * Pow2[n] \in Nat
    BY <2>2
  <2> QED
    BY <2>2, <2>3
<1>1. Bit(x, n, Bits - 1) # 1
  <2>1. Bits - 1 \in Nat
    BY DurationAssumption
  <2> QED
    BY <1>0, <2>1, ShiftedBit
<1>2. CASE \E k \in 31..(Bits - 2) : Bit(x, n, k) = 1
  <2>1. PICK k \in 31..(Bits - 2) : Bit(x, n, k) = 1
    BY <1>2
  <2>2. k \in Nat /\ 31 <= k
    BY DurationAssumption
  <2>3. Pow2[k] <= x * Pow2[n] /\ Pow2[31] <= Pow2[k] /\ Pow2[k] \in Nat
    BY <2>1, <2>2, ShiftedBit, Pow2Grows, Pow2Steps
  <2>4. cap < w
    BY <1>0, <2>3
  <2> QED
    BY <1>0, <1>1, <1>2, <2>4 DEF Capped, Smaller
<1>3. CASE ~ \E k \in 31..(Bits - 2) : Bit(x, n, k) = 1
  <2>1. w < p
    BY <1>0, <1>3, Overflow
  <2>2. Low(x, n) = w
    <3>1. CASE n = 0
      BY <3>1, <1>0, Pow2Steps DEF Low
    <3>2. CASE n > 30
      <4>1. p <= b
        BY <3>2, <1>0, Pow2Grows
      <4>2. x = 0
        BY <4>1, <2>1, <1>0
      <4> QED
        BY <3>2, <4>2, <1>0 DEF Low
    <3>3. CASE n \in 1..30
      <4>1. PICK m \in Nat : m = 31 - n /\ m + n = 31
        BY <3>3
      <4>2. PICK a \in Nat \ {0} : a = Pow2[m]
        BY Pow2Steps
      <4>3. p = a * b
        BY <4>1, <4>2, <1>0, Pow2Sum
      <4>4. x < a
        BY <4>3, <2>1, <1>0
      <4>5. x % a = x
        BY <4>4
      <4> QED
        BY <3>3, <4>1, <4>2, <4>5, <1>0 DEF Low
    <3> QED
      BY <3>1, <3>2, <3>3
  <2> QED
    BY <1>0, <1>1, <1>3, <2>2 DEF Capped, Smaller
<1> QED
  BY <1>2, <1>3

-----------------------------------------------------------------------------
(* Caps, the base and every product of seconds have fewer than 32 bits. *)
LEMMA WordSized ==
    /\ MaxBackoff < Pow2[31] /\ MaxRetryAfter < Pow2[31]
    /\ \A n \in 0..512 : n * Second \in Nat /\ n * Second < Pow2[31]
<1>1. PICK p \in Nat : p = Pow2[30] /\ Pow2[31] = 2 * p
  <2>1. Pow2[30 + 1] = 2 * Pow2[30] /\ Pow2[30] \in Nat
    BY Pow2Steps
  <2> QED
    BY <2>1
<1>2. \A m \in Nat : m \div 2 < p => m < 2 * p
  OBVIOUS
<1>3. MaxBackoff < Pow2[31] /\ MaxRetryAfter < Pow2[31]
  BY <1>1, <1>2, DurationAssumption
<1>4. Pow2[31] = 512 * Pow2[22]
  <2>1. Pow2[1] = 2 /\ Pow2[2] = 4 /\ Pow2[3] = 8
    <3>1. /\ Pow2[0 + 1] = 2 * Pow2[0]
          /\ Pow2[1 + 1] = 2 * Pow2[1]
          /\ Pow2[2 + 1] = 2 * Pow2[2]
      BY Pow2Steps
    <3> QED
      BY <3>1, Pow2Steps
  <2>2. Pow2[3 + 3] = Pow2[3] * Pow2[3] /\ Pow2[6 + 3] = Pow2[6] * Pow2[3]
        /\ Pow2[9 + 22] = Pow2[9] * Pow2[22]
    BY Pow2Sum
  <2>3. Pow2[9] = 512
    BY <2>1, <2>2
  <2> QED
    BY <2>2, <2>3
<1>5. PICK q \in Nat : q = Pow2[22] /\ Second < q /\ Second \in Nat
  BY Pow2Steps, DurationAssumption
<1>6. ASSUME NEW n \in 0..512 PROVE n * Second \in Nat /\ n * Second < Pow2[31]
  <2>1. n * Second \in Nat /\ n * Second <= 512 * Second
    BY <1>5
  <2> QED
    BY <2>1, <1>4, <1>5
<1> QED
  BY <1>3, <1>6

(* Comparing with a quotient is comparing the product. *)
LEMMA Quotient ==
    ASSUME NEW m \in Nat, NEW d \in Nat \ {0}, NEW n \in Nat
    PROVE  n <= m \div d <=> n * d <= m
<1>1. PICK q \in Nat, r \in 0..(d - 1) : m = d * q + r /\ q = m \div d
  OBVIOUS
<1>2. n <= q => n * d <= d * q
  BY <1>1
<1>3. n >= q + 1 => n * d >= d * q + d
  BY <1>1
<1> QED
  BY <1>1, <1>2, <1>3

-----------------------------------------------------------------------------
(* The doubled base of the last attempt that is followed by another fits. *)
AttemptsFit ==
    MaxAttempts = 1 \/ Second * Pow2[MaxAttempts - 2] < Pow2[Bits - 1]

(* No header asks for more seconds than the width holds (292 years). *)
HeadersFit ==
    \A h \in Headers :
        h.form = "seconds" /\ h.n >= 0 =>
            h.n * Second * Pow2[h.e] < Pow2[Bits - 1]

(* The wait before the jitter is what it is meant to be, and never 0. *)
LEMMA OwnDelayIntended ==
    ASSUME AttemptsFit, NEW a \in 1..(MaxAttempts - 1)
    PROVE  OwnDelay(a) = Intended(a) /\ Intended(a) \in Nat /\ Intended(a) >= 2
<1>1. PICK n \in Nat :
          n = a - 1 /\ n <= MaxAttempts - 2 /\ MaxAttempts - 2 \in Nat
  BY DurationAssumption
<1>2. PICK b \in Nat \ {0}, c \in Nat \ {0}, s \in Nat :
          b = Pow2[n] /\ c = Pow2[MaxAttempts - 2] /\ s = Pow2[Bits - 1]
  <2>1. Bits - 1 \in Nat
    BY DurationAssumption
  <2> QED
    BY <1>1, <2>1, Pow2Steps
<1>3. /\ Second \in Nat /\ Second >= 2 /\ Second < Pow2[31]
      /\ MaxBackoff \in Nat /\ MaxBackoff >= Second /\ MaxBackoff < Pow2[31]
  <2>1. 1 * Second \in Nat /\ 1 * Second < Pow2[31]
    BY WordSized
  <2> QED
    BY <2>1, DurationAssumption, WordSized
<1>4. b <= c
  BY <1>1, <1>2, Pow2Grows
<1>5. Second * c < s
  BY <1>1, <1>2, DurationAssumption DEF AttemptsFit
<1>6. Second * b <= Second * c /\ Second * b \in Nat /\ Second <= Second * b
  BY <1>2, <1>3, <1>4
<1>7. Second * Pow2[n] < Pow2[Bits - 1]
  BY <1>2, <1>3, <1>5, <1>6
<1>8. OwnDelay(a) = Smaller(Second * b, MaxBackoff)
  BY <1>1, <1>2, <1>3, <1>7, CappedFits DEF OwnDelay
<1>9. Intended(a) = Smaller(Second * b, MaxBackoff)
  <2>1. b <= MaxBackoff \div Second <=> b * Second <= MaxBackoff
    <3>1. Second \in Nat \ {0} /\ b \in Nat
      BY <1>2, <1>3
    <3> QED
      BY <3>1, <1>3, Quotient
  <2>2. b * Second = Second * b
    BY <1>2, <1>3
  <2>3. CASE a <= 31
    BY <2>1, <2>2, <2>3, <1>1, <1>2, <1>3, <1>6 DEF Intended, Smaller
  <2>4. CASE a > 31
    <3>1. Pow2[31] <= b
      BY <2>4, <1>1, <1>2, Pow2Grows
    <3>2. b <= Second * b
      BY <1>2, <1>3
    <3>3. MaxBackoff < Second * b
      BY <3>1, <3>2, <1>2, <1>3, <1>6, Pow2Steps
    <3> QED
      BY <2>4, <3>3, <1>3, <1>6 DEF Intended, Smaller
  <2> QED
    BY <2>3, <2>4
<1> QED
  BY <1>3, <1>6, <1>8, <1>9 DEF Smaller

(* webhook.retryAfter, for a header that can be read. *)
LEMMA AskedRequest ==
    ASSUME HeadersFit, NEW h \in Headers, Usable(h)
    PROVE  Asked(h) = Request(h)
<1>1. /\ Second \in Nat /\ Second >= 2
      /\ MaxRetryAfter \in Nat /\ MaxRetryAfter >= Second
      /\ MaxRetryAfter < Pow2[31]
  BY DurationAssumption, WordSized
<1>2. h.form \in {"seconds", "date"} /\ h.n \in -512..512 /\ h.e \in 0..62
      /\ (h.n < 0 \/ h.form # "seconds" => h.e = 0)
  BY HeadersAssumption DEF Usable
<1>3. PICK n \in -512..512 : n = h.n
  BY <1>2
<1>4. PICK e \in Nat : e = h.e
  BY <1>2
<1>5. PICK b \in Nat \ {0} : b = Pow2[e]
  BY Pow2Steps
<1>6. CASE n < 0
  <2>1. n * Second < 0 /\ n * Second \in Int
    <3>1. PICK m \in Nat : m = -n /\ m >= 1
      BY <1>3, <1>6
    <3>2. m * Second \in Nat /\ m * Second >= 1 /\ n * Second = -(m * Second)
      BY <3>1, <1>1
    <3> QED
      BY <3>2
  <2>2. Wait(h) = Smaller(n * Second, MaxRetryAfter)
    BY <1>3, <1>6 DEF Wait
  <2>3. Wait(h) = n * Second
    BY <2>1, <2>2, <1>1 DEF Smaller
  <2> QED
    BY <2>1, <2>3, <1>3, <1>6 DEF Asked, Request
<1>7. CASE n >= 0
  <2>1. n \in Nat /\ n \in 0..512
    BY <1>3, <1>4, <1>7
  <2>2. n * Second \in Nat /\ n * Second < Pow2[31]
    BY <2>1, WordSized
  <2>3. /\ n * b \in Nat
        /\ (n * Second) * b = (n * b) * Second /\ (n * b) * Second \in Nat
    BY <2>1, <2>2, <1>1, <1>5
  <2>4. Wait(h) = Smaller((n * b) * Second, MaxRetryAfter)
    <3>1. CASE h.form = "seconds"
      <4>1. (n * Second) * Pow2[e] < Pow2[Bits - 1]
        BY <3>1, <1>3, <1>4, <1>7 DEF HeadersFit
      <4>2. Capped(n * Second, e, MaxRetryAfter)
              = Smaller((n * Second) * Pow2[e], MaxRetryAfter)
        BY <4>1, <2>2, <1>1, <1>3, <1>4, CappedFits
      <4> QED
        BY <4>2, <3>1, <2>3, <1>3, <1>4, <1>5, <1>7 DEF Wait
    <3>2. CASE h.form = "date"
      <4>1. e = 0 /\ b = 1
        BY <3>2, <1>2, <1>3, <1>4, <1>5, Pow2Steps
      <4>2. (n * b) * Second = n * Second
        BY <4>1, <2>1, <1>1
      <4> QED
        BY <4>2, <3>2, <1>3, <1>4 DEF Wait
    <3> QED
      BY <3>1, <3>2, <1>2
  <2>5. n * b <= MaxRetryAfter \div Second <=> (n * b) * Second <= MaxRetryAfter
    <3>1. Second \in Nat \ {0}
      BY <1>1
    <3> QED
      BY <3>1, <2>3, <1>1, Quotient
  <2>6. MaxRetryAfter \div Second \in Int
    BY <1>1
  <2>7. Asked(h) = Smaller((n * b) * Second, MaxRetryAfter)
    BY <2>3, <2>4, <1>1 DEF Asked, Smaller
  <2>8. Request(h) = IF n * b > MaxRetryAfter \div Second THEN MaxRetryAfter
                     ELSE (n * b) * Second
    BY <1>3, <1>4, <1>5, <1>7 DEF Request
  <2>9. CASE n * b <= MaxRetryAfter \div Second
    BY <2>3, <2>5, <2>6, <2>7, <2>8, <2>9, <1>1 DEF Smaller
  <2>10. CASE n * b > MaxRetryAfter \div Second
    BY <2>3, <2>5, <2>6, <2>7, <2>8, <2>10, <1>1 DEF Smaller
  <2> QED
    BY <2>3, <2>6, <2>9, <2>10
<1> QED
  BY <1>3, <1>6, <1>7

(* With the durations of the program (a second of 3906250 units, and 56     *)
(* bits) it is 35 attempts that fit: no fewer and no more.                  *)
LEMMA ProgramAttempts ==
    ASSUME Bits = 56, Pow2[21] <= Second
    PROVE  AttemptsFit <=> MaxAttempts <= 35
<1>0. Second \in Nat /\ Second < Pow2[22] /\ MaxAttempts \in Nat \ {0}
  BY DurationAssumption
<1>1. Bits - 1 = 33 + 22 /\ Bits - 1 = 34 + 21
  OBVIOUS
<1>2. /\ Pow2[Bits - 1] = Pow2[33] * Pow2[22]
      /\ Pow2[Bits - 1] = Pow2[34] * Pow2[21]
  <2>1. /\ Pow2[33 + 22] = Pow2[33] * Pow2[22]
        /\ Pow2[34 + 21] = Pow2[34] * Pow2[21]
    BY Pow2Sum
  <2> QED
    BY <1>1, <2>1
<1>3. ASSUME MaxAttempts <= 35, MaxAttempts # 1
      PROVE  Second * Pow2[MaxAttempts - 2] < Pow2[Bits - 1]
  <2>1. PICK n \in 0..33 : n = MaxAttempts - 2
    BY <1>0, <1>3
  <2>2. PICK a \in Nat \ {0}, b \in Nat \ {0}, c \in Nat \ {0} :
            a = Pow2[n] /\ b = Pow2[33] /\ c = Pow2[22]
    <3>1. /\ Pow2[n] \in Nat \ {0} /\ Pow2[33] \in Nat \ {0}
          /\ Pow2[22] \in Nat \ {0}
      BY <2>1, Pow2Steps
    <3> QED
      BY <3>1
  <2>3. a <= b
    BY <2>1, <2>2, Pow2Grows
  <2>4. Second * a <= Second * b /\ Second * b < c * b
    BY <1>0, <2>2, <2>3
  <2>5. Pow2[Bits - 1] = b * c /\ b * c = c * b
    BY <1>2, <2>2
  <2> QED
    BY <2>1, <2>2, <2>4, <2>5, <1>0
<1>4. ASSUME MaxAttempts > 35 PROVE ~AttemptsFit
  <2>1. PICK n \in Nat : n = MaxAttempts - 2 /\ 34 <= n
    BY <1>0, <1>4
  <2>2. PICK a \in Nat \ {0}, b \in Nat \ {0}, c \in Nat \ {0} :
            a = Pow2[n] /\ b = Pow2[34] /\ c = Pow2[21]
    BY <2>1, Pow2Steps
  <2>3. b <= a
    BY <2>1, <2>2, Pow2Grows
  <2>4. c * b <= Second * b /\ Second * b <= Second * a
    BY <1>0, <2>2, <2>3
  <2> QED
    BY <1>0, <1>2, <1>4, <2>1, <2>2, <2>4 DEF AttemptsFit
<1> QED
  BY <1>0, <1>3, <1>4 DEF AttemptsFit

(* There every header up to 512 * 2^24 seconds, 272 years, fits. *)
LEMMA ProgramHeaders ==
    ASSUME Bits = 56, \A h \in Headers : h.e <= 24
    PROVE  HeadersFit
<1> SUFFICES ASSUME NEW h \in Headers, h.n >= 0
             PROVE  h.n * Second * Pow2[h.e] < Pow2[Bits - 1]
  BY DEF HeadersFit
<1>1. h.n \in -512..512 /\ h.e \in 0..62 /\ h.e <= 24
  BY HeadersAssumption
<1>2. PICK n \in 0..512 : n = h.n
  BY <1>1
<1>3. PICK e \in 0..24 : e = h.e
  BY <1>1
<1>4. PICK x \in Nat, w \in Nat : x = n * Second /\ w = Pow2[31] /\ x < w
  BY WordSized, Pow2Steps
<1>5. PICK a \in Nat \ {0}, b \in Nat : a = Pow2[e] /\ b = Pow2[24]
  <2>1. Pow2[e] \in Nat \ {0} /\ Pow2[24] \in Nat
    BY <1>3, Pow2Steps
  <2> QED
    BY <2>1
<1>6. a <= b
  BY <1>5, Pow2Grows
<1>7. x * a < w * a /\ w * a <= w * b
  <2>1. \A i, j \in Nat : \A k \in Nat \ {0} : i < j => i * k < j * k
    OBVIOUS
  <2>2. \A i, j, k \in Nat : i <= j => k * i <= k * j
    OBVIOUS
  <2> QED
    BY <2>1, <2>2, <1>4, <1>5, <1>6
<1>8. Bits - 1 = 31 + 24 /\ Pow2[31 + 24] = w * b
  BY <1>4, <1>5, Pow2Sum
<1>9. Pow2[Bits - 1] = w * b
  BY <1>8
<1> QED
  BY <1>2, <1>3, <1>4, <1>5, <1>7, <1>9

-----------------------------------------------------------------------------
(* An answer that no further attempt can change. *)
Final(s) == s \in 200..499 \ {408, 429}

(* Why the attempts go on, and why they are over. *)
Ends ==
    /\ attempt \in 1..MaxAttempts
    /\ phase \in {"send", "sleep", "done", "panic"}
    /\ phase = "sleep" => ~Final(status) /\ attempt < MaxAttempts
    /\ phase = "done" => Final(status) \/ attempt = MaxAttempts

(* The classes of answers are those of the README: a status is delivered or *)
(* rejected for good exactly if it is final.                                *)
LEMMA Classes ==
    ASSUME NEW s \in Statuses
    PROVE  Retriable(s) <=> ~Final(s)
<1>1. s \in {0} \cup 200..599
  BY DurationAssumption
<1>2. s \in Nat
  BY <1>1
<1>3. s \div 100 = 5 <=> s \in 500..599
  BY <1>1, <1>2
<1> QED
  BY <1>1, <1>2, <1>3 DEF Retriable, Final

LEMMA EndsDelivered ==
    ASSUME NEW s \in Statuses, Delivers(s)
    PROVE  Final(s)
<1>1. s \in {0} \cup 200..599
  BY DurationAssumption
<1> QED
  BY <1>1 DEF Delivers, Final

LEMMA EndsKept == Ends /\ [Next]_vars => Ends'
<1> SUFFICES ASSUME Ends, [Next]_vars PROVE Ends'
  OBVIOUS
<1>0. MaxAttempts \in Nat \ {0} /\ attempt \in 1..MaxAttempts
  BY DurationAssumption DEF Ends
<1>1. CASE Delivered
  BY <1>0, <1>1, EndsDelivered DEF Delivered, Answer, Ends
<1>2. CASE Rejected
  BY <1>0, <1>2, Classes DEF Rejected, Answer, Ends
<1>3. CASE Exhausted
  BY <1>0, <1>3 DEF Exhausted, LastAttempt, Ends
<1>4. CASE FailAsked
  BY <1>0, <1>4, Classes DEF FailAsked, LastAttempt, Answer, Ends
<1>5. CASE FailPlain
  BY <1>0, <1>5, Classes DEF FailPlain, LastAttempt, Answer, Ends
<1>6. CASE Wake
  BY <1>0, <1>6 DEF Wake, Ends
<1>7. CASE UNCHANGED vars
  BY <1>7 DEF vars, Ends
<1> QED
  BY <1>1, <1>2, <1>3, <1>4, <1>5, <1>6, <1>7 DEF Next

(* For any statuses and any number of attempts: a delivery is retried while *)
(* another attempt could help, up to the configured attempt and not one     *)
(* less, and never after an answer that is final.                           *)
THEOREM RetriesWhileItHelps == Spec => []RetriedWhileItHelps
<1>1. Init => Ends
  BY DurationAssumption DEF Init, Ends
<1>2. Ends => RetriedWhileItHelps
  BY DEF Ends, RetriedWhileItHelps, Final
<1> QED
  BY <1>1, <1>2, EndsKept, PTL DEF Spec

-----------------------------------------------------------------------------
(* The wait of a sleep is the header's, or the attempt's own. *)
Waits ==
    phase = "sleep" =>
        IF Asks THEN header \in Headers /\ delay = Asked(header)
        ELSE delay \in EqualJitter(OwnDelay(attempt))

(* backoff has returned. *)
NoPanic == phase # "panic"

LEMMA WaitsKept == Waits /\ [Next]_vars => Waits'
<1> SUFFICES ASSUME Waits, [Next]_vars PROVE Waits'
  OBVIOUS
<1>1. CASE Delivered
  BY <1>1 DEF Delivered, Waits
<1>2. CASE Rejected
  BY <1>2 DEF Rejected, Waits
<1>3. CASE Exhausted
  BY <1>3 DEF Exhausted, Waits
<1>4. CASE FailAsked
  <2>1. PICK s \in Statuses : \E h \in Headers :
            /\ Listens(s) /\ Usable(h) /\ Answer(s, h) /\ delay' = Asked(h)
    BY <1>4 DEF FailAsked, Heard, Listens
  <2>2. PICK h \in Headers :
            /\ Listens(s) /\ Usable(h) /\ Answer(s, h) /\ delay' = Asked(h)
    BY <2>1
  <2>3. Asks' /\ header' = h
    BY <2>2 DEF Answer, Asks, Listens, Usable
  <2> QED
    BY <2>2, <2>3 DEF Waits
<1>5. CASE FailPlain
  <2>1. \E s \in Statuses : \E h \in Heard(s) :
            ~(Listens(s) /\ Usable(h)) /\ Answer(s, h)
    BY <1>5 DEF FailPlain
  <2>2. ~Asks'
    BY <2>1 DEF Answer, Asks, Listens, Usable
  <2> QED
    BY <1>5, <2>2 DEF FailPlain, Waits
<1>6. CASE Wake
  BY <1>6 DEF Wake, Waits
<1>7. CASE UNCHANGED vars
  BY <1>7 DEF vars, Waits, Asks
<1> QED
  BY <1>1, <1>2, <1>3, <1>4, <1>5, <1>6, <1>7 DEF Next

LEMMA NoPanicKept == AttemptsFit /\ Ends /\ NoPanic /\ [Next]_vars => NoPanic'
<1> SUFFICES ASSUME AttemptsFit, Ends, NoPanic, [Next]_vars PROVE NoPanic'
  OBVIOUS
<1>1. CASE FailPlain
  <2>1. attempt \in 1..(MaxAttempts - 1)
    BY <1>1, DurationAssumption DEF FailPlain, LastAttempt, Ends
  <2>2. OwnDelay(attempt) # Negative
    BY <2>1, OwnDelayIntended DEF Negative
  <2> QED
    BY <1>1, <2>2 DEF FailPlain, NoPanic
<1>2. CASE Delivered \/ Rejected \/ Exhausted \/ FailAsked \/ Wake
  BY <1>2 DEF Delivered, Rejected, Exhausted, FailAsked, Wake, NoPanic
<1>3. CASE UNCHANGED vars
  BY <1>3 DEF vars, NoPanic
<1> QED
  BY <1>1, <1>2, <1>3 DEF Next

LEMMA WaitsInitially == Init => Ends /\ Waits /\ NoPanic
BY DurationAssumption DEF Init, Ends, Waits, NoPanic

(* For any durations and caps, and as many attempts as their width holds:   *)
(* without a Retry-After the wait is between half and all of the doubled    *)
(* base, the cap at most.                                                   *)
THEOREM JitterIsBounded ==
    ASSUME AttemptsFit
    PROVE  Spec => []ExponentialWithJitter
<1>1. Ends /\ Waits => ExponentialWithJitter
  <2> SUFFICES ASSUME Ends, Waits, phase = "sleep", ~Asks
               PROVE  /\ Intended(attempt) \div 2 <= delay
                      /\ delay <= Intended(attempt)
    BY DEF ExponentialWithJitter
  <2>1. attempt \in 1..(MaxAttempts - 1)
    BY DurationAssumption DEF Ends
  <2>2. PICK d \in Nat : d = Intended(attempt) /\ d = OwnDelay(attempt)
    BY <2>1, OwnDelayIntended
  <2>3. delay \in {d \div 2, 2 * (d \div 2)}
    BY <2>2 DEF Waits, EqualJitter
  <2>4. d \div 2 \in Nat /\ 2 * (d \div 2) <= d /\ d \div 2 <= 2 * (d \div 2)
    BY <2>2
  <2> QED
    BY <2>2, <2>3, <2>4
<1> QED
  BY <1>1, EndsKept, WaitsKept, WaitsInitially, PTL DEF Spec

(* For the same, and headers that fit: a wait that is asked for is given to *)
(* the unit, or the cap where it is beyond it, and none for a date that has *)
(* passed; an answer that asks for none, or cannot be read, is never        *)
(* followed by an attempt at once.                                          *)
THEOREM RequestsAreMet ==
    ASSUME AttemptsFit, HeadersFit
    PROVE  Spec => []AskedIsGiven
<1>1. Ends /\ Waits => AskedIsGiven
  <2> SUFFICES ASSUME Ends, Waits, phase = "sleep"
               PROVE  IF Asks THEN delay = Request(header) ELSE delay > 0
    BY DEF AskedIsGiven
  <2>1. CASE Asks
    <3>1. header \in Headers /\ delay = Asked(header) /\ Usable(header)
      BY <2>1 DEF Waits, Asks, Usable
    <3> QED
      BY <2>1, <3>1, AskedRequest
  <2>2. CASE ~Asks
    <3>1. attempt \in 1..(MaxAttempts - 1)
      BY DurationAssumption DEF Ends
    <3>2. PICK d \in Nat : d = OwnDelay(attempt) /\ d >= 2
      BY <3>1, OwnDelayIntended
    <3>3. delay \in {d \div 2, 2 * (d \div 2)}
      BY <3>2, <2>2 DEF Waits, EqualJitter
    <3>4. d \div 2 > 0 /\ 2 * (d \div 2) > 0
      BY <3>2
    <3> QED
      BY <2>2, <3>3, <3>4
  <2> QED
    BY <2>1, <2>2
<1> QED
  BY <1>1, EndsKept, WaitsKept, WaitsInitially, PTL DEF Spec

(* The bound under which rand.N is never given what it panics on; one       *)
(* attempt more (ProgramAttempts) and it is, as the run ManyAttempts shows. *)
THEOREM AttemptsNeverPanic ==
    ASSUME AttemptsFit
    PROVE  Spec => []NeverPanics
<1>1. Ends /\ NoPanic /\ [Next]_vars => NoPanic'
  BY NoPanicKept
<1>2. NoPanic => NeverPanics
  BY DEF NoPanic, NeverPanics
<1> QED
  BY <1>1, <1>2, EndsKept, WaitsInitially, PTL DEF Spec
===============================================================================
