---------------------------- MODULE NumberProofs ----------------------------
(***************************************************************************)
(* Facts about natural numbers that the proofs about data rest on.  The    *)
(* provers do not induct; an induction is made by taking the smallest      *)
(* counterexample.                                                         *)
(***************************************************************************)
EXTENDS Numbers, WellFoundedInduction, TLAPS

-----------------------------------------------------------------------------
(* Smallest elements *)

\* The relation < as a set of pairs.
LEMMA LessRelation == OpToRel(<, Nat) = {p \in Nat \X Nat : p[1] < p[2]}
    BY Zenon DEF OpToRel

\* Every nonempty set of natural numbers has a smallest element.
LEMMA SmallestNat ==
    ASSUME NEW T \in SUBSET Nat, T # {}
    PROVE  \E n \in T : \A m \in T : n <= m
    <1> DEFINE R == {p \in Nat \X Nat : p[1] < p[2]}
    <1>1. IsWellFoundedOn(R, Nat)
        BY NatLessThanWellFounded, LessRelation, Zenon
    <1> HIDE DEF R
    <1>2. PICK n \in T : \A m \in T : ~(<<m, n>> \in R)
        BY <1>1, WFMin, Zenon
    <1>3. ASSUME NEW m \in T  PROVE n <= m
        <2>1. m \in Nat /\ n \in Nat
            OBVIOUS
        <2>2. ~(<<m, n>> \in R)
            BY <1>2
        <2>3. CASE m < n
            <3>1. <<m, n>> \in R
                BY <2>1, <2>3 DEF R
            <3>. QED  BY <2>2, <3>1
        <2>. QED  BY <2>1, <2>3
    <1>. QED  BY <1>3

-----------------------------------------------------------------------------
(* Induction and recursion *)

\* Induction, with the statement as a set of numbers.
LEMMA NatSetInduction ==
    ASSUME NEW S, 0 \in S, \A n \in Nat : n \in S => n + 1 \in S
    PROVE  \A n \in Nat : n \in S
    <1> DEFINE Bad == {n \in Nat : n \notin S}
    <1> SUFFICES ASSUME Bad # {}  PROVE FALSE
        OBVIOUS
    <1>1. Bad \in SUBSET Nat
        OBVIOUS
    <1>2. PICK n \in Bad : \A m \in Bad : n <= m
        <2> HIDE DEF Bad
        <2>. QED  BY <1>1, SmallestNat, Zenon
    <1>3. n \in Nat /\ n \notin S /\ n # 0
        OBVIOUS
    <1>4. n - 1 \in Nat /\ (n - 1) + 1 = n /\ ~(n <= n - 1)
        BY <1>3
    <1>5. n - 1 \in S
        BY <1>2, <1>4
    <1>. QED  BY <1>3, <1>4, <1>5

\* Induction up to a bound.
LEMMA BoundedInduction ==
    ASSUME NEW L \in Nat, NEW S, 0 \in S, \A n \in Nat : n < L /\ n \in S => n + 1 \in S
    PROVE  \A n \in 0 .. L : n \in S
    <1> DEFINE T == {n \in Nat : n <= L => n \in S}
    <1>1. 0 \in T
        OBVIOUS
    <1>2. \A n \in Nat : n \in T => n + 1 \in T
        <2> SUFFICES ASSUME NEW n \in Nat, n \in T, n + 1 <= L  PROVE n + 1 \in S
            OBVIOUS
        <2>1. n < L /\ n <= L
            OBVIOUS
        <2>. QED  BY <2>1
    <1> HIDE DEF T
    <1>3. \A n \in Nat : n \in T
        BY <1>1, <1>2, NatSetInduction, Zenon
    <1>. QED  BY <1>3 DEF T

\* h starts with b and is continued by g up to n.
Continues(h, n, b, g) ==
    h[0] = b /\ \A k \in 1 .. n : h[k] = g[<<k, h[k - 1]>>]

Defines(V, b, g, h) ==
    h \in [Nat -> V] /\ h[0] = b /\ \A n \in Nat \ {0} : h[n] = g[<<n, h[n - 1]>>]

\* A start and a step define a function on the numbers.
LEMMA Recursion ==
    ASSUME NEW V, NEW b \in V, NEW g \in [Nat \X V -> V]
    PROVE  \E h : Defines(V, b, g, h)
    <1> DEFINE S == {n \in Nat : \E h \in [0 .. n -> V] : Continues(h, n, b, g)}
    <1>1. 0 \in S
        <2> DEFINE h == [k \in 0 .. 0 |-> b]
        <2>1. h \in [0 .. 0 -> V] /\ h[0] = b
            OBVIOUS
        <2>2. Continues(h, 0, b, g)
            BY <2>1 DEF Continues
        <2>. QED  BY <2>1, <2>2
    <1>2. ASSUME NEW n \in Nat, n \in S  PROVE n + 1 \in S
        <2>1. PICK h \in [0 .. n -> V] : Continues(h, n, b, g)
            BY <1>2
        <2> DEFINE f == [k \in 0 .. n + 1 |-> IF k <= n THEN h[k] ELSE g[<<n + 1, h[n]>>]]
        <2>2. h[n] \in V /\ g[<<n + 1, h[n]>>] \in V
            OBVIOUS
        <2>3. f \in [0 .. n + 1 -> V]
            BY <2>2
        <2>4. \A k \in 0 .. n : f[k] = h[k]
            OBVIOUS
        <2>5. f[n + 1] = g[<<n + 1, h[n]>>]
            OBVIOUS
        <2> HIDE DEF f
        <2>6. ASSUME NEW k \in 1 .. n + 1  PROVE f[k] = g[<<k, f[k - 1]>>]
            <3>1. CASE k = n + 1
                <4>1. k - 1 = n /\ n \in 0 .. n
                    BY <3>1
                <4>. QED  BY <2>4, <2>5, <3>1, <4>1
            <3>2. CASE k # n + 1
                <4>1. k \in 1 .. n /\ k \in 0 .. n /\ k - 1 \in 0 .. n
                    BY <3>2
                <4>. QED  BY <2>1, <2>4, <4>1 DEF Continues
            <3>. QED  BY <3>1, <3>2
        <2>7. f[0] = b
            BY <2>1, <2>4 DEF Continues
        <2>8. Continues(f, n + 1, b, g)
            BY <2>6, <2>7 DEF Continues
        <2>. QED  BY <2>3, <2>8
    <1>3. \A n \in Nat : n \in S
        <2> HIDE DEF S
        <2>. QED  BY <1>1, <1>2, NatSetInduction, Zenon
    \* Two of these functions agree where both are defined.
    <1>4. ASSUME NEW m \in Nat, NEW n \in Nat, m <= n, NEW h \in [0 .. m -> V], NEW f \in [0 .. n -> V],
                 Continues(h, m, b, g), Continues(f, n, b, g)
          PROVE  \A k \in 0 .. m : h[k] = f[k]
        <2> DEFINE Same == {k \in Nat : h[k] = f[k]}
        <2>1. 0 \in Same
            BY <1>4 DEF Continues
        <2>2. ASSUME NEW k \in Nat, k < m, k \in Same  PROVE k + 1 \in Same
            <3>1. k + 1 \in 1 .. m /\ k + 1 \in 1 .. n /\ (k + 1) - 1 = k
                BY <1>4, <2>2
            <3>2. h[k + 1] = g[<<k + 1, h[k]>>] /\ f[k + 1] = g[<<k + 1, f[k]>>]
                BY <1>4, <3>1 DEF Continues
            <3>3. h[k] = f[k] /\ k + 1 \in Nat
                BY <2>2
            <3>. QED  BY <3>2, <3>3
        <2>3. \A k \in 0 .. m : k \in Same
            <3> HIDE DEF Same
            <3>. QED  BY <2>1, <2>2, BoundedInduction, Zenon
        <2>. QED  BY <2>3
    <1> DEFINE Of(n) == CHOOSE h \in [0 .. n -> V] : Continues(h, n, b, g)
               all == [n \in Nat |-> Of(n)[n]]
    <1>5. ASSUME NEW n \in Nat  PROVE Of(n) \in [0 .. n -> V] /\ Continues(Of(n), n, b, g)
        <2>1. \E h \in [0 .. n -> V] : Continues(h, n, b, g)
            BY <1>3
        <2>. QED  BY <2>1, Zenon
    <1> HIDE DEF S, Of
    <1>6. all \in [Nat -> V]
        <2> SUFFICES ASSUME NEW n \in Nat  PROVE Of(n)[n] \in V
            OBVIOUS
        <2>. QED  BY <1>5
    <1>7. all[0] = b
        BY <1>5 DEF Continues
    <1>8. ASSUME NEW n \in Nat \ {0}  PROVE all[n] = g[<<n, all[n - 1]>>]
        <2>1. n - 1 \in Nat /\ n - 1 <= n /\ n \in 1 .. n /\ n - 1 \in 0 .. n - 1
            OBVIOUS
        <2>2. Of(n)[n] = g[<<n, Of(n)[n - 1]>>]
            BY <1>5, <2>1 DEF Continues
        <2>3. Of(n - 1)[n - 1] = Of(n)[n - 1]
            <3>1. /\ Of(n) \in [0 .. n -> V] /\ Continues(Of(n), n, b, g)
                  /\ Of(n - 1) \in [0 .. n - 1 -> V] /\ Continues(Of(n - 1), n - 1, b, g)
                BY <1>5, <2>1
            <3> DEFINE m == n - 1
                       x == Of(m)
                       y == Of(n)
            <3>2. /\ m \in Nat /\ m <= n /\ y \in [0 .. n -> V] /\ Continues(y, n, b, g)
                  /\ x \in [0 .. m -> V] /\ Continues(x, m, b, g)
                BY <2>1, <3>1
            <3> HIDE DEF m, x, y
            <3>3. \A k \in 0 .. m : x[k] = y[k]
                BY <1>4, <3>2
            <3>. QED  BY <2>1, <3>3 DEF m, x, y
        <2>. QED  BY <2>1, <2>2, <2>3
    <1> HIDE DEF all
    <1>. QED  BY <1>6, <1>7, <1>8 DEF Defines

-----------------------------------------------------------------------------
(* Products, quotients and powers *)

\* A smaller factor gives a smaller product.
LEMMA ProductGrows ==
    ASSUME NEW a \in Nat, NEW b \in Nat, NEW r \in Nat, a <= b
    PROVE  a * r \in Nat /\ b * r \in Nat /\ a * r <= b * r
    <1>1. PICK d \in Nat : b = a + d
        <2>1. b - a \in Nat /\ b = a + (b - a)
            OBVIOUS
        <2>. QED  BY <2>1
    <1>2. b * r = a * r + d * r
        BY <1>1
    <1>3. a * r \in Nat /\ d * r \in Nat
        BY <1>1
    <1>. QED  BY <1>2, <1>3

\* The leading digits decide, and then the last one.
LEMMA DigitsDecide ==
    ASSUME NEW a \in Nat, NEW b \in Nat, NEW r \in Nat \ {0}, NEW x \in 0 .. r - 1, NEW y \in 0 .. r - 1
    PROVE  /\ a * r + x \in Nat
           /\ a < b => a * r + x < b * r + y
           /\ a = b => (a * r + x <= b * r + y <=> x <= y)
    <1>1. a * r \in Nat /\ b * r \in Nat /\ x \in Nat /\ y \in Nat /\ x < r
        OBVIOUS
    <1>2. ASSUME a < b  PROVE a * r + r <= b * r
        <2>1. a + 1 \in Nat /\ a + 1 <= b
            BY <1>2
        <2>2. (a + 1) * r <= b * r
            BY <2>1, ProductGrows
        <2>3. (a + 1) * r = a * r + r
            OBVIOUS
        <2>. QED  BY <2>2, <2>3
    <1> DEFINE p == a * r
               q == b * r
    <1>3. a < b => p + r <= q
        BY <1>2
    <1>4. p \in Nat /\ q \in Nat /\ (a = b => p = q)
        BY <1>1
    <1> HIDE DEF p, q
    <1>5. /\ p + x \in Nat /\ (a < b => p + x < q + y) /\ (a = b => (p + x <= q + y <=> x <= y))
        BY <1>1, <1>3, <1>4
    <1>. QED  BY <1>5 DEF p, q

\* A quotient is the only number with these bounds.
LEMMA QuotientBounds ==
    ASSUME NEW n \in Nat, NEW d \in Nat \ {0}
    PROVE  n \div d \in Nat /\ d * (n \div d) <= n /\ n < d * (n \div d) + d
    OBVIOUS

LEMMA QuotientUnique ==
    ASSUME NEW n \in Nat, NEW d \in Nat \ {0}, NEW q \in Nat, q * d <= n, n < q * d + d
    PROVE  n \div d = q
    <1> DEFINE k == n \div d
    <1>1. k \in Nat /\ k * d <= n /\ n < k * d + d
        BY QuotientBounds
    <1> HIDE DEF k
    <1>2. ASSUME NEW i \in Nat, NEW j \in Nat, i * d <= n, n < j * d + d  PROVE ~(j < i)
        <2> SUFFICES ASSUME j + 1 <= i  PROVE FALSE
            OBVIOUS
        <2>1. (j + 1) * d <= i * d
            BY ProductGrows
        <2>2. (j + 1) * d = j * d + d /\ j * d \in Nat /\ i * d \in Nat
            OBVIOUS
        <2>. QED  BY <1>2, <2>1, <2>2
    <1>3. ~(k < q) /\ ~(q < k)
        BY <1>1, <1>2
    <1>4. k = q
        BY <1>1, <1>3
    <1>. QED  BY <1>4 DEF k

\* Dividing twice.
LEMMA DivideTwice ==
    ASSUME NEW n \in Nat, NEW d \in Nat \ {0}, NEW r \in Nat \ {0}
    PROVE  r * d \in Nat \ {0} /\ (n \div d) \div r = n \div (r * d)
    <1> DEFINE m == n \div d
               q == m \div r
    <1>1. m \in Nat /\ m * d <= n /\ n < m * d + d
        BY QuotientBounds
    <1> HIDE DEF m
    <1>2. q \in Nat /\ q * r <= m /\ m + 1 <= q * r + r
        BY <1>1, QuotientBounds
    <1> HIDE DEF q
    <1>3. r * d \in Nat \ {0}
        BY ProductGrows
    <1>4. (q * r) * d <= m * d
        <2>1. q * r \in Nat
            BY <1>2
        <2>. QED  BY <1>1, <1>2, <2>1, ProductGrows
    <1>5. (m + 1) * d <= (q * r + r) * d
        <2>1. q * r + r \in Nat /\ m + 1 \in Nat
            BY <1>1, <1>2
        <2>. QED  BY <1>2, <2>1, ProductGrows
    <1>6. (q * r) * d = q * (r * d) /\ (q * r + r) * d = q * (r * d) + r * d /\ (m + 1) * d = m * d + d
        BY <1>1, <1>2
    <1> DEFINE w == q * (r * d)
    <1>7. w \in Nat /\ w <= m * d /\ m * d + d <= w + r * d
        BY <1>2, <1>3, <1>4, <1>5, <1>6
    <1>8. w <= n /\ n < w + r * d
        <2> DEFINE e == r * d
                   f == m * d
        <2>1. e \in Nat /\ f \in Nat /\ w \in Nat /\ w <= f /\ f + d <= w + e /\ f <= n /\ n < f + d
            BY <1>1, <1>3, <1>7
        <2> HIDE DEF e, f, w
        <2>. QED  BY <2>1 DEF e
    <1>9. n \div (r * d) = q
        BY <1>2, <1>3, <1>8, QuotientUnique DEF w
    <1>. QED  BY <1>3, <1>9 DEF m, q

\* The powers of a base.
LEMMA PowerIs ==
    ASSUME NEW b \in Nat \ {0}
    PROVE  /\ Power(b) \in [Nat -> Nat \ {0}] /\ Power(b)[0] = 1
           /\ \A n \in Nat : Power(b)[n + 1] = b * Power(b)[n]
    <1> DEFINE V == Nat \ {0}
               g == [p \in Nat \X V |-> b * p[2]]
    <1>1. ASSUME NEW x \in V  PROVE b * x \in V
        BY ProductGrows
    <1>2. g \in [Nat \X V -> V] /\ 1 \in V
        BY <1>1
    <1>3. \A n \in Nat, x \in V : g[<<n, x>>] = b * x
        OBVIOUS
    <1> HIDE DEF g, V
    <1>a. PICK h : Defines(V, 1, g, h)
        BY <1>2, Recursion, Zenon
    <1>4. h \in [Nat -> V] /\ h[0] = 1 /\ \A n \in Nat \ {0} : h[n] = g[<<n, h[n - 1]>>]
        BY <1>a DEF Defines
    <1>5. \A n \in Nat \ {0} : h[n] = b * h[n - 1]
        <2> SUFFICES ASSUME NEW n \in Nat \ {0}  PROVE h[n] = b * h[n - 1]
            OBVIOUS
        <2>1. n \in Nat /\ n - 1 \in Nat
            OBVIOUS
        <2>2. h[n - 1] \in V
            BY <1>4, <2>1
        <2>. QED  BY <1>3, <1>4, <2>1, <2>2
    <1>6. h = [n \in Nat |-> IF n = 0 THEN 1 ELSE b * h[n - 1]]
        BY <1>4, <1>5
    <1> DEFINE Is(p) == p = [n \in Nat |-> IF n = 0 THEN 1 ELSE b * p[n - 1]]
    <1>7. Is(Power(b))
        <2>1. Power(b) = CHOOSE p : Is(p)
            BY DEF Power
        <2>2. Is(h)
            BY <1>6
        <2> HIDE DEF Is
        <2>. QED  BY <2>1, <2>2, Zenon
    <1> DEFINE p == Power(b)
    <1>8. p = [n \in Nat |-> IF n = 0 THEN 1 ELSE b * p[n - 1]]
        BY <1>7
    <1> HIDE DEF p, Is
    <1>9. p[0] = 1 /\ \A n \in Nat : p[n + 1] = b * p[n]
        <2>1. p[0] = 1
            BY <1>8
        <2>2. ASSUME NEW n \in Nat  PROVE p[n + 1] = b * p[n]
            <3>1. n + 1 \in Nat /\ n + 1 # 0 /\ (n + 1) - 1 = n
                OBVIOUS
            <3>2. p[n + 1] = IF n + 1 = 0 THEN 1 ELSE b * p[(n + 1) - 1]
                BY <1>8, <3>1, Zenon
            <3>. QED  BY <3>1, <3>2
        <2>. QED  BY <2>1, <2>2
    <1>10. \A n \in Nat : p[n] \in V
        <2> DEFINE S == {n \in Nat : p[n] \in V}
        <2>1. 0 \in S
            BY <1>2, <1>9
        <2>2. ASSUME NEW n \in Nat, n \in S  PROVE n + 1 \in S
            <3>1. p[n] \in V
                BY <2>2
            <3>2. b * p[n] \in V
                BY <1>1, <3>1
            <3>. QED  BY <1>9, <3>2
        <2> HIDE DEF S
        <2>3. \A n \in Nat : n \in S
            BY <2>1, <2>2, NatSetInduction, Zenon
        <2>. QED  BY <2>3 DEF S
    <1>11. p \in [Nat -> V]
        BY <1>8, <1>10
    <1>. QED  BY <1>9, <1>11 DEF p, V

\* A larger exponent gives a larger power.
LEMMA PowerGrows ==
    ASSUME NEW b \in Nat \ {0}, NEW m \in Nat, NEW n \in Nat, m <= n
    PROVE  Power(b)[m] <= Power(b)[n]
    <1> DEFINE p == Power(b)
               S == {k \in Nat : p[m] <= p[m + k]}
    <1>1. p \in [Nat -> Nat \ {0}] /\ \A k \in Nat : p[k + 1] = b * p[k]
        BY PowerIs
    <1> HIDE DEF p
    <1>2. 0 \in S
        BY <1>1
    <1>3. ASSUME NEW k \in Nat, k \in S  PROVE k + 1 \in S
        <2> DEFINE q == p[m + k]
        <2>1. p[m] <= q /\ m + k \in Nat /\ p[m] \in Nat /\ q \in Nat
            BY <1>1, <1>3
        <2>2. p[m + (k + 1)] = b * q
            <3>1. m + (k + 1) = (m + k) + 1
                OBVIOUS
            <3>. QED  BY <1>1, <2>1, <3>1
        <2> HIDE DEF q
        <2>3. q <= b * q /\ b * q \in Nat
            <3>1. 1 \in Nat /\ 1 <= b /\ b \in Nat
                OBVIOUS
            <3>2. 1 * q <= b * q /\ b * q \in Nat
                BY <2>1, <3>1, ProductGrows
            <3>. QED  BY <2>1, <3>2
        <2>4. p[m] <= b * q
            BY <2>1, <2>3
        <2>. QED  BY <2>2, <2>4
    <1>4. \A k \in Nat : k \in S
        <2> HIDE DEF S
        <2>. QED  BY <1>2, <1>3, NatSetInduction, Zenon
    <1>5. n - m \in Nat /\ m + (n - m) = n
        OBVIOUS
    <1>6. n - m \in S
        BY <1>4, <1>5
    <1>. QED  BY <1>5, <1>6 DEF p

-----------------------------------------------------------------------------
(* Positional notation *)

\* What the leading digits of a number are worth.
LEMMA LeadingIs ==
    ASSUME NEW b \in Nat, NEW d \in Seq(Nat)
    PROVE  /\ Leading(b, d) \in [0 .. Len(d) -> Nat] /\ Leading(b, d)[0] = 0
           /\ \A k \in 1 .. Len(d) : Leading(b, d)[k] = Leading(b, d)[k - 1] * b + d[k]
    <1> DEFINE L == Len(d)
               at(n) == IF n \in 1 .. L THEN d[n] ELSE 0
               g == [p \in Nat \X Nat |-> p[2] * b + at(p[1])]
    <1>0. L \in Nat /\ \A n \in Nat : at(n) \in Nat
        OBVIOUS
    <1>1. \A n \in 1 .. L : at(n) = d[n]
        OBVIOUS
    <1> HIDE DEF at
    <1>2. g \in [Nat \X Nat -> Nat] /\ 0 \in Nat
        <2>1. ASSUME NEW p \in Nat \X Nat  PROVE p[2] * b + at(p[1]) \in Nat
            <3>1. p[1] \in Nat /\ p[2] \in Nat
                OBVIOUS
            <3>a. \A u \in Nat : u * b \in Nat
                OBVIOUS
            <3>2. p[2] * b \in Nat /\ at(p[1]) \in Nat
                BY <1>0, <3>1, <3>a, Zenon
            <3>. QED  BY <3>2
        <2>. QED  BY <2>1
    <1>3. \A n \in Nat, x \in Nat : g[<<n, x>>] = x * b + at(n)
        OBVIOUS
    <1> HIDE DEF g, L
    <1>a. PICK h : Defines(Nat, 0, g, h)
        BY <1>2, Recursion, Zenon
    <1>4. h \in [Nat -> Nat] /\ h[0] = 0 /\ \A n \in Nat \ {0} : h[n] = g[<<n, h[n - 1]>>]
        BY <1>a DEF Defines
    <1>5. \A n \in 1 .. L : h[n] = h[n - 1] * b + d[n]
        <2> SUFFICES ASSUME NEW n \in 1 .. L  PROVE h[n] = h[n - 1] * b + d[n]
            OBVIOUS
        <2>1. n \in Nat \ {0} /\ n \in Nat /\ n - 1 \in Nat
            BY <1>0
        <2>2. h[n - 1] \in Nat
            BY <1>4, <2>1
        <2>. QED  BY <1>1, <1>3, <1>4, <2>1, <2>2
    <1> DEFINE r == [k \in 0 .. L |-> h[k]]
    <1>6. \A k \in 0 .. L : r[k] = h[k]
        OBVIOUS
    <1>7. r = [k \in 0 .. L |-> IF k = 0 THEN 0 ELSE r[k - 1] * b + d[k]]
        <2> SUFFICES ASSUME NEW k \in 0 .. L  PROVE h[k] = IF k = 0 THEN 0 ELSE r[k - 1] * b + d[k]
            OBVIOUS
        <2>1. CASE k = 0
            BY <1>4, <2>1
        <2>2. CASE k # 0
            <3>1. k \in 1 .. L /\ k - 1 \in 0 .. L
                BY <1>0, <2>2
            <3>. QED  BY <1>5, <1>6, <2>2, <3>1
        <2>. QED  BY <2>1, <2>2
    <1> DEFINE Is(v) == v = [k \in 0 .. L |-> IF k = 0 THEN 0 ELSE v[k - 1] * b + d[k]]
               v == Leading(b, d)
    <1>8. v = [k \in 0 .. L |-> IF k = 0 THEN 0 ELSE v[k - 1] * b + d[k]]
        <2>1. v = CHOOSE x : Is(x)
            BY DEF Leading, L
        <2>2. Is(r)
            BY <1>7
        <2> HIDE DEF Is
        <2>3. Is(v)
            BY <2>1, <2>2, Zenon
        <2>. QED  BY <2>3 DEF Is
    <1> HIDE DEF v, Is, r
    <1>9. v[0] = 0 /\ \A k \in 1 .. L : v[k] = v[k - 1] * b + d[k]
        <2>1. v[0] = 0
            BY <1>0, <1>8
        <2>2. ASSUME NEW k \in 1 .. L  PROVE v[k] = v[k - 1] * b + d[k]
            <3>1. k \in 0 .. L /\ k # 0
                BY <1>0
            <3>. QED  BY <1>8, <3>1, Zenon
        <2>. QED  BY <2>1, <2>2
    <1>10. \A k \in 0 .. L : v[k] = h[k]
        <2> DEFINE S == {k \in Nat : v[k] = h[k]}
        <2>1. 0 \in S
            BY <1>4, <1>9
        <2>2. ASSUME NEW n \in Nat, n < L, n \in S  PROVE n + 1 \in S
            <3>1. n + 1 \in 1 .. L /\ (n + 1) - 1 = n /\ v[n] = h[n]
                BY <1>0, <2>2
            <3>. QED  BY <1>5, <1>9, <3>1
        <2> HIDE DEF S
        <2>3. \A n \in 0 .. L : n \in S
            BY <1>0, <2>1, <2>2, BoundedInduction, Zenon
        <2>. QED  BY <2>3 DEF S
    <1>11. v \in [0 .. L -> Nat]
        <2>1. \A k \in 0 .. L : v[k] \in Nat
            <3> SUFFICES ASSUME NEW k \in 0 .. L  PROVE v[k] \in Nat
                OBVIOUS
            <3>1. k \in Nat
                BY <1>0
            <3>. QED  BY <1>4, <1>10, <3>1
        <2>. QED  BY <1>8, <2>1
    <1>. QED  BY <1>9, <1>11 DEF v, L

\* All the digits make up the number.
LEMMA FromDigitsIs ==
    ASSUME NEW b \in Nat, NEW d \in Seq(Nat)
    PROVE  FromDigits(b, d) \in Nat /\ FromDigits(b, d) = Leading(b, d)[Len(d)]
    <1>1. Len(d) \in 0 .. Len(d)
        OBVIOUS
    <1>. QED  BY <1>1, LeadingIs DEF FromDigits

\* x is at most y where the first k digits are concerned: a larger digit is
\* behind a smaller one.
AtMost(x, y, k) ==
    \A i \in 1 .. k : x[i] > y[i] => \E j \in 1 .. i - 1 : x[j] < y[j]

Below(x, y, k) == \E j \in 1 .. k : x[j] < y[j]

\* Comparing digits from the most significant one is comparing numbers.
LEMMA CompareDigits ==
    ASSUME NEW r \in Nat \ {0}, NEW x \in Seq(0 .. r - 1), NEW y \in Seq(0 .. r - 1), Len(x) = Len(y)
    PROVE  AtMost(x, y, Len(x)) <=> FromDigits(r, x) <= FromDigits(r, y)
    <1> DEFINE L == Len(x)
               a == Leading(r, x)
               b == Leading(r, y)
               S == {k \in Nat : /\ AtMost(x, y, k) <=> a[k] <= b[k]
                                 /\ AtMost(x, y, k) => (Below(x, y, k) <=> a[k] < b[k])}
    <1>0. x \in Seq(Nat) /\ y \in Seq(Nat) /\ r \in Nat /\ L \in Nat
        OBVIOUS
    <1>1. /\ a \in [0 .. L -> Nat] /\ a[0] = 0 /\ \A k \in 1 .. L : a[k] = a[k - 1] * r + x[k]
          /\ b \in [0 .. L -> Nat] /\ b[0] = 0 /\ \A k \in 1 .. L : b[k] = b[k - 1] * r + y[k]
        BY <1>0, LeadingIs
    <1>a. \A k \in 1 .. L : x[k] \in 0 .. r - 1 /\ y[k] \in 0 .. r - 1
        OBVIOUS
    <1>b. FromDigits(r, x) = a[L] /\ FromDigits(r, y) = b[L]
        BY <1>0, FromDigitsIs
    <1> HIDE DEF a, b, L
    <1>2. 0 \in S
        BY <1>1 DEF AtMost, Below
    <1>3. ASSUME NEW k \in Nat, k < L, k \in S  PROVE k + 1 \in S
        <2> DEFINE n == k + 1
        <2>1. /\ n \in 1 .. L /\ n \in Nat /\ k \in 0 .. L /\ n - 1 = k
              /\ \A i \in 1 .. n : i \in 1 .. k \/ i = n
              /\ \A i \in 1 .. k : i \in 1 .. n
            BY <1>0, <1>3
        <2>2. /\ AtMost(x, y, k) <=> a[k] <= b[k]
              /\ AtMost(x, y, k) => (Below(x, y, k) <=> a[k] < b[k])
            BY <1>3
        <2> HIDE DEF n
        <2>3. AtMost(x, y, n) <=> AtMost(x, y, k) /\ (x[n] > y[n] => Below(x, y, k))
            <3>1. ASSUME AtMost(x, y, n)  PROVE AtMost(x, y, k) /\ (x[n] > y[n] => Below(x, y, k))
                <4>1. AtMost(x, y, k)
                    BY <2>1, <3>1 DEF AtMost
                <4>2. n \in 1 .. n
                    BY <2>1
                <4>3. x[n] > y[n] => Below(x, y, n - 1)
                    BY <3>1, <4>2, Zenon DEF AtMost, Below
                <4>. QED  BY <2>1, <4>1, <4>3
            <3>2. ASSUME AtMost(x, y, k), x[n] > y[n] => Below(x, y, k), NEW i \in 1 .. n, x[i] > y[i]
                  PROVE  Below(x, y, i - 1)
                <4>1. CASE i = n
                    BY <2>1, <3>2, <4>1
                <4>2. CASE i \in 1 .. k
                    BY <3>2, <4>2, Zenon DEF AtMost, Below
                <4>. QED  BY <2>1, <4>1, <4>2
            <3>3. ASSUME AtMost(x, y, k), x[n] > y[n] => Below(x, y, k)  PROVE AtMost(x, y, n)
                BY <3>2, <3>3, Zenon DEF AtMost, Below
            <3>. QED  BY <3>1, <3>3, Zenon
        <2>4. Below(x, y, n) <=> Below(x, y, k) \/ x[n] < y[n]
            BY <2>1 DEF Below
        <2>5. a[n] = a[k] * r + x[n] /\ b[n] = b[k] * r + y[n]
            BY <1>1, <2>1
        <2>6. /\ a[k] \in Nat /\ b[k] \in Nat /\ x[n] \in 0 .. r - 1 /\ y[n] \in 0 .. r - 1
            BY <1>1, <1>a, <2>1
        <2>7. /\ a[n] \in Nat /\ b[n] \in Nat
              /\ a[k] < b[k] => a[n] < b[n]
              /\ b[k] < a[k] => b[n] < a[n]
              /\ a[k] = b[k] => (a[n] <= b[n] <=> x[n] <= y[n]) /\ (b[n] <= a[n] <=> y[n] <= x[n])
            <3> DEFINE p == a[k]
                       q == b[k]
                       u == x[n]
                       w == y[n]
            <3>1. p \in Nat /\ q \in Nat /\ u \in 0 .. r - 1 /\ w \in 0 .. r - 1
                BY <2>6
            <3> HIDE DEF p, q, u, w
            <3>2. /\ p * r + u \in Nat /\ (p < q => p * r + u < q * r + w)
                  /\ p = q => (p * r + u <= q * r + w <=> u <= w)
                BY <3>1, DigitsDecide
            <3>3. /\ q * r + w \in Nat /\ (q < p => q * r + w < p * r + u)
                  /\ q = p => (q * r + w <= p * r + u <=> w <= u)
                BY <3>1, DigitsDecide
            <3>. QED  BY <2>5, <3>2, <3>3, Zenon DEF p, q, u, w
        <2>8. x[n] \in Nat /\ y[n] \in Nat
            BY <2>6
        <2>9. /\ AtMost(x, y, n) <=> a[n] <= b[n]
              /\ AtMost(x, y, n) => (Below(x, y, n) <=> a[n] < b[n])
            <3>1. CASE a[k] < b[k]
                <4>1. AtMost(x, y, k) /\ Below(x, y, k)
                    BY <2>2, <2>6, <3>1
                <4>2. a[n] < b[n] /\ a[n] <= b[n]
                    BY <2>7, <3>1
                <4>. QED  BY <2>3, <2>4, <4>1, <4>2, Zenon
            <3>2. CASE b[k] < a[k]
                <4>1. ~AtMost(x, y, k)
                    BY <2>2, <2>6, <3>2
                <4>2. ~(a[n] <= b[n])
                    BY <2>7, <3>2
                <4>. QED  BY <2>3, <4>1, <4>2, Zenon
            <3>3. CASE a[k] = b[k]
                <4>1. AtMost(x, y, k) /\ ~Below(x, y, k)
                    BY <2>2, <2>6, <3>3
                <4>2. /\ a[n] <= b[n] <=> ~(x[n] > y[n])
                      /\ a[n] < b[n] <=> x[n] < y[n]
                    <5>1. (a[n] <= b[n] <=> x[n] <= y[n]) /\ (b[n] <= a[n] <=> y[n] <= x[n])
                        BY <2>7, <3>3, Zenon
                    <5>2. a[n] \in Nat /\ b[n] \in Nat
                        BY <2>7
                    <5> DEFINE aa == a[n]
                               bb == b[n]
                               xx == x[n]
                               yy == y[n]
                    <5>3. /\ (aa <= bb <=> xx <= yy) /\ (bb <= aa <=> yy <= xx)
                          /\ aa \in Nat /\ bb \in Nat /\ xx \in Nat /\ yy \in Nat
                        BY <2>8, <5>1, <5>2
                    <5> HIDE DEF aa, bb, xx, yy
                    <5>4. (aa <= bb <=> ~(xx > yy)) /\ (aa < bb <=> xx < yy)
                        BY <5>3
                    <5>. QED  BY <5>4, Zenon DEF aa, bb, xx, yy
                <4>. QED  BY <2>3, <2>4, <4>1, <4>2, Zenon
            <3>. QED  BY <2>6, <3>1, <3>2, <3>3
        <2>. QED  BY <2>1, <2>9 DEF n
    <1> HIDE DEF S
    <1>4. \A k \in 0 .. L : k \in S
        BY <1>0, <1>2, <1>3, BoundedInduction, Zenon
    <1>5. L \in S
        BY <1>0, <1>4
    <1>. QED  BY <1>b, <1>5 DEF S, L

\* A number of L digits is below the L-th power of the base.
LEMMA DigitsBound ==
    ASSUME NEW r \in Nat \ {0}, NEW d \in Seq(0 .. r - 1)
    PROVE  FromDigits(r, d) < Power(r)[Len(d)]
    <1> DEFINE L == Len(d)
               v == Leading(r, d)
               p == Power(r)
               S == {k \in Nat : v[k] < p[k]}
    <1>0. d \in Seq(Nat) /\ r \in Nat /\ L \in Nat /\ \A k \in 1 .. L : d[k] \in 0 .. r - 1
        OBVIOUS
    <1>1. v \in [0 .. L -> Nat] /\ v[0] = 0 /\ \A k \in 1 .. L : v[k] = v[k - 1] * r + d[k]
        BY <1>0, LeadingIs
    <1>2. p \in [Nat -> Nat \ {0}] /\ p[0] = 1 /\ \A k \in Nat : p[k + 1] = r * p[k]
        BY PowerIs
    <1>3. FromDigits(r, d) = v[L]
        BY <1>0, FromDigitsIs
    <1> HIDE DEF L, v, p
    <1>4. 0 \in S
        <2>1. v[0] < p[0]
            BY <1>1, <1>2, 0 < 1
        <2>. QED  BY <2>1
    <1>5. ASSUME NEW k \in Nat, k < L, k \in S  PROVE k + 1 \in S
        <2>1. k + 1 \in 1 .. L /\ k \in 0 .. L /\ (k + 1) - 1 = k /\ v[k] < p[k]
            BY <1>0, <1>5
        <2>2. v[k + 1] = v[k] * r + d[k + 1] /\ p[k + 1] = r * p[k]
            BY <1>1, <1>2, <2>1
        <2> DEFINE a == v[k]
                   b == p[k]
                   x == d[k + 1]
        <2>3. a \in Nat /\ b \in Nat /\ x \in 0 .. r - 1 /\ a < b
            BY <1>0, <1>1, <1>2, <2>1
        <2>4. v[k + 1] = a * r + x /\ p[k + 1] = r * b
            BY <2>2
        <2> HIDE DEF a, b, x
        <2>5. 0 \in 0 .. r - 1
            OBVIOUS
        <2>6. a * r + x < b * r + 0
            BY <2>3, <2>5, DigitsDecide
        <2>7. b * r + 0 = r * b
            BY <2>3
        <2>8. v[k + 1] < p[k + 1]
            BY <2>4, <2>6, <2>7, Zenon
        <2>. QED  BY <2>8
    <1> HIDE DEF S
    <1>6. \A k \in 0 .. L : k \in S
        BY <1>0, <1>4, <1>5, BoundedInduction, Zenon
    <1>7. L \in S
        BY <1>0, <1>6
    <1>. QED  BY <1>3, <1>7 DEF S, L, p

\* The digits that division gives make up the number again.
LEMMA DigitsRestore ==
    ASSUME NEW r \in Nat \ {0}, NEW L \in Nat, NEW n \in Nat, n < Power(r)[L],
           NEW d \in Seq(0 .. r - 1), Len(d) = L,
           \A k \in 1 .. L : d[k] = (n \div Power(r)[L - k]) % r
    PROVE  FromDigits(r, d) = n
    <1> DEFINE v == Leading(r, d)
               p == Power(r)
               S == {k \in Nat : k <= L => v[k] = n \div p[L - k]}
    <1>0. d \in Seq(Nat) /\ r \in Nat
        OBVIOUS
    <1>1. v \in [0 .. L -> Nat] /\ v[0] = 0 /\ \A k \in 1 .. L : v[k] = v[k - 1] * r + d[k]
        BY <1>0, LeadingIs
    <1>2. p \in [Nat -> Nat \ {0}] /\ p[0] = 1 /\ \A k \in Nat : p[k + 1] = r * p[k]
        BY PowerIs
    <1>3. FromDigits(r, d) = v[L]
        BY <1>0, FromDigitsIs
    <1>a. n < p[L] /\ \A k \in 1 .. L : d[k] = (n \div p[L - k]) % r
        OBVIOUS
    <1> HIDE DEF v, p
    <1>4. 0 \in S
        <2>1. L - 0 = L /\ p[L] \in Nat \ {0}
            BY <1>2
        <2>2. n \div p[L] = 0
            <3>1. 0 * p[L] <= n /\ n < 0 * p[L] + p[L]
                BY <1>a, <2>1
            <3>. QED  BY <2>1, <3>1, QuotientUnique
        <2>. QED  BY <1>1, <2>1, <2>2
    <1>5. ASSUME NEW k \in Nat, k < L, k \in S  PROVE k + 1 \in S
        <2> DEFINE e == L - (k + 1)
                   m == n \div p[e]
        <2>1. k + 1 \in 1 .. L /\ k \in 0 .. L /\ (k + 1) - 1 = k /\ e \in Nat /\ L - k = e + 1 /\ k <= L
            BY <1>5
        <2>2. v[k] = n \div p[L - k]
            BY <1>5, <2>1
        <2>3. p[e] \in Nat \ {0} /\ p[L - k] = r * p[e]
            BY <1>2, <2>1
        <2>4. n \div p[L - k] = m \div r
            <3>1. ASSUME NEW q \in Nat \ {0}  PROVE (n \div q) \div r = n \div (r * q)
                BY DivideTwice
            <3>. QED  BY <2>3, <3>1, Zenon
        <2>5. d[k + 1] = m % r /\ v[k + 1] = v[k] * r + d[k + 1]
            BY <1>1, <1>a, <2>1
        <2>6. m \in Nat
            BY <2>3, QuotientBounds
        <2>b. L - (k + 1) = e
            OBVIOUS
        <2> HIDE DEF m, e
        <2>7. (m \div r) * r + (m % r) = m
            BY <2>6
        <2>8. v[k + 1] = m
            BY <2>2, <2>4, <2>5, <2>7, Zenon
        <2>. QED  BY <2>8, <2>b DEF m
    <1>6. \A k \in 0 .. L : k \in S
        <2> HIDE DEF S
        <2>. QED  BY <1>4, <1>5, BoundedInduction, Zenon
    <1>7. v[L] = n \div p[L - L]
        BY <1>6
    <1>8. n \div p[L - L] = n
        <2>1. L - L = 0 /\ p[L - L] = 1
            BY <1>2
        <2>2. n \div 1 = n
            OBVIOUS
        <2>. QED  BY <2>1, <2>2
    <1>. QED  BY <1>3, <1>7, <1>8

\* Division with remainder, taken apart.
LEMMA Divided ==
    ASSUME NEW q \in Nat, NEW d \in Nat \ {0}, NEW m \in Nat, m < d
    PROVE  q * d + m \in Nat /\ (q * d + m) \div d = q /\ (q * d + m) % d = m
    <1> DEFINE n == q * d + m
    <1>1. q * d \in Nat /\ n \in Nat /\ q * d <= n /\ n < q * d + d
        OBVIOUS
    <1>2. n \div d = q
        <2> HIDE DEF n
        <2>. QED  BY <1>1, QuotientUnique
    <1>3. n = d * (n \div d) + (n % d)
        <2> HIDE DEF n
        <2>. QED  BY <1>1
    <1>4. n % d \in Nat
        <2> HIDE DEF n
        <2>. QED  BY <1>1
    <1> DEFINE k == n % d
    <1>5. n = q * d + k
        <2>1. d * q = q * d
            OBVIOUS
        <2>. QED  BY <1>2, <1>3, <2>1, Zenon
    <1>6. n = q * d + m
        OBVIOUS
    <1>7. k = m
        <2> DEFINE a == q * d
        <2>1. a \in Nat /\ k \in Nat /\ a + k = a + m
            BY <1>1, <1>4, <1>5, <1>6
        <2> HIDE DEF a, k
        <2>. QED  BY <2>1
    <1>. QED  BY <1>1, <1>2, <1>7

\* What is read of the first k digits depends on these alone.
LEMMA LeadingAgree ==
    ASSUME NEW r \in Nat, NEW c \in Seq(Nat), NEW d \in Seq(Nat), NEW k \in Nat,
           k <= Len(c), k <= Len(d), \A j \in 1 .. k : c[j] = d[j]
    PROVE  Leading(r, c)[k] = Leading(r, d)[k]
    <1> DEFINE u == Leading(r, c)
               v == Leading(r, d)
               S == {j \in Nat : u[j] = v[j]}
    <1>1. u[0] = 0 /\ \A j \in 1 .. Len(c) : u[j] = u[j - 1] * r + c[j]
        BY LeadingIs
    <1>2. v[0] = 0 /\ \A j \in 1 .. Len(d) : v[j] = v[j - 1] * r + d[j]
        BY LeadingIs
    <1> HIDE DEF u, v
    <1>3. 0 \in S
        BY <1>1, <1>2
    <1>4. ASSUME NEW j \in Nat, j < k, j \in S  PROVE j + 1 \in S
        <2>1. j + 1 \in 1 .. Len(c) /\ j + 1 \in 1 .. Len(d) /\ j + 1 \in 1 .. k /\ (j + 1) - 1 = j
            BY <1>4
        <2>2. u[j + 1] = u[j] * r + c[j + 1] /\ v[j + 1] = v[j] * r + d[j + 1] /\ c[j + 1] = d[j + 1]
            BY <1>1, <1>2, <2>1
        <2>3. u[j] = v[j]
            BY <1>4
        <2>4. u[j + 1] = v[j + 1]
            BY <2>2, <2>3, Zenon
        <2>. QED  BY <2>4
    <1> HIDE DEF S
    <1>5. \A j \in 0 .. k : j \in S
        BY <1>3, <1>4, BoundedInduction, Zenon
    <1>6. k \in S
        BY <1>5
    <1>. QED  BY <1>6 DEF S, u, v

\* The last digit and the number before it.
LEMMA LastDigit ==
    ASSUME NEW r \in Nat \ {0}, NEW d \in Seq(0 .. r - 1), Len(d) > 0
    PROVE  FromDigits(r, d) % r = d[Len(d)] /\ FromDigits(r, d) \div r = Leading(r, d)[Len(d) - 1]
    <1> DEFINE L == Len(d)
               q == Leading(r, d)[L - 1]
               x == d[L]
    <1>0. d \in Seq(Nat) /\ r \in Nat /\ L \in 1 .. L /\ L - 1 \in 0 .. L /\ x \in Nat /\ x < r
        OBVIOUS
    <1>1. FromDigits(r, d) = Leading(r, d)[L]
        BY <1>0, FromDigitsIs
    <1>2. Leading(r, d)[L] = q * r + x /\ q \in Nat
        BY <1>0, LeadingIs
    <1>. QED
        <2> HIDE DEF q, x
        <2>1. (q * r + x) \div r = q /\ (q * r + x) % r = x
            BY <1>0, <1>2, Divided
        <2>. QED  BY <1>1, <1>2, <2>1 DEF q, x, L

\* A number split after its first k digits.
LEMMA DigitsSplit ==
    ASSUME NEW r \in Nat \ {0}, NEW d \in Seq(0 .. r - 1), NEW k \in 0 .. Len(d)
    PROVE  /\ Leading(r, d)[k] \in Nat /\ FromDigits(r, SubSeq(d, k + 1, Len(d))) \in Nat
           /\ FromDigits(r, d) = Leading(r, d)[k] * Power(r)[Len(d) - k]
                                    + FromDigits(r, SubSeq(d, k + 1, Len(d)))
    <1> DEFINE n == Len(d) - k
               e == SubSeq(d, k + 1, Len(d))
               v == Leading(r, d)
               u == Leading(r, e)
               p == Power(r)
               S == {j \in Nat : v[k + j] = v[k] * p[j] + u[j]}
    <1>0. /\ d \in Seq(Nat) /\ r \in Nat /\ n \in Nat /\ k \in Nat /\ k + n = Len(d)
          /\ e \in Seq(Nat) /\ Len(e) = n /\ \A j \in 1 .. n : e[j] = d[k + j]
        OBVIOUS
    <1>1. v \in [0 .. Len(d) -> Nat] /\ \A j \in 1 .. Len(d) : v[j] = v[j - 1] * r + d[j]
        BY <1>0, LeadingIs
    <1>2. u \in [0 .. n -> Nat] /\ u[0] = 0 /\ \A j \in 1 .. n : u[j] = u[j - 1] * r + e[j]
        BY <1>0, LeadingIs
    <1>3. p \in [Nat -> Nat \ {0}] /\ p[0] = 1 /\ \A j \in Nat : p[j + 1] = r * p[j]
        BY PowerIs
    <1>4. FromDigits(r, d) = v[Len(d)] /\ FromDigits(r, e) = u[n] /\ FromDigits(r, e) \in Nat
        BY <1>0, FromDigitsIs
    <1>5. v[k] \in Nat
        BY <1>1
    <1> HIDE DEF v, u, p, e, n
    <1>6. \A j \in 1 .. n : e[j] \in Nat /\ e[j] = d[k + j]
        BY <1>0
    <1>7. 0 \in S
        <2>1. k + 0 = k /\ v[k] * 1 + 0 = v[k]
            BY <1>0, <1>5
        <2>2. v[k + 0] = v[k] * p[0] + u[0]
            BY <1>2, <1>3, <2>1, Zenon
        <2>. QED  BY <2>2
    <1>8. ASSUME NEW j \in Nat, j < n, j \in S  PROVE j + 1 \in S
        <2> DEFINE a == v[k]
                   b == p[j]
                   m == u[j]
                   x == e[j + 1]
        <2>1. /\ j + 1 \in 1 .. n /\ (j + 1) - 1 = j /\ j \in 0 .. n
              /\ k + (j + 1) \in 1 .. Len(d) /\ (k + (j + 1)) - 1 = k + j
            BY <1>0, <1>8
        <2>2. v[k + (j + 1)] = v[k + j] * r + x /\ u[j + 1] = m * r + x /\ p[j + 1] = r * b
            BY <1>1, <1>2, <1>3, <1>6, <2>1
        <2>3. v[k + j] = a * b + m
            BY <1>8
        <2>4. a \in Nat /\ b \in Nat /\ m \in Nat /\ x \in Nat
            BY <1>2, <1>3, <1>5, <1>6, <2>1
        <2> HIDE DEF a, b, m, x
        <2>5. (a * b + m) * r + x = a * (r * b) + (m * r + x)
            BY <1>0, <2>4
        <2>6. v[k + (j + 1)] = a * p[j + 1] + u[j + 1]
            BY <2>2, <2>3, <2>5, Zenon
        <2>. QED  BY <2>6 DEF a
    <1> HIDE DEF S
    <1>9. \A j \in 0 .. n : j \in S
        BY <1>0, <1>7, <1>8, BoundedInduction, Zenon
    <1>10. n \in S
        BY <1>0, <1>9
    <1>11. v[Len(d)] = v[k] * p[n] + u[n]
        BY <1>0, <1>10 DEF S
    <1>. QED  BY <1>4, <1>5, <1>11, Zenon DEF v, p, e, n

\* Dividing by a power of the base cuts the number there.
LEMMA DigitsCut ==
    ASSUME NEW r \in Nat \ {0}, NEW d \in Seq(0 .. r - 1), NEW k \in 0 .. Len(d)
    PROVE  /\ FromDigits(r, d) \div Power(r)[Len(d) - k] = Leading(r, d)[k]
           /\ FromDigits(r, d) % Power(r)[Len(d) - k] = FromDigits(r, SubSeq(d, k + 1, Len(d)))
    <1> DEFINE e == SubSeq(d, k + 1, Len(d))
               n == Len(d) - k
               a == Leading(r, d)[k]
               b == Power(r)[n]
               m == FromDigits(r, e)
    <1>1. e \in Seq(0 .. r - 1) /\ Len(e) = n /\ n \in Nat
        OBVIOUS
    <1>2. a \in Nat /\ m \in Nat /\ FromDigits(r, d) = a * b + m
        BY DigitsSplit
    <1>3. b \in Nat \ {0}
        BY <1>1, PowerIs
    <1>4. m < b
        <2> HIDE DEF e, n
        <2>1. FromDigits(r, e) < Power(r)[Len(e)]
            BY <1>1, DigitsBound
        <2>. QED  BY <1>1, <2>1
    <1>5. (a * b + m) \div b = a /\ (a * b + m) % b = m
        <2> HIDE DEF a, b, m
        <2>. QED  BY <1>2, <1>3, <1>4, Divided
    <1>. QED  BY <1>2, <1>5, Zenon

\* The digits of the number that a sequence of digits makes up are these.
LEMMA DigitsOf ==
    ASSUME NEW r \in Nat \ {0}, NEW d \in Seq(0 .. r - 1), NEW k \in 1 .. Len(d)
    PROVE  (FromDigits(r, d) \div Power(r)[Len(d) - k]) % r = d[k]
    <1> DEFINE q == Leading(r, d)[k - 1]
               x == d[k]
    <1>0. d \in Seq(Nat) /\ r \in Nat /\ k \in 0 .. Len(d) /\ k - 1 \in 0 .. Len(d) /\ x \in Nat /\ x < r
        OBVIOUS
    <1>1. FromDigits(r, d) \div Power(r)[Len(d) - k] = Leading(r, d)[k]
        BY <1>0, DigitsCut
    <1>2. Leading(r, d)[k] = q * r + x /\ q \in Nat
        BY <1>0, LeadingIs
    <1> HIDE DEF q, x
    <1>3. (q * r + x) % r = x
        BY <1>0, <1>2, Divided
    <1>. QED  BY <1>1, <1>2, <1>3 DEF x

=============================================================================
