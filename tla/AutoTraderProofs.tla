-------------------------- MODULE AutoTraderProofs --------------------------
(***************************************************************************)
(* Proofs about AutoTrader, which decides on the trades, for any markets,  *)
(* any number of manual requests and any limit of the trade count; and     *)
(* about Sizing, which says what a trade sends and what its repair may     *)
(* lose, for any books, prices, sizes and settings.                        *)
(***************************************************************************)
EXTENDS AutoTrader, Sizing, FiniteSetTheorems, WellFoundedInduction, TLAPS

(***************************************************************************)
(* What is sent, and what its repair may lose: Sizing.                     *)
(***************************************************************************)

-----------------------------------------------------------------------------
(* Numbers.                                                                *)

LEMMA LeastNumber ==
  ASSUME NEW B, B \subseteq Nat, B # {}
  PROVE  \E n \in B : \A k \in B : n <= k
<1>1. PICK n \in B : \A k \in B : <<k, n>> \notin OpToRel(<, Nat)
  BY NatLessThanWellFounded, WFMin, Zenon
<1>2. ASSUME NEW k \in B PROVE n <= k
  <2>1. ~(k < n)
    BY <1>1, <1>2 DEF OpToRel
  <2> QED BY <2>1
<1> QED BY <1>1, <1>2, Zenon

LEMMA MinIsLeast ==
  ASSUME NEW S, S \subseteq Nat, S # {}
  PROVE  Min(S) \in S /\ \A y \in S : Min(S) <= y
BY LeastNumber DEF Min

LEMMA MaxIsGreatest ==
  ASSUME NEW S, S \subseteq Nat, S # {}, NEW b \in Nat, \A x \in S : x <= b
  PROVE  Max(S) \in S /\ \A y \in S : y <= Max(S)
<1> DEFINE B == {b - x : x \in S}
<1>1. B \subseteq Nat
  OBVIOUS
<1>4. B # {}
  OBVIOUS
<1>2. PICK n \in B : \A k \in B : n <= k
  <2> HIDE DEF B
  <2> QED BY <1>1, <1>4, LeastNumber
<1>3. PICK x \in S : n = b - x
  BY <1>2
<1>6. \A y \in S : x >= y
  <2> SUFFICES ASSUME NEW y \in S PROVE x >= y
    OBVIOUS
  <2>1. b - y \in B /\ x \in Nat /\ y \in Nat
    OBVIOUS
  <2>2. b - x <= b - y
    BY <1>2, <1>3, <2>1
  <2> QED BY <2>1, <2>2
<1>5. Max(S) \in S /\ \A y \in S : Max(S) >= y
  BY <1>3, <1>6 DEF Max
<1> QED BY <1>5

LEMMA MinOfTwo ==
  ASSUME NEW a \in Nat, NEW b \in Nat
  PROVE  Min({a, b}) = IF a <= b THEN a ELSE b
<1>1. Min({a, b}) \in {a, b} /\ Min({a, b}) <= a /\ Min({a, b}) <= b
  BY MinIsLeast
<1> QED BY <1>1

LEMMA CeilDivBounds ==
  ASSUME NEW a \in Nat, NEW b \in Nat \ {0}
  PROVE  CeilDiv(a, b) \in Nat /\ a <= b * CeilDiv(a, b) /\ b * CeilDiv(a, b) < a + b
BY DEF CeilDiv

LEMMA HalfEvenBounds ==
  ASSUME NEW a \in Nat, NEW b \in Nat \ {0}
  PROVE  /\ HalfEven(a, b) \in Nat
         /\ 2 * a - b <= 2 * (b * HalfEven(a, b)) /\ 2 * (b * HalfEven(a, b)) <= 2 * a + b
<1> DEFINE q == a \div b
           r == a % b
<1>1. q \in Nat /\ r \in 0..(b - 1) /\ a = b * q + r
  OBVIOUS
<1>2. HalfEven(a, b) = IF 2 * r > b \/ (2 * r = b /\ q % 2 = 1) THEN q + 1 ELSE q
  BY DEF HalfEven
<1> HIDE DEF q, r
<1>3. b * (q + 1) = b * q + b
  BY <1>1
<1>4. b * q \in Nat
  BY <1>1
<1> QED BY <1>1, <1>2, <1>3, <1>4

LEMMA HalfEvenGrows ==
  ASSUME NEW a \in Nat, NEW c \in Nat, a <= c, NEW b \in Nat \ {0}
  PROVE  HalfEven(a, b) <= HalfEven(c, b)
<1> DEFINE q == a \div b
           r == a % b
           s == c \div b
           t == c % b
<1>1. q \in Nat /\ r \in 0..(b - 1) /\ a = b * q + r /\ s \in Nat /\ t \in 0..(b - 1) /\ c = b * s + t
  OBVIOUS
<1>2. /\ HalfEven(a, b) = IF 2 * r > b \/ (2 * r = b /\ q % 2 = 1) THEN q + 1 ELSE q
      /\ HalfEven(c, b) = IF 2 * t > b \/ (2 * t = b /\ s % 2 = 1) THEN s + 1 ELSE s
  BY DEF HalfEven
<1> HIDE DEF q, r, s, t
<1>3. q <= s
  <2> SUFFICES ASSUME s + 1 <= q PROVE FALSE
    BY <1>1
  <2>1. b * (s + 1) <= b * q
    BY <1>1
  <2>2. b * (s + 1) = b * s + b
    BY <1>1
  <2>3. b * s \in Nat /\ b * q \in Nat
    BY <1>1
  <2> QED BY <1>1, <2>1, <2>2, <2>3
<1>4. CASE q = s
  <2>1. r <= t
    <3>1. b * q \in Nat
      BY <1>1
    <3> QED BY <1>1, <1>4, <3>1
  <2> QED BY <1>1, <1>2, <1>4, <2>1
<1>5. CASE q < s
  BY <1>1, <1>2, <1>5
<1> QED BY <1>1, <1>3, <1>4, <1>5

LEMMA Scaled == ASSUME NEW k \in Nat \ {0}, NEW x \in Int, NEW y \in Int, k * x <= k * y PROVE x <= y
OBVIOUS

LEMMA ScaledLess == ASSUME NEW k \in Nat \ {0}, NEW x \in Int, NEW y \in Int, k * x < k * y PROVE x < y
OBVIOUS

-----------------------------------------------------------------------------
(* Fees.  A fee is its rate times the spread, in two million parts of a     *)
(* mill, and at most a cent more on Kalshi, half a cent more or less on     *)
(* Polymarket.                                                             *)
Unit == 2000000
Rate(venue) == IF venue = "kalshi" THEN 140 ELSE 139
Under(venue) == IF venue = "kalshi" THEN 0 ELSE 5
Over(venue) == IF venue = "kalshi" THEN 10 ELSE 5

LEMMA KalshiFee ==
  ASSUME NEW num \in Nat, NEW den \in Nat \ {0}
  PROVE  /\ kalshi_taker_fee(num, den) \in Nat
         /\ 140 * num <= Unit * (den * kalshi_taker_fee(num, den))
         /\ Unit * (den * kalshi_taker_fee(num, den)) < 140 * num + 10 * (Unit * den)
<1> DEFINE c == CeilDiv(7 * num, 1000000 * den)
<1>1. 7 * num \in Nat /\ 1000000 * den \in Nat \ {0}
  OBVIOUS
<1>2. /\ c \in Nat /\ 7 * num <= (1000000 * den) * c
      /\ (1000000 * den) * c < 7 * num + 1000000 * den
  BY <1>1, CeilDivBounds
<1>3. kalshi_taker_fee(num, den) = 10 * c
  BY DEF kalshi_taker_fee
<1> HIDE DEF c
<1>4. (1000000 * den) * c = 1000000 * (den * c) /\ den * c \in Nat
  BY <1>2
<1>5. Unit * (den * (10 * c)) = 20000000 * (den * c)
  BY <1>2 DEF Unit
<1> QED BY <1>2, <1>3, <1>4, <1>5 DEF Unit

LEMMA PolymarketFee ==
  ASSUME NEW num \in Nat, NEW den \in Nat \ {0}
  PROVE  /\ polymarket_taker_fee(num, den) \in Nat
         /\ 139 * num - 5 * (Unit * den) <= Unit * (den * polymarket_taker_fee(num, den))
         /\ Unit * (den * polymarket_taker_fee(num, den)) <= 139 * num + 5 * (Unit * den)
<1> DEFINE h == HalfEven(139 * num, 20000000 * den)
<1>1. 139 * num \in Nat /\ 20000000 * den \in Nat \ {0}
  OBVIOUS
<1>2. /\ h \in Nat /\ 2 * (139 * num) - 20000000 * den <= 2 * ((20000000 * den) * h)
      /\ 2 * ((20000000 * den) * h) <= 2 * (139 * num) + 20000000 * den
  BY <1>1, HalfEvenBounds
<1>3. polymarket_taker_fee(num, den) = 10 * h
  BY DEF polymarket_taker_fee
<1> HIDE DEF h
<1>4. (20000000 * den) * h = 20000000 * (den * h) /\ den * h \in Nat
  BY <1>2
<1>5. Unit * (den * (10 * h)) = 20000000 * (den * h)
  BY <1>2 DEF Unit
<1> QED BY <1>2, <1>3, <1>4, <1>5 DEF Unit

LEMMA FeeBounds ==
  ASSUME NEW venue, NEW num \in Nat, NEW den \in Nat \ {0}
  PROVE  /\ Fee(venue, num, den) \in Nat
         /\ Rate(venue) * num - Under(venue) * (Unit * den) <= Unit * (den * Fee(venue, num, den))
         /\ Unit * (den * Fee(venue, num, den)) <= Rate(venue) * num + Over(venue) * (Unit * den)
         /\ venue = "kalshi" => Unit * (den * Fee(venue, num, den)) < Rate(venue) * num + Over(venue) * (Unit * den)
<1>1. CASE venue = "kalshi"
  <2>1. Fee(venue, num, den) = kalshi_taker_fee(num, den)
    BY <1>1 DEF Fee
  <2>2. Rate(venue) = 140 /\ Under(venue) = 0 /\ Over(venue) = 10 /\ Unit * den \in Nat
    BY <1>1, SMT DEF Rate, Under, Over, Unit
  <2>3. PICK fee : fee = kalshi_taker_fee(num, den)
    OBVIOUS
  <2>4. /\ fee \in Nat /\ 140 * num <= Unit * (den * fee)
        /\ Unit * (den * fee) < 140 * num + 10 * (Unit * den)
    BY <2>3, KalshiFee, SMT
  <2>5. Unit * (den * fee) \in Nat
    BY <2>4, SMT DEF Unit
  <2> QED BY <2>1, <2>2, <2>3, <2>4, <2>5, SMT
<1>2. CASE venue # "kalshi"
  <2>1. Fee(venue, num, den) = polymarket_taker_fee(num, den)
    BY <1>2 DEF Fee
  <2>2. Rate(venue) = 139 /\ Under(venue) = 5 /\ Over(venue) = 5 /\ Unit * den \in Nat
    BY <1>2, SMT DEF Rate, Under, Over, Unit
  <2> QED BY <1>2, <2>1, <2>2, PolymarketFee, SMT
<1> QED BY <1>1, <1>2

LEMMA FeeOfWhole ==
  ASSUME NEW venue, NEW num \in Nat
  PROVE  /\ Fee(venue, num, 1) \in Nat
         /\ Rate(venue) * num - Under(venue) * Unit <= Unit * Fee(venue, num, 1)
         /\ Unit * Fee(venue, num, 1) <= Rate(venue) * num + Over(venue) * Unit
         /\ venue = "kalshi" => Unit * Fee(venue, num, 1) < Rate(venue) * num + Over(venue) * Unit
<1>1. PICK fee : fee = Fee(venue, num, 1)
  OBVIOUS
<1>2. /\ fee \in Nat
      /\ Rate(venue) * num - Under(venue) * (Unit * 1) <= Unit * (1 * fee)
      /\ Unit * (1 * fee) <= Rate(venue) * num + Over(venue) * (Unit * 1)
      /\ venue = "kalshi" => Unit * (1 * fee) < Rate(venue) * num + Over(venue) * (Unit * 1)
  BY <1>1, FeeBounds
<1>3. 1 * fee = fee /\ Unit * 1 = Unit
  BY <1>2 DEF Unit
<1> QED BY <1>1, <1>2, <1>3

\* Fees are in whole cents.
LEMMA FeeInCents ==
  ASSUME NEW venue, NEW num \in Nat, NEW den \in Nat \ {0}
  PROVE  \E c \in Nat : Fee(venue, num, den) = 10 * c
<1>1. CeilDiv(7 * num, 1000000 * den) \in Nat /\ HalfEven(139 * num, 20000000 * den) \in Nat
  <2>1. 7 * num \in Nat /\ 1000000 * den \in Nat \ {0} /\ 139 * num \in Nat /\ 20000000 * den \in Nat \ {0}
    BY SMT
  <2>2. CeilDiv(7 * num, 1000000 * den) \in Nat
    BY <2>1, CeilDivBounds, SMT
  <2>3. HalfEven(139 * num, 20000000 * den) \in Nat
    BY <2>1, HalfEvenBounds, SMT
  <2> QED BY <2>2, <2>3, SMT
<1> QED BY <1>1, SMT DEF Fee, kalshi_taker_fee, polymarket_taker_fee

-----------------------------------------------------------------------------
(* What a repair loses.                                                    *)

\* A bound per contract, and half a cent on the whole, holds of a part of it.
LEMMA PartOfBound ==
  ASSUME NEW m \in Nat \ {0}, NEW d \in 0..m, NEW k \in Int, NEW w \in Nat, NEW q \in Nat,
         m * k <= w * (m * q + 5)
  PROVE  d * k <= w * (d * q + 5)
<1>1. d \in Nat /\ d <= m
  OBVIOUS
<1>2. d * (m * k) <= d * (w * (m * q + 5))
  <2> DEFINE x == m * k
             y == w * (m * q + 5)
  <2>1. x \in Int /\ y \in Int /\ x <= y
    OBVIOUS
  <2> HIDE DEF x, y
  <2>2. d * x <= d * y
    BY <1>1, <2>1
  <2> QED BY <2>2 DEF x, y
<1>3. d * (w * (m * q + 5)) = m * (w * (d * q)) + 5 * (w * d)
  BY <1>1
<1>4. 5 * (w * d) <= m * (5 * w)
  <2>1. w * d <= w * m
    BY <1>1
  <2>2. w * d \in Nat /\ w * m \in Nat /\ m * (5 * w) = 5 * (w * m)
    BY <1>1
  <2> QED BY <2>1, <2>2
<1>5. m * (w * (d * q + 5)) = m * (w * (d * q)) + m * (5 * w)
  BY <1>1
<1>6. d * (m * k) = m * (d * k)
  BY <1>1
<1>7. m * (d * k) <= m * (w * (d * q + 5))
  <2>1. /\ m * (d * k) \in Int /\ m * (w * (d * q)) \in Int /\ 5 * (w * d) \in Int
        /\ m * (5 * w) \in Int /\ m * (w * (d * q + 5)) \in Int
    BY <1>1
  <2> QED BY <1>2, <1>3, <1>4, <1>5, <1>6, <2>1
<1>8. d * k \in Int /\ w * (d * q + 5) \in Int
  BY <1>1
<1> QED BY <1>7, <1>8, Scaled

LEMMA TimesLess == ASSUME NEW k \in Nat, NEW x \in Int, NEW y \in Int, x <= y PROVE k * x <= k * y
OBVIOUS

LEMMA TimesStrictlyLess ==
  ASSUME NEW k \in Nat \ {0}, NEW x \in Int, NEW y \in Int, x < y PROVE k * x < k * y
OBVIOUS

\* The loss of d of the m contracts of a hedge that was within its bound q, in
\* terms of the exact fees a and b of a contract of the two legs: fm and gm are
\* the fees that the bound was checked with, fd and gd those of the fill.
LEMMA HedgeArithmetic ==
  ASSUME NEW u \in Nat \ {0}, NEW n \in Nat \ {0}, NEW m \in Nat \ {0}, NEW d \in 0..m,
         NEW q \in Nat, NEW paid \in Nat, NEW lim \in Nat, NEW a \in Int, NEW b \in Int,
         NEW fm \in Nat, NEW gm \in Nat, NEW fd \in Nat, NEW gd \in Nat,
         NEW fpaid \in Nat, NEW r \in Int,
         NEW x \in Nat, NEW y \in Nat, x + y = 5, NEW xx \in Nat, NEW yy \in Nat, xx + yy = 15,
         m * paid + n * (m * lim + fm + gm) <= n * m * (1000 + q),
         m * a - x * (u * (n * n)) <= u * ((n * n) * fm),
         m * b - y * u <= u * gm,
         u * ((n * n) * fd) <= d * a + xx * (u * (n * n)),
         u * gd <= r + yy * u,
         \/ u * ((n * n) * fd) < d * a + xx * (u * (n * n))
         \/ u * gd < r + yy * u,
         u * fpaid + r <= d * (u * lim + b)
  PROVE  d * paid + n * (fpaid + fd + gd - 1000 * d) < n * (q * d + 20)
<1> DEFINE w == u * (n * n)
           k == (u * n) * paid + a + (n * n) * (u * lim + b - 1000 * u)
<1>1. w \in Nat \ {0} /\ u * n \in Nat \ {0} /\ n * n \in Nat \ {0} /\ d \in Nat
  OBVIOUS
<1>2. m * k <= w * (m * q + 5)
  <2>1. (u * n) * (m * paid + n * (m * lim + fm + gm)) <= (u * n) * (n * m * (1000 + q))
    BY <1>1, TimesLess
  <2>2. (n * n) * (m * b - y * u) <= (n * n) * (u * gm)
    BY <1>1, TimesLess
  <2>3. (u * n) * (m * paid + n * (m * lim + fm + gm))
          = m * ((u * n) * paid) + m * (w * lim) + u * ((n * n) * fm) + (n * n) * (u * gm)
    OBVIOUS
  <2>4. (u * n) * (n * m * (1000 + q)) = w * (m * q) + 1000 * (w * m)
    OBVIOUS
  <2>5. (n * n) * (m * b - y * u) = m * ((n * n) * b) - y * w
    OBVIOUS
  <2>6. m * k = m * ((u * n) * paid) + m * a + m * (w * lim) + m * ((n * n) * b) - 1000 * (w * m)
    OBVIOUS
  <2>7. w * (m * q + 5) = w * (m * q) + 5 * w /\ x * w + y * w = 5 * w
    <3>1. x * w + y * w = (x + y) * w
      BY <1>1
    <3> QED BY <1>1, <3>1
  <2>8. /\ m * ((u * n) * paid) \in Int /\ m * (w * lim) \in Int /\ u * ((n * n) * fm) \in Int
        /\ (n * n) * (u * gm) \in Int /\ w * (m * q) \in Int /\ w * m \in Int
        /\ m * ((n * n) * b) \in Int /\ y * w \in Int /\ x * w \in Int /\ m * a \in Int
    BY <1>1
  <2>9. m * a - x * w <= u * ((n * n) * fm)
    OBVIOUS
  <2> HIDE DEF w, k
  <2> QED BY <1>1, <2>1, <2>2, <2>3, <2>4, <2>5, <2>6, <2>7, <2>8, <2>9
<1>3. d * k <= w * (d * q + 5)
  <2>1. k \in Int
    OBVIOUS
  <2> HIDE DEF w, k
  <2> QED BY <1>1, <1>2, <2>1, PartOfBound
<1> DEFINE loss == d * paid + n * (fpaid + fd + gd - 1000 * d)
<1>4. (u * n) * loss < d * k + 15 * w
  <2>1. (n * n) * (u * fpaid + r) <= (n * n) * (d * (u * lim + b))
    BY <1>1, TimesLess
  <2>2. (n * n) * (u * gd) <= (n * n) * (r + yy * u)
    BY <1>1, TimesLess
  <2>3. u * gd < r + yy * u => (n * n) * (u * gd) < (n * n) * (r + yy * u)
    BY <1>1, TimesStrictlyLess
  <2>4. (u * n) * loss = d * ((u * n) * paid) + (n * n) * (u * fpaid) + u * ((n * n) * fd)
                           + (n * n) * (u * gd) - 1000 * (w * d)
    OBVIOUS
  <2>5. d * k = d * ((u * n) * paid) + d * a + (n * n) * (d * (u * lim + b)) - 1000 * (w * d)
    BY <1>1
  <2>6. /\ (n * n) * (u * fpaid + r) = (n * n) * (u * fpaid) + (n * n) * r
        /\ (n * n) * (r + yy * u) = (n * n) * r + yy * w
    OBVIOUS
  <2>7. xx * w + yy * w = 15 * w
    <3>1. xx * w + yy * w = (xx + yy) * w
      BY <1>1
    <3> QED BY <3>1
  <2>8. /\ d * ((u * n) * paid) \in Int /\ (n * n) * (u * fpaid) \in Int /\ u * ((n * n) * fd) \in Int
        /\ (n * n) * (u * gd) \in Int /\ w * d \in Int /\ d * a \in Int /\ (n * n) * r \in Int
        /\ (n * n) * (d * (u * lim + b)) \in Int /\ yy * w \in Int /\ xx * w \in Int
    BY <1>1
  <2>9. /\ u * ((n * n) * fd) <= d * a + xx * w
        /\ \/ u * ((n * n) * fd) < d * a + xx * w
           \/ (n * n) * (u * gd) < (n * n) * (r + yy * u)
    BY <2>3
  <2> HIDE DEF w, k, loss
  <2> QED BY <1>1, <2>1, <2>2, <2>4, <2>5, <2>6, <2>7, <2>8, <2>9
<1>5. (u * n) * loss < (u * n) * (n * (q * d + 20))
  <2>1. w * (d * q + 5) + 15 * w = (u * n) * (n * (q * d + 20))
    BY <1>1
  <2>2. (u * n) * loss \in Int /\ d * k \in Int /\ w * (d * q + 5) \in Int
    BY <1>1
  <2> HIDE DEF w, k, loss
  <2> QED BY <1>1, <1>3, <1>4, <2>1, <2>2
<1>6. loss \in Int /\ n * (q * d + 20) \in Int
  BY <1>1
<1> HIDE DEF loss
<1>7. loss < n * (q * d + 20)
  BY <1>1, <1>5, <1>6, ScaledLess
<1> QED BY <1>7 DEF loss

\* The same of a close, whose limit was within the bound with the fee g.
LEMMA CloseArithmetic ==
  ASSUME NEW u \in Nat \ {0}, NEW n \in Nat \ {0}, NEW m \in Nat \ {0}, NEW d \in 0..m,
         NEW q \in Nat, NEW paid \in Nat, NEW lim \in Nat, NEW b \in Int,
         NEW g \in Nat, NEW gd \in Nat, NEW fpaid \in Nat, NEW r \in Int,
         NEW x \in 0..5, NEW y \in 0..10,
         m * paid <= n * (m * (lim + q) - g),
         m * b - x * u <= u * g,
         u * gd <= r + y * u,
         r - u * fpaid <= d * (b - u * lim)
  PROVE  d * paid + n * (gd - fpaid) < n * (q * d + 20)
<1> DEFINE w == u * n
           k == u * paid + n * (b - u * lim)
           loss == d * paid + n * (gd - fpaid)
<1>1. w \in Nat \ {0} /\ d \in Nat /\ x \in Nat /\ y \in Nat
  OBVIOUS
<1>2. m * k <= w * (m * q + 5)
  <2>1. u * (m * paid) <= u * (n * (m * (lim + q) - g))
    BY <1>1, TimesLess
  <2>2. n * (m * b - x * u) <= n * (u * g)
    BY <1>1, TimesLess
  <2>3. u * (n * (m * (lim + q) - g)) = m * (w * lim) + w * (m * q) - n * (u * g)
    OBVIOUS
  <2>4. n * (m * b - x * u) = m * (n * b) - x * w
    BY <1>1
  <2>5. m * k = u * (m * paid) + m * (n * b) - m * (w * lim)
    OBVIOUS
  <2>6. w * (m * q + 5) = w * (m * q) + 5 * w /\ x * w <= 5 * w
    OBVIOUS
  <2>7. /\ u * (m * paid) \in Int /\ m * (n * b) \in Int /\ m * (w * lim) \in Int
        /\ w * (m * q) \in Int /\ n * (u * g) \in Int /\ x * w \in Int
    BY <1>1
  <2> HIDE DEF w, k
  <2> QED BY <1>1, <2>1, <2>2, <2>3, <2>4, <2>5, <2>6, <2>7
<1>3. d * k <= w * (d * q + 5)
  <2>1. k \in Int
    OBVIOUS
  <2> HIDE DEF w, k
  <2> QED BY <1>1, <1>2, <2>1, PartOfBound
<1>4. u * loss <= d * k + 10 * w
  <2>1. n * (u * gd) <= n * (r + y * u)
    BY <1>1, TimesLess
  <2>2. n * (r - u * fpaid) <= n * (d * (b - u * lim))
    BY <1>1, TimesLess
  <2>3. u * loss = d * (u * paid) + n * (u * gd) - n * (u * fpaid)
    BY <1>1
  <2>4. n * (r + y * u) = n * r + y * w /\ n * (r - u * fpaid) = n * r - n * (u * fpaid)
    BY <1>1
  <2>5. d * k = d * (u * paid) + n * (d * (b - u * lim)) /\ y * w <= 10 * w
    BY <1>1
  <2>6. /\ d * (u * paid) \in Int /\ n * (u * gd) \in Int /\ n * (u * fpaid) \in Int
        /\ n * r \in Int /\ y * w \in Int /\ n * (d * (b - u * lim)) \in Int
    BY <1>1
  <2> HIDE DEF w, k, loss
  <2> QED BY <1>1, <2>1, <2>2, <2>3, <2>4, <2>5, <2>6
<1>5. u * loss < u * (n * (q * d + 20))
  <2>1. w * (d * q + 5) + 15 * w = u * (n * (q * d + 20))
    BY <1>1
  <2>2. u * loss \in Int /\ d * k \in Int /\ w * (d * q + 5) \in Int
    BY <1>1
  <2> HIDE DEF w, k, loss
  <2> QED BY <1>1, <1>3, <1>4, <2>1, <2>2
<1>6. loss \in Int /\ n * (q * d + 20) \in Int
  BY <1>1
<1> HIDE DEF loss
<1>7. loss < n * (q * d + 20)
  BY <1>5, <1>6, ScaledLess
<1> QED BY <1>7 DEF loss

-----------------------------------------------------------------------------
(* What a fill may cost.                                                   *)

Spread(p) == p * (1000 - p)
Prices == 0..1000
Quoted == 1..999   \* of a level
Limits == 0..990   \* of an order

\* an amount in whole cents
Cent == {10 * c : c \in Nat}

LEMMA CentFacts ==
  /\ 0 \in Cent
  /\ \A x, y \in Cent : x + y \in Cent
  /\ \A x \in Cent, n \in Nat : n * x \in Cent
  /\ \A x \in Cent : x \in Nat
<1>1. 0 \in Cent
  <2>1. 0 = 10 * 0 /\ 0 \in Nat
    OBVIOUS
  <2> QED BY <2>1 DEF Cent
<1>2. ASSUME NEW x \in Cent, NEW y \in Cent PROVE x + y \in Cent
  <2>1. PICK c \in Nat, d \in Nat : x = 10 * c /\ y = 10 * d
    BY DEF Cent
  <2>2. x + y = 10 * (c + d) /\ c + d \in Nat
    BY <2>1
  <2> QED BY <2>2 DEF Cent
<1>3. ASSUME NEW x \in Cent, NEW n \in Nat PROVE n * x \in Cent
  <2>1. PICK c \in Nat : x = 10 * c
    BY DEF Cent
  <2>2. n * x = 10 * (n * c) /\ n * c \in Nat
    BY <2>1
  <2> QED BY <2>2 DEF Cent
<1>4. \A x \in Cent : x \in Nat
  BY DEF Cent
<1> QED BY <1>1, <1>2, <1>3, <1>4

\* The recursion of Fills.
NoFill == {[paid |-> 0, spread |-> 0]}
Further(S, prices) ==
  {[paid |-> f.paid + p, spread |-> f.spread + p * (1000 - p)] : f \in S, p \in prices}
Builds(fill, n, prices) ==
  fill = [k \in 0..n |->
            IF k = 0 THEN NoFill
            ELSE Further(fill[k - 1], prices)]

LEMMA BuildsStep ==
  ASSUME NEW fill, NEW n \in Nat, NEW prices, Builds(fill, n, prices), NEW k \in 0..n
  PROVE  fill[k] = IF k = 0 THEN NoFill
                   ELSE Further(fill[k - 1], prices)
BY DEF Builds

LEMMA BuildsExists ==
  ASSUME NEW n \in Nat, NEW prices
  PROVE  \E fill : Builds(fill, n, prices)
<1> DEFINE B == {k \in Nat : ~ \E fill : Builds(fill, k, prices)}
<1>1. SUFFICES ASSUME B # {} PROVE FALSE
  OBVIOUS
<1>2. PICK k \in B : \A j \in B : k <= j
  <2>1. B \subseteq Nat
    OBVIOUS
  <2> HIDE DEF B
  <2> QED BY <1>1, <2>1, LeastNumber
<1>3. k # 0
  <2>1. Builds([i \in 0..0 |-> NoFill], 0, prices)
    BY DEF Builds
  <2> QED BY <1>2, <2>1
<1>4. PICK f : Builds(f, k - 1, prices)
  <2>1. k - 1 \in Nat /\ ~(k <= k - 1)
    BY <1>2, <1>3
  <2> QED BY <1>2, <2>1
<1> DEFINE last == Further(f[k - 1], prices)
           g == [i \in 0..k |-> IF i = k THEN last ELSE f[i]]
<1>5. \A i \in 0..k : g[i] = IF i = 0 THEN NoFill
                             ELSE Further(g[i - 1], prices)
  <2> SUFFICES ASSUME NEW i \in 0..k
               PROVE g[i] = IF i = 0 THEN NoFill
                            ELSE Further(g[i - 1], prices)
    OBVIOUS
  <2>1. k \in Nat /\ i \in Nat /\ k - 1 \in Nat
    BY <1>2, <1>3
  <2>2. CASE i = k
    <3>1. g[k] = last /\ g[k - 1] = f[k - 1]
      BY <2>1, <1>3
    <3> HIDE DEF g
    <3> QED BY <1>3, <2>2, <3>1
  <2>3. CASE i # k /\ i # 0
    <3>1. g[i] = f[i] /\ g[i - 1] = f[i - 1] /\ i \in 0..(k - 1)
      BY <2>1, <2>3
    <3>2. f[i] = IF i = 0 THEN NoFill
                 ELSE Further(f[i - 1], prices)
      BY <1>4, <2>1, <3>1, BuildsStep
    <3> HIDE DEF g
    <3> QED BY <2>3, <3>1, <3>2
  <2>4. CASE i # k /\ i = 0
    <3>1. g[i] = f[i] /\ i \in 0..(k - 1)
      BY <2>1, <2>4
    <3>2. f[i] = NoFill
      BY <1>4, <2>1, <2>4, <3>1, BuildsStep
    <3> HIDE DEF g
    <3> QED BY <2>4, <3>1, <3>2
  <2> QED BY <2>2, <2>3, <2>4
<1>6. g = [i \in 0..k |-> g[i]]
  OBVIOUS
<1> HIDE DEF g
<1>7. Builds(g, k, prices)
  BY <1>5, <1>6 DEF Builds
<1> QED BY <1>2, <1>7

\* A bound on what every contract costs, of its price and its spread, bounds
\* what the fill costs.
LEMMA FillsBound ==
  ASSUME NEW n \in Nat, NEW prices, prices \subseteq Prices, NEW f \in Fills(n, prices),
         NEW a \in Int, NEW b \in Int, NEW c \in Int,
         \A p \in prices : a * p + b * Spread(p) <= c
  PROVE  /\ f.paid \in Nat /\ f.spread \in Nat /\ a * f.paid + b * f.spread <= n * c
         /\ prices \subseteq Cent => f.paid \in Cent
<1> DEFINE fill == CHOOSE fill : Builds(fill, n, prices)
<1>1. Fills(n, prices) = fill[n]
  BY DEF Fills, Builds, NoFill, Further
<1>2. Builds(fill, n, prices)
  BY BuildsExists
<1> HIDE DEF fill
<1> DEFINE Good(e, k) ==
             /\ e.paid \in Nat /\ e.spread \in Nat /\ a * e.paid + b * e.spread <= k * c
             /\ prices \subseteq Cent => e.paid \in Cent
           B == {k \in 0..n : \E e \in fill[k] : ~Good(e, k)}
<1>3. SUFFICES ASSUME B # {} PROVE FALSE
  <2>1. n \notin B
    BY <1>3
  <2>2. n \in 0..n
    OBVIOUS
  <2> QED BY <1>1, <2>1, <2>2
<1>4. PICK k \in B : \A j \in B : k <= j
  <2>1. B \subseteq Nat
    OBVIOUS
  <2> HIDE DEF B
  <2> QED BY <1>3, <2>1, LeastNumber
<1>5. PICK e \in fill[k] : ~Good(e, k)
  BY <1>4
<1>6. k \in 0..n /\ k \in Nat
  BY <1>4
<1>7. CASE k = 0
  <2>1. e = [paid |-> 0, spread |-> 0]
    BY <1>2, <1>5, <1>6, <1>7, BuildsStep DEF NoFill
  <2>2. 0 \in Cent
    BY CentFacts
  <2>3. Good(e, k)
    BY <1>7, <2>1, <2>2
  <2> QED BY <1>5, <2>3
<1>8. CASE k # 0
  <2>1. fill[k] = Further(fill[k - 1], prices)
    BY <1>2, <1>6, <1>8, BuildsStep
  <2>2. PICK h \in fill[k - 1], p \in prices :
             e = [paid |-> h.paid + p, spread |-> h.spread + p * (1000 - p)]
    BY <1>5, <2>1 DEF Further
  <2>3. Good(h, k - 1)
    <3>1. k - 1 \in 0..n /\ ~(k <= k - 1)
      BY <1>6, <1>8
    <3>2. k - 1 \notin B
      BY <1>4, <3>1
    <3> QED BY <2>2, <3>1, <3>2
  <2>4. p \in Nat /\ Spread(p) \in Nat /\ a * p + b * Spread(p) <= c
    BY <2>2 DEF Spread, Prices
  <2>5. e.paid = h.paid + p /\ e.spread = h.spread + Spread(p)
    BY <2>2 DEF Spread
  <2>6. a * (h.paid + p) + b * (h.spread + Spread(p))
          = (a * h.paid + b * h.spread) + (a * p + b * Spread(p))
    BY <2>3, <2>4
  <2>7. (k - 1) * c + c = k * c /\ (k - 1) * c \in Int /\ k * c \in Int
    BY <1>6
  <2>8. a * h.paid + b * h.spread \in Int /\ a * p + b * Spread(p) \in Int
    BY <2>3, <2>4
  <2>9. a * e.paid + b * e.spread <= k * c /\ e.paid \in Nat /\ e.spread \in Nat
    BY <2>3, <2>4, <2>5, <2>6, <2>7, <2>8
  <2>10. prices \subseteq Cent => e.paid \in Cent
    BY <2>2, <2>3, <2>5, CentFacts, Zenon
  <2>11. Good(e, k)
    BY <2>9, <2>10
  <2> QED BY <1>5, <2>11
<1> QED BY <1>7, <1>8

LEMMA FillsPaid ==
  ASSUME NEW n \in Nat, NEW prices, prices \subseteq Prices, NEW f \in Fills(n, prices),
         NEW c \in Int, \A p \in prices : p <= c
  PROVE  /\ f.paid \in Nat /\ f.spread \in Nat /\ f.paid <= n * c
         /\ prices \subseteq Cent => f.paid \in Cent
<1>1. PICK a \in Int, b \in Int : a = 1 /\ b = 0
  OBVIOUS
<1>2. \A p \in prices : a * p + b * Spread(p) <= c
  <2> SUFFICES ASSUME NEW p \in prices PROVE a * p + b * Spread(p) <= c
    OBVIOUS
  <2>1. p \in Int /\ Spread(p) \in Int
    BY SMT DEF Prices, Spread
  <2> QED BY <1>1, <2>1
<1>3. /\ f.paid \in Nat /\ f.spread \in Nat /\ a * f.paid + b * f.spread <= n * c
      /\ prices \subseteq Cent => f.paid \in Cent
  BY <1>2, FillsBound
<1> QED BY <1>1, <1>3

\* What a contract costs with its exact fee grows with its price.
LEMMA NetPrice ==
  ASSUME NEW venue, NEW p \in Prices, NEW l \in Prices, p <= l
  PROVE  /\ Unit * p + Rate(venue) * Spread(p) <= Unit * l + Rate(venue) * Spread(l)
         /\ 1000 * p + Spread(p) <= 1000 * l + Spread(l)
<1> DEFINE r == Rate(venue)
<1>1. r \in {139, 140}
  BY DEF Rate
<1>2. p \in 0..1000 /\ l \in 0..1000
  BY DEF Prices
<1>3. Unit + r * (1000 - p - l) \in Nat
  <2>1. r * (1000 - p - l) >= -140000
    BY <1>1, <1>2, SMT
  <2>2. r * (1000 - p - l) \in Int
    BY <1>1, <1>2, SMT
  <2> HIDE DEF r
  <2> QED BY <2>1, <2>2, SMT DEF Unit
<1> HIDE DEF r
<1>4. r \in Nat /\ Unit \in Nat /\ l - p \in Nat
  BY <1>1, <1>2, SMT DEF Unit
<1>5. (l - p) * (Unit + r * (1000 - p - l)) \in Nat
  BY <1>3, <1>4, SMT
<1>6. (l - p) * (Unit + r * (1000 - p - l)) = Unit * l + r * Spread(l) - (Unit * p + r * Spread(p))
  BY <1>2, <1>4, SMT DEF Spread
<1>7. Spread(p) \in Int /\ Spread(l) \in Int /\ r * Spread(p) \in Int /\ r * Spread(l) \in Int
      /\ Unit * p \in Int /\ Unit * l \in Int
  BY <1>2, <1>4, SMT DEF Spread
<1>8. (l - p) * (2000 - p - l) \in Nat
  <2>1. 2000 - p - l \in Nat
    BY <1>2, SMT
  <2> QED BY <1>4, <2>1, SMT
<1>9. (l - p) * (2000 - p - l) = 1000 * l + Spread(l) - (1000 * p + Spread(p))
  BY <1>2, SMT DEF Spread
<1> QED BY <1>2, <1>5, <1>6, <1>7, <1>8, <1>9, SMT DEF r

LEMMA FeeAtBounds ==
  ASSUME NEW venue, NEW n \in Nat, NEW p \in Prices
  PROVE  /\ FeeAt(venue, n, p) \in Nat
         /\ n * (Rate(venue) * Spread(p)) - Under(venue) * Unit <= Unit * FeeAt(venue, n, p)
<1>1. FeeAt(venue, n, p) = Fee(venue, n * p * (1000 - p), 1) /\ n * p * (1000 - p) = n * Spread(p)
  BY SMT DEF FeeAt, Spread, Prices
<1>2. n * Spread(p) \in Nat
  BY SMT DEF Spread, Prices
<1>3. /\ Fee(venue, n * Spread(p), 1) \in Nat
      /\ Rate(venue) * (n * Spread(p)) - Under(venue) * Unit <= Unit * Fee(venue, n * Spread(p), 1)
  BY <1>2, FeeOfWhole
<1>4. Rate(venue) * (n * Spread(p)) = n * (Rate(venue) * Spread(p))
  BY SMT DEF Rate, Spread, Prices
<1> QED BY <1>1, <1>3, <1>4

-----------------------------------------------------------------------------
(* Levels of a book.                                                       *)

IsLevels(levels) == IsFiniteSet(levels) /\ levels \subseteq Level

LEMMA DepthType ==
  ASSUME NEW levels, IsLevels(levels) PROVE executable_depth(levels) \in Nat
<1> DEFINE T(l) == {l} \X (1..l[2])
           S == {T(l) : l \in levels}
           f == [l \in levels |-> T(l)]
<1>1. f \in Surjection(levels, S)
  BY DEF Surjection
<1>2. IsFiniteSet(S)
  <2> HIDE DEF f, S
  <2> QED BY <1>1, FS_Surjection DEF IsLevels
<1>3. ASSUME NEW l \in levels PROVE IsFiniteSet(T(l))
  <2>1. 1 \in Int /\ l[2] \in Int
    BY <1>3 DEF IsLevels, Level
  <2>2. IsFiniteSet(1..l[2]) /\ IsFiniteSet({l})
    BY <2>1, FS_Interval, FS_Singleton
  <2> QED BY <2>2, FS_Product
<1>4. \A t \in S : IsFiniteSet(t)
  BY <1>3
<1>5. IsFiniteSet(UNION S)
  <2> HIDE DEF S
  <2> QED BY <1>2, <1>4, FS_UNION
<1>6. Cardinality(UNION S) \in Nat
  BY <1>5, FS_CardinalityType
<1> QED BY <1>6 DEF executable_depth

LEMMA LevelPrices ==
  ASSUME NEW levels, IsLevels(levels)
  PROVE  \A l \in levels : l[1] \in Quoted
BY DEF IsLevels, Level, Quoted

LEMMA WorstAskFacts ==
  ASSUME NEW levels, IsLevels(levels), NEW n \in Nat, Reaches(levels, n)
  PROVE  /\ WorstAsk(levels, n) \in Quoted
         /\ \A k \in Nat : k <= n => WorstAsk(levels, k) <= WorstAsk(levels, n)
<1> DEFINE All == {l[1] : l \in levels}
           P(k) == {p \in All : Reaches({l \in levels : l[1] <= p}, k)}
<1>1. All \subseteq Quoted /\ All # {}
  <2>1. levels # {}
    BY DEF Reaches
  <2> QED BY <2>1, LevelPrices
<1>2. Max(All) \in All /\ \A p \in All : p <= Max(All)
  <2> HIDE DEF All
  <2>1. PICK b \in Nat : b = 999
    OBVIOUS
  <2>2. All \subseteq Nat /\ \A p \in All : p <= b
    BY <1>1, <2>1 DEF Quoted
  <2> QED BY <1>1, <2>2, MaxIsGreatest
<1>3. {l \in levels : l[1] <= Max(All)} = levels
  BY <1>2
<1>4. Max(All) \in P(n)
  BY <1>2, <1>3
<1>10. \A k : P(k) \subseteq All
  OBVIOUS
<1>5. P(n) \subseteq Nat /\ P(n) # {}
  <2>1. P(n) \subseteq All /\ All \subseteq Nat
    BY <1>1, <1>10 DEF Quoted
  <2> HIDE DEF P, All
  <2> QED BY <1>4, <2>1
<1>6. Min(P(n)) \in P(n)
  <2> HIDE DEF P, All
  <2> QED BY <1>5, MinIsLeast
<1>7. WorstAsk(levels, n) = Min(P(n))
  BY DEF WorstAsk
<1>8. WorstAsk(levels, n) \in Quoted
  <2>1. P(n) \subseteq All
    OBVIOUS
  <2> HIDE DEF P, All
  <2> QED BY <1>1, <1>6, <1>7, <2>1, Zenon
<1>9. ASSUME NEW k \in Nat, k <= n PROVE WorstAsk(levels, k) <= WorstAsk(levels, n)
  <2>1. ASSUME NEW part, part \subseteq levels, Reaches(part, n) PROVE Reaches(part, k)
    <3>1. IsLevels(part)
      BY <2>1, FS_Subset DEF IsLevels
    <3>2. executable_depth(part) \in Nat
      BY <3>1, DepthType
    <3> QED BY <1>9, <2>1, <3>2 DEF Reaches
  <2>2. Reaches(levels, k)
    BY <2>1
  <2>3. P(n) \subseteq P(k)
    <3> SUFFICES ASSUME NEW p \in P(n) PROVE p \in P(k)
      OBVIOUS
    <3>1. {l \in levels : l[1] <= p} \subseteq levels
      OBVIOUS
    <3> QED BY <2>1, <3>1
  <2>4. WorstAsk(levels, k) = Min(P(k))
    BY <2>2 DEF WorstAsk
  <2>5. P(k) \subseteq Nat /\ P(k) # {} /\ Min(P(n)) \in P(k)
    <3> HIDE DEF P, All
    <3>1. P(k) \subseteq All /\ All \subseteq Nat
      BY <1>1, <1>10 DEF Quoted
    <3> QED BY <1>6, <2>3, <3>1
  <2> HIDE DEF P, All
  <2> QED BY <1>7, <2>4, <2>5, MinIsLeast
<1> QED BY <1>8, <1>9

LEMMA WorstAskPrice ==
  ASSUME NEW levels, IsLevels(levels), NEW n \in Nat, Reaches(levels, n)
  PROVE  WorstAsk(levels, n) \in Quoted
BY WorstAskFacts

LEMMA WorstBidFacts ==
  ASSUME NEW levels, IsLevels(levels), NEW n \in Nat, Reaches(levels, n)
  PROVE  WorstBid(levels, n) \in Quoted
<1> DEFINE All == {l[1] : l \in levels}
           P == {p \in All : Reaches({l \in levels : l[1] >= p}, n)}
<1>1. All \subseteq Quoted /\ All # {}
  <2>1. levels # {}
    BY DEF Reaches
  <2> QED BY <2>1, LevelPrices
<1>2. Min(All) \in All /\ \A p \in All : Min(All) <= p
  <2> HIDE DEF All
  <2>1. All \subseteq Nat
    BY <1>1 DEF Quoted
  <2> QED BY <1>1, <2>1, MinIsLeast
<1>3. {l \in levels : l[1] >= Min(All)} = levels
  BY <1>2
<1>4. Min(All) \in P
  BY <1>2, <1>3
<1>5. P \subseteq All
  OBVIOUS
<1>6. Max(P) \in P
  <2> HIDE DEF P, All
  <2>1. PICK b \in Nat : b = 999
    OBVIOUS
  <2>2. P \subseteq Nat /\ P # {} /\ \A p \in P : p <= b
    BY <1>1, <1>4, <1>5, <2>1 DEF Quoted
  <2> QED BY <2>2, MaxIsGreatest
<1>7. WorstBid(levels, n) = Max(P)
  BY DEF WorstBid
<1> HIDE DEF P, All
<1> QED BY <1>1, <1>5, <1>6, <1>7

LEMMA BookLevels ==
  ASSUME NEW book \in KalshiBooks \cup PolyBooks, NEW s \in Sides
  PROVE  IsLevels(BuyLevels(book, s)) /\ IsLevels(SellLevels(book, s))
<1>1. IsFiniteSet(book[s]) /\ book[s] \subseteq Level
  BY SizingAssumption
<1>2. Other(s) \in Sides
  BY DEF Other, Sides
<1> DEFINE S == book[Other(s)]
           f == [l \in S |-> <<1000 - l[1], l[2]>>]
           T == {<<1000 - l[1], l[2]>> : l \in S}
<1>3. IsFiniteSet(S) /\ S \subseteq Level
  BY <1>2, SizingAssumption
<1>4. f \in Surjection(S, T)
  <2>1. \A l \in S : f[l] = <<1000 - l[1], l[2]>> /\ f[l] \in T
    OBVIOUS
  <2>2. ASSUME NEW t \in T PROVE \E l \in S : f[l] = t
    <3>1. PICK l \in S : t = <<1000 - l[1], l[2]>>
      OBVIOUS
    <3>2. f[l] = <<1000 - l[1], l[2]>>
      BY <2>1
    <3> HIDE DEF f, S, T
    <3> QED BY <3>1, <3>2
  <2>3. f \in [S -> T]
    BY <2>1
  <2> HIDE DEF f, T, S
  <2> QED BY <2>2, <2>3 DEF Surjection
<1>5. IsFiniteSet(T)
  <2> HIDE DEF f, S, T
  <2> QED BY <1>3, <1>4, FS_Surjection
<1>6. T \subseteq Level
  BY <1>3 DEF Level
<1> QED BY <1>1, <1>5, <1>6 DEF IsLevels, BuyLevels, SellLevels

-----------------------------------------------------------------------------
(* Limits.                                                                 *)

LEMMA RoundFacts ==
  ASSUME NEW m \in Prices
  PROVE  Round10(m) \in Prices /\ Round10(m) \in Cent /\ m <= Round10(m) + 4
<1>1. (m + 5) \div 10 \in 0..100 /\ 10 * ((m + 5) \div 10) >= m - 4
  BY DEF Prices
<1> QED BY <1>1 DEF Round10, Cent, Prices

\* the worst level rounded, the cushion added, at most 99 cents
Cushioned(l, w) ==
  \E r \in Cent : /\ r + 4 >= w /\ r \in Nat
                  /\ l = IF r + 10 * Cushion <= 990 THEN r + 10 * Cushion ELSE 990

LEMMA LimitIs ==
  ASSUME NEW w \in Quoted PROVE Cushioned(Limit(w), w)
<1>1. Round10(w) \in Prices /\ Round10(w) \in Cent /\ w <= Round10(w) + 4
  <2>1. w \in Prices
    BY DEF Quoted, Prices
  <2> QED BY <2>1, RoundFacts, Zenon
<1>2. Cushion \in Nat
  BY SizingAssumption
<1>3. Round10(w) + 10 * Cushion \in Nat
  BY <1>1, <1>2 DEF Prices
<1>4. Limit(w) = IF Round10(w) + 10 * Cushion <= 990 THEN Round10(w) + 10 * Cushion ELSE 990
  BY <1>3, MinOfTwo DEF Limit
<1> QED BY <1>1, <1>4 DEF Cushioned, Quoted, Prices

LEMMA LimitFacts ==
  ASSUME NEW w \in Quoted PROVE Limit(w) \in Limits /\ Limit(w) \in Cent
<1>0. Cushioned(Limit(w), w)
  BY LimitIs, Zenon
<1>1. PICK r \in Cent : /\ r + 4 >= w /\ r \in Nat
                        /\ Limit(w) = IF r + 10 * Cushion <= 990 THEN r + 10 * Cushion ELSE 990
  BY <1>0 DEF Cushioned
<1>2. Cushion \in Nat /\ 10 * Cushion \in Cent
  BY SizingAssumption DEF Cent
<1>3. r + 10 * Cushion \in Nat /\ r + 10 * Cushion \in Cent
  BY <1>1, <1>2, CentFacts
<1>4. 990 \in Cent
  <2>1. 990 = 10 * 99
    OBVIOUS
  <2> QED BY <2>1 DEF Cent
<1>5. Limit(w) \in Cent
  BY <1>1, <1>3, <1>4
<1>6. Limit(w) \in Limits
  BY <1>1, <1>3 DEF Limits
<1> QED BY <1>5, <1>6

\* With a cushion, a limit that was not cut to 99 cents covers the level it is
\* for.
LEMMA LimitCovers ==
  ASSUME NEW w \in Quoted, Cushion >= 1
  PROVE  Limit(w) >= 10 /\ (Limit(w) < 990 => w <= Limit(w))
<1>0. Cushioned(Limit(w), w)
  BY LimitIs, Zenon
<1>1. PICK r \in Cent : /\ r + 4 >= w /\ r \in Nat
                        /\ Limit(w) = IF r + 10 * Cushion <= 990 THEN r + 10 * Cushion ELSE 990
  BY <1>0 DEF Cushioned
<1>2. Cushion \in Nat
  BY SizingAssumption
<1>3. PICK l : l = Limit(w)
  OBVIOUS
<1>4. l >= 10 /\ (l < 990 => w <= l)
  BY <1>1, <1>2, <1>3 DEF Quoted
<1> QED BY <1>3, <1>4

-----------------------------------------------------------------------------
(* What is sent.                                                           *)

IsSized(t, n, klevels, plevels) ==
  /\ t.n = n
  /\ t.kalshi = Limit(WorstAsk(klevels, n)) /\ t.poly = Limit(WorstAsk(plevels, n))
  /\ t.kalshi \in Limits /\ t.poly \in Limits /\ t.kalshi \in Cent /\ t.poly \in Cent
  /\ t.cost = n * (t.kalshi + t.poly) + FeeAt("kalshi", n, t.kalshi) + FeeAt("poly", n, t.poly)

LEMMA SizedFacts ==
  ASSUME NEW klevels, IsLevels(klevels), NEW plevels, IsLevels(plevels),
         NEW n \in Nat, Reaches(klevels, n), Reaches(plevels, n)
  PROVE  IsSized(Sized(n, klevels, plevels), n, klevels, plevels)
<1> DEFINE t == Sized(n, klevels, plevels)
<1>1. WorstAsk(klevels, n) \in Quoted /\ WorstAsk(plevels, n) \in Quoted
  BY WorstAskPrice, Zenon
<1>2. t.n = n /\ t.kalshi = Limit(WorstAsk(klevels, n)) /\ t.poly = Limit(WorstAsk(plevels, n))
  BY DEF Sized
<1>3. t.cost = n * (t.kalshi + t.poly) + FeeAt("kalshi", n, t.kalshi) + FeeAt("poly", n, t.poly)
  BY DEF Sized
<1>4. PICK k \in Quoted, p \in Quoted : k = WorstAsk(klevels, n) /\ p = WorstAsk(plevels, n)
  BY <1>1, Zenon
<1>5. Limit(k) \in Limits /\ Limit(k) \in Cent /\ Limit(p) \in Limits /\ Limit(p) \in Cent
  <2>1. Limit(k) \in Limits /\ Limit(k) \in Cent
    BY LimitFacts, Zenon
  <2>2. Limit(p) \in Limits /\ Limit(p) \in Cent
    BY LimitFacts, Zenon
  <2> QED BY <2>1, <2>2
<1> QED BY <1>2, <1>3, <1>4, <1>5 DEF IsSized

LEMMA FindFacts ==
  ASSUME NEW klevels, IsLevels(klevels), NEW plevels, IsLevels(plevels),
         NEW least \in Nat, NEW margin, NEW cap \in Nat,
         NEW t, t = find_profitable_contract_size(cap, least, margin, klevels, plevels), t # None
  PROVE  \E n \in Nat : /\ Reaches(klevels, n) /\ Reaches(plevels, n)
                        /\ t = Sized(n, klevels, plevels) /\ Clears(t, margin)
<1> DEFINE from == Max({least, PolyMinQty})
           good == {n \in from .. cap : /\ Reaches(klevels, n) /\ Reaches(plevels, n)
                                        /\ Clears(Sized(n, klevels, plevels), margin)}
<1>1. from \in Nat
  <2>1. {least, PolyMinQty} \subseteq Nat /\ least + PolyMinQty \in Nat
        /\ \A x \in {least, PolyMinQty} : x <= least + PolyMinQty
    BY SizingAssumption
  <2>2. Max({least, PolyMinQty}) \in {least, PolyMinQty}
    BY <2>1, MaxIsGreatest
  <2> QED BY <2>1, <2>2
<1>2. t = (IF good = {} THEN None ELSE Sized(Max(good), klevels, plevels))
  BY DEF find_profitable_contract_size
<1>3. good # {} /\ t = Sized(Max(good), klevels, plevels)
  <2> HIDE DEF good
  <2> QED BY <1>2
<1>4. Max(good) \in good
  <2> HIDE DEF from
  <2>1. good \subseteq Nat /\ \A n \in good : n <= cap
    BY <1>1
  <2> HIDE DEF good
  <2> QED BY <1>3, <2>1, MaxIsGreatest
<1>5. Max(good) \in Nat
  <2> HIDE DEF from
  <2> QED BY <1>1, <1>4
<1> QED BY <1>3, <1>4, <1>5

LEMMA CapType ==
  ASSUME NEW depth \in Nat, calculate_contracts_to_trade(depth) # None
  PROVE  calculate_contracts_to_trade(depth) \in Nat
<1> DEFINE half == IF depth < DeepBook THEN MinContracts ELSE depth \div 2
<1>1. half \in Nat /\ MinContracts \in Nat /\ MaxContracts \in Nat
  BY SizingAssumption
<1>2. Min({MaxContracts, half}) \in Nat
  <2> HIDE DEF half
  <2> QED BY <1>1, MinOfTwo
<1>3. calculate_contracts_to_trade(depth) \in {None, MinContracts, Min({MaxContracts, half})}
  BY DEF calculate_contracts_to_trade
<1> HIDE DEF half
<1> QED BY <1>1, <1>2, <1>3

\* an order as find_profitable_contract_size returns it
Priced(t, margin) ==
  /\ t.n \in Nat
  /\ t.kalshi \in Limits /\ t.poly \in Limits /\ t.kalshi \in Cent /\ t.poly \in Cent
  /\ t.cost = t.n * (t.kalshi + t.poly) + FeeAt("kalshi", t.n, t.kalshi) + FeeAt("poly", t.n, t.poly)
  /\ Clears(t, margin)

\* What both kinds of trade do.
LEMMA Sends ==
  ASSUME NEW k \in KalshiBooks, NEW p \in PolyBooks, kside \in Sides, pside \in Sides,
         NEW cap \in Nat, NEW least \in Nat, NEW margin, NEW auto \in BOOLEAN, NEW t,
         t = None \/ t = find_profitable_contract_size(cap, least, margin,
                           BuyLevels(k, kside), BuyLevels(p, pside)),
         Send(t, auto), phase' = "sent"
  PROVE  /\ Priced(trade', margin) /\ trade'.auto = auto
         /\ Reaches(BuyLevels(k, kside), trade'.n) /\ Reaches(BuyLevels(p, pside), trade'.n)
         /\ trade'.kalshi = Limit(WorstAsk(BuyLevels(k, kside), trade'.n))
         /\ trade'.poly = Limit(WorstAsk(BuyLevels(p, pside), trade'.n))
<1>1. PICK klevels, plevels : klevels = BuyLevels(k, kside) /\ plevels = BuyLevels(p, pside)
  OBVIOUS
<1>2. IsLevels(klevels) /\ IsLevels(plevels)
  BY <1>1, BookLevels
<1>3. t # None
  BY DEF Send
<1>4. PICK n \in Nat : /\ Reaches(klevels, n) /\ Reaches(plevels, n)
                       /\ t = Sized(n, klevels, plevels) /\ Clears(t, margin)
  BY <1>1, <1>2, <1>3, FindFacts
<1>5. IsSized(t, n, klevels, plevels)
  BY <1>2, <1>4, SizedFacts
<1>7. /\ trade'.n = t.n /\ trade'.kalshi = t.kalshi /\ trade'.poly = t.poly
      /\ trade'.cost = t.cost /\ trade'.auto = auto
  BY <1>3 DEF Send
<1>8. Clears(trade', margin)
  BY <1>4, <1>7 DEF Clears
<1> QED BY <1>1, <1>4, <1>5, <1>7, <1>8 DEF Priced, IsSized

LEMMA AutoSends ==
  ASSUME AutoTrade, kside \in Sides, pside \in Sides, phase' = "sent"
  PROVE  \E k, r \in KalshiBooks, p \in PolyBooks :
           /\ pbook' = p /\ rest' = r /\ kside' = kside /\ pside' = pside /\ ~Vetoed(k, r)
           /\ Priced(trade', MinMargin) /\ trade'.auto = TRUE
           /\ Reaches(BuyLevels(k, kside), trade'.n) /\ Reaches(BuyLevels(p, pside), trade'.n)
           /\ trade'.kalshi = Limit(WorstAsk(BuyLevels(k, kside), trade'.n))
           /\ trade'.poly = Limit(WorstAsk(BuyLevels(p, pside), trade'.n))
<1> DEFINE Cap(k, p) == calculate_contracts_to_trade(
                          Min({executable_depth(BuyLevels(k, kside)), executable_depth(BuyLevels(p, pside))}))
           Found(k, p) == find_profitable_contract_size(Cap(k, p), MinContracts, MinMargin,
                            BuyLevels(k, kside), BuyLevels(p, pside))
           T(k, r, p) == IF Vetoed(k, r) \/ Cap(k, p) = None THEN None ELSE Found(k, p)
<1>1. PICK k \in KalshiBooks, r \in KalshiBooks, p \in PolyBooks :
             pbook' = p /\ rest' = r /\ Send(T(k, r, p), TRUE)
  BY DEF AutoTrade
<1>2. PICK t : t = T(k, r, p)
  OBVIOUS
<1>3. Send(t, TRUE)
  BY <1>1, <1>2
<1>4. t # None /\ kside' = kside /\ pside' = pside
  BY <1>3 DEF Send
<1>5. ~Vetoed(k, r) /\ Cap(k, p) # None /\ t = Found(k, p)
  BY <1>2, <1>4
<1>6. Cap(k, p) \in Nat
  <2>1. PICK a, b : a = executable_depth(BuyLevels(k, kside)) /\ b = executable_depth(BuyLevels(p, pside))
    OBVIOUS
  <2>2. a \in Nat /\ b \in Nat
    BY <1>1, <2>1, BookLevels, DepthType
  <2>3. Min({a, b}) \in Nat
    BY <2>2, MinOfTwo
  <2> QED BY <1>5, <2>1, <2>3, CapType
<1>7. MinContracts \in Nat
  BY SizingAssumption
<1>8. PICK cap \in Nat : cap = Cap(k, p)
  BY <1>6
<1>9. t = find_profitable_contract_size(cap, MinContracts, MinMargin,
                            BuyLevels(k, kside), BuyLevels(p, pside))
  BY <1>5, <1>8
<1> HIDE DEF Cap, Found, T
<1>10. /\ Priced(trade', MinMargin) /\ trade'.auto = TRUE
       /\ Reaches(BuyLevels(k, kside), trade'.n) /\ Reaches(BuyLevels(p, pside), trade'.n)
       /\ trade'.kalshi = Limit(WorstAsk(BuyLevels(k, kside), trade'.n))
       /\ trade'.poly = Limit(WorstAsk(BuyLevels(p, pside), trade'.n))
  BY <1>1, <1>3, <1>7, <1>8, <1>9, Sends
<1> QED BY <1>1, <1>4, <1>5, <1>10

LEMMA ManualSends ==
  ASSUME ManualTrade, kside \in Sides, pside \in Sides, phase' = "sent"
  PROVE  \E k \in KalshiBooks, p \in PolyBooks :
           /\ pbook' = p /\ kside' = kside /\ pside' = pside
           /\ Priced(trade', 0) /\ trade'.auto = FALSE
           /\ Reaches(BuyLevels(k, kside), trade'.n) /\ Reaches(BuyLevels(p, pside), trade'.n)
           /\ trade'.kalshi = Limit(WorstAsk(BuyLevels(k, kside), trade'.n))
           /\ trade'.poly = Limit(WorstAsk(BuyLevels(p, pside), trade'.n))
<1> DEFINE Cap(k, p, w) == Min({executable_depth(BuyLevels(k, kside)), executable_depth(BuyLevels(p, pside)), w})
           Found(k, p, w) == find_profitable_contract_size(Cap(k, p, w), 1, 0,
                               BuyLevels(k, kside), BuyLevels(p, pside))
<1>1. PICK k \in KalshiBooks, p \in PolyBooks, w \in Requests :
             pbook' = p /\ Send(Found(k, p, w), FALSE)
  BY DEF ManualTrade
<1>2. PICK t : t = Found(k, p, w)
  OBVIOUS
<1>3. Send(t, FALSE)
  BY <1>1, <1>2
<1>4. kside' = kside /\ pside' = pside
  BY <1>3 DEF Send
<1>6. Cap(k, p, w) \in Nat
  <2>1. PICK a, b : a = executable_depth(BuyLevels(k, kside)) /\ b = executable_depth(BuyLevels(p, pside))
    OBVIOUS
  <2>2. a \in Nat /\ b \in Nat /\ w \in Nat
    BY <1>1, <2>1, BookLevels, DepthType, SizingAssumption
  <2>3. Min({a, b, w}) \in {a, b, w}
    BY <2>2, MinIsLeast
  <2> QED BY <2>1, <2>2, <2>3
<1>8. PICK cap \in Nat : cap = Cap(k, p, w)
  BY <1>6
<1>9. t = find_profitable_contract_size(cap, 1, 0, BuyLevels(k, kside), BuyLevels(p, pside))
  BY <1>2, <1>8
<1> HIDE DEF Cap, Found
<1>10. /\ Priced(trade', 0) /\ trade'.auto = FALSE
       /\ Reaches(BuyLevels(k, kside), trade'.n) /\ Reaches(BuyLevels(p, pside), trade'.n)
       /\ trade'.kalshi = Limit(WorstAsk(BuyLevels(k, kside), trade'.n))
       /\ trade'.poly = Limit(WorstAsk(BuyLevels(p, pside), trade'.n))
  BY <1>1, <1>3, <1>8, <1>9, Sends
<1> QED BY <1>1, <1>4, <1>10

\* A trade that clears buys at least one contract, for less than a dollar, so
\* with a cushion neither limit was cut to 99 cents.
LEMMA SentIsUncut ==
  ASSUME NEW n \in Nat, NEW k \in Nat, NEW p \in Nat, k >= 10, p >= 10, n * (k + p) < n * 1000
  PROVE  n >= 1 /\ k < 990 /\ p < 990
<1>1. k + p \in Nat /\ n * (k + p) \in Nat
  OBVIOUS
<1>3. n # 0
  OBVIOUS
<1>4. k + p < 1000
  BY <1>1, <1>3, ScaledLess
<1> QED BY <1>3, <1>4

LEMMA LimitsCross ==
  ASSUME Cushion >= 1, NEW n, NEW klevels, IsLevels(klevels), NEW plevels, IsLevels(plevels),
         Reaches(klevels, n), Reaches(plevels, n),
         NEW t, NEW margin, Priced(t, margin), n = t.n,
         t.kalshi = Limit(WorstAsk(klevels, n)), t.poly = Limit(WorstAsk(plevels, n))
  PROVE  /\ n \in Nat /\ n >= 1
         /\ Limit(WorstAsk(klevels, n)) >= WorstAsk(klevels, n)
         /\ Limit(WorstAsk(plevels, n)) >= WorstAsk(plevels, n)
<1>1. n \in Nat
  BY DEF Priced
<1>2. PICK k, p : k = WorstAsk(klevels, n) /\ p = WorstAsk(plevels, n)
  OBVIOUS
<1>3. k \in Quoted
  <2>1. WorstAsk(klevels, n) \in Quoted
    BY <1>1, WorstAskPrice, Zenon
  <2> QED BY <1>2, <2>1
<1>4. p \in Quoted
  <2>1. WorstAsk(plevels, n) \in Quoted
    BY <1>1, WorstAskPrice, Zenon
  <2> QED BY <1>2, <2>1
<1>5. PICK lk, lp : lk = Limit(k) /\ lp = Limit(p)
  OBVIOUS
<1>6. lk \in Limits /\ lk >= 10 /\ (lk < 990 => k <= lk)
  <2>1. Limit(k) \in Limits
    BY <1>3, LimitFacts, Zenon
  <2>2. Limit(k) >= 10 /\ (Limit(k) < 990 => k <= Limit(k))
    BY <1>3, LimitCovers, Zenon
  <2> QED BY <1>5, <2>1, <2>2
<1>7. lp \in Limits /\ lp >= 10 /\ (lp < 990 => p <= lp)
  <2>1. Limit(p) \in Limits
    BY <1>4, LimitFacts, Zenon
  <2>2. Limit(p) >= 10 /\ (Limit(p) < 990 => p <= Limit(p))
    BY <1>4, LimitCovers, Zenon
  <2> QED BY <1>5, <2>1, <2>2
<1>8. n >= 1 /\ lk < 990 /\ lp < 990
  <2>1. lk \in Nat /\ lk >= 10 /\ lp \in Nat /\ lp >= 10 /\ lk \in Prices /\ lp \in Prices
    BY <1>6, <1>7 DEF Prices, Limits
  <2>2. PICK a, b : a = FeeAt("kalshi", n, lk) /\ b = FeeAt("poly", n, lp)
    OBVIOUS
  <2>3. a \in Nat /\ b \in Nat
    BY <1>1, <2>1, <2>2, FeeAtBounds
  <2>4. n * (lk + lp) + a + b < 1000 * n
    BY <1>2, <1>5, <2>2 DEF Priced, Clears
  <2>5. PICK x \in Nat : x = n * (lk + lp)
    BY <1>1, <2>1
  <2>6. x + a + b < 1000 * n
    BY <2>4, <2>5
  <2>7. x < n * 1000
    BY <1>1, <2>3, <2>6
  <2>8. n * (lk + lp) < n * 1000
    BY <2>5, <2>7
  <2> QED BY <1>1, <2>1, <2>8, SentIsUncut
<1> QED BY <1>1, <1>2, <1>5, <1>6, <1>7, <1>8

SidesInv == kside \in Sides /\ pside \in Sides

LEMMA SidesStep == ASSUME SidesInv, [SizingNext]_sizingVars PROVE SidesInv'
<1>1. kside' = kside /\ pside' = pside
  BY Zenon DEF SizingNext, sizingVars, AutoTrade, ManualTrade, Send, FillBoth, FillUnequal,
         choose_recovery_order, hedge_missing_leg, neutralize, Exit, NextStep
<1> QED BY <1>1 DEF SidesInv

\* Only the two kinds of trade send a pair of orders.
LEMMA OnlyTradesSend ==
  ASSUME [SizingNext]_sizingVars, phase' = "sent"
  PROVE  AutoTrade \/ ManualTrade \/ UNCHANGED sizingVars
BY DEF SizingNext, FillBoth, FillUnequal, choose_recovery_order, hedge_missing_leg, neutralize,
       Exit, NextStep

LEMMA SentOrdersCrossStep ==
  ASSUME Cushion >= 1, SidesInv, SentOrdersCross, [SizingNext]_sizingVars
  PROVE  SentOrdersCross'
<1> SUFFICES ASSUME phase' = "sent" PROVE SentOrdersCross'
  BY DEF SentOrdersCross
<1>1. CASE UNCHANGED sizingVars
  BY <1>1 DEF sizingVars, SentOrdersCross, BestAsk
<1>2. CASE AutoTrade
  <2>1. PICK k \in KalshiBooks, r \in KalshiBooks, p \in PolyBooks :
           /\ pbook' = p /\ rest' = r /\ kside' = kside /\ pside' = pside /\ ~Vetoed(k, r)
           /\ Priced(trade', MinMargin) /\ trade'.auto = TRUE
           /\ Reaches(BuyLevels(k, kside), trade'.n) /\ Reaches(BuyLevels(p, pside), trade'.n)
           /\ trade'.kalshi = Limit(WorstAsk(BuyLevels(k, kside), trade'.n))
           /\ trade'.poly = Limit(WorstAsk(BuyLevels(p, pside), trade'.n))
    BY <1>2, AutoSends DEF SidesInv
  <2>2. PICK n, klevels, plevels, rlevels :
          /\ n = trade'.n /\ klevels = BuyLevels(k, kside) /\ plevels = BuyLevels(p, pside)
          /\ rlevels = BuyLevels(r, kside)
    OBVIOUS
  <2>3. IsLevels(klevels) /\ IsLevels(plevels) /\ IsLevels(rlevels)
    BY <2>2, BookLevels DEF SidesInv
  <2>4. /\ n \in Nat /\ n >= 1
        /\ Limit(WorstAsk(klevels, n)) >= WorstAsk(klevels, n)
        /\ Limit(WorstAsk(plevels, n)) >= WorstAsk(plevels, n)
    BY <2>1, <2>2, <2>3, LimitsCross
  <2>5. trade'.poly >= WorstAsk(BuyLevels(pbook', pside'), trade'.n)
    BY <2>1, <2>2, <2>4
  <2>6. BestAsk(k) # None /\ BestAsk(r) # None /\ ~(BestAsk(r) > BestAsk(k))
    BY <2>1 DEF Vetoed
  <2>7. BestAsk(k) = WorstAsk(klevels, 1) /\ BestAsk(r) = WorstAsk(rlevels, 1)
    BY <2>2 DEF BestAsk
  <2>8. Reaches(rlevels, 1)
    BY <2>6, <2>7 DEF WorstAsk
  <2>9. WorstAsk(rlevels, 1) \in Quoted
    BY <2>3, <2>8, WorstAskPrice, Zenon
  <2>10. WorstAsk(klevels, n) \in Quoted /\ WorstAsk(klevels, 1) <= WorstAsk(klevels, n)
    <3>1. n \in Nat /\ IsLevels(klevels) /\ Reaches(klevels, n)
      BY <2>1, <2>2, <2>3, <2>4
    <3>2. WorstAsk(klevels, n) \in Quoted
      BY <3>1, WorstAskPrice, Zenon
    <3>3. \A i \in Nat : i <= n => WorstAsk(klevels, i) <= WorstAsk(klevels, n)
      BY <3>1, WorstAskFacts
    <3> QED BY <2>4, <3>2, <3>3
  <2>11. WorstAsk(klevels, 1) \in Quoted
    <3>1. Reaches(klevels, 1)
      BY <2>6, <2>7 DEF WorstAsk
    <3> QED BY <2>3, <3>1, WorstAskPrice, Zenon
  <2>12. PICK a \in Nat, b \in Nat, c \in Nat :
           a = WorstAsk(rlevels, 1) /\ b = WorstAsk(klevels, 1) /\ c = WorstAsk(klevels, n)
    <3>1. \A x \in Quoted : x \in Nat
      BY DEF Quoted
    <3> QED BY <2>9, <2>10, <2>11, <3>1
  <2>13. WorstAsk(klevels, n) \in Quoted
    BY <2>10
  <2>14. Limit(WorstAsk(klevels, n)) \in Limits
    BY <2>13, LimitFacts, Zenon
  <2>15. PICK l \in Nat : l = Limit(WorstAsk(klevels, n))
    BY <2>14 DEF Limits
  <2>16. a <= b /\ b <= c /\ c <= l
    BY <2>4, <2>6, <2>7, <2>10, <2>12, <2>15
  <2>17. trade'.kalshi = l /\ BestAsk(r)' = a
    BY <2>1, <2>2, <2>7, <2>12, <2>15 DEF BestAsk
  <2>18. BestAsk(rest)' = BestAsk(r)'
    BY <2>1 DEF BestAsk
  <2>19. trade'.kalshi >= BestAsk(rest)'
    BY <2>16, <2>17, <2>18
  <2> QED BY <2>5, <2>19 DEF SentOrdersCross
<1>3. CASE ManualTrade
  <2>1. PICK k \in KalshiBooks, p \in PolyBooks :
           /\ pbook' = p /\ kside' = kside /\ pside' = pside
           /\ Priced(trade', 0) /\ trade'.auto = FALSE
           /\ Reaches(BuyLevels(k, kside), trade'.n) /\ Reaches(BuyLevels(p, pside), trade'.n)
           /\ trade'.kalshi = Limit(WorstAsk(BuyLevels(k, kside), trade'.n))
           /\ trade'.poly = Limit(WorstAsk(BuyLevels(p, pside), trade'.n))
    BY <1>3, ManualSends DEF SidesInv
  <2>2. PICK n, klevels, plevels :
          n = trade'.n /\ klevels = BuyLevels(k, kside) /\ plevels = BuyLevels(p, pside)
    OBVIOUS
  <2>3. IsLevels(klevels) /\ IsLevels(plevels)
    BY <2>2, BookLevels DEF SidesInv
  <2>4. Limit(WorstAsk(plevels, n)) >= WorstAsk(plevels, n)
    BY <2>1, <2>2, <2>3, LimitsCross
  <2>5. trade'.poly >= WorstAsk(BuyLevels(pbook', pside'), trade'.n)
    BY <2>1, <2>2, <2>4
  <2> QED BY <2>1, <2>5 DEF SentOrdersCross
<1> QED BY <1>1, <1>2, <1>3, OnlyTradesSend

\* SentOrdersCross: what find_profitable_contract_size and the veto of a stale
\* book send can fill on the books of both venues, for any books, sizes and
\* settings with a cushion of at least a cent.
THEOREM SentOrdersFill ==
  ASSUME Cushion >= 1 PROVE SizingSpec => []SentOrdersCross
<1>1. SizingInit => SidesInv /\ SentOrdersCross
  BY DEF SizingInit, SidesInv, SentOrdersCross
<1>2. SidesInv /\ SentOrdersCross /\ [SizingNext]_sizingVars => (SidesInv /\ SentOrdersCross)'
  BY SidesStep, SentOrdersCrossStep
<1> QED BY <1>1, <1>2, PTL DEF SizingSpec

-----------------------------------------------------------------------------
(* What a pair of full fills costs.                                        *)

LEMMA TickFacts ==
  ASSUME NEW venue, NEW l \in Prices
  PROVE  /\ Ticks(venue) \cup {l} \subseteq Prices
         /\ venue = "kalshi" /\ l \in Cent => Ticks(venue) \cup {l} \subseteq Cent
<1>1. KalshiTicks \subseteq Prices /\ KalshiTicks \subseteq Cent
  <2> SUFFICES ASSUME NEW p \in KalshiTicks PROVE p \in Prices /\ p \in Cent
    OBVIOUS
  <2>1. PICK c \in 0..100 : p = 10 * c
    BY SizingAssumption
  <2> QED BY <2>1 DEF Prices, Cent
<1>2. PolyTicks \subseteq Prices
  BY SizingAssumption DEF Prices
<1> QED BY <1>1, <1>2 DEF Ticks

LEMMA BuyFillFacts ==
  ASSUME NEW venue, NEW n \in Nat, NEW l \in Prices, NEW f \in BuyFills(venue, n, l)
  PROVE  /\ f.paid \in Nat /\ f.spread \in Nat /\ f.paid <= n * l
         /\ 1000 * f.paid + f.spread <= n * (1000 * l + Spread(l))
         /\ Unit * f.paid + Rate(venue) * f.spread <= n * (Unit * l + Rate(venue) * Spread(l))
         /\ venue = "kalshi" /\ l \in Cent => f.paid \in Cent
<1> DEFINE prices == {p \in Ticks(venue) \cup {l} : p <= l}
<1>1. f \in Fills(n, prices)
  BY DEF BuyFills
<1>2. prices \subseteq Prices
  BY TickFacts
<1>3. \A p \in prices : p \in Prices /\ p <= l
  BY <1>2
<1>4. l \in Int /\ Spread(l) \in Int /\ Unit \in Int /\ Rate(venue) \in Int
  BY SMT DEF Prices, Spread, Unit, Rate
<1>5. \A p \in prices : p \in Int /\ Spread(p) \in Int
  BY <1>3, SMT DEF Prices, Spread
<1> HIDE DEF prices
<1>6. f.paid <= n * l /\ f.paid \in Nat /\ f.spread \in Nat
  <2>1. \A p \in prices : p <= l
    BY <1>3
  <2> QED BY <1>1, <1>2, <1>4, <2>1, FillsPaid
<1>7. 1000 * f.paid + f.spread <= n * (1000 * l + Spread(l))
  <2>1. ASSUME NEW p \in prices PROVE 1000 * p + 1 * Spread(p) <= 1000 * l + Spread(l)
    <3>1. 1000 * p + Spread(p) <= 1000 * l + Spread(l)
      BY <1>3, NetPrice
    <3>2. 1 * Spread(p) = Spread(p)
      BY <1>5
    <3> QED BY <3>1, <3>2
  <2>2. PICK c \in Int : c = 1000 * l + Spread(l)
    BY <1>4
  <2>3. \A p \in prices : 1000 * p + 1 * Spread(p) <= c
    BY <2>1, <2>2
  <2>4. 1000 \in Int /\ 1 \in Int
    OBVIOUS
  <2>5. 1000 * f.paid + 1 * f.spread <= n * c
    BY <1>1, <1>2, <2>3, <2>4, FillsBound
  <2>6. 1 * f.spread = f.spread
    BY <1>6
  <2> QED BY <2>2, <2>5, <2>6
<1>8. Unit * f.paid + Rate(venue) * f.spread <= n * (Unit * l + Rate(venue) * Spread(l))
  <2>1. \A p \in prices : Unit * p + Rate(venue) * Spread(p) <= Unit * l + Rate(venue) * Spread(l)
    BY <1>3, NetPrice
  <2>2. Unit * l + Rate(venue) * Spread(l) \in Int
    BY <1>4
  <2> QED BY <1>1, <1>2, <1>4, <2>1, <2>2, FillsBound
<1>9. ASSUME venue = "kalshi", l \in Cent PROVE f.paid \in Cent
  <2>1. prices \subseteq Cent
    BY <1>9, TickFacts DEF prices
  <2>2. \A p \in prices : p <= l
    BY <1>3
  <2> QED BY <1>1, <1>2, <1>4, <2>1, <2>2, FillsPaid
<1> QED BY <1>6, <1>7, <1>8, <1>9

\* A better price on Kalshi saves at least the cents its fee may be higher.
LEMMA KalshiLegArithmetic ==
  ASSUME NEW x \in Cent, NEW paid \in Cent, paid <= x, NEW new \in Cent, NEW old \in Cent,
         NEW s \in Nat, NEW t \in Nat, 1000 * paid + s <= 1000 * x + t,
         Unit * new < 140 * s + 10 * Unit, 140 * t <= Unit * old
  PROVE  paid + new <= x + old
<1>1. PICK a \in Nat, b \in Nat, c \in Nat, d \in Nat :
        x = 10 * a /\ paid = 10 * b /\ new = 10 * c /\ old = 10 * d
  BY DEF Cent
<1>2. c < d + (a - b) + 1
  BY <1>1, SMT DEF Unit
<1> QED BY <1>1, <1>2

\* One on Polymarket, in mills, saves less than a cent less than that.
LEMMA PolyLegArithmetic ==
  ASSUME NEW x \in Nat, NEW paid \in Nat, paid <= x, NEW new \in Nat, NEW old \in Nat,
         NEW s \in Nat, NEW t \in Nat, 1000 * paid + s <= 1000 * x + t,
         Unit * new <= 139 * s + 5 * Unit, 139 * t - 5 * Unit <= Unit * old,
         s <= t => new <= old
  PROVE  paid + new <= x + old + 9
BY SMT DEF Unit

LEMMA PolyFeeGrows ==
  ASSUME NEW s \in Nat, NEW t \in Nat, s <= t
  PROVE  Fee("poly", s, 1) <= Fee("poly", t, 1)
<1>1. 139 * s \in Nat /\ 139 * t \in Nat /\ 139 * s <= 139 * t /\ 20000000 * 1 \in Nat \ {0}
  BY SMT
<1>2. PICK b \in Nat \ {0} : b = 20000000 * 1
  BY <1>1, SMT
<1>3. HalfEven(139 * s, b) <= HalfEven(139 * t, b)
  BY <1>1, HalfEvenGrows, SMT
<1>4. HalfEven(139 * s, b) \in Nat /\ HalfEven(139 * t, b) \in Nat
  <2>1. \A a \in Nat : HalfEven(a, b) \in Nat
    BY HalfEvenBounds
  <2> QED BY <1>1, <2>1
<1>5. Fee("poly", s, 1) = 10 * HalfEven(139 * s, b) /\ Fee("poly", t, 1) = 10 * HalfEven(139 * t, b)
  BY <1>2, SMT DEF Fee, polymarket_taker_fee
<1> QED BY <1>3, <1>4, <1>5

LEMMA KalshiLeg ==
  ASSUME NEW n \in Nat, NEW l \in Prices, l \in Cent, NEW f \in BuyFills("kalshi", n, l)
  PROVE  /\ FeeAt("kalshi", n, l) \in Cent /\ FeeOf("kalshi", f) \in Nat /\ f.paid \in Nat
         /\ f.paid + FeeOf("kalshi", f) <= n * l + FeeAt("kalshi", n, l)
<1>1. PICK x, paid, s, t, old, new : /\ x = n * l /\ paid = f.paid /\ s = f.spread /\ t = n * Spread(l)
                                   /\ new = Fee("kalshi", s, 1) /\ old = Fee("kalshi", t, 1)
  OBVIOUS
<1>2. /\ s \in Nat /\ paid <= x /\ paid \in Cent
      /\ 1000 * paid + s <= n * (1000 * l + Spread(l))
  <2>1. /\ f.spread \in Nat /\ f.paid <= n * l
        /\ 1000 * f.paid + f.spread <= n * (1000 * l + Spread(l))
    BY BuyFillFacts
  <2>2. f.paid \in Cent
    BY BuyFillFacts
  <2> QED BY <1>1, <2>1, <2>2
<1>3. x \in Cent /\ t \in Nat
  <2>1. x \in Cent
    BY <1>1, CentFacts
  <2>2. t \in Nat
    BY <1>1, SMT DEF Spread, Prices
  <2> QED BY <2>1, <2>2
<1>4. n * (1000 * l + Spread(l)) = 1000 * x + t
  BY <1>1, SMT DEF Spread, Prices
<1>5. new \in Cent /\ old \in Cent
  <2>1. 1 \in Nat \ {0}
    OBVIOUS
  <2>2. (\E c \in Nat : new = 10 * c) /\ (\E c \in Nat : old = 10 * c)
    BY <1>1, <1>2, <1>3, <2>1, FeeInCents
  <2> QED BY <2>2 DEF Cent
<1>6. Unit * new < 140 * s + 10 * Unit
  <2>1. Unit * Fee("kalshi", s, 1) < Rate("kalshi") * s + Over("kalshi") * Unit
    BY <1>2, FeeOfWhole
  <2>2. Rate("kalshi") = 140 /\ Over("kalshi") = 10
    BY DEF Rate, Over
  <2> QED BY <1>1, <2>1, <2>2
<1>7. 140 * t <= Unit * old
  <2>1. Rate("kalshi") * t - Under("kalshi") * Unit <= Unit * Fee("kalshi", t, 1)
    BY <1>3, FeeOfWhole
  <2>2. Rate("kalshi") = 140 /\ Under("kalshi") = 0
    BY DEF Rate, Under
  <2>3. 0 * Unit = 0 /\ 140 * t \in Nat
    BY <1>3, SMT DEF Unit
  <2> QED BY <1>1, <2>1, <2>2, <2>3
<1>8. paid + new <= x + old
  BY <1>2, <1>3, <1>4, <1>5, <1>6, <1>7, KalshiLegArithmetic
<1>9. FeeOf("kalshi", f) = new
  BY <1>1 DEF FeeOf
<1>10. FeeAt("kalshi", n, l) = old
  <2>1. n * l * (1000 - l) = t
    BY <1>1, SMT DEF Spread, Prices
  <2> QED BY <1>1, <2>1 DEF FeeAt
<1>11. new \in Nat /\ paid \in Nat
  BY <1>2, <1>5, CentFacts
<1> QED BY <1>1, <1>5, <1>8, <1>9, <1>10, <1>11

LEMMA PolyLeg ==
  ASSUME NEW n \in Nat, NEW l \in Prices, NEW f \in BuyFills("poly", n, l)
  PROVE  /\ FeeAt("poly", n, l) \in Cent /\ FeeOf("poly", f) \in Nat /\ f.paid \in Nat
         /\ f.paid + FeeOf("poly", f) <= n * l + FeeAt("poly", n, l) + 9
<1>1. PICK x, paid, s, t, old, new : /\ x = n * l /\ paid = f.paid /\ s = f.spread /\ t = n * Spread(l)
                                   /\ new = Fee("poly", s, 1) /\ old = Fee("poly", t, 1)
  OBVIOUS
<1>2. /\ s \in Nat /\ paid <= x /\ paid \in Nat
      /\ 1000 * paid + s <= n * (1000 * l + Spread(l))
  BY <1>1, BuyFillFacts
<1>3. x \in Nat /\ t \in Nat
  BY <1>1, SMT DEF Spread, Prices
<1>4. n * (1000 * l + Spread(l)) = 1000 * x + t
  BY <1>1, SMT DEF Spread, Prices
<1>5. new \in Cent /\ old \in Cent
  <2>1. 1 \in Nat \ {0}
    OBVIOUS
  <2>2. (\E c \in Nat : new = 10 * c) /\ (\E c \in Nat : old = 10 * c)
    BY <1>1, <1>2, <1>3, <2>1, FeeInCents
  <2> QED BY <2>2 DEF Cent
<1>6. Unit * new <= 139 * s + 5 * Unit
  <2>1. Unit * Fee("poly", s, 1) <= Rate("poly") * s + Over("poly") * Unit
    BY <1>2, FeeOfWhole
  <2>2. Rate("poly") = 139 /\ Over("poly") = 5
    BY DEF Rate, Over
  <2> QED BY <1>1, <2>1, <2>2
<1>7. 139 * t - 5 * Unit <= Unit * old
  <2>1. Rate("poly") * t - Under("poly") * Unit <= Unit * Fee("poly", t, 1)
    BY <1>3, FeeOfWhole
  <2>2. Rate("poly") = 139 /\ Under("poly") = 5
    BY DEF Rate, Under
  <2> QED BY <1>1, <2>1, <2>2
<1>8. s <= t => new <= old
  BY <1>1, <1>2, <1>3, PolyFeeGrows
<1>9. new \in Nat /\ old \in Nat
  BY <1>5, CentFacts
<1>10. paid + new <= x + old + 9
  <2>1. 1000 * paid + s <= 1000 * x + t
    BY <1>2, <1>4
  <2>2. /\ paid \in Nat /\ x \in Nat /\ paid <= x /\ new \in Nat /\ old \in Nat
        /\ s \in Nat /\ t \in Nat
    BY <1>2, <1>3, <1>9
  <2> QED BY <1>6, <1>7, <1>8, <2>1, <2>2, SMT DEF Unit
<1>11. FeeOf("poly", f) = new
  BY <1>1 DEF FeeOf
<1>12. FeeAt("poly", n, l) = old
  <2>1. n * l * (1000 - l) = t
    BY <1>1, SMT DEF Spread, Prices
  <2> QED BY <1>1, <2>1 DEF FeeAt
<1> QED BY <1>1, <1>2, <1>5, <1>9, <1>10, <1>11, <1>12

\* what TradePays asks of a trade that cost this much
Pays(t, cost, margin) ==
  /\ cost < 1000 * t.n
  /\ cost - 9 <= MaxAmount
  /\ 1000 * (1000 * t.n - (cost - 9)) >= margin * (cost - 9)

LEMMA PaysWithin ==
  ASSUME NEW n \in Nat, NEW cost \in Cent, NEW total \in Nat, total <= cost + 9, cost < 1000 * n,
         NEW margin \in Nat, 1000 * (1000 * n - cost) >= margin * cost
  PROVE  /\ total < 1000 * n
         /\ 1000 * (1000 * n - (total - 9)) >= margin * (total - 9)
<1>1. PICK c \in Nat : cost = 10 * c
  BY DEF Cent
<1>2. c <= 100 * n - 1
  BY <1>1
<1>3. total - 9 \in Int /\ cost \in Int /\ total - 9 <= cost
  BY <1>1
<1>4. margin * (total - 9) <= margin * cost
  BY <1>3, TimesLess
<1>5. margin * (total - 9) \in Int /\ margin * cost \in Int
  BY <1>3
<1>6. total < 1000 * n
  BY <1>1, <1>2
<1>7. 1000 * (1000 * n - cost) <= 1000 * (1000 * n - (total - 9))
  BY <1>3
<1> QED BY <1>3, <1>4, <1>5, <1>6, <1>7

LEMMA FilledPairPays ==
  ASSUME NEW t, NEW margin \in Nat, Priced(t, margin),
         NEW k \in BuyFills("kalshi", t.n, t.kalshi), NEW p \in BuyFills("poly", t.n, t.poly)
  PROVE  Pays(t, k.paid + p.paid + FeeOf("kalshi", k) + FeeOf("poly", p), margin)
<1>1. PICK n, lk, lp, cost, a, b : /\ n = t.n /\ lk = t.kalshi /\ lp = t.poly /\ cost = t.cost
                                   /\ a = FeeAt("kalshi", n, lk) /\ b = FeeAt("poly", n, lp)
  OBVIOUS
<1>2. n \in Nat /\ lk \in Prices /\ lk \in Cent /\ lp \in Prices /\ lp \in Cent
  <2>1. lk \in Limits /\ lp \in Limits
    BY <1>1 DEF Priced
  <2> QED BY <1>1, <2>1 DEF Priced, Prices, Limits
<1>3. cost = n * (lk + lp) + a + b /\ cost <= MaxAmount /\ cost < 1000 * n
      /\ 1000 * (1000 * n - cost) >= margin * cost
  BY <1>1 DEF Priced, Clears
<1>4. PICK fk, fp, kp, pp : fk = FeeOf("kalshi", k) /\ fp = FeeOf("poly", p) /\ kp = k.paid /\ pp = p.paid
  OBVIOUS
<1>5. a \in Cent /\ fk \in Nat /\ kp \in Nat /\ kp + fk <= n * lk + a
  BY <1>1, <1>2, <1>4, KalshiLeg
<1>6. b \in Cent /\ fp \in Nat /\ pp \in Nat /\ pp + fp <= n * lp + b + 9
  BY <1>1, <1>2, <1>4, PolyLeg
<1>7. n * (lk + lp) = n * lk + n * lp /\ n * lk \in Nat /\ n * lp \in Nat /\ a \in Nat /\ b \in Nat
  BY <1>2, <1>5, <1>6, CentFacts DEF Prices
<1>8. lk + lp \in Cent /\ n * (lk + lp) \in Cent
  BY <1>2, CentFacts
<1>9. cost \in Cent
  BY <1>3, <1>5, <1>6, <1>8, CentFacts
<1>10. PICK total \in Nat : total = kp + pp + fk + fp
  BY <1>5, <1>6
<1>11. PICK x \in Nat, y \in Nat : x = n * lk /\ y = n * lp
  BY <1>7
<1>12. cost \in Nat /\ total <= cost + 9
  <2>1. cost \in Nat
    BY <1>9, CentFacts
  <2>2. cost = x + y + a + b /\ kp + fk <= x + a /\ pp + fp <= y + b + 9
    BY <1>3, <1>5, <1>6, <1>7, <1>11
  <2>3. a \in Nat /\ b \in Nat /\ kp \in Nat /\ fk \in Nat /\ pp \in Nat /\ fp \in Nat
    BY <1>5, <1>6, <1>7
  <2> QED BY <1>10, <2>1, <2>2, <2>3
<1>13. /\ total < 1000 * n
       /\ 1000 * (1000 * n - (total - 9)) >= margin * (total - 9)
  <2>1. cost < 1000 * n
    BY <1>3
  <2>2. 1000 * (1000 * n - cost) >= margin * cost
    BY <1>3
  <2>3. n \in Nat /\ total \in Nat /\ total <= cost + 9
    BY <1>2, <1>12
  <2> QED BY <1>9, <2>1, <2>2, <2>3, PaysWithin
<1>14. total - 9 <= MaxAmount
  BY <1>3, <1>12, SizingAssumption
<1> QED BY <1>1, <1>4, <1>10, <1>13, <1>14 DEF Pays

SentInv ==
  phase = "sent" => trade.auto \in BOOLEAN /\ Priced(trade, IF trade.auto THEN MinMargin ELSE 0)

LEMMA SentInvStep ==
  ASSUME SidesInv, SentInv, [SizingNext]_sizingVars PROVE SentInv'
<1> SUFFICES ASSUME phase' = "sent" PROVE SentInv'
  BY DEF SentInv
<1>1. CASE UNCHANGED sizingVars
  BY <1>1 DEF sizingVars, SentInv, Priced, Clears
<1>2. CASE AutoTrade
  <2>1. trade'.auto = TRUE /\ Priced(trade', MinMargin)
    BY <1>2, AutoSends DEF SidesInv
  <2>2. Priced(trade, MinMargin)'
    BY <2>1 DEF Priced, Clears
  <2>3. Priced(trade, IF trade.auto THEN MinMargin ELSE 0)'
    BY <2>1 DEF Priced, Clears
  <2> QED BY <2>1, <2>3 DEF SentInv
<1>3. CASE ManualTrade
  <2>1. trade'.auto = FALSE /\ Priced(trade', 0)
    BY <1>3, ManualSends DEF SidesInv
  <2>3. Priced(trade, IF trade.auto THEN MinMargin ELSE 0)'
    BY <2>1 DEF Priced, Clears
  <2> QED BY <2>1, <2>3 DEF SentInv
<1> QED BY <1>1, <1>2, <1>3, OnlyTradesSend

LEMMA TradePaysStep ==
  ASSUME SentInv, TradePays, [SizingNext]_sizingVars PROVE TradePays'
<1> SUFFICES ASSUME phase' = "paired" PROVE TradePays'
  BY DEF TradePays
<1>1. CASE UNCHANGED sizingVars
  BY <1>1 DEF sizingVars, TradePays
<1>2. CASE FillBoth
  <2>1. PICK k \in BuyFills("kalshi", trade.n, trade.kalshi), p \in BuyFills("poly", trade.n, trade.poly) :
          fills' = k.paid + p.paid + FeeOf("kalshi", k) + FeeOf("poly", p)
    BY <1>2 DEF FillBoth
  <2>2. PICK margin : margin = IF trade.auto THEN MinMargin ELSE 0
    OBVIOUS
  <2>3. margin \in Nat
    BY <2>2, SizingAssumption
  <2>4. trade.auto \in BOOLEAN /\ Priced(trade, margin)
    BY <1>2, <2>2 DEF SentInv, FillBoth
  <2>5. Pays(trade, fills', margin)
    BY <2>1, <2>3, <2>4, FilledPairPays
  <2>6. trade' = trade /\ (trade.auto => margin = MinMargin)
    BY <1>2, <2>2 DEF FillBoth
  <2> QED BY <2>5, <2>6 DEF Pays, TradePays
<1> QED BY <1>1, <1>2 DEF SizingNext, AutoTrade, ManualTrade, Send, FillUnequal, choose_recovery_order,
        hedge_missing_leg, neutralize, Exit, NextStep

\* TradePays: the sizing's cost, at the limits and with both fees, is within a
\* cent of what the orders cost wherever they fill, for any books and settings.
THEOREM FilledPairsPay == SizingSpec => []TradePays
<1>1. SizingInit => SidesInv /\ SentInv /\ TradePays
  BY DEF SizingInit, SidesInv, SentInv, TradePays
<1>2. SidesInv /\ SentInv /\ TradePays /\ [SizingNext]_sizingVars => (SidesInv /\ SentInv /\ TradePays)'
  BY SidesStep, SentInvStep, TradePaysStep
<1> QED BY <1>1, <1>2, PTL DEF SizingSpec

-----------------------------------------------------------------------------
(* What a repair may lose.                                                 *)

\* What a sale brings in after its exact fee grows with its price.
LEMMA NetSale ==
  ASSUME NEW venue, NEW p \in Prices, NEW l \in Prices, l <= p
  PROVE  (-Unit) * p + Rate(venue) * Spread(p) <= Rate(venue) * Spread(l) - Unit * l
<1>1. PICK x \in Prices, y \in Prices : x = 1000 - p /\ y = 1000 - l
  <2>1. 1000 - p \in Prices /\ 1000 - l \in Prices
    BY DEF Prices
  <2> QED BY <2>1
<1>2. x <= y
  BY <1>1 DEF Prices
<1>3. Unit * x + Rate(venue) * Spread(x) <= Unit * y + Rate(venue) * Spread(y)
  BY <1>2, NetPrice
<1>4. Spread(x) = Spread(p) /\ Spread(y) = Spread(l)
  BY <1>1, SMT DEF Spread, Prices
<1>5. Unit * x = 1000 * Unit - Unit * p /\ Unit * y = 1000 * Unit - Unit * l
  BY <1>1, SMT DEF Prices, Unit
<1>6. Rate(venue) * Spread(p) \in Int /\ Rate(venue) * Spread(l) \in Int
  BY SMT DEF Rate, Spread, Prices
<1>7. Unit * p \in Int /\ Unit * l \in Int /\ 1000 * Unit \in Int /\ (-Unit) * p = -(Unit * p)
  BY SMT DEF Unit, Prices
<1> QED BY <1>3, <1>4, <1>5, <1>6, <1>7

LEMMA SellFillFacts ==
  ASSUME NEW venue, NEW n \in Nat, NEW l \in Prices, NEW f \in SellFills(venue, n, l)
  PROVE  /\ f.paid \in Nat /\ f.spread \in Nat
         /\ Rate(venue) * f.spread - Unit * f.paid <= n * (Rate(venue) * Spread(l) - Unit * l)
<1> DEFINE prices == {p \in Ticks(venue) \cup {l} : p >= l}
<1>1. f \in Fills(n, prices)
  BY DEF SellFills
<1>2. prices \subseteq Prices
  BY TickFacts
<1>3. \A p \in prices : p \in Prices /\ l <= p
  <2>1. \A p \in prices : p \in Prices /\ p >= l
    BY <1>2
  <2> HIDE DEF prices
  <2> QED BY <2>1 DEF Prices
<1> HIDE DEF prices
<1>4. \A p \in prices : (-Unit) * p + Rate(venue) * Spread(p) <= Rate(venue) * Spread(l) - Unit * l
  BY <1>3, NetSale
<1>5. Rate(venue) \in Int /\ -Unit \in Int /\ Rate(venue) * Spread(l) - Unit * l \in Int
  BY SMT DEF Rate, Unit, Spread, Prices
<1>6. /\ f.paid \in Nat /\ f.spread \in Nat
      /\ (-Unit) * f.paid + Rate(venue) * f.spread <= n * (Rate(venue) * Spread(l) - Unit * l)
  BY <1>1, <1>2, <1>4, <1>5, FillsBound
<1>7. (-Unit) * f.paid = -(Unit * f.paid) /\ Unit * f.paid \in Int /\ Rate(venue) * f.spread \in Int
  BY <1>6, SMT DEF Unit, Rate
<1>8. n * (Rate(venue) * Spread(l) - Unit * l) \in Int
  BY <1>5
<1> QED BY <1>6, <1>7, <1>8

\* a leg as FillUnequal leaves it
Lone == [venue : {"kalshi", "poly"}, left : Nat, entry : [paid : Nat, n : Nat \ {0}]]
IsLone(leg) == leg \in Lone /\ leg.entry.paid <= 1000 * leg.entry.n

LEMMA FeeAtAverageBounds ==
  ASSUME NEW venue, NEW m \in Nat, NEW paid \in Nat, NEW n \in Nat \ {0}, paid <= 1000 * n,
         NEW entry, entry.paid = paid, entry.n = n
  PROVE  /\ FeeAtAverage(venue, m, entry) \in Nat
         /\ m * (Rate(venue) * (paid * (1000 * n - paid))) - Under(venue) * (Unit * (n * n))
              <= Unit * ((n * n) * FeeAtAverage(venue, m, entry))
         /\ Unit * ((n * n) * FeeAtAverage(venue, m, entry))
              <= m * (Rate(venue) * (paid * (1000 * n - paid))) + Over(venue) * (Unit * (n * n))
         /\ venue = "kalshi" =>
              Unit * ((n * n) * FeeAtAverage(venue, m, entry))
                < m * (Rate(venue) * (paid * (1000 * n - paid))) + Over(venue) * (Unit * (n * n))
<1>1. PICK num, den : num = m * paid * (1000 * n - paid) /\ den = n * n
  OBVIOUS
<1>2. num \in Nat /\ den \in Nat \ {0}
  <2>1. PICK z : z = 1000 * n - paid
    OBVIOUS
  <2>3. z \in Nat
    BY <2>1
  <2>2. m * paid * z \in Nat /\ n * n \in Nat \ {0}
    BY <2>3
  <2> QED BY <1>1, <2>1, <2>2
<1>3. PICK fee : fee = Fee(venue, num, den)
  OBVIOUS
<1>4. FeeAtAverage(venue, m, entry) = fee
  BY <1>1, <1>3 DEF FeeAtAverage
<1>5. Rate(venue) * num = m * (Rate(venue) * (paid * (1000 * n - paid)))
  <2>1. Rate(venue) \in Int
    BY DEF Rate
  <2>2. PICK r, z : r = Rate(venue) /\ z = 1000 * n - paid
    OBVIOUS
  <2>4. r \in Int /\ z \in Int
    BY <2>1, <2>2
  <2>3. r * (m * paid * z) = m * (r * (paid * z))
    BY <2>4
  <2> QED BY <1>1, <2>2, <2>3
<1>6. /\ fee \in Nat
      /\ Rate(venue) * num - Under(venue) * (Unit * den) <= Unit * (den * fee)
      /\ Unit * (den * fee) <= Rate(venue) * num + Over(venue) * (Unit * den)
      /\ venue = "kalshi" => Unit * (den * fee) < Rate(venue) * num + Over(venue) * (Unit * den)
  BY <1>2, <1>3, FeeBounds
<1> QED BY <1>1, <1>4, <1>5, <1>6

\* The hedge of d of the m contracts of a leg, within the limit that the bound
\* was checked for.
LEMMA HedgeLoses ==
  ASSUME NEW leg, IsLone(leg), leg.left # 0, NEW d \in 0..leg.left,
         NEW l \in Prices,
         forward_hedge_within_loss_bound(leg.entry, leg.venue, Partner(leg.venue), leg.left, l),
         NEW f \in BuyFills(Partner(leg.venue), d, l)
  PROVE  d * leg.entry.paid
           + leg.entry.n * (f.paid + FeeAtAverage(leg.venue, d, leg.entry)
                                   + FeeOf(Partner(leg.venue), f) - 1000 * d)
         < leg.entry.n * (MaxLoss * d + 20)
<1>1. PICK v, w, m, e, paid, n : /\ v = leg.venue /\ w = Partner(leg.venue) /\ m = leg.left
                                 /\ e = leg.entry /\ paid = leg.entry.paid /\ n = leg.entry.n
  OBVIOUS
<1>2. /\ m \in Nat \ {0} /\ paid \in Nat /\ n \in Nat \ {0} /\ paid <= 1000 * n
      /\ e.paid = paid /\ e.n = n /\ d \in 0..m /\ d \in Nat
  BY <1>1 DEF IsLone, Lone
<1>3. (v = "kalshi" /\ w = "poly") \/ (v = "poly" /\ w = "kalshi")
  BY <1>1 DEF IsLone, Lone, Partner
<1>4. PICK a, b, fm, gm, fd, gd, r, x, y, xx, yy :
        /\ a = Rate(v) * (paid * (1000 * n - paid)) /\ b = Rate(w) * Spread(l)
        /\ fm = FeeAtAverage(v, m, e) /\ gm = FeeAt(w, m, l)
        /\ fd = FeeAtAverage(v, d, e) /\ gd = FeeOf(w, f) /\ r = Rate(w) * f.spread
        /\ x = Under(v) /\ y = Under(w) /\ xx = Over(v) /\ yy = Over(w)
  OBVIOUS
<1>5. x \in Nat /\ y \in Nat /\ x + y = 5 /\ xx \in Nat /\ yy \in Nat /\ xx + yy = 15
  BY <1>3, <1>4, SMT DEF Under, Over
<1>6. m * paid + n * (m * l + fm + gm) <= n * m * (1000 + MaxLoss)
  BY <1>1, <1>4 DEF forward_hedge_within_loss_bound
<1>7. /\ fm \in Nat /\ m * a - x * (Unit * (n * n)) <= Unit * ((n * n) * fm)
  BY <1>2, <1>4, FeeAtAverageBounds
<1>8. /\ fd \in Nat
      /\ Unit * ((n * n) * fd) <= d * a + xx * (Unit * (n * n))
      /\ v = "kalshi" => Unit * ((n * n) * fd) < d * a + xx * (Unit * (n * n))
  BY <1>2, <1>4, FeeAtAverageBounds
<1>9. gm \in Nat /\ m * b - y * Unit <= Unit * gm
  BY <1>2, <1>4, FeeAtBounds
<1>10. /\ f.paid \in Nat /\ f.spread \in Nat
       /\ Unit * f.paid + r <= d * (Unit * l + b)
  BY <1>1, <1>2, <1>4, BuyFillFacts
<1>11. /\ gd \in Nat
       /\ Unit * gd <= r + yy * Unit
       /\ w = "kalshi" => Unit * gd < r + yy * Unit
  BY <1>4, <1>10, FeeOfWhole DEF FeeOf
<1>12. a \in Int /\ b \in Int /\ r \in Int
  <2>1. Rate(v) \in Int /\ Rate(w) \in Int /\ Spread(l) \in Int
    BY SMT DEF Rate, Spread, Prices
  <2>2. paid * (1000 * n - paid) \in Int
    BY <1>2
  <2> QED BY <1>4, <1>10, <2>1, <2>2
<1>13. Unit \in Nat \ {0} /\ MaxLoss \in Nat /\ l \in Nat
  BY SizingAssumption, SMT DEF Unit, Prices
<1>14. \/ Unit * ((n * n) * fd) < d * a + xx * (Unit * (n * n))
       \/ Unit * gd < r + yy * Unit
  BY <1>3, <1>8, <1>11
<1>15. PICK fpaid \in Nat : fpaid = f.paid
  BY <1>10
<1>16. Unit * fpaid + r <= d * (Unit * l + b)
  BY <1>10, <1>15
<1>17. d * paid + n * (fpaid + fd + gd - 1000 * d) < n * (MaxLoss * d + 20)
  BY <1>2, <1>5, <1>6, <1>7, <1>8, <1>9, <1>11, <1>12, <1>13, <1>14, <1>16, HedgeArithmetic
<1> QED BY <1>1, <1>4, <1>15, <1>17

\* a fee is no more than what it is of all its contracts at a dollar
LEMMA FeeAtMost ==
  ASSUME NEW venue, NEW m \in Nat, NEW p \in Prices
  PROVE  FeeAt(venue, m, p) \in Nat /\ FeeAt(venue, m, p) <= 140 * (m * 1000000) + 10 * Unit
<1>1. PICK num, fee : num = m * p * (1000 - p) /\ fee = Fee(venue, num, 1)
  OBVIOUS
<1>2. num \in Nat /\ num <= m * 1000000
  <2>1. PICK x : x = p * (1000 - p)
    OBVIOUS
  <2>2. x \in Nat /\ x <= 1000000
    <3>1. p \in Nat /\ 1000 - p \in Nat /\ p <= 1000 /\ 1000 - p <= 1000
      BY SMT DEF Prices
    <3>2. PICK y : y = 1000 - p
      OBVIOUS
    <3>3. p * y <= p * 1000 /\ p * y \in Nat
      BY <3>1, <3>2, SMT
    <3> QED BY <2>1, <3>1, <3>2, <3>3, SMT
  <2>3. m * x \in Nat /\ m * x <= m * 1000000
    BY <2>2, SMT
  <2>4. num = m * x
    BY <1>1, <2>1, SMT DEF Prices
  <2> QED BY <2>3, <2>4
<1>3. fee \in Nat /\ Unit * fee <= Rate(venue) * num + Over(venue) * Unit
  BY <1>1, <1>2, FeeOfWhole
<1>4. Rate(venue) * num + Over(venue) * Unit <= 140 * num + 10 * Unit
  BY <1>2, SMT DEF Rate, Over, Unit
<1>5. fee <= Unit * fee
  BY <1>3, SMT DEF Unit
<1>6. FeeAt(venue, m, p) = fee
  BY <1>1 DEF FeeAt
<1>7. Rate(venue) * num + Over(venue) * Unit \in Int
  BY <1>2, SMT DEF Rate, Over, Unit
<1> QED BY <1>2, <1>3, <1>4, <1>5, <1>6, <1>7, SMT DEF Unit

IsCloseLimit(l, entry, venue, m) ==
  /\ l \in Prices
  /\ \E g \in Nat : /\ close_within_loss_bound(entry, l, m, g)
                    /\ l <= 990 => FeeAt(venue, m, l) <= g
                    /\ l <= 990 \/ l = 1000

\* The limit of a close: it is within the bound with a fee that is no less
\* than the one at the limit.
LEMMA LoosestFacts ==
  ASSUME NEW entry, NEW venue, NEW displayed \in Prices, NEW m \in Nat,
         NEW l, l = loosest_close_limit_cents(entry, venue, displayed, m), l # None
  PROVE  IsCloseLimit(l, entry, venue, m)
<1> DEFINE Fees(c) == {0} \cup {FeeAt(venue, m, p) : p \in Cents(c, Min({displayed, 990}))}
           within == {c \in Cents(10, displayed) : close_within_loss_bound(entry, c, m, Max(Fees(c)))}
<1>1. l = IF within = {} THEN None ELSE Min(within)
  BY DEF loosest_close_limit_cents
<1>2. within # {} /\ l = Min(within)
  <2> HIDE DEF within
  <2> QED BY <1>1
<1>3. \A c \in Cents(10, displayed) : c \in Prices /\ c \in Cent /\ c <= displayed
  <2> SUFFICES ASSUME NEW c \in Cents(10, displayed) PROVE c \in Prices /\ c \in Cent /\ c <= displayed
    OBVIOUS
  <2>1. PICK i \in (10 \div 10) .. (displayed \div 10) : c = 10 * i
    BY DEF Cents
  <2>2. i \in Nat /\ 10 * i <= displayed
    BY <2>1 DEF Prices
  <2> QED BY <2>1, <2>2 DEF Prices, Cent
<1>4. l \in within
  <2>1. within \subseteq Nat
    BY <1>3 DEF Prices
  <2> HIDE DEF within
  <2>2. Min(within) \in within
    BY <1>2, <2>1, MinIsLeast, Zenon
  <2> QED BY <1>2, <2>2
<1>5. l \in Cents(10, displayed) /\ close_within_loss_bound(entry, l, m, Max(Fees(l)))
  BY <1>4
<1>6. l \in Prices /\ l \in Cent /\ l <= displayed
  BY <1>3, <1>5
<1>7. PICK k \in Nat : l = 10 * k
  BY <1>6 DEF Cent
<1>8. l <= 990 \/ l = 1000
  BY <1>6, <1>7 DEF Prices
<1>9. PICK top \in Limits : top = Min({displayed, 990})
  <2>1. displayed \in Nat /\ 990 \in Nat
    BY DEF Prices
  <2>2. Min({displayed, 990}) = IF displayed <= 990 THEN displayed ELSE 990
    BY <2>1, MinOfTwo
  <2> QED BY <2>2 DEF Limits, Prices
<1>10. \A p \in Cents(l, top) : p \in Prices
  <2> SUFFICES ASSUME NEW p \in Cents(l, top) PROVE p \in Prices
    OBVIOUS
  <2>1. PICK i \in (l \div 10) .. (top \div 10) : p = 10 * i
    BY DEF Cents
  <2>2. l \div 10 = k
    BY <1>7
  <2>3. i \in Nat /\ 10 * i <= top
    BY <2>1, <2>2 DEF Limits
  <2> QED BY <2>1, <2>3 DEF Prices, Limits
<1>11. Fees(l) = {0} \cup {FeeAt(venue, m, p) : p \in Cents(l, top)}
  BY <1>9
<1>12. PICK big \in Nat : big = 140 * (m * 1000000) + 10 * Unit
  BY SMT DEF Unit
<1>13. /\ Fees(l) \subseteq Nat /\ Fees(l) # {} /\ \A x \in Fees(l) : x <= big
  <2>1. \A p \in Cents(l, top) : FeeAt(venue, m, p) \in Nat /\ FeeAt(venue, m, p) <= big
    BY <1>10, <1>12, FeeAtMost
  <2> HIDE DEF Fees
  <2> QED BY <1>11, <2>1
<1>14. Max(Fees(l)) \in Fees(l) /\ \A x \in Fees(l) : x <= Max(Fees(l))
  <2> HIDE DEF Fees
  <2> QED BY <1>13, MaxIsGreatest
<1>15. ASSUME l <= 990 PROVE FeeAt(venue, m, l) \in Fees(l)
  <2>1. l <= top
    <3>1. Min({displayed, 990}) \in {displayed, 990}
      BY MinOfTwo DEF Prices
    <3> QED BY <1>6, <1>9, <1>15, <3>1
  <2>2. l \div 10 = k /\ k \in (l \div 10) .. (top \div 10)
    BY <1>7, <2>1 DEF Limits
  <2>3. l \in Cents(l, top)
    BY <1>7, <2>2 DEF Cents
  <2> HIDE DEF Fees
  <2> QED BY <1>11, <2>3
<1>16. PICK g : g = Max(Fees(l))
  BY Zenon
<1> HIDE DEF Fees, within
<1>17. g \in Nat /\ (l <= 990 => FeeAt(venue, m, l) <= g)
  BY <1>13, <1>14, <1>15, <1>16
<1> QED BY <1>5, <1>6, <1>8, <1>16, <1>17 DEF IsCloseLimit

\* The close of d of the m contracts of a leg, at the limit that was found.
LEMMA CloseLoses ==
  ASSUME NEW leg, IsLone(leg), leg.left # 0, NEW d \in 0..leg.left,
         NEW displayed \in Prices,
         NEW l, l = loosest_close_limit_cents(leg.entry, leg.venue, displayed, leg.left), l # None,
         NEW f \in SellFills(leg.venue, d, l)
  PROVE  d * leg.entry.paid + leg.entry.n * (FeeOf(leg.venue, f) - f.paid)
         < leg.entry.n * (MaxLoss * d + 20)
<1>1. PICK v, m, e, paid, n : /\ v = leg.venue /\ m = leg.left
                              /\ e = leg.entry /\ paid = leg.entry.paid /\ n = leg.entry.n
  OBVIOUS
<1>2. /\ m \in Nat \ {0} /\ paid \in Nat /\ n \in Nat \ {0}
      /\ e.paid = paid /\ e.n = n /\ d \in 0..m /\ d \in Nat
  BY <1>1 DEF IsLone, Lone
<1>14. l = loosest_close_limit_cents(e, v, displayed, m) /\ m \in Nat
  BY <1>1, <1>2
<1>15. IsCloseLimit(l, e, v, m)
  BY <1>14, LoosestFacts, Zenon
<1>3. l \in Prices
  BY <1>15 DEF IsCloseLimit
<1>4. PICK g \in Nat : /\ close_within_loss_bound(e, l, m, g)
                       /\ l <= 990 => FeeAt(v, m, l) <= g
                       /\ l <= 990 \/ l = 1000
  BY <1>15 DEF IsCloseLimit
<1>5. PICK b, gd, fpaid, r, x, y :
        /\ b = Rate(v) * Spread(l) /\ gd = FeeOf(v, f) /\ fpaid = f.paid /\ r = Rate(v) * f.spread
        /\ x = Under(v) /\ y = Over(v)
  OBVIOUS
<1>6. x \in 0..5 /\ y \in 0..10
  BY <1>5, SMT DEF Under, Over
<1>7. m * paid <= n * (m * (l + MaxLoss) - g)
  <2>1. n * (m * (l + MaxLoss) - g) >= m * paid
    BY <1>2, <1>4 DEF close_within_loss_bound
  <2>2. l \in Int /\ MaxLoss \in Int
    BY <1>3, SizingAssumption DEF Prices
  <2>3. m * (l + MaxLoss) - g \in Int
    BY <1>2, <1>4, <2>2
  <2>4. n * (m * (l + MaxLoss) - g) \in Int /\ m * paid \in Int
    BY <1>2, <2>3
  <2> QED BY <2>1, <2>4
<1>8. Unit \in Nat \ {0} /\ MaxLoss \in Nat /\ l \in Nat
  BY <1>3, SizingAssumption, SMT DEF Unit, Prices
<1>9. m * b - x * Unit <= Unit * g
  <2>1. CASE l <= 990
    <3>1. PICK fee : fee = FeeAt(v, m, l)
      OBVIOUS
    <3>2. fee \in Nat /\ m * b - x * Unit <= Unit * fee
      BY <1>2, <1>3, <1>5, <3>1, FeeAtBounds
    <3>3. fee <= g
      BY <1>4, <2>1, <3>1
    <3>4. Unit * fee <= Unit * g
      BY <1>8, <3>2, <3>3, TimesLess
    <3>5. m * b \in Int /\ x * Unit \in Int /\ Unit * fee \in Int /\ Unit * g \in Int
      <4>1. b \in Int
        BY <1>3, <1>5, SMT DEF Rate, Spread, Prices
      <4> QED BY <1>2, <1>6, <1>8, <3>2, <4>1
    <3> QED BY <3>2, <3>4, <3>5
  <2>2. CASE l = 1000
    <3>1. b = 0
      BY <1>5, <2>2, SMT DEF Rate, Spread
    <3>2. x * Unit \in Nat /\ Unit * g \in Nat /\ m * 0 = 0
      BY <1>2, <1>6, SMT DEF Unit
    <3> QED BY <3>1, <3>2
  <2> QED BY <1>4, <2>1, <2>2
<1>10. /\ fpaid \in Nat /\ f.spread \in Nat
       /\ r - Unit * fpaid <= d * (b - Unit * l)
  BY <1>1, <1>2, <1>3, <1>5, SellFillFacts
<1>11. gd \in Nat /\ Unit * gd <= r + y * Unit
  BY <1>5, <1>10, FeeOfWhole DEF FeeOf
<1>12. b \in Int /\ r \in Int
  <2>1. Rate(v) \in Int /\ Spread(l) \in Int
    BY <1>3, SMT DEF Rate, Spread, Prices
  <2> QED BY <1>5, <1>10, <2>1
<1>13. d * paid + n * (gd - fpaid) < n * (MaxLoss * d + 20)
  BY <1>2, <1>6, <1>7, <1>8, <1>9, <1>10, <1>11, <1>12, CloseArithmetic, Zenon
<1> QED BY <1>1, <1>5, <1>13

\* the Polymarket book just read, and the leg left alone
AloneInv ==
  /\ pbook \in PolyBooks \cup {None}
  /\ phase \in {"alone", "repair"} => IsLone(lone)

LEMMA LeftAlone ==
  ASSUME SentInv, FillUnequal PROVE IsLone(lone')
<1>1. PICK venue \in {"kalshi", "poly"}, most \in 1 .. trade.n :
        \E least \in 0 .. most - 1 : \E f \in BuyFills(venue, most, trade[venue]) :
          lone' = [venue |-> venue, left |-> most - least, entry |-> [paid |-> f.paid, n |-> most]]
  BY DEF FillUnequal
<1>2. PICK least \in 0 .. most - 1, f \in BuyFills(venue, most, trade[venue]) :
          lone' = [venue |-> venue, left |-> most - least, entry |-> [paid |-> f.paid, n |-> most]]
  BY <1>1
<1>3. trade.n \in Nat /\ trade.kalshi \in Limits /\ trade.poly \in Limits
  BY DEF FillUnequal, SentInv, Priced
<1>4. most \in Nat \ {0} /\ most - least \in Nat
  BY <1>1, <1>2, <1>3
<1>5. PICK l \in Prices : l = trade[venue]
  <2>1. trade.kalshi \in Prices /\ trade.poly \in Prices
    BY <1>3 DEF Prices, Limits
  <2> QED BY <1>1, <2>1
<1>6. f.paid \in Nat /\ f.paid <= most * l
  <2>1. f \in BuyFills(venue, most, l)
    BY <1>2, <1>5
  <2>2. most \in Nat
    BY <1>4
  <2> QED BY <2>1, <2>2, BuyFillFacts
<1>7. most * l <= 1000 * most /\ most * l \in Nat
  BY <1>4, SMT DEF Prices
<1> QED BY <1>1, <1>2, <1>4, <1>6, <1>7 DEF IsLone, Lone

LEMMA LessIsLeft ==
  ASSUME NEW leg, IsLone(leg), NEW d \in 0 .. leg.left
  PROVE  IsLone([leg EXCEPT !.left = leg.left - d])
<1>1. leg.left \in Nat /\ leg.left - d \in Nat
  BY DEF IsLone, Lone
<1> QED BY <1>1 DEF IsLone, Lone

LEMMA AloneInvStep ==
  ASSUME SidesInv, SentInv, AloneInv, [SizingNext]_sizingVars PROVE AloneInv'
<1>1. CASE UNCHANGED sizingVars
  BY <1>1 DEF sizingVars, AloneInv, IsLone
<1>2. CASE AutoTrade
  BY <1>2 DEF AutoTrade, Send, AloneInv
<1>3. CASE ManualTrade
  BY <1>3 DEF ManualTrade, Send, AloneInv
<1>4. CASE FillBoth
  BY <1>4 DEF FillBoth, AloneInv
<1>5. CASE FillUnequal
  <2>1. pbook' = None
    BY <1>5 DEF FillUnequal
  <2>2. IsLone(lone)'
    BY <1>5, LeftAlone DEF IsLone
  <2> QED BY <2>1, <2>2 DEF AloneInv
<1>6. CASE choose_recovery_order
  <2>1. pbook' \in PolyBooks \cup {None} /\ lone' = lone /\ phase = "alone"
    BY <1>6 DEF choose_recovery_order
  <2>2. IsLone(lone)'
    BY <2>1 DEF AloneInv, IsLone
  <2> QED BY <2>1, <2>2 DEF AloneInv
<1>7. ASSUME phase = "repair", NEW d \in 0 .. lone.left, NextStep(d) PROVE AloneInv'
  <2>1. pbook' = None /\ lone' = [lone EXCEPT !.left = lone.left - d]
    BY <1>7 DEF NextStep
  <2>2. IsLone([lone EXCEPT !.left = lone.left - d])
    BY <1>7, LessIsLeft DEF AloneInv
  <2>3. IsLone(lone)'
    BY <2>1, <2>2 DEF IsLone
  <2> QED BY <2>1, <2>3 DEF AloneInv
<1>8. ASSUME phase = "repair" PROVE 0 \in 0 .. lone.left
  BY <1>8 DEF AloneInv, IsLone, Lone
<1>9. CASE hedge_missing_leg
  <2>1. phase = "repair" /\ \E d \in 0 .. lone.left : NextStep(d)
    BY <1>8, <1>9 DEF hedge_missing_leg, Exit
  <2> QED BY <1>7, <2>1
<1>10. CASE neutralize
  <2>1. phase = "repair" /\ \E d \in 0 .. lone.left : NextStep(d)
    BY <1>8, <1>10 DEF neutralize, Exit
  <2> QED BY <1>7, <2>1
<1> QED BY <1>1, <1>2, <1>3, <1>4, <1>5, <1>6, <1>9, <1>10 DEF SizingNext

LEMMA ExitBooks ==
  ASSUME AloneInv, NEW venue, NEW book \in ExitBook(venue), book # None
  PROVE  book \in KalshiBooks \cup PolyBooks
BY DEF AloneInv, ExitBook

LEMMA HedgeLimitFacts ==
  ASSUME SidesInv, AloneInv, NEW venue, NEW book \in ExitBook(venue), IsLone(lone),
         NEW l, l = HedgeLimit(venue, book), l # None
  PROVE  /\ l \in Prices
         /\ forward_hedge_within_loss_bound(lone.entry, lone.venue, venue, lone.left, l)
<1>1. PICK levels, worst : levels = BuyLevels(book, SideOf(venue)) /\ worst = WorstAsk(levels, lone.left)
  OBVIOUS
<1>2. /\ book # None /\ worst # None /\ l = Limit(worst)
      /\ forward_hedge_within_loss_bound(lone.entry, lone.venue, venue, lone.left, Limit(worst))
  BY <1>1 DEF HedgeLimit
<1>3. IsLevels(levels)
  <2>1. SideOf(venue) \in Sides
    BY DEF SideOf, SidesInv
  <2>2. book \in KalshiBooks \cup PolyBooks
    BY <1>2, ExitBooks
  <2> QED BY <1>1, <2>1, <2>2, BookLevels
<1>4. lone.left \in Nat
  BY DEF IsLone, Lone
<1>5. worst \in Quoted
  <2>1. Reaches(levels, lone.left)
    BY <1>1, <1>2 DEF WorstAsk
  <2> QED BY <1>1, <1>3, <1>4, <2>1, WorstAskPrice, Zenon
<1>6. Limit(worst) \in Limits
  BY <1>5, LimitFacts, Zenon
<1>7. l \in Prices
  BY <1>2, <1>6 DEF Prices, Limits
<1> QED BY <1>2, <1>7

LEMMA CloseLimitFacts ==
  ASSUME SidesInv, AloneInv, NEW venue, NEW book \in ExitBook(venue), IsLone(lone),
         NEW l, l = CloseLimit(venue, book), l # None
  PROVE  \E displayed \in Prices :
           l = loosest_close_limit_cents(lone.entry, venue, displayed, lone.left)
<1>1. PICK levels, worst : levels = SellLevels(book, SideOf(venue)) /\ worst = WorstBid(levels, lone.left)
  OBVIOUS
<1>2. /\ book # None /\ worst # None
      /\ l = loosest_close_limit_cents(lone.entry, venue, Round10(worst), lone.left)
  BY <1>1 DEF CloseLimit
<1>3. IsLevels(levels)
  <2>1. SideOf(venue) \in Sides
    BY DEF SideOf, SidesInv
  <2>2. book \in KalshiBooks \cup PolyBooks
    BY <1>2, ExitBooks
  <2> QED BY <1>1, <2>1, <2>2, BookLevels
<1>4. lone.left \in Nat
  BY DEF IsLone, Lone
<1>5. worst \in Quoted
  <2>1. Reaches(levels, lone.left)
    BY <1>1, <1>2 DEF WorstBid
  <2> QED BY <1>1, <1>3, <1>4, <2>1, WorstBidFacts
<1>6. worst \in Prices
  BY <1>5 DEF Quoted, Prices
<1>7. Round10(worst) \in Prices
  BY <1>6, RoundFacts, Zenon
<1> QED BY <1>2, <1>7

LEMMA RepairIsBoundedStep ==
  ASSUME SidesInv, AloneInv, RepairIsBounded, [SizingNext]_sizingVars PROVE RepairIsBounded'
<1>1. CASE repair' = repair
  BY <1>1 DEF RepairIsBounded
<1>2. CASE hedge_missing_leg
  <2> SUFFICES ASSUME repair' # repair PROVE RepairIsBounded'
    BY <1>1
  <2>1. PICK venue : venue = Partner(lone.venue)
    OBVIOUS
  <2>2. PICK book \in ExitBook(venue) :
          LET limit == HedgeLimit(venue, book)
          IN  /\ limit # None
              /\ \E done \in 0 .. lone.left : \E f \in BuyFills(venue, done, limit) :
                     Exit("hedge", venue, limit, done, f)
    BY <1>2, <2>1 DEF hedge_missing_leg
  <2>3. PICK l : l = HedgeLimit(venue, book)
    OBVIOUS
  <2>11. PICK d \in 0 .. lone.left : \E f \in BuyFills(venue, d, l) : Exit("hedge", venue, l, d, f)
    BY <2>2, <2>3
  <2>4. PICK f \in BuyFills(venue, d, l) : Exit("hedge", venue, l, d, f)
    BY <2>11
  <2>5. IsLone(lone) /\ lone.left # 0 /\ l # None
    BY <1>2, <2>2, <2>3 DEF hedge_missing_leg, AloneInv
  <2>6. /\ l \in Prices
        /\ forward_hedge_within_loss_bound(lone.entry, lone.venue, venue, lone.left, l)
    BY <2>3, <2>5, HedgeLimitFacts
  <2>7. d * lone.entry.paid
           + lone.entry.n * (f.paid + FeeAtAverage(lone.venue, d, lone.entry) + FeeOf(venue, f) - 1000 * d)
         < lone.entry.n * (MaxLoss * d + 20)
    <3>1. f \in BuyFills(Partner(lone.venue), d, l)
      BY <2>1, <2>4
    <3>2. forward_hedge_within_loss_bound(lone.entry, lone.venue, Partner(lone.venue), lone.left, l)
      BY <2>1, <2>6
    <3> QED BY <2>1, <2>5, <2>6, <2>11, <3>1, <3>2, HedgeLoses
  <2>8. repair'.of = lone.entry.n /\ repair'.done = d /\ repair'.loss = Loss("hedge", venue, d, f)
    BY <2>4 DEF Exit
  <2>9. Loss("hedge", venue, d, f)
          = d * lone.entry.paid
            + lone.entry.n * (f.paid + FeeAtAverage(lone.venue, d, lone.entry) + FeeOf(venue, f) - 1000 * d)
    BY DEF Loss
  <2>10. repair'.loss < repair'.of * (MaxLoss * repair'.done + 20)
    <3>1. Loss("hedge", venue, d, f) < lone.entry.n * (MaxLoss * d + 20)
      BY <2>7, <2>9
    <3> QED BY <2>8, <3>1, Zenon
  <2> QED BY <2>10 DEF RepairIsBounded
<1>3. CASE neutralize
  <2> SUFFICES ASSUME repair' # repair PROVE RepairIsBounded'
    BY <1>1
  <2>1. PICK venue : venue = lone.venue
    OBVIOUS
  <2>2. PICK book \in ExitBook(venue) :
          LET limit == CloseLimit(venue, book)
          IN  /\ limit # None
              /\ \E done \in 0 .. lone.left : \E f \in SellFills(venue, done, limit) :
                     Exit("unwind", venue, limit, done, f)
    BY <1>3, <2>1 DEF neutralize
  <2>3. PICK l : l = CloseLimit(venue, book)
    OBVIOUS
  <2>11. PICK d \in 0 .. lone.left : \E f \in SellFills(venue, d, l) : Exit("unwind", venue, l, d, f)
    BY <2>2, <2>3
  <2>4. PICK f \in SellFills(venue, d, l) : Exit("unwind", venue, l, d, f)
    BY <2>11
  <2>5. IsLone(lone) /\ lone.left # 0 /\ l # None
    BY <1>3, <2>2, <2>3 DEF neutralize, AloneInv
  <2>6. PICK displayed \in Prices :
          l = loosest_close_limit_cents(lone.entry, venue, displayed, lone.left)
    BY <2>3, <2>5, CloseLimitFacts
  <2>7. d * lone.entry.paid + lone.entry.n * (FeeOf(venue, f) - f.paid)
         < lone.entry.n * (MaxLoss * d + 20)
    <3>1. f \in SellFills(lone.venue, d, l)
      BY <2>1, <2>4
    <3>2. l = loosest_close_limit_cents(lone.entry, lone.venue, displayed, lone.left)
      BY <2>1, <2>6
    <3>3. d * lone.entry.paid + lone.entry.n * (FeeOf(lone.venue, f) - f.paid)
          < lone.entry.n * (MaxLoss * d + 20)
      BY <2>5, <2>6, <2>11, <3>1, <3>2, CloseLoses, Zenon
    <3> QED BY <2>1, <3>3, Zenon
  <2>8. repair'.of = lone.entry.n /\ repair'.done = d /\ repair'.loss = Loss("unwind", venue, d, f)
    BY <2>4 DEF Exit
  <2>9. Loss("unwind", venue, d, f)
          = d * lone.entry.paid + lone.entry.n * (FeeOf(venue, f) - f.paid)
    BY DEF Loss
  <2>10. repair'.loss < repair'.of * (MaxLoss * repair'.done + 20)
    BY <2>7, <2>8, <2>9, Zenon
  <2> QED BY <2>10 DEF RepairIsBounded
<1> QED BY <1>1, <1>2, <1>3, Zenon DEF SizingNext, sizingVars, AutoTrade, ManualTrade, Send, FillBoth,
        FillUnequal, choose_recovery_order

\* RepairIsBounded: the limit of an exit, found within the bound for all the
\* contracts left at the fees of a full fill, bounds what the exit loses on
\* those it fills, for any books, prices and settings.
THEOREM RepairsStayBounded == SizingSpec => []RepairIsBounded
<1>1. SizingInit => SidesInv /\ SentInv /\ AloneInv /\ RepairIsBounded
  BY DEF SizingInit, SidesInv, SentInv, AloneInv, RepairIsBounded
<1>2. SidesInv /\ SentInv /\ AloneInv /\ RepairIsBounded /\ [SizingNext]_sizingVars
        => (SidesInv /\ SentInv /\ AloneInv /\ RepairIsBounded)'
  BY SidesStep, SentInvStep, AloneInvStep, RepairIsBoundedStep
<1> QED BY <1>1, <1>2, PTL DEF SizingSpec

(***************************************************************************)
(* What is decided: AutoTrader.                                            *)
(***************************************************************************)

USE KeysAssumption, ManualAssumption, LimitAssumption

-----------------------------------------------------------------------------
(* Types.                                                                  *)

Steps == {"idle", "ready", "index", "eligible", "flying", "dead"}

TaskTypes ==
  /\ at \in [Tasks -> Steps]
  /\ key \in [Tasks -> Keys \cup {"none"}]
  /\ idx \in [Tasks -> Nat]
  /\ \A t \in Tasks : at[t] = "idle" <=> key[t] = "none"

LEMMA GotoType ==
  ASSUME TaskTypes, NEW t \in Tasks, at[t] # "idle",
         NEW s \in Steps \ {"idle"}, Goto(t, s)
  PROVE  TaskTypes'
  BY DEF TaskTypes, Goto, Steps, Tasks

LEMMA LeaveType ==
  ASSUME TaskTypes, NEW t \in Tasks, Leave(t)
  PROVE  TaskTypes'
  BY DEF TaskTypes, Leave, Steps, Tasks

LEMMA LookType ==
  ASSUME TaskTypes, markets \in Seq(Keys), NEW t \in Tasks, NEW k \in Keys, Look(t, k)
  PROVE  TaskTypes'
  <1>1. CASE UNCHANGED tasks
    BY <1>1 DEF TaskTypes, tasks
  <1>2. CASE /\ at' = [at EXCEPT ![t] = "ready"]
             /\ key' = [key EXCEPT ![t] = k]
             /\ \E i \in DOMAIN markets : idx' = [idx EXCEPT ![t] = i]
    <2>1. PICK i \in DOMAIN markets : idx' = [idx EXCEPT ![t] = i]
      BY <1>2
    <2>2. i \in Nat
      OBVIOUS
    <2>3. QED
      BY <1>2, <2>1, <2>2 DEF TaskTypes, Steps, Tasks
  <1>3. QED
    BY <1>1, <1>2 DEF Look

LEMMA SplitType ==
  TypeOK <=> /\ TaskTypes
             /\ enabled \in BOOLEAN /\ count \in Nat /\ excluded \subseteq Keys
             /\ markets \in Seq(Keys) /\ fresh \subseteq Keys /\ ripe \subseteq Keys
             /\ marked \subseteq Keys /\ queue \in Seq(Keys) /\ todo \subseteq Keys
             /\ manual \in [Manual -> {"idle", "open"}]
             /\ resetting \in BOOLEAN /\ spent \subseteq Keys
  BY DEF TypeOK, TaskTypes, Steps

LEMMA SteadyType == Steady \subseteq Keys
  BY DEF Steady, ToSet

\* Tasks that are all at none of their steps.
LEMMA IdleType ==
  /\ [t \in Tasks |-> "idle"] \in [Tasks -> Steps]
  /\ [t \in Tasks |-> "none"] \in [Tasks -> Keys \cup {"none"}]
  /\ [t \in Tasks |-> 0] \in [Tasks -> Nat]
  /\ [m \in Manual |-> "idle"] \in [Manual -> {"idle", "open"}]
  BY DEF Steps

LEMMA TypeInit == Init => TypeOK
  <1> SUFFICES ASSUME Init PROVE TypeOK
    OBVIOUS
  <1>1. enabled \in BOOLEAN /\ resetting \in BOOLEAN
    BY Zenon DEF Init
  <1>2. TaskTypes
    BY IdleType DEF Init, TaskTypes
  <1>3. queue \in Seq(Keys) /\ count \in Nat /\ manual \in [Manual -> {"idle", "open"}]
    BY IdleType DEF Init
  <1>4. QED
    BY <1>1, <1>2, <1>3, SteadyType, SplitType DEF Init

LEMMA CheckType ==
  ASSUME TypeOK, NEW t \in Tasks, Check(t)
  PROVE  TypeOK'
  <1> USE DEF durable, market
  <1>1. TaskTypes
    BY SplitType
  <1>2. CASE Ready(t)
    <2>1. at[t] # "idle" /\ (Goto(t, "index") \/ Leave(t))
      BY <1>2 DEF Ready
    <2>2. TaskTypes'
      BY <1>1, <2>1, GotoType, LeaveType DEF Steps
    <2>3. QED
      BY <1>2, <2>2, SplitType DEF Ready, TypeOK, TaskTypes, Steps
  <1>3. CASE Index(t)
    <2>1. at[t] # "idle" /\ (Goto(t, "dead") \/ Goto(t, "eligible") \/ Leave(t))
      BY <1>3 DEF Index
    <2>2. TaskTypes'
      BY <1>1, <2>1, GotoType, LeaveType DEF Steps
    <2>3. QED
      BY <1>3, <2>2, SplitType DEF Index, TypeOK, TaskTypes, Steps
  <1>4. QED
    BY <1>2, <1>3 DEF Check

LEMMA QueueTaskType ==
  ASSUME TypeOK, QueueTask
  PROVE  TypeOK'
  <1> USE DEF durable, market
  <1>1. TaskTypes /\ "queue" \in Tasks
    BY SplitType DEF Tasks
  <1>2. CASE QueueTick
    BY <1>2 DEF QueueTick, TypeOK, tasks
  <1>3. CASE QueueNext
    <2>1. PICK k \in todo : Look("queue", k) /\ todo' = todo \ {k}
      BY <1>3 DEF QueueNext
    <2>2. TaskTypes'
      BY <1>1, <2>1, LookType DEF TypeOK
    <2>3. QED
      BY <1>3, <2>1, <2>2, SplitType DEF QueueNext, TypeOK, TaskTypes, Steps
  <1>4. CASE QueuePush
    <2>1. TaskTypes'
      BY <1>1, <1>4, LeaveType DEF QueuePush
    <2>2. key["queue"] \in Keys
      BY <1>1, <1>4 DEF QueuePush, TaskTypes
    <2>3. queue' \in Seq(Keys)
      BY <1>4, <2>2 DEF QueuePush, TypeOK
    <2>4. QED
      BY <1>4, <2>1, <2>3, SplitType DEF QueuePush, TypeOK, TaskTypes, Steps
  <1>5. QED
    BY <1>2, <1>3, <1>4 DEF QueueTask

LEMMA OutcomeType ==
  ASSUME TypeOK, NEW o \in Outcomes, HaltAfter(o), Counts(o)
  PROVE  enabled' \in BOOLEAN /\ count' \in Nat
  <1>1. enabled' = FALSE \/ enabled' = enabled
    BY Zenon DEF HaltAfter
  <1>2. enabled' \in BOOLEAN
    BY <1>1, Zenon DEF TypeOK
  <1>3. QED
    BY <1>2 DEF TypeOK, Counts

LEMMA ExecutorType ==
  ASSUME TypeOK, Executor
  PROVE  TypeOK'
  <1> USE DEF durable, market
  <1>1. TaskTypes /\ "exec" \in Tasks
    BY SplitType DEF Tasks
  <1>2. CASE ExecTake
    <2>1. Head(queue) \in Keys /\ Tail(queue) \in Seq(Keys)
      BY <1>2 DEF ExecTake, TypeOK
    <2>2. TaskTypes'
      <3>1. CASE Look("exec", Head(queue))
        BY <1>1, <2>1, <3>1, LookType DEF TypeOK
      <3>2. CASE UNCHANGED tasks
        BY <1>1, <3>2 DEF tasks, TaskTypes
      <3>3. QED
        BY <1>2, <3>1, <3>2 DEF ExecTake
    <2>3. QED
      BY <1>2, <2>1, <2>2, SplitType DEF ExecTake, TypeOK, TaskTypes, Steps
  <1>3. CASE ExecSkip
    <2>1. TaskTypes'
      BY <1>1, <1>3, LeaveType DEF ExecSkip
    <2>2. QED
      BY <1>3, <2>1, SplitType DEF ExecSkip, TypeOK, TaskTypes, Steps
  <1>4. CASE ExecSubmit
    <2>1. TaskTypes'
      BY <1>1, <1>4, GotoType DEF ExecSubmit, Steps
    <2>2. QED
      BY <1>4, <2>1, SplitType DEF ExecSubmit, TypeOK, TaskTypes, Steps
  <1>5. ASSUME NEW o \in Outcomes, ExecOutcome(o)
        PROVE  TypeOK'
    <2>1. TaskTypes'
      BY <1>1, <1>5, LeaveType DEF ExecOutcome
    <2>2. key["exec"] \in Keys
      BY <1>1, <1>5 DEF ExecOutcome, TaskTypes
    <2>3. enabled' \in BOOLEAN /\ count' \in Nat
      BY <1>5, OutcomeType DEF ExecOutcome
    <2>4. marked' \subseteq Keys /\ spent' \subseteq Keys
      BY <1>5, <2>2 DEF ExecOutcome, TypeOK
    <2>5. QED
      BY <1>5, <2>1, <2>3, <2>4, SplitType DEF ExecOutcome, TypeOK, TaskTypes, Steps
  <1>6. QED
    BY <1>2, <1>3, <1>4, <1>5 DEF Executor

LEMMA ManualRouteType ==
  ASSUME TypeOK, ManualRoute
  PROVE  TypeOK'
  <1> USE DEF durable, market, tasks
  <1>1. PICK m \in Manual : \/ ManualCheck(m) \/ ManualEnd(m)
                            \/ \E o \in Outcomes : ManualOutcome(m, o)
    BY DEF ManualRoute
  <1>2. manual' \in [Manual -> {"idle", "open"}]
    BY <1>1 DEF TypeOK, ManualCheck, ManualEnd, ManualOutcome, ManualGoto
  <1>3. enabled' \in BOOLEAN /\ count' \in Nat /\ excluded' = excluded
    BY <1>1, OutcomeType DEF TypeOK, ManualCheck, ManualEnd, ManualOutcome
  <1>4. UNCHANGED <<market, marked, queue, todo, tasks, resetting, spent>>
    BY <1>1 DEF ManualCheck, ManualEnd, ManualOutcome, ManualGoto
  <1>5. QED
    BY <1>2, <1>3, <1>4 DEF TypeOK

LEMMA FeedsType ==
  ASSUME TypeOK, Feeds
  PROVE  TypeOK'
  <1> USE DEF durable, tasks
  <1>1. PICK k \in Keys :
          Detect(k) \/ EndTracking(k) \/ Quote(k) \/ GoStale(k) \/ RemoveMarket(k)
    BY DEF Feeds
  <1>2. fresh' \subseteq Keys /\ ripe' \subseteq Keys
    BY <1>1 DEF TypeOK, Detect, EndTracking, Quote, GoStale, RemoveMarket
  <1>3. markets' \in Seq(Keys)
    <2>1. CASE RemoveMarket(k)
      <3>1. PICK i \in DOMAIN markets : markets' = RemoveAt(markets, i)
        BY <2>1 DEF RemoveMarket
      <3>2. SubSeq(markets, 1, i - 1) \in Seq(Keys)
        BY DEF TypeOK
      <3>3. SubSeq(markets, i + 1, Len(markets)) \in Seq(Keys)
        BY DEF TypeOK
      <3>4. QED
        BY <3>1, <3>2, <3>3 DEF RemoveAt
    <2>2. CASE ~RemoveMarket(k)
      BY <1>1, <2>2 DEF TypeOK, Detect, EndTracking, Quote, GoStale
    <2>3. QED
      BY <2>1, <2>2
  <1>4. UNCHANGED <<durable, marked, queue, todo, tasks, manual, resetting, spent>>
    BY <1>1 DEF Detect, EndTracking, Quote, GoStale, RemoveMarket
  <1>5. QED
    BY <1>2, <1>3, <1>4 DEF TypeOK

LEMMA OperatorType ==
  ASSUME TypeOK, Operator
  PROVE  TypeOK'
  <1> USE DEF durable, market, tasks, others
  <1>1. CASE Enable \/ Disable
    <2>1. enabled' \in BOOLEAN
      BY <1>1, Zenon DEF Enable, Disable
    <2>2. QED
      BY <1>1, <2>1 DEF TypeOK, Enable, Disable
  <1>2. CASE ResetCount \/ ResetMarks
    <2>1. resetting' \in BOOLEAN
      BY <1>2, Zenon DEF ResetCount, ResetMarks
    <2>2. QED
      BY <1>2, <2>1 DEF TypeOK, ResetCount, ResetMarks
  <1>3. CASE \E k \in Keys : Exclude(k)
    BY <1>3 DEF TypeOK, Exclude
  <1>4. QED
    BY <1>1, <1>2, <1>3 DEF Operator

LEMMA RestartType ==
  ASSUME TypeOK, Restart
  PROVE  TypeOK'
  <1>1. enabled' \in BOOLEAN
    <2>1. enabled' = FALSE \/ enabled' = enabled
      BY Zenon DEF Restart
    <2>2. QED
      BY <2>1, Zenon DEF TypeOK
  <1>2. resetting' \in BOOLEAN
    BY Zenon DEF Restart
  <1>3. TaskTypes'
    BY IdleType DEF Restart, TaskTypes
  <1>4. queue' \in Seq(Keys) /\ count' \in Nat /\ manual' \in [Manual -> {"idle", "open"}]
    BY IdleType DEF Restart, TypeOK
  <1>5. excluded' \subseteq Keys /\ markets' \in Seq(Keys)
    BY DEF Restart, TypeOK
  <1>6. QED
    BY <1>1, <1>2, <1>3, <1>4, <1>5, SteadyType DEF Restart, TypeOK, TaskTypes, Steps

LEMMA TypeStep ==
  ASSUME TypeOK, [Next]_vars
  PROVE  TypeOK'
  <1>1. CASE UNCHANGED vars
    BY <1>1 DEF vars, durable, market, tasks, TypeOK
  <1>2. QED
    BY <1>1, CheckType, QueueTaskType, ExecutorType, ManualRouteType,
       FeedsType, OperatorType, RestartType DEF Next

\* Every variable keeps its type, and a task that is at none of its steps
\* holds no key: what the eligibility check and both loops leave behind.
THEOREM TraderTypeCorrect == Spec => []TypeOK
  BY TypeInit, TypeStep, PTL DEF Spec

-----------------------------------------------------------------------------
(* The queue.                                                              *)

LEMMA QueueStep ==
  ASSUME TypeOK, QueuedOnce, [Next]_vars
  PROVE  QueuedOnce'
  <1>1. CASE UNCHANGED queue
    BY <1>1 DEF QueuedOnce
  <1>2. CASE QueuePush
    <2>1. QueuedOnce /\ queue \in Seq(Keys) /\ queue' \in {queue, Append(queue, key["queue"])}
      BY <1>2 DEF QueuePush, TypeOK
    <2>2. queue' # queue => ~Contains(queue, key["queue"])
      BY <1>2 DEF QueuePush
    <2>3. QED
      BY <2>1, <2>2 DEF QueuedOnce, IsInjective, Contains
  <1>3. CASE ExecTake
    BY <1>3 DEF ExecTake, QueuedOnce, IsInjective, TypeOK
  <1>4. CASE Restart
    BY <1>4 DEF Restart, QueuedOnce, IsInjective
  <1>5. CASE \E t \in Tasks : Check(t)
    BY <1>1, <1>5 DEF Check, Ready, Index
  <1>6. CASE QueueTick \/ QueueNext
    BY <1>1, <1>6 DEF QueueTick, QueueNext
  <1>7. CASE ExecSkip \/ ExecSubmit \/ \E o \in Outcomes : ExecOutcome(o)
    BY <1>1, <1>7 DEF ExecSkip, ExecSubmit, ExecOutcome
  <1>8. CASE ManualRoute
    BY <1>1, <1>8 DEF ManualRoute, ManualCheck, ManualEnd, ManualOutcome, ManualGoto
  <1>9. CASE Feeds
    BY <1>1, <1>9 DEF Feeds, Detect, EndTracking, Quote, GoStale, RemoveMarket
  <1>10. CASE Operator
    BY <1>1, <1>10 DEF Operator, Enable, Disable, ResetCount, ResetMarks, Exclude, others
  <1>11. CASE UNCHANGED vars
    BY <1>1, <1>11 DEF vars
  <1>12. QED
    BY <1>2, <1>3, <1>4, <1>5, <1>6, <1>7, <1>8, <1>9, <1>10, <1>11
       DEF Next, QueueTask, Executor

\* No market waits twice in auto_trade_queue: the queue task looks for the
\* key in the queue before it appends it.
THEOREM QueueHoldsOnce == Spec => []QueuedOnce
  <1>1. Init => QueuedOnce
    BY DEF Init, QueuedOnce, IsInjective
  <1>2. TypeOK /\ QueuedOnce /\ [Next]_vars => QueuedOnce'
    BY QueueStep
  <1>3. QED
    BY <1>1, <1>2, TraderTypeCorrect, PTL DEF Spec

-----------------------------------------------------------------------------
(* No second trade.                                                        *)

Checking == {"ready", "index", "eligible"}

\* While trading is on, or the executor is on its way to an attempt, every
\* market it may not trade again is marked; and it is on its way with one
\* that is not marked.
SpentInv ==
  /\ (enabled \/ at["exec"] \in Checking) => spent \subseteq marked
  /\ at["exec"] = "eligible" => key["exec"] \notin marked

\* A step that leaves the executor's place and these variables alone.
LEMMA SpentKept ==
  ASSUME SpentInv, UNCHANGED <<enabled, marked, spent>>,
         at'["exec"] = at["exec"], key'["exec"] = key["exec"]
  PROVE  SpentInv'
  BY DEF SpentInv

LEMMA SpentQueue ==
  ASSUME TypeOK, SpentInv, QueueTask \/ Check("queue")
  PROVE  SpentInv'
  <1>1. at \in [Tasks -> Steps] /\ key \in [Tasks -> Keys \cup {"none"}]
    BY DEF TypeOK, Steps
  <1>2. UNCHANGED <<enabled, marked, spent>>
    BY DEF QueueTask, QueueTick, QueueNext, QueuePush, Check, Ready, Index, durable
  <1>3. at'["exec"] = at["exec"] /\ key'["exec"] = key["exec"]
    BY <1>1 DEF QueueTask, QueueTick, QueueNext, QueuePush, Check, Ready, Index,
                Look, Goto, Leave, tasks, Tasks
  <1>4. QED
    BY <1>2, <1>3, SpentKept

LEMMA SpentExecutor ==
  ASSUME TypeOK, SpentInv, Executor \/ Check("exec")
  PROVE  SpentInv'
  <1>1. at \in [Tasks -> Steps] /\ key \in [Tasks -> Keys \cup {"none"}] /\ "exec" \in Tasks
    BY DEF TypeOK, Steps, Tasks
  <1>2. CASE Check("exec")
    BY <1>1, <1>2 DEF Check, Ready, Index, Goto, Leave, SpentInv, Checking, durable
  <1>3. CASE ExecTake
    BY <1>1, <1>3 DEF ExecTake, Look, SpentInv, Checking, durable, tasks
  <1>4. CASE ExecSkip \/ ExecSubmit
    BY <1>1, <1>4 DEF ExecSkip, ExecSubmit, Goto, Leave, SpentInv, Checking, durable
  <1>5. ASSUME NEW o \in Outcomes, ExecOutcome(o)
        PROVE  SpentInv'
    <2>1. at'["exec"] = "idle"
      BY <1>1, <1>5 DEF ExecOutcome, Leave
    <2>2. ASSUME enabled'
          PROVE  spent' \subseteq marked'
      <3>1. enabled
        BY <1>5, <2>2, Zenon DEF ExecOutcome, HaltAfter
      <3>2. spent \subseteq marked
        BY <3>1 DEF SpentInv
      <3>3. CASE o = "refused" \/ Halts(o)
        <4>1. spent' = spent
          BY <1>5, <2>2, <3>3 DEF ExecOutcome
        <4>2. QED
          BY <1>5, <3>2, <4>1 DEF ExecOutcome
      <3>4. CASE ~(o = "refused" \/ Halts(o))
        <4>1. Marks(o)
          BY <3>4 DEF Marks, Halts, Outcomes
        <4>2. QED
          BY <1>5, <3>2, <3>4, <4>1 DEF ExecOutcome
      <3>5. QED
        BY <3>3, <3>4
    <2>3. QED
      BY <2>1, <2>2 DEF SpentInv, Checking
  <1>6. QED
    BY <1>2, <1>3, <1>4, <1>5 DEF Executor

LEMMA SpentOthers ==
  ASSUME TypeOK, SpentInv, ManualRoute \/ Feeds \/ Operator \/ Restart
  PROVE  SpentInv'
  <1>1. CASE ManualRoute
    <2>1. UNCHANGED <<marked, spent, at, key>>
      BY <1>1 DEF ManualRoute, ManualCheck, ManualEnd, ManualOutcome, ManualGoto, tasks
    <2>2. enabled' => enabled
      BY <1>1, Zenon DEF ManualRoute, ManualCheck, ManualEnd, ManualOutcome, HaltAfter, durable
    <2>3. QED
      BY <2>1, <2>2 DEF SpentInv
  <1>2. CASE Feeds
    <2>1. UNCHANGED <<enabled, marked, spent, at, key>>
      BY <1>2 DEF Feeds, Detect, EndTracking, Quote, GoStale, RemoveMarket, durable, tasks
    <2>2. QED
      BY <2>1, SpentKept
  <1>3. CASE Enable
    BY <1>3 DEF Enable, others, tasks, SpentInv
  <1>4. CASE Disable
    BY <1>4 DEF Disable, others, tasks, SpentInv
  <1>5. CASE ResetMarks
    BY <1>5 DEF ResetMarks, others, tasks, durable, SpentInv
  <1>6. CASE ResetCount \/ \E k \in Keys : Exclude(k)
    <2>1. UNCHANGED <<enabled, marked, spent, at, key>>
      BY <1>6 DEF ResetCount, Exclude, others, tasks
    <2>2. QED
      BY <2>1, SpentKept
  <1>7. CASE Restart
    BY <1>7 DEF Restart, SpentInv, Tasks
  <1>8. QED
    BY <1>1, <1>2, <1>3, <1>4, <1>5, <1>6, <1>7 DEF Operator

\* The executor submits no second attempt on a market after one that traded
\* or may have traded: the mark that forbids it is there before the flag that
\* would allow it, and a market is looked up among the marks last.
THEOREM TradedAtMostOnce == Spec => NoSecondTrade
  <1>1. Init => SpentInv
    BY DEF Init, SpentInv, Tasks, Checking
  <1>2. TypeOK /\ SpentInv /\ [Next]_vars => SpentInv'
    <2> SUFFICES ASSUME TypeOK, SpentInv, [Next]_vars PROVE SpentInv'
      OBVIOUS
    <2>1. CASE UNCHANGED vars
      BY <2>1, SpentKept DEF vars, durable, tasks
    <2>2. QED
      BY <2>1, SpentQueue, SpentExecutor, SpentOthers DEF Next, Tasks
  <1>3. SpentInv => [ExecSubmit => key["exec"] \notin spent]_vars
    BY DEF SpentInv, Checking, ExecSubmit
  <1>4. QED
    BY <1>1, <1>2, <1>3, TraderTypeCorrect, PTL DEF Spec, NoSecondTrade

-----------------------------------------------------------------------------
(* The trade count.                                                        *)

Open == {m \in Manual : manual[m] = "open"}

\* The executor has passed the check of the count and may still add to it.
Busy == IF at["exec"] \in Checking \cup {"flying"} THEN 1 ELSE 0

\* Whoever is past the check can add one to the count.
CountInv == count + Busy + Cardinality(Open) <= MaxTrades + Cardinality(Manual)

LEMMA OpenFinite ==
  /\ IsFiniteSet(Open) /\ Cardinality(Open) \in Nat
  /\ Cardinality(Manual) \in Nat /\ Cardinality(Open) <= Cardinality(Manual)
  <1>1. Open \subseteq Manual
    BY DEF Open
  <1>2. QED
    BY <1>1, FS_Subset, FS_CardinalityType

\* What one open request less, or one more, does to their number.
LEMMA OpenLess ==
  ASSUME NEW m \in Manual, manual \in [Manual -> {"idle", "open"}],
         manual[m] = "open", manual' = [manual EXCEPT ![m] = "idle"]
  PROVE  Cardinality(Open)' = Cardinality(Open) - 1
  <1>1. Open' = Open \ {m} /\ m \in Open
    BY DEF Open
  <1>2. QED
    BY <1>1, OpenFinite, FS_RemoveElement

LEMMA OpenMore ==
  ASSUME manual' \in [Manual -> {"idle", "open"}]
  PROVE  Cardinality(Open)' \in Nat /\ Cardinality(Open)' <= Cardinality(Manual)
  <1>1. Open' \subseteq Manual
    BY DEF Open
  <1>2. QED
    BY <1>1, FS_Subset, FS_CardinalityType

\* A step that gives the executor no permit and touches neither the count
\* nor the requests.
LEMMA CountKept ==
  ASSUME TypeOK, CountInv, UNCHANGED <<count, manual>>,
         Busy' = Busy \/ Busy' = 0
  PROVE  CountInv'
  <1>1. Open' = Open
    BY DEF Open
  <1>2. count \in Nat /\ Busy \in {0, 1} /\ MaxTrades \in Nat
    BY DEF TypeOK, Busy
  <1>3. QED
    BY <1>1, <1>2, OpenFinite DEF CountInv

LEMMA CountExecutor ==
  ASSUME TypeOK, CountInv, Executor \/ Check("exec")
  PROVE  CountInv'
  <1>1. at \in [Tasks -> Steps] /\ "exec" \in Tasks /\ count \in Nat /\ MaxTrades \in Nat
    BY DEF TypeOK, Steps, Tasks
  <1>2. CASE Check("exec")
    <2>1. UNCHANGED <<count, manual>>
      BY <1>2 DEF Check, Ready, Index, durable
    <2>2. Busy' = Busy \/ Busy' = 0
      BY <1>1, <1>2 DEF Check, Ready, Index, Goto, Leave, Busy, Checking
    <2>3. QED
      BY <2>1, <2>2, CountKept
  <1>3. CASE ExecTake
    <2>1. UNCHANGED <<count, manual>>
      BY <1>3 DEF ExecTake, durable
    <2>2. CASE UnderLimit
      <3>1. Busy' \in {0, 1} /\ count < MaxTrades
        BY <2>2 DEF Busy, UnderLimit
      <3>2. Open' = Open
        BY <2>1 DEF Open
      <3>3. QED
        BY <1>1, <2>1, <3>1, <3>2, OpenFinite DEF CountInv
    <2>3. CASE ~UnderLimit
      <3>1. Busy' = Busy
        BY <1>3, <2>3 DEF ExecTake, Look, Busy, tasks
      <3>2. QED
        BY <2>1, <3>1, CountKept
    <2>4. QED
      BY <2>2, <2>3
  <1>4. CASE ExecSkip \/ ExecSubmit
    <2>1. UNCHANGED <<count, manual>>
      BY <1>4 DEF ExecSkip, ExecSubmit, durable
    <2>2. Busy' = Busy \/ Busy' = 0
      BY <1>1, <1>4 DEF ExecSkip, ExecSubmit, Goto, Leave, Busy, Checking
    <2>3. QED
      BY <2>1, <2>2, CountKept
  <1>5. ASSUME NEW o \in Outcomes, ExecOutcome(o)
        PROVE  CountInv'
    <2>1. Busy = 1 /\ Busy' = 0
      BY <1>1, <1>5 DEF ExecOutcome, Leave, Busy, Checking
    <2>2. count' \in {count, count + 1}
      BY <1>5 DEF ExecOutcome, Counts
    <2>3. Open' = Open
      BY <1>5 DEF ExecOutcome, Open
    <2>4. QED
      BY <1>1, <2>1, <2>2, <2>3, OpenFinite DEF CountInv
  <1>6. QED
    BY <1>2, <1>3, <1>4, <1>5 DEF Executor

LEMMA CountManual ==
  ASSUME TypeOK, CountInv, ManualRoute
  PROVE  CountInv'
  <1>1. /\ manual \in [Manual -> {"idle", "open"}] /\ count \in Nat /\ MaxTrades \in Nat
        /\ Busy \in {0, 1}
    BY DEF TypeOK, Busy
  <1>2. Busy' = Busy
    BY DEF ManualRoute, ManualCheck, ManualEnd, ManualOutcome, ManualGoto, tasks, Busy
  <1>3. PICK m \in Manual : \/ ManualCheck(m) \/ ManualEnd(m)
                            \/ \E o \in Outcomes : ManualOutcome(m, o)
    BY DEF ManualRoute
  <1>4. CASE ManualCheck(m)
    <2>1. manual' \in [Manual -> {"idle", "open"}]
      BY <1>1, <1>4 DEF ManualCheck, ManualGoto
    <2>2. count < MaxTrades /\ count' = count
      BY <1>4 DEF ManualCheck, UnderLimit, durable
    <2>3. QED
      BY <1>1, <1>2, <2>1, <2>2, OpenMore, OpenFinite DEF CountInv
  <1>5. CASE ManualEnd(m) \/ \E o \in Outcomes : ManualOutcome(m, o)
    <2>1. manual[m] = "open" /\ manual' = [manual EXCEPT ![m] = "idle"]
      BY <1>5 DEF ManualEnd, ManualOutcome, ManualGoto
    <2>2. count' \in {count, count + 1}
      BY <1>5 DEF ManualEnd, ManualOutcome, Counts, durable
    <2>3. Cardinality(Open)' = Cardinality(Open) - 1
      BY <1>1, <2>1, OpenLess
    <2>4. QED
      BY <1>1, <1>2, <2>2, <2>3, OpenFinite DEF CountInv
  <1>6. QED
    BY <1>3, <1>4, <1>5

LEMMA CountOthers ==
  ASSUME TypeOK, CountInv, Feeds \/ Operator \/ Restart \/ QueueTask \/ Check("queue")
  PROVE  CountInv'
  <1>1. at \in [Tasks -> Steps] /\ count \in Nat /\ MaxTrades \in Nat /\ Busy \in {0, 1}
    BY DEF TypeOK, Steps, Busy
  <1>2. CASE Feeds
    <2>1. UNCHANGED <<count, manual, at>>
      BY <1>2 DEF Feeds, Detect, EndTracking, Quote, GoStale, RemoveMarket, durable, tasks
    <2>2. QED
      BY <2>1, CountKept DEF Busy
  <1>3. CASE Enable \/ Disable \/ ResetMarks \/ \E k \in Keys : Exclude(k)
    <2>1. UNCHANGED <<count, manual, at>>
      BY <1>3 DEF Enable, Disable, ResetMarks, Exclude, others, tasks, durable
    <2>2. QED
      BY <2>1, CountKept DEF Busy
  <1>4. CASE ResetCount
    <2>1. count' = 0 /\ UNCHANGED <<manual, at>>
      BY <1>4 DEF ResetCount, others, tasks
    <2>2. Busy' = Busy /\ Open' = Open
      BY <2>1 DEF Busy, Open
    <2>3. QED
      BY <1>1, <2>1, <2>2, OpenFinite DEF CountInv
  <1>5. CASE Restart
    <2>1. Busy' = 0 /\ Open' = {} /\ count' = count
      BY <1>5 DEF Restart, Busy, Open, Checking, Tasks
    <2>2. QED
      BY <1>1, <2>1, OpenFinite, FS_EmptySet DEF CountInv
  <1>6. CASE QueueTask \/ Check("queue")
    <2>1. UNCHANGED <<count, manual>>
      BY <1>6 DEF QueueTask, QueueTick, QueueNext, QueuePush, Check, Ready, Index, durable
    <2>2. at'["exec"] = at["exec"]
      BY <1>1, <1>6 DEF QueueTask, QueueTick, QueueNext, QueuePush, Check, Ready, Index,
                        Look, Goto, Leave, tasks, Tasks
    <2>3. QED
      BY <2>1, <2>2, CountKept DEF Busy
  <1>7. QED
    BY <1>2, <1>3, <1>4, <1>5, <1>6 DEF Operator

\* trade_count passes max_trade_count by no more than the manual requests
\* that were open at the limit: each of them, and the executor, adds at most
\* one after its own check.
THEOREM CountBounded == Spec => []CountWithinLimit
  <1>1. Init => CountInv
    <2> SUFFICES ASSUME Init PROVE CountInv
      OBVIOUS
    <2>1. Busy = 0 /\ Open = {} /\ count = 0
      BY DEF Init, Busy, Open, Checking, Tasks
    <2>2. QED
      BY <2>1, OpenFinite, FS_EmptySet DEF CountInv
  <1>2. TypeOK /\ CountInv /\ [Next]_vars => CountInv'
    <2> SUFFICES ASSUME TypeOK, CountInv, [Next]_vars PROVE CountInv'
      OBVIOUS
    <2>1. CASE UNCHANGED vars
      BY <2>1, CountKept DEF vars, durable, tasks, Busy
    <2>2. QED
      BY <2>1, CountExecutor, CountManual, CountOthers DEF Next, Tasks
  <1>3. TypeOK /\ CountInv => CountWithinLimit
    <2> SUFFICES ASSUME TypeOK, CountInv PROVE CountWithinLimit
      OBVIOUS
    <2>1. count \in Nat /\ Busy \in {0, 1} /\ MaxTrades \in Nat
      BY DEF TypeOK, Busy
    <2>2. QED
      BY <2>1, OpenFinite DEF CountInv, CountWithinLimit
  <1>4. QED
    BY <1>1, <1>2, <1>3, TraderTypeCorrect, PTL DEF Spec
=============================================================================
