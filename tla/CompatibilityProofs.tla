------------------------- MODULE CompatibilityProofs -------------------------
(***************************************************************************)
(* What the verdict of Compatibility is worth for every model, pool and    *)
(* choice of the ratios, with its figures rounded as doubles are: the      *)
(* context offered and the rejection are right to within one token.        *)
(*                                                                         *)
(* The core is CeilingWithinOne: a context more than one token beyond the  *)
(* ceiling does not fit.  The three roundings on the way to the estimate   *)
(* and the two on the way to the ceiling err by half a spacing each, and   *)
(* together by less than what a token costs (SpacingsAssumption).  That    *)
(* the loop passes over nothing needs the estimate to be monotone, which   *)
(* is NearMonotone: also where the spacing changes, a larger number is     *)
(* never rounded to a smaller one.                                         *)
(***************************************************************************)
EXTENDS Compatibility, TLAPS

\* A quotient rounded up is an integer no smaller than the quotient.
LEMMA CeilDivBounds ==
    ASSUME NEW a \in Int, NEW b \in Nat \ {0}
    PROVE  /\ CeilDiv(a, b) \in Int
           /\ b * CeilDiv(a, b) >= a
           /\ b * CeilDiv(a, b) < a + b
  BY DEF CeilDiv

\* A quotient rounded down is less than one below the quotient.
LEMMA DivBounds ==
    ASSUME NEW a \in Int, NEW b \in Nat \ {0}
    PROVE  a \div b \in Int /\ b * (a \div b) <= a /\ a < b * (a \div b) + b
  OBVIOUS

LEMMA TimesMonotone ==
    ASSUME NEW k \in Nat, NEW a \in Int, NEW b \in Int, a <= b
    PROVE  k * a <= k * b
  OBVIOUS

LEMMA DivNonNegative ==
    ASSUME NEW a \in Nat, NEW b \in Nat \ {0}
    PROVE  a \div b \in Nat
  <1> DEFINE q == a \div b
  <1>1. q \in Int /\ a < b * q + b
    BY DivBounds
  <1>2. ASSUME q <= -1 PROVE FALSE
    <2> HIDE DEF q
    <2>1. b * q <= b * (-1)
      BY <1>1, <1>2, TimesMonotone
    <2> QED
      BY <1>1, <2>1
  <1> QED
    BY <1>1, <1>2

LEMMA TimesStrict ==
    ASSUME NEW k \in Nat \ {0}, NEW a \in Int, NEW b \in Int, a < b
    PROVE  k * a < k * b
  OBVIOUS

LEMMA Cancel ==
    ASSUME NEW k \in Nat \ {0}, NEW a \in Int, NEW b \in Int, k * a <= k * b
    PROVE  a <= b
  <1>1. ASSUME b < a PROVE FALSE
    <2>1. k * b < k * a
      BY <1>1, TimesStrict
    <2>2. k * b \in Int /\ k * a \in Int
      OBVIOUS
    <2> QED
      BY <2>1, <2>2
  <1> QED
    BY <1>1

LEMMA DivMonotone ==
    ASSUME NEW a \in Int, NEW c \in Int, NEW b \in Nat \ {0}, a <= c
    PROVE  a \div b <= c \div b
  <1> DEFINE q == a \div b
             t == c \div b
  <1>1. q \in Int /\ t \in Int /\ b * q <= a /\ c < b * t + b
    BY DivBounds
  <1> HIDE DEF q, t
  <1>2. ASSUME t + 1 <= q PROVE FALSE
    <2>1. b * (t + 1) <= b * q
      BY <1>1, <1>2, TimesMonotone
    <2>2. b * (t + 1) = b * t + b /\ b * t \in Int /\ b * q \in Int
      BY <1>1
    <2> QED
      BY <1>1, <2>1, <2>2
  <1>3. q <= t
    BY <1>1, <1>2
  <1> QED
    BY <1>3 DEF q, t

LEMMA CeilDivMonotone ==
    ASSUME NEW a \in Int, NEW c \in Int, NEW b \in Nat \ {0}, a <= c
    PROVE  CeilDiv(a, b) <= CeilDiv(c, b)
  <1>1. (-c) \div b <= (-a) \div b
    BY DivMonotone
  <1>2. (-c) \div b \in Int /\ (-a) \div b \in Int
    BY DivBounds
  <1> QED
    BY <1>1, <1>2 DEF CeilDiv

(***************************************************************************)
(* Rounding to the nearest double.                                         *)
(***************************************************************************)

\* Near, for a given spacing.
Quotient(a, b, s) == a \div (b * s)
Rest(a, b, s) == a - (b * s) * Quotient(a, b, s)
NearAt(a, b, s) ==
    IF \/ 2 * Rest(a, b, s) < b * s
       \/ 2 * Rest(a, b, s) = b * s /\ Quotient(a, b, s) % 2 = 0
    THEN s * Quotient(a, b, s)
    ELSE s * (Quotient(a, b, s) + 1)

LEMMA NearIsNearAt ==
    ASSUME NEW a \in Nat, NEW b \in Nat \ {0}
    PROVE  Near(a, b) = NearAt(a, b, Spacing(a \div b))
  BY DEF Near, NearAt, Quotient, Rest

\* The widest spacing that n is large enough for.
LEMMA SpacingIsWidest ==
    ASSUME NEW n \in Nat
    PROVE  /\ Spacing(n) \in Spacings /\ Spacing(n) \in Nat \ {0}
           /\ Spacing(n) = 1 \/ Spacing(n) * Digits <= n
           /\ \A t \in Spacings : t * Digits <= n => t <= Spacing(n)
  <1> DEFINE S == {s \in Spacings : s = 1 \/ s * Digits <= n}
  <1>1. S \in SUBSET Spacings /\ S # {}
    BY SpacingsAssumption
  <1>2. PICK widest \in S : \A s \in S : s <= widest
    BY <1>1, SpacingsAssumption
  <1>3. \E s \in Spacings :
          /\ s = 1 \/ s * Digits <= n
          /\ \A t \in Spacings : t * Digits <= n => t <= s
    BY <1>2
  <1>4. /\ Spacing(n) \in Spacings
        /\ Spacing(n) = 1 \/ Spacing(n) * Digits <= n
        /\ \A t \in Spacings : t * Digits <= n => t <= Spacing(n)
    BY <1>3 DEF Spacing
  <1> QED
    BY <1>4, SpacingsAssumption

\* The quotient and the remainder that the rounding goes by.
LEMMA NearAtCases ==
    ASSUME NEW a \in Nat, NEW b \in Nat \ {0}, NEW s \in Nat \ {0},
           NEW q, NEW r, q = Quotient(a, b, s), r = Rest(a, b, s)
    PROVE  /\ q \in Nat /\ r \in Nat /\ r < b * s
           /\ a = (b * s) * q + r
           /\ \/ NearAt(a, b, s) = s * q /\ 2 * r <= b * s
              \/ NearAt(a, b, s) = s * (q + 1) /\ 2 * r >= b * s
           /\ 2 * r < b * s => NearAt(a, b, s) = s * q
           /\ 2 * r > b * s => NearAt(a, b, s) = s * (q + 1)
           /\ 2 * r = b * s =>
                 NearAt(a, b, s) = IF q % 2 = 0 THEN s * q ELSE s * (q + 1)
  <1> DEFINE w == b * s
             x == w * q
  <1>1. w \in Nat \ {0}
    OBVIOUS
  <1>2. q = a \div w /\ r = a - x
    BY DEF Quotient, Rest
  <1>3. NearAt(a, b, s) = IF 2 * r < w \/ (2 * r = w /\ q % 2 = 0) THEN s * q
                          ELSE s * (q + 1)
    BY DEF NearAt
  <1> HIDE DEF w
  <1>4. q \in Nat
    BY <1>1, <1>2, DivNonNegative
  <1>5. x \in Nat /\ x <= a /\ a < x + w
    BY <1>1, <1>2, <1>4, DivBounds
  <1> HIDE DEF x
  <1>6. r \in Nat /\ a = x + r /\ r < w
    BY <1>1, <1>2, <1>5
  <1>7. /\ \/ NearAt(a, b, s) = s * q /\ 2 * r <= w
           \/ NearAt(a, b, s) = s * (q + 1) /\ 2 * r >= w
        /\ 2 * r < w => NearAt(a, b, s) = s * q
        /\ 2 * r > w => NearAt(a, b, s) = s * (q + 1)
        /\ 2 * r = w =>
              NearAt(a, b, s) = IF q % 2 = 0 THEN s * q ELSE s * (q + 1)
    BY <1>1, <1>3, <1>6
  <1> QED
    BY <1>4, <1>6, <1>7 DEF w, x

\* Rounding errs by half a spacing at most.
LEMMA NearAtBounds ==
    ASSUME NEW a \in Nat, NEW b \in Nat \ {0}, NEW s \in Nat \ {0}
    PROVE  /\ NearAt(a, b, s) \in Nat
           /\ 2 * (b * NearAt(a, b, s)) <= 2 * a + b * s
           /\ 2 * a <= 2 * (b * NearAt(a, b, s)) + b * s
  <1> DEFINE q == Quotient(a, b, s)
             r == Rest(a, b, s)
  <1>1. /\ q \in Nat /\ r \in Nat /\ a = (b * s) * q + r /\ r < b * s
        /\ \/ NearAt(a, b, s) = s * q /\ 2 * r <= b * s
           \/ NearAt(a, b, s) = s * (q + 1) /\ 2 * r >= b * s
    BY NearAtCases
  <1> HIDE DEF q, r
  <1>2. b * (s * q) = (b * s) * q /\ b * (s * (q + 1)) = (b * s) * q + b * s
    BY <1>1
  <1>3. b * s \in Nat /\ (b * s) * q \in Nat /\ s * q \in Nat /\ s * (q + 1) \in Nat
    BY <1>1
  <1>4. CASE NearAt(a, b, s) = s * q /\ 2 * r <= b * s
    BY <1>1, <1>2, <1>3, <1>4
  <1>5. CASE NearAt(a, b, s) = s * (q + 1) /\ 2 * r >= b * s
    BY <1>1, <1>2, <1>3, <1>5
  <1> QED
    BY <1>1, <1>4, <1>5

\* Rounding does not cross a multiple of the spacing.
LEMMA NearAtSandwich ==
    ASSUME NEW a \in Nat, NEW b \in Nat \ {0}, NEW s \in Nat \ {0}, NEW m \in Nat
    PROVE  /\ a <= (b * s) * m => NearAt(a, b, s) <= s * m
           /\ (b * s) * m <= a => s * m <= NearAt(a, b, s)
  <1> DEFINE w == b * s
             near == NearAt(a, b, s)
             q == Quotient(a, b, s)
             r == Rest(a, b, s)
  <1>1. /\ q \in Nat /\ r \in Nat /\ a = w * q + r /\ r < w
        /\ near = s * q \/ near = s * (q + 1)
        /\ 2 * r < w => near = s * q
    BY NearAtCases
  <1>2. w \in Nat \ {0}
    OBVIOUS
  <1> HIDE DEF w, near, q, r
  <1>3. w * q \in Nat /\ w * m \in Nat /\ w * (q + 1) = w * q + w
        /\ w * (m + 1) = w * m + w /\ s * (q + 1) = s * q + s /\ s * q \in Nat
    BY <1>1, <1>2
  <1>4. ASSUME a <= w * m PROVE near <= s * m
    <2>1. CASE q <= m - 1
      <3>1. s * (q + 1) <= s * m
        BY <1>1, <2>1, TimesMonotone
      <3> QED
        BY <1>1, <1>3, <3>1
    <2>2. CASE q >= m
      <3>1. w * m <= w * q
        BY <1>1, <1>2, <2>2, TimesMonotone
      <3>2. r = 0 /\ w * q <= w * m
        BY <1>1, <1>3, <1>4, <3>1
      <3>3. q <= m
        BY <1>1, <1>2, <3>2, Cancel
      <3> QED
        BY <1>1, <1>2, <2>2, <3>2, <3>3
    <2> QED
      BY <1>1, <2>1, <2>2
  <1>5. ASSUME w * m <= a PROVE s * m <= near
    <2>1. CASE q >= m
      <3>1. s * m <= s * q
        BY <1>1, <2>1, TimesMonotone
      <3> QED
        BY <1>1, <1>3, <3>1
    <2>2. CASE q + 1 <= m
      <3>1. w * (q + 1) <= w * m
        BY <1>1, <1>2, <2>2, TimesMonotone
      <3> QED
        BY <1>1, <1>2, <1>3, <1>5, <3>1
    <2> QED
      BY <1>1, <2>1, <2>2
  <1> QED
    BY <1>4, <1>5 DEF w, near

LEMMA NearAtMonotone ==
    ASSUME NEW a \in Nat, NEW c \in Nat, NEW b \in Nat \ {0},
           NEW s \in Nat \ {0}, a <= c
    PROVE  NearAt(a, b, s) <= NearAt(c, b, s)
  <1> DEFINE w == b * s
             lo == NearAt(a, b, s)
             hi == NearAt(c, b, s)
             q == Quotient(a, b, s)
             r == Rest(a, b, s)
             p == Quotient(c, b, s)
             t == Rest(c, b, s)
  <1>1. /\ q \in Nat /\ r \in Nat
        /\ a = w * q + r /\ r < w
        /\ lo = s * q \/ lo = s * (q + 1)
        /\ 2 * r < w => lo = s * q
        /\ 2 * r > w => lo = s * (q + 1)
        /\ 2 * r = w => lo = IF q % 2 = 0 THEN s * q ELSE s * (q + 1)
    BY NearAtCases
  <1>2. /\ p \in Nat /\ t \in Nat
        /\ c = w * p + t /\ t < w
        /\ hi = s * p \/ hi = s * (p + 1)
        /\ 2 * t < w => hi = s * p
        /\ 2 * t > w => hi = s * (p + 1)
        /\ 2 * t = w => hi = IF p % 2 = 0 THEN s * p ELSE s * (p + 1)
    BY NearAtCases
  <1>3. w \in Nat \ {0}
    OBVIOUS
  <1>4. q <= p
    BY <1>3, DivMonotone DEF Quotient
  <1> HIDE DEF w, lo, hi, q, r, p, t
  <1>5. /\ s * (q + 1) = s * q + s /\ s * (p + 1) = s * p + s
        /\ s * q \in Nat /\ s * p \in Nat
    BY <1>1, <1>2
  <1>6. ASSUME q + 1 <= p PROVE lo <= hi
    <2>1. s * (q + 1) <= s * p
      BY <1>1, <1>2, <1>6, TimesMonotone
    <2>2. lo <= s * (q + 1) /\ s * p <= hi
      BY <1>1, <1>2, <1>5
    <2>3. lo \in Nat /\ hi \in Nat
      BY <1>1, <1>2, <1>5
    <2> QED
      BY <1>5, <2>1, <2>2, <2>3
  <1>7. ASSUME q = p PROVE lo <= hi
    <2>1. r <= t
      <3>1. w * q = w * p /\ w * q \in Nat
        BY <1>1, <1>3, <1>7
      <3> QED
        BY <1>1, <1>2, <3>1
    <2>2. CASE lo = s * q
      BY <1>2, <1>5, <1>7, <2>2
    <2>3. CASE lo # s * q
      <3>1. lo = s * (q + 1) /\ 2 * r >= w
        BY <1>1, <1>3, <2>3
      <3>2. hi = s * (p + 1)
        <4>1. CASE 2 * t > w
          BY <1>2, <4>1
        <4>2. CASE 2 * t <= w
          <5>1. 2 * r = w /\ 2 * t = w
            BY <1>1, <1>2, <1>3, <2>1, <3>1, <4>2
          <5>2. q % 2 # 0
            BY <1>1, <2>3, <5>1
          <5> QED
            BY <1>2, <1>7, <5>1, <5>2
        <4> QED
          BY <1>2, <1>3, <4>1, <4>2
      <3> QED
        BY <1>2, <1>5, <1>7, <3>1, <3>2
    <2> QED
      BY <2>2, <2>3
  <1>8. lo <= hi
    BY <1>1, <1>2, <1>4, <1>6, <1>7
  <1> QED
    BY <1>8 DEF lo, hi

\* A larger number is never rounded to a smaller one, not even from the end of
\* one spacing to the start of the next.
LEMMA NearMonotone ==
    ASSUME NEW a \in Nat, NEW c \in Nat, NEW b \in Nat \ {0}, a <= c
    PROVE  Near(a, b) <= Near(c, b)
  <1> DEFINE m == a \div b
             n == c \div b
             g == Spacing(m)
             h == Spacing(n)
  <1>1. m \in Nat /\ n \in Nat /\ m <= n
    BY DivNonNegative, DivMonotone
  <1>2. a < b * m + b /\ b * n <= c
    BY DivBounds
  <1> HIDE DEF m, n
  <1>3. /\ g \in Spacings /\ g \in Nat \ {0} /\ (g = 1 \/ g * Digits <= m)
        /\ \A t \in Spacings : t * Digits <= m => t <= g
    BY <1>1, SpacingIsWidest
  <1>4. /\ h \in Spacings /\ h \in Nat \ {0} /\ (h = 1 \/ h * Digits <= n)
        /\ \A t \in Spacings : t * Digits <= n => t <= h
    BY <1>1, SpacingIsWidest
  <1>5. Near(a, b) = NearAt(a, b, g) /\ Near(c, b) = NearAt(c, b, h)
    BY NearIsNearAt DEF m, n
  <1> HIDE DEF g, h
  <1>6. g <= h
    <2>1. CASE g = 1
      BY <1>4, <2>1
    <2>2. CASE g * Digits <= m
      <3>1. g * Digits \in Nat
        BY <1>3, RatiosAssumption
      <3>2. g * Digits <= n
        BY <1>1, <2>2, <3>1
      <3> QED
        BY <1>3, <1>4, <3>2
    <2> QED
      BY <1>3, <2>1, <2>2
  <1>7. CASE g = h
    BY <1>3, <1>5, <1>7, NearAtMonotone
  <1>8. CASE g < h
    <2> DEFINE bound == h * Digits
    <2>1. bound \in Nat /\ bound <= n
      BY <1>3, <1>4, <1>8, RatiosAssumption
    <2>2. m + 1 <= bound
      <3>1. ~(h * Digits <= m)
        BY <1>3, <1>4, <1>8
      <3> QED
        BY <1>1, <2>1, <3>1
    <2>3. PICK k \in Nat : h = g * k
      BY <1>3, <1>4, <1>6, SpacingsAssumption
    <2>4. (b * h) * Digits = b * bound
      BY <1>4, RatiosAssumption
    <2>5. (b * g) * (k * Digits) = b * bound /\ g * (k * Digits) = bound
          /\ k * Digits \in Nat
      <3>1. g * (k * Digits) = (g * k) * Digits /\ k * Digits \in Nat
        BY <1>3, RatiosAssumption
      <3>2. (b * g) * (k * Digits) = b * (g * (k * Digits))
        BY <1>3, <3>1, RatiosAssumption
      <3> QED
        BY <2>3, <3>1, <3>2
    <2> HIDE DEF bound
    <2>6. b * bound <= b * n /\ b * n \in Nat /\ b * bound \in Nat
      BY <1>1, <2>1, TimesMonotone
    <2>7. bound <= NearAt(c, b, h)
      <3>1. (b * h) * Digits <= c
        BY <1>2, <2>4, <2>6
      <3>2. h * Digits <= NearAt(c, b, h)
        BY <1>4, <3>1, NearAtSandwich, RatiosAssumption
      <3> QED
        BY <3>2 DEF bound
    <2>8. NearAt(a, b, g) <= bound
      <3>1. b * (m + 1) <= b * bound
        BY <1>1, <2>1, <2>2, TimesMonotone
      <3>2. b * (m + 1) = b * m + b /\ b * m \in Nat
        BY <1>1
      <3>3. a <= (b * g) * (k * Digits)
        BY <1>2, <2>5, <2>6, <3>1, <3>2
      <3>4. NearAt(a, b, g) <= g * (k * Digits)
        BY <1>3, <2>5, <3>3, NearAtSandwich
      <3> QED
        BY <2>5, <3>4
    <2>9. NearAt(a, b, g) \in Nat /\ NearAt(c, b, h) \in Nat
      BY <1>3, <1>4, NearAtBounds
    <2> QED
      BY <1>5, <2>1, <2>7, <2>8, <2>9
  <1> QED
    BY <1>3, <1>4, <1>6, <1>7, <1>8

LEMMA NearType ==
    ASSUME NEW a \in Nat, NEW b \in Nat \ {0}
    PROVE  Near(a, b) \in Nat
  <1>1. Spacing(a \div b) \in Nat \ {0}
    BY DivNonNegative, SpacingIsWidest
  <1> QED
    BY <1>1, NearIsNearAt, NearAtBounds

(***************************************************************************)
(* The estimate and the ceiling.                                           *)
(***************************************************************************)

\* Where a token costs something, rounding errs by a quarter of it at most.
LEMMA NearClose ==
    ASSUME TypeOK, kv > 0, NEW a \in Nat, NEW b \in Nat \ {0}
    PROVE  /\ Near(a, b) \in Nat
           /\ 4 * (b * Near(a, b)) <= 4 * a + b * (kv * Grain)
           /\ 4 * a <= 4 * (b * Near(a, b)) + b * (kv * Grain)
  <1> DEFINE s == Spacing(a \div b)
             n == NearAt(a, b, s)
             token == kv * Grain
  <1>1. s \in Nat \ {0} /\ 2 * s <= token
    <2>1. s \in Spacings /\ s \in Nat \ {0}
      BY DivNonNegative, SpacingIsWidest
    <2> HIDE DEF s
    <2> QED
      BY <2>1, SpacingsAssumption DEF TypeOK
  <1>2. token \in Nat
    BY RatiosAssumption, InputsAssumption DEF TypeOK
  <1>3. Near(a, b) = n
    BY NearIsNearAt
  <1> HIDE DEF s, token
  <1>4. n \in Nat /\ 2 * (b * n) <= 2 * a + b * s /\ 2 * a <= 2 * (b * n) + b * s
    BY <1>1, NearAtBounds
  <1>5. 2 * (b * s) <= b * token
    <2>1. b * (2 * s) <= b * token
      BY <1>1, <1>2, TimesMonotone
    <2>2. b * (2 * s) = 2 * (b * s)
      BY <1>1
    <2> QED
      BY <2>1, <2>2
  <1> HIDE DEF n
  <1>6. b * n \in Nat /\ b * s \in Nat /\ b * token \in Nat
    BY <1>1, <1>2, <1>4
  <1> QED
    BY <1>3, <1>4, <1>5, <1>6 DEF token

\* The figures that do not depend on the context.
LEMMA FigureTypes ==
    TypeOK => /\ Row \in Nat \ {0} /\ kv \in Nat /\ kv * Grain \in Nat
              /\ Weights \in Nat /\ Usable \in Nat /\ Spare \in Nat
              /\ MarginDen * (Row * pool) \in Nat
              /\ MarginNum \in Nat \ {0} /\ pool \in Nat
  <1> SUFFICES ASSUME TypeOK
               PROVE  /\ Row \in Nat \ {0} /\ kv \in Nat /\ kv * Grain \in Nat
                      /\ Weights \in Nat /\ Usable \in Nat /\ Spare \in Nat
                      /\ MarginDen * (Row * pool) \in Nat
                      /\ MarginNum \in Nat \ {0} /\ pool \in Nat
    OBVIOUS
  <1>1. Row \in Nat \ {0} /\ MarginNum \in Nat \ {0}
    BY RatiosAssumption DEF Row
  <1>2. kv \in Nat /\ kv * Grain \in Nat /\ pool \in Nat
    BY RatiosAssumption, InputsAssumption DEF TypeOK
  <1>3. Weights \in Nat
    <2>1. WeightsNum * (size * Grain) \in Nat
      BY RatiosAssumption DEF TypeOK
    <2> QED
      BY <2>1, RatiosAssumption, NearType DEF Weights
  <1>4. MarginDen * (Row * pool) \in Nat
    BY <1>1, <1>2, RatiosAssumption
  <1>5. Usable \in Nat
    BY <1>1, <1>4, NearType DEF Usable
  <1>6. Spare \in Nat
    <2>1. CASE Usable <= Weights
      BY <2>1 DEF Spare
    <2>2. CASE ~(Usable <= Weights)
      <3>1. Usable - Weights \in Nat
        BY <1>3, <1>5, <2>2
      <3> QED
        BY <2>2, <3>1, NearType DEF Spare
    <2> QED
      BY <2>1, <2>2
  <1> QED
    BY <1>1, <1>2, <1>3, <1>4, <1>5, <1>6

LEMMA CeilDivNonNegative ==
    ASSUME NEW a \in Nat, NEW b \in Nat \ {0}
    PROVE  CeilDiv(a, b) \in Nat
  <1> DEFINE q == CeilDiv(a, b)
  <1>1. q \in Int /\ b * q >= a
    BY CeilDivBounds
  <1> HIDE DEF q
  <1>2. ASSUME q <= -1 PROVE FALSE
    <2>1. b * q <= b * (-1)
      BY <1>1, <1>2, TimesMonotone
    <2>2. b * q \in Int /\ b * (-1) = -b
      BY <1>1
    <2> QED
      BY <1>1, <2>1, <2>2
  <1>3. q \in Nat
    BY <1>1, <1>2
  <1> QED
    BY <1>3 DEF q

\* The estimate of a larger context is no smaller.
LEMMA FitsAntitone ==
    ASSUME TypeOK, NEW c \in Nat, NEW d \in Nat, c <= d, Fits(d)
    PROVE  Fits(c)
  <1>1. /\ Row \in Nat \ {0} /\ kv * Grain \in Nat /\ Weights \in Nat
        /\ MarginNum \in Nat \ {0} /\ pool \in Nat
    BY FigureTypes
  <1> DEFINE token == kv * Grain
             x == Weights + token * c
             y == Weights + token * d
             j == RequiredMb(c)
             k == RequiredMb(d)
  <1>2. x \in Nat /\ y \in Nat /\ x <= y
    <2> HIDE DEF token
    <2>1. token \in Nat
      BY <1>1 DEF token
    <2>2. token * c <= token * d
      BY <2>1, TimesMonotone
    <2>3. token * c \in Nat /\ token * d \in Nat
      BY <2>1
    <2> QED
      BY <1>1, <2>2, <2>3
  <1>3. j = CeilDiv(Near(x, 1), Row) /\ k = CeilDiv(Near(y, 1), Row)
    BY DEF RequiredMb
  <1> HIDE DEF x, y
  <1>4. Near(x, 1) \in Nat /\ Near(y, 1) \in Nat /\ Near(x, 1) <= Near(y, 1)
    BY <1>2, NearType, NearMonotone
  <1>5. j \in Nat /\ k \in Nat /\ j <= k
    BY <1>1, <1>3, <1>4, CeilDivMonotone, CeilDivNonNegative
  <1> HIDE DEF j, k
  <1> DEFINE u == MarginNum * (Row * j)
             v == MarginNum * (Row * k)
  <1>6. u \in Nat /\ v \in Nat /\ u <= v
    <2>1. Row * j <= Row * k /\ Row * j \in Nat /\ Row * k \in Nat
      BY <1>1, <1>5, TimesMonotone
    <2> QED
      BY <1>1, <2>1, TimesMonotone
  <1>7. WithMargin(j) = CeilDiv(Near(u, MarginDen), Row)
        /\ WithMargin(k) = CeilDiv(Near(v, MarginDen), Row)
    BY DEF WithMargin
  <1> HIDE DEF u, v
  <1>8. Near(u, MarginDen) <= Near(v, MarginDen)
        /\ Near(u, MarginDen) \in Nat /\ Near(v, MarginDen) \in Nat
    BY <1>6, NearType, NearMonotone, RatiosAssumption
  <1>9. WithMargin(j) <= WithMargin(k)
        /\ WithMargin(j) \in Nat /\ WithMargin(k) \in Nat
    BY <1>1, <1>7, <1>8, CeilDivMonotone, CeilDivNonNegative
  <1> QED
    BY <1>1, <1>9 DEF Fits, j, k

\* What it takes to fit, and what suffices, in terms of the usable memory: the
\* margin is put on by one rounded product and taken off by one rounded
\* quotient.
LEMMA MarginBothWays ==
    ASSUME TypeOK, kv > 0, NEW mb \in Nat
    PROVE  /\ WithMargin(mb) <= pool =>
                 4 * (Row * mb) <= 4 * Usable + 2 * (kv * Grain)
           /\ 4 * (Row * mb) + 2 * (kv * Grain) < 4 * Usable =>
                 WithMargin(mb) <= pool
  <1>1. /\ Row \in Nat \ {0} /\ kv * Grain \in Nat /\ Usable \in Nat
        /\ MarginDen * (Row * pool) \in Nat
        /\ MarginNum \in Nat \ {0} /\ pool \in Nat
    BY FigureTypes
  <1>2. MarginDen \in Nat \ {0} /\ MarginDen <= MarginNum
    BY RatiosAssumption
  <1> DEFINE token == kv * Grain
             x == MarginNum * (Row * mb)
             p == Near(x, MarginDen)
             m == CeilDiv(p, Row)
             have == Row * pool
             use == Usable
             need == Row * mb
  <1>3. need \in Nat /\ have \in Nat /\ x \in Nat
    BY <1>1
  <1>4. p \in Nat /\ 4 * (MarginDen * p) <= 4 * x + MarginDen * token
        /\ 4 * x <= 4 * (MarginDen * p) + MarginDen * token
    BY <1>2, <1>3, NearClose
  <1>5. use \in Nat /\ 4 * (MarginNum * use) <= 4 * (MarginDen * have) + MarginNum * token
        /\ 4 * (MarginDen * have) <= 4 * (MarginNum * use) + MarginNum * token
    BY <1>1, NearClose DEF Usable
  <1>6. WithMargin(mb) = m
    BY DEF WithMargin
  <1>7. token \in Nat
    BY <1>1
  <1>8. x = MarginNum * need
    OBVIOUS
  <1> HIDE DEF token, x, p, have, use, need
  <1>9. m \in Int /\ Row * m >= p /\ Row * m < p + Row
    <2>1. p \in Int
      BY <1>4
    <2> QED
      BY <1>1, <2>1, CeilDivBounds
  <1> HIDE DEF m
  <1>10. MarginDen * token <= MarginNum * token
         /\ MarginDen * token \in Nat /\ MarginNum * token \in Nat
    BY <1>1, <1>2, <1>7, TimesMonotone
  <1>11. /\ MarginDen * p \in Nat /\ MarginDen * have \in Nat
         /\ MarginNum * use \in Nat /\ MarginNum * need \in Nat
    BY <1>1, <1>2, <1>3, <1>4, <1>5
  <1>12. ASSUME m <= pool PROVE 4 * need <= 4 * use + 2 * token
    <2>1. Row * m <= have
      BY <1>1, <1>9, <1>12, TimesMonotone DEF have
    <2>2. p <= have
      BY <1>1, <1>3, <1>4, <1>9, <2>1
    <2>3. MarginDen * p <= MarginDen * have
      BY <1>2, <1>3, <1>4, <2>2, TimesMonotone
    <2>4. 4 * (MarginNum * need) <= 4 * (MarginNum * use) + 2 * (MarginNum * token)
      BY <1>4, <1>5, <1>8, <1>10, <1>11, <2>3
    <2>5. MarginNum * (4 * need) <= MarginNum * (4 * use + 2 * token)
      <3>1. /\ MarginNum * (4 * need) = 4 * (MarginNum * need)
            /\ MarginNum * (4 * use + 2 * token)
                  = 4 * (MarginNum * use) + 2 * (MarginNum * token)
        BY <1>1, <1>3, <1>5, <1>7
      <3> QED
        BY <2>4, <3>1
    <2> QED
      BY <1>1, <1>3, <1>5, <1>7, <2>5, Cancel
  <1>13. ASSUME 4 * need + 2 * token < 4 * use PROVE m <= pool
    <2>1. MarginNum * (4 * need + 2 * token) < MarginNum * (4 * use)
      BY <1>1, <1>3, <1>5, <1>7, <1>13, TimesStrict
    <2>2. /\ MarginNum * (4 * use) = 4 * (MarginNum * use)
          /\ MarginNum * (4 * need + 2 * token)
                = 4 * (MarginNum * need) + 2 * (MarginNum * token)
      BY <1>1, <1>3, <1>5, <1>7
    <2>3. 4 * (MarginDen * p) < 4 * (MarginDen * have)
      BY <1>4, <1>5, <1>8, <1>10, <1>11, <2>1, <2>2
    <2>4. p < have
      <3>1. ASSUME have <= p PROVE FALSE
        <4>1. MarginDen * have <= MarginDen * p
          BY <1>2, <1>3, <1>4, <3>1, TimesMonotone
        <4> QED
          BY <1>11, <2>3, <4>1
      <3> QED
        BY <1>3, <1>4, <3>1
    <2>5. Row * m < Row * (pool + 1)
      <3>1. Row * (pool + 1) = have + Row
        BY <1>1 DEF have
      <3>2. Row * m \in Int
        BY <1>1, <1>9
      <3> QED
        BY <1>1, <1>3, <1>4, <1>9, <2>4, <3>1, <3>2
    <2>6. ASSUME pool + 1 <= m PROVE FALSE
      <3>1. Row * (pool + 1) <= Row * m
        BY <1>1, <1>9, <2>6, TimesMonotone
      <3>2. Row * (pool + 1) \in Int /\ Row * m \in Int
        BY <1>1, <1>9
      <3> QED
        BY <2>5, <3>1, <3>2
    <2> QED
      BY <1>1, <1>9, <2>6
  <1> QED
    BY <1>6, <1>12, <1>13 DEF need, use, token

\* A context more than one token beyond the ceiling does not fit.
LEMMA CeilingWithinOne ==
    ASSUME TypeOK, kv > 0, NEW c \in Nat, c > SafeCeiling + 1, Fits(c)
    PROVE  FALSE
  <1>1. /\ Row \in Nat \ {0} /\ kv * Grain \in Nat /\ Weights \in Nat
        /\ Usable \in Nat /\ Spare \in Nat /\ kv \in Nat
    BY FigureTypes
  <1> DEFINE token == kv * Grain
             x == Weights + token * c
             n == Near(x, 1)
             mb == CeilDiv(n, Row)
             need == token * c
             row == Row * mb
             use == Usable
             weights == Weights
  <1>2. token \in Nat \ {0}
    BY <1>1, RatiosAssumption
  <1>3. need \in Nat /\ x \in Nat
    BY <1>1
  <1>4. n \in Nat /\ 4 * x <= 4 * n + token
    <2>1. n \in Nat /\ 4 * x <= 4 * (1 * n) + 1 * token
      BY <1>3, NearClose
    <2> HIDE DEF n, token, x
    <2> QED
      BY <1>2, <2>1
  <1>5. mb \in Nat /\ n <= row /\ row \in Nat
    <2> HIDE DEF n
    <2>1. mb \in Nat
      BY <1>1, <1>4, CeilDivNonNegative
    <2>2. n \in Int
      BY <1>4
    <2>3. Row * mb >= n
      BY <1>1, <2>2, CeilDivBounds
    <2> HIDE DEF mb
    <2> QED
      BY <1>1, <1>4, <2>1, <2>3
  <1>6. WithMargin(mb) <= pool
    BY DEF Fits, RequiredMb
  <1>7. 4 * row <= 4 * use + 2 * token
    BY <1>5, <1>6, MarginBothWays
  <1>8. x = weights + need /\ use \in Nat /\ weights \in Nat
    BY <1>1
  <1>9. SafeCeiling = Spare \div token /\ SafeCeiling \in Nat
    BY <1>1, <1>2, DivNonNegative DEF SafeCeiling
  <1>10. /\ Spare \in Nat /\ Usable <= Weights => Spare = 0
         /\ Usable > Weights => 4 * (use - weights) <= 4 * Spare + token
    <2>1. CASE Usable > Weights
      <3>1. Usable - Weights \in Nat /\ Spare = Near(Usable - Weights, 1)
        BY <1>1, <2>1 DEF Spare
      <3>2. 4 * (Usable - Weights) <= 4 * (1 * Spare) + 1 * token
        BY <3>1, NearClose
      <3> QED
        BY <1>1, <1>2, <2>1, <3>1, <3>2
    <2>2. CASE Usable <= Weights
      BY <1>1, <2>2 DEF Spare
    <2> QED
      BY <1>1, <2>1, <2>2
  <1> HIDE DEF x, n, mb, row
  <1>11. 4 * weights + 4 * need <= 4 * use + 3 * token
    BY <1>2, <1>3, <1>4, <1>5, <1>7, <1>8
  <1>12. 2 * token <= need
    <2>1. token * 2 <= token * c
      BY <1>2, <1>9, TimesMonotone
    <2> QED
      BY <1>2, <2>1
  <1> HIDE DEF need
  <1>13. use > weights
    BY <1>2, <1>3, <1>8, <1>11, <1>12
  <1>14. need <= Spare + token
    <2>1. 4 * (use - weights) <= 4 * Spare + token
      BY <1>10, <1>13
    <2> HIDE DEF use, weights, token
    <2> QED
      BY <1>1, <1>2, <1>3, <1>8, <1>11, <2>1
  <1>15. token * (SafeCeiling + 2) <= need
    BY <1>2, <1>9, TimesMonotone DEF need
  <1> HIDE DEF token
  <1>16. Spare < token * SafeCeiling + token
    <2>1. Spare \in Int
      BY <1>1
    <2>2. Spare < token * (Spare \div token) + token
      BY <1>2, <2>1, DivBounds
    <2> QED
      BY <1>9, <2>2
  <1>17. token * (SafeCeiling + 2) = token * SafeCeiling + 2 * token
         /\ token * SafeCeiling \in Nat
    BY <1>2, <1>9
  <1> QED
    BY <1>1, <1>2, <1>3, <1>14, <1>15, <1>16, <1>17

LEMMA LossType ==
    ASSUME TypeOK, kv > 0
    PROVE  /\ RoundingLoss \in Nat \ {0}
           /\ Row + kv * Grain <= (kv * Grain) * RoundingLoss
  <1> DEFINE n == CeilDiv(Mib, kv)
  <1>1. kv \in Nat \ {0} /\ Mib \in Nat /\ Grain \in Nat \ {0}
    BY FigureTypes, RatiosAssumption
  <1>2. n \in Nat /\ Mib <= kv * n
    BY <1>1, CeilDivBounds, CeilDivNonNegative
  <1>3. RoundingLoss = n + 1
    BY DEF RoundingLoss
  <1> HIDE DEF n
  <1>4. Grain * Mib <= Grain * (kv * n)
    BY <1>1, <1>2, TimesMonotone
  <1>5. /\ (kv * Grain) * (n + 1) = Grain * (kv * n) + kv * Grain
        /\ Row = Grain * Mib
    BY <1>1, <1>2 DEF Row
  <1>6. Grain * (kv * n) \in Nat /\ Grain * Mib \in Nat /\ kv * Grain \in Nat
    BY <1>1, <1>2
  <1> QED
    BY <1>2, <1>3, <1>4, <1>5, <1>6

\* A context RoundingLoss tokens below the ceiling fits.
LEMMA LowFits ==
    ASSUME TypeOK, kv > 0, NEW c \in Nat, c + RoundingLoss <= SafeCeiling
    PROVE  Fits(c)
  <1>1. /\ Row \in Nat \ {0} /\ kv * Grain \in Nat /\ Weights \in Nat
        /\ Usable \in Nat /\ Spare \in Nat /\ kv \in Nat
    BY FigureTypes
  <1> DEFINE token == kv * Grain
             x == Weights + token * c
             n == Near(x, 1)
             mb == CeilDiv(n, Row)
             need == token * c
             row == Row * mb
             use == Usable
             weights == Weights
             loss == RoundingLoss
  <1>2. token \in Nat \ {0}
    BY <1>1, RatiosAssumption
  <1>3. need \in Nat /\ x \in Nat
    BY <1>1
  <1>4. n \in Nat /\ 4 * n <= 4 * x + token
    <2>1. n \in Nat /\ 4 * (1 * n) <= 4 * x + 1 * token
      BY <1>3, NearClose
    <2> HIDE DEF n, token, x
    <2> QED
      BY <1>2, <2>1
  <1>5. mb \in Nat /\ row < n + Row /\ row \in Nat
    <2> HIDE DEF n
    <2>1. mb \in Nat
      BY <1>1, <1>4, CeilDivNonNegative
    <2>2. n \in Int
      BY <1>4
    <2>3. Row * mb < n + Row
      BY <1>1, <2>2, CeilDivBounds
    <2> HIDE DEF mb
    <2> QED
      BY <1>1, <1>4, <2>1, <2>3
  <1>6. loss \in Nat \ {0} /\ Row + token <= token * loss
    BY LossType
  <1>7. SafeCeiling = Spare \div token /\ SafeCeiling \in Nat
    BY <1>1, <1>2, DivNonNegative DEF SafeCeiling
  <1>8. x = weights + need /\ use \in Nat /\ weights \in Nat
    BY <1>1
  <1> HIDE DEF x, n
  <1>9. token * SafeCeiling <= Spare
    BY <1>1, <1>2, <1>7, DivBounds
  <1>10. need + token * loss <= token * SafeCeiling
    <2>1. token * (c + loss) <= token * SafeCeiling
      BY <1>2, <1>6, <1>7, TimesMonotone
    <2> HIDE DEF token, loss
    <2>2. token * (c + loss) = token * c + token * loss
      BY <1>2, <1>6
    <2> QED
      BY <2>1, <2>2
  <1> HIDE DEF need, loss, mb, row
  <1>11. need + Row + token <= Spare
    <2> HIDE DEF token
    <2>1. token * loss \in Nat /\ token * SafeCeiling \in Nat
      BY <1>2, <1>6, <1>7
    <2> QED
      BY <1>1, <1>2, <1>3, <1>6, <1>9, <1>10, <2>1
  <1>12. 4 * Spare <= 4 * (use - weights) + token
    <2>1. Usable > Weights
      <3>1. Spare > 0
        BY <1>1, <1>2, <1>3, <1>11
      <3> QED
        BY <1>1, <3>1 DEF Spare
    <2>2. Usable - Weights \in Nat /\ Spare = Near(Usable - Weights, 1)
      BY <1>1, <2>1 DEF Spare
    <2>3. 4 * (1 * Spare) <= 4 * (Usable - Weights) + 1 * token
      BY <2>2, NearClose
    <2> QED
      BY <1>1, <1>2, <2>3
  <1>13. 4 * row + 2 * token < 4 * use
    BY <1>1, <1>2, <1>3, <1>4, <1>5, <1>8, <1>11, <1>12
  <1>14. WithMargin(mb) <= pool
    BY <1>5, <1>13, MarginBothWays DEF row
  <1> QED
    BY <1>14 DEF mb, n, x, Fits, RequiredMb

(***************************************************************************)
(* The invariant: both verdicts, and what the loop has passed over.        *)
(***************************************************************************)

\* What the header leaves open does not matter to the estimate.
LEMMA NoKvSameFit ==
    ASSUME TypeOK, kv = 0, NEW c \in Nat, NEW d \in Nat, ~Fits(d)
    PROVE  ~Fits(c)
  <1>1. kv * Grain * c = 0 /\ kv * Grain * d = 0
    BY RatiosAssumption
  <1> QED
    BY <1>1 DEF Fits, RequiredMb

LEMMA RequestedType == TypeOK => Requested \in Nat \ {0}
  BY RatiosAssumption DEF TypeOK, Requested

LEMMA CeilingType == TypeOK => SafeCeiling \in Nat
  <1> SUFFICES ASSUME TypeOK PROVE SafeCeiling \in Nat
    OBVIOUS
  <1>1. CASE kv = 0
    BY <1>1 DEF SafeCeiling, TypeOK
  <1>2. CASE kv # 0
    <2>1. kv * Grain \in Nat \ {0} /\ Spare \in Nat
      BY <1>2, FigureTypes, RatiosAssumption
    <2> QED
      BY <1>2, <2>1, DivNonNegative DEF SafeCeiling
  <1> QED
    BY <1>1, <1>2

\* The loop's variant: without KV figures nothing, with them RoundingLoss.
StaysClose ==
    state = "fits_with_reduced_context" /\ kv > 0 =>
        /\ context + RoundingLoss >= Smaller(SafeCeiling, Requested)
        /\ context <= SafeCeiling /\ context <= Requested
        /\ SafeCeiling >= MinContext
        /\ phase # "asked"
        /\ phase = "reported" => context = 0 \/ Fits(context)

IInv == TypeOK /\ OfferWithinOne /\ RejectionWithinOne /\ StaysClose

LEMMA InitInv == Init => IInv
  BY InputsAssumption
     DEF Init, IInv, TypeOK, OfferWithinOne, RejectionWithinOne, StaysClose

\* What is asked about stays, and with it everything computed from it.
LEMMA SameQuestion ==
    ASSUME UNCHANGED inputs
    PROVE  /\ Requested' = Requested
           /\ SafeCeiling' = SafeCeiling /\ RoundingLoss' = RoundingLoss
           /\ kv' = kv
           /\ \A c : Fits(c)' <=> Fits(c)
  BY DEF inputs, Requested, SafeCeiling, Spare, Usable, Weights, RoundingLoss, Fits,
         WithMargin, RequiredMb

LEMMA TypeStep == TypeOK /\ [Next]_vars => TypeOK'
  <1> SUFFICES ASSUME TypeOK, [Next]_vars PROVE TypeOK'
    OBVIOUS
  <1>1. Requested \in Nat /\ SafeCeiling \in Nat
    BY RequestedType, CeilingType
  <1>2. CASE JudgeFits
    BY <1>1, <1>2 DEF JudgeFits, TypeOK, inputs
  <1>3. CASE JudgeReduced
    BY <1>1, <1>3 DEF JudgeReduced, TypeOK, inputs, Smaller
  <1>4. CASE JudgeDoesNotFit
    BY <1>1, <1>4 DEF JudgeDoesNotFit, TypeOK, inputs
  <1>5. CASE Lower
    BY <1>5 DEF Lower, TypeOK, inputs
  <1>6. CASE Report
    BY <1>6 DEF Report, TypeOK, inputs
  <1>7. CASE UNCHANGED vars
    BY <1>7 DEF vars, TypeOK, inputs
  <1> QED
    BY <1>2, <1>3, <1>4, <1>5, <1>6, <1>7 DEF Next

\* More than a token beyond the ceiling nothing fits; without KV figures nothing
\* fits at all.
LEMMA NothingAboveCeiling ==
    ASSUME TypeOK, ~Fits(Requested), NEW c \in Nat, c > SafeCeiling + 1
    PROVE  ~Fits(c)
  <1>1. CASE kv = 0
    BY <1>1, NoKvSameFit, RequestedType
  <1>2. CASE kv > 0
    BY <1>2, CeilingWithinOne
  <1>3. kv \in Nat
    BY FigureTypes
  <1> QED
    BY <1>1, <1>2, <1>3

LEMMA VerdictStep == IInv /\ [Next]_vars => OfferWithinOne' /\ RejectionWithinOne'
  <1> SUFFICES ASSUME IInv, [Next]_vars
               PROVE  OfferWithinOne' /\ RejectionWithinOne'
    OBVIOUS
  <1> USE DEF IInv
  <1>1. Requested \in Nat /\ SafeCeiling \in Nat
    BY RequestedType, CeilingType
  <1>2. UNCHANGED inputs
    BY DEF Next, vars, JudgeFits, JudgeReduced, JudgeDoesNotFit, Lower, Report
  <1>3. Requested' = Requested /\ (\A c : Fits(c)' <=> Fits(c))
    BY <1>2, SameQuestion
  <1>4. CASE JudgeFits
    BY <1>4 DEF JudgeFits, OfferWithinOne, RejectionWithinOne
  <1>5. CASE JudgeReduced
    <2>1. ~Fits(Requested)
      BY <1>5 DEF JudgeReduced
    <2>2. ASSUME NEW c \in (context' + 2) .. Requested PROVE ~Fits(c)
      <3>1. context' = Smaller(SafeCeiling, Requested)
        BY <1>5 DEF JudgeReduced
      <3>2. c \in Nat /\ c > SafeCeiling + 1
        BY <1>1, <2>2, <3>1 DEF Smaller
      <3> QED
        BY <2>1, <3>2, NothingAboveCeiling
    <2> QED
      BY <1>3, <1>5, <2>2 DEF JudgeReduced, OfferWithinOne, RejectionWithinOne
  <1>6. CASE JudgeDoesNotFit
    <2>1. ~Fits(Requested) /\ SafeCeiling < MinContext
      BY <1>6 DEF JudgeDoesNotFit
    <2>2. ASSUME NEW c \in (MinContext + 1) .. Requested PROVE ~Fits(c)
      <3>1. c \in Nat /\ c > SafeCeiling + 1
        BY <1>1, <2>1, <2>2, RatiosAssumption
      <3> QED
        BY <2>1, <3>1, NothingAboveCeiling
    <2> QED
      BY <1>3, <1>6, <2>2 DEF JudgeDoesNotFit, OfferWithinOne, RejectionWithinOne
  <1>7. CASE Lower
    <2>1. /\ state' = state /\ context' = context - 1
          /\ ~Fits(context) /\ context \in Nat
      BY <1>7 DEF Lower, TypeOK
    <2>2. ASSUME NEW c \in (context' + 2) .. Requested PROVE ~Fits(c)
      BY <1>1, <2>1, <2>2, FitsAntitone
    <2> QED
      BY <1>3, <2>1, <2>2 DEF OfferWithinOne, RejectionWithinOne
  <1>8. CASE Report
    BY <1>3, <1>8 DEF Report, OfferWithinOne, RejectionWithinOne
  <1>9. CASE UNCHANGED vars
    BY <1>3, <1>9 DEF vars, OfferWithinOne, RejectionWithinOne
  <1> QED
    BY <1>4, <1>5, <1>6, <1>7, <1>8, <1>9 DEF Next

LEMMA CloseStep == IInv /\ [Next]_vars => StaysClose'
  <1> SUFFICES ASSUME IInv, [Next]_vars, kv > 0,
                      state' = "fits_with_reduced_context"
               PROVE  StaysClose'
    <2>1. [Next]_vars => kv' = kv
      BY DEF Next, vars, inputs, JudgeFits, JudgeReduced, JudgeDoesNotFit, Lower,
             Report
    <2> QED
      BY <2>1 DEF StaysClose
  <1> USE DEF IInv
  <1>1. Requested \in Nat /\ SafeCeiling \in Nat /\ RoundingLoss \in Int
    BY RequestedType, CeilingType, LossType
  <1>2. UNCHANGED inputs
    BY DEF Next, vars, JudgeFits, JudgeReduced, JudgeDoesNotFit, Lower, Report
  <1>3. /\ Requested' = Requested /\ SafeCeiling' = SafeCeiling
        /\ RoundingLoss' = RoundingLoss /\ kv' = kv
        /\ \A c : Fits(c)' <=> Fits(c)
    BY <1>2, SameQuestion
  <1>4. RoundingLoss >= 0
    BY LossType
  <1>5. CASE JudgeFits \/ JudgeDoesNotFit
    BY <1>5 DEF JudgeFits, JudgeDoesNotFit
  <1>6. CASE JudgeReduced
    BY <1>1, <1>3, <1>4, <1>6, RatiosAssumption
       DEF JudgeReduced, StaysClose, Smaller
  <1>7. CASE Lower
    <2>1. /\ state = "fits_with_reduced_context" /\ phase = "lowering"
          /\ phase' = phase /\ context' = context - 1
          /\ context > 0 /\ ~Fits(context) /\ context \in Nat
      BY <1>7 DEF Lower, TypeOK
    <2>3. context + RoundingLoss > SafeCeiling
      BY <1>1, <2>1, LowFits
    <2>4. context' + RoundingLoss >= Smaller(SafeCeiling, Requested)
      BY <1>1, <2>1, <2>3 DEF Smaller
    <2> QED
      BY <1>1, <1>3, <2>1, <2>4 DEF StaysClose, Smaller
  <1>8. CASE Report
    <2>1. /\ state = "fits_with_reduced_context" /\ context' = context
          /\ phase' = "reported" /\ context \in Nat
          /\ ~(context > 0) \/ Fits(context)
      BY <1>8 DEF Report, TypeOK
    <2>2. context = 0 \/ Fits(context)
      BY <2>1
    <2> QED
      BY <1>3, <2>1, <2>2 DEF StaysClose, Smaller
  <1>9. CASE UNCHANGED vars
    BY <1>3, <1>9 DEF vars, StaysClose, Smaller
  <1> QED
    BY <1>5, <1>6, <1>7, <1>8, <1>9 DEF Next

LEMMA SpecInv == Spec => []IInv
  <1>1. IInv /\ [Next]_vars => IInv'
    BY TypeStep, VerdictStep, CloseStep DEF IInv
  <1> QED
    BY <1>1, InitInv, PTL DEF Spec

(***************************************************************************)
(* The theorems.                                                           *)
(***************************************************************************)

\* The types of the variables (compatibility.py:206 to 242).
THEOREM TypeCorrect == Spec => []TypeOK
  <1>1. IInv => TypeOK
    BY DEF IInv
  <1> QED
    BY <1>1, SpecInv, PTL

\* However the doubles round, at most one context between the one offered and the
\* one requested fits: lowering by one passes over nothing (compatibility.py:223).
THEOREM OfferNearlyLargest == Spec => []OfferWithinOne
  <1>1. IInv => OfferWithinOne
    BY DEF IInv
  <1> QED
    BY <1>1, SpecInv, PTL

\* A verdict of does_not_fit, taken from the ceiling alone, is right about
\* every context above the minimum (compatibility.py:218 and 228).
THEOREM RejectionSound == Spec => []RejectionWithinOne
  <1>1. IInv => RejectionWithinOne
    BY DEF IInv
  <1> QED
    BY <1>1, SpecInv, PTL

\* However large the model and small the pool, a loop that has a cost per token
\* loses at most RoundingLoss tokens and, when the minimum and the requested
\* context are larger than that, ends at a context that fits.
THEOREM ReducedClose == Spec => []ReducedIsClose
  <1>1. IInv => ReducedIsClose
    <2> SUFFICES ASSUME IInv, state = "fits_with_reduced_context", kv > 0
                 PROVE  ReducedIsClose
      BY DEF ReducedIsClose
    <2> USE DEF IInv
    <2>1. Requested \in Nat /\ SafeCeiling \in Nat /\ RoundingLoss \in Int
      BY RequestedType, CeilingType, LossType
    <2>2. /\ context + RoundingLoss >= Smaller(SafeCeiling, Requested)
          /\ SafeCeiling >= MinContext
          /\ phase = "reported" => context = 0 \/ Fits(context)
      BY DEF StaysClose
    <2>3. ASSUME RoundingLoss < MinContext, RoundingLoss < Requested
          PROVE  context # 0
      BY <2>1, <2>2, <2>3, RatiosAssumption DEF Smaller
    <2> QED
      BY <2>2, <2>3 DEF ReducedIsClose
  <1> QED
    BY <1>1, SpecInv, PTL

=============================================================================
