------------------------------ MODULE FanProofs ------------------------------
(* Proofs about fan curves and fan control.                                    *)
EXTENDS FanControl, WellFoundedInduction, TLAPS

(* A curve has a first point from a temperature on and a last one below it.    *)
LEMMA LeastNatural ==
    ASSUME NEW S \in SUBSET Nat, S # {}
    PROVE  \E m \in S : \A n \in S : m <= n
<1>1. PICK m \in S : \A n \in S : ~(<<n, m>> \in OpToRel(<, Nat))
  BY NatLessThanWellFounded, WFMin
<1>2. \A n \in S : m <= n
  <2> SUFFICES ASSUME NEW n \in S PROVE m <= n
    OBVIOUS
  <2>1. OpToRel(<, Nat) = {ss \in Nat \X Nat : ss[1] < ss[2]}
    BY DEF OpToRel
  <2>2. CASE n < m
    <3>1. <<n, m>> \in OpToRel(<, Nat)
      BY <2>1, <2>2
    <3> QED BY <1>1, <3>1
  <2> QED BY <2>2
<1> QED BY <1>2

LEMMA MaxIntType == MaxInt \in Nat
BY SMT DEF MaxInt

LEMMA FirstIsLeast ==
    ASSUME NEW S \in SUBSET Int32, S # {}
    PROVE  First(S) \in S /\ \A q \in S : First(S) <= q
<1> DEFINE N == {p + MaxInt : p \in S}
<1>1. N \in SUBSET Nat /\ N # {}
  <2> SUFFICES \A p \in S : p + MaxInt \in Nat
    OBVIOUS
  <2> QED BY MaxIntType DEF Int32
<1>2. PICK m \in N : \A k \in N : m <= k
  <2> HIDE DEF N
  <2> QED BY <1>1, LeastNatural
<1>3. PICK p \in S : m = p + MaxInt
  OBVIOUS
<1>4. \A q \in S : p <= q
  <2> SUFFICES ASSUME NEW q \in S PROVE p <= q
    OBVIOUS
  <2>1. p + MaxInt <= q + MaxInt
    BY <1>2, <1>3
  <2> QED BY <2>1, MaxIntType DEF Int32
<1> QED BY <1>4 DEF First

LEMMA LastIsGreatest ==
    ASSUME NEW S \in SUBSET Int32, S # {}
    PROVE  Last(S) \in S /\ \A q \in S : q <= Last(S)
<1> DEFINE N == {MaxInt - p : p \in S}
<1>1. N \in SUBSET Nat /\ N # {}
  <2> SUFFICES \A p \in S : MaxInt - p \in Nat
    OBVIOUS
  <2> QED BY MaxIntType DEF Int32
<1>2. PICK m \in N : \A k \in N : m <= k
  <2> HIDE DEF N
  <2> QED BY <1>1, LeastNatural
<1>3. PICK p \in S : m = MaxInt - p
  OBVIOUS
<1>4. \A q \in S : q <= p
  <2> SUFFICES ASSUME NEW q \in S PROVE q <= p
    OBVIOUS
  <2>1. MaxInt - p <= MaxInt - q
    BY <1>2, <1>3
  <2> QED BY <2>1, MaxIntType DEF Int32
<1> QED BY <1>4 DEF Last

LEMMA ByteType == \A n \in Int : AsByte(n) \in Byte
BY DEF AsByte, Byte

LEMMA PointsType ==
    ASSUME NEW curve, IsCurve(curve), NEW t \in Int
    PROVE  /\ Below(curve, t) \in SUBSET Int32 /\ From(curve, t) \in SUBSET Int32
           /\ Below(curve, t) # {} => Last(Below(curve, t)) \in Below(curve, t)
           /\ From(curve, t) # {} => First(From(curve, t)) \in From(curve, t)
<1>1. Below(curve, t) \in SUBSET Int32 /\ From(curve, t) \in SUBSET Int32
  BY DEF Below, From, IsCurve
<1> QED BY <1>1, FirstIsLeast, LastIsGreatest

LEMMA Int32Type == Int32 \subseteq Int
BY MaxIntType DEF Int32

LEMMA PwmOfType == \A s \in Int : PwmOf(s) \in Byte
BY ByteType DEF PwmOf

LEMMA BetweenType ==
    ASSUME NEW curve, IsCurve(curve), NEW t \in Int,
           NEW lo \in DOMAIN curve, NEW hi \in DOMAIN curve, lo < hi
    PROVE  Between(curve, lo, hi, t) \subseteq Byte
<1>1. lo \in Int /\ hi \in Int /\ curve[lo] \in Int /\ curve[hi] \in Int
  BY Int32Type DEF IsCurve
<1> DEFINE width == 100 * (hi - lo)
           scaled == 255 * (curve[lo] * (hi - lo) + (curve[hi] - curve[lo]) * (t - lo))
<1>2. width \in Nat \ {0} /\ scaled \in Int
  BY <1>1
<1>3. scaled \div width \in Int
  <2> HIDE DEF width, scaled
  <2> QED BY <1>2
<1> QED BY <1>3, ByteType DEF Between

(* pwm_at_temp returns a byte, and does not panic unless the curve is empty.   *)
LEMMA PwmAtType ==
    ASSUME NEW curve, IsCurve(curve), NEW t \in Int, NEW hot \in BOOLEAN
    PROVE  /\ PwmAt(curve, t, hot) \subseteq Byte
           /\ DOMAIN curve # {} => PwmAt(curve, t, hot) # {}
<1> DEFINE lo == Last(Below(curve, t))
           hi == First(From(curve, t))
<1>1. /\ Below(curve, t) # {} => lo \in DOMAIN curve /\ lo < t
      /\ From(curve, t) # {} => hi \in DOMAIN curve /\ t <= hi
  BY PointsType DEF Below, From
<1>2. \A p \in DOMAIN curve : p \in Int /\ PwmOf(curve[p]) \in Byte
  BY PwmOfType, Int32Type DEF IsCurve
<1>3. DOMAIN curve = Below(curve, t) \cup From(curve, t)
  BY <1>2 DEF Below, From
<1>4. CASE hot
  BY <1>4 DEF PwmAt, Byte
<1>5. CASE ~hot /\ Below(curve, t) # {} /\ From(curve, t) # {}
  <2>1. lo \in DOMAIN curve /\ hi \in DOMAIN curve /\ lo < hi
    BY <1>1, <1>2, <1>5
  <2>2. Between(curve, lo, hi, t) \subseteq Byte
    BY <2>1, BetweenType
  <2>3. Between(curve, lo, hi, t) # {}
    BY DEF Between
  <2> QED BY <1>5, <2>2, <2>3 DEF PwmAt
<1>6. CASE ~hot /\ (Below(curve, t) = {} \/ From(curve, t) = {})
  BY <1>1, <1>2, <1>3, <1>6 DEF PwmAt
<1> QED BY <1>4, <1>5, <1>6
-----------------------------------------------------------------------------
(* Along a rising curve the speed does not fall when the temperature rises.    *)

LEMMA DivBounds ==
    ASSUME NEW n \in Int, NEW w \in Nat \ {0}
    PROVE  /\ n \div w \in Int
           /\ (n \div w) * w <= n /\ n < (n \div w + 1) * w
           /\ n % w = 0 => n = (n \div w) * w
BY SMT

LEMMA LessByFactor ==
    ASSUME NEW a \in Int, NEW b \in Int, NEW w \in Nat \ {0}, a * w < b * w
    PROVE  a < b
BY SMT

LEMMA FactorKeepsOrder ==
    ASSUME NEW a \in Int, NEW b \in Int, NEW w \in Nat, a <= b
    PROVE  a * w <= b * w
BY SMT

LEMMA Interpolation ==
    ASSUME NEW a \in Int, NEW b \in Int, a <= b,
           NEW wide \in Nat \ {0}, NEW d \in Int, 0 < d, d <= wide
    PROVE  /\ a * wide <= a * wide + (b - a) * d
           /\ a * wide + (b - a) * d <= b * wide
           /\ a < b => a * wide < a * wide + (b - a) * d
BY SMT

LEMMA DivMonotone ==
    ASSUME NEW m \in Int, NEW n \in Int, m <= n, NEW w \in Nat \ {0}
    PROVE  m \div w <= n \div w
<1>1. (m \div w) * w < (n \div w + 1) * w
  BY DivBounds
<1>2. m \div w < n \div w + 1
  BY <1>1, DivBounds, LessByFactor
<1> QED BY <1>2, DivBounds

LEMMA AsByteMonotone == \A m, n \in Int : m <= n => AsByte(m) <= AsByte(n)
BY DEF AsByte

LEMMA PwmOfMonotone ==
    ASSUME NEW r \in Int, NEW s \in Int, r <= s
    PROVE  PwmOf(r) <= PwmOf(s)
<1>1. (255 * r) \div 100 <= (255 * s) \div 100
  BY DivMonotone
<1> QED BY <1>1, DivBounds, AsByteMonotone DEF PwmOf

(* The numbers of Between, and what they are bounded by. *)
Scaled(a, b, wide, d) == 255 * (a * wide + (b - a) * d)
Exact(a, b, wide, d) == Scaled(a, b, wide, d) \div (100 * wide)

LEMMA ExactBounds ==
    ASSUME NEW a \in Int, NEW b \in Int, a <= b,
           NEW wide \in Nat \ {0}, NEW d \in Int, 0 < d, d <= wide
    PROVE  /\ Exact(a, b, wide, d) \in Int
           /\ (255 * a) \div 100 <= Exact(a, b, wide, d)
           /\ Exact(a, b, wide, d) <= (255 * b) \div 100
           /\ a # b /\ Scaled(a, b, wide, d) % (100 * wide) = 0
                => (255 * a) \div 100 <= Exact(a, b, wide, d) - 1
<1> DEFINE x == (255 * a) \div 100
           y == (255 * b) \div 100
           s == Scaled(a, b, wide, d)
           w == 100 * wide
           e == Exact(a, b, wide, d)
<1>1. w \in Nat \ {0} /\ s \in Int /\ x \in Int /\ y \in Int
  BY DivBounds DEF Scaled
<1>2. e \in Int /\ e * w <= s /\ s < (e + 1) * w /\ (s % w = 0 => s = e * w)
  <2> HIDE DEF s, w
  <2> QED BY <1>1, DivBounds DEF Exact, s, w
<1>3. /\ 255 * (a * wide) <= s /\ s <= 255 * (b * wide)
      /\ a < b => 255 * (a * wide) < s
  <2>1. a * wide \in Int /\ b * wide \in Int /\ a * wide + (b - a) * d \in Int
    OBVIOUS
  <2> QED BY <2>1, Interpolation DEF Scaled
<1>4. x * w <= 255 * (a * wide)
  <2>1. 100 * x <= 255 * a
    BY DivBounds
  <2>2. (100 * x) * wide <= (255 * a) * wide
    BY <2>1, <1>1, FactorKeepsOrder
  <2> QED BY <2>2, <1>1
<1>5. 255 * (b * wide) < (y + 1) * w
  <2>1. 255 * b < 100 * (y + 1)
    BY DivBounds
  <2>2. (255 * b) * wide < (100 * (y + 1)) * wide
    <3> HIDE DEF y
    <3> QED BY <2>1, <1>1
  <2>3. 255 * (b * wide) = (255 * b) * wide /\ (y + 1) * w = (100 * (y + 1)) * wide
    <3> HIDE DEF y
    <3> QED BY <1>1
  <2> QED BY <2>2, <2>3
<1> HIDE DEF x, y, s, w, e
<1>6. x <= e
  <2>1. x * w < (e + 1) * w
    BY <1>1, <1>2, <1>3, <1>4
  <2> QED BY <2>1, <1>1, <1>2, LessByFactor
<1>7. e <= y
  <2>1. e * w < (y + 1) * w
    BY <1>1, <1>2, <1>3, <1>5
  <2> QED BY <2>1, <1>1, <1>2, LessByFactor
<1>8. a # b /\ s % w = 0 => x <= e - 1
  <2> SUFFICES ASSUME a < b, s % w = 0 PROVE x < e
    BY <1>1, <1>2
  <2>1. x * w < e * w
    BY <1>1, <1>2, <1>3, <1>4
  <2> QED BY <2>1, <1>1, <1>2, LessByFactor
<1> QED BY <1>2, <1>6, <1>7, <1>8 DEF x, y, s, w, e

LEMMA ExactMonotone ==
    ASSUME NEW a \in Int, NEW b \in Int, a <= b, NEW wide \in Nat \ {0},
           NEW d \in Int, NEW f \in Int, 0 < d, d < f, f <= wide
    PROVE  /\ Exact(a, b, wide, d) <= Exact(a, b, wide, f)
           /\ a # b /\ Scaled(a, b, wide, f) % (100 * wide) = 0
                => Exact(a, b, wide, d) <= Exact(a, b, wide, f) - 1
<1> DEFINE w == 100 * wide
           s == Scaled(a, b, wide, d)
           r == Scaled(a, b, wide, f)
<1>1. w \in Nat \ {0} /\ s \in Int /\ r \in Int
  BY DEF Scaled
<1>2. s <= r /\ (a < b => s < r)
  <2>1. (b - a) * d <= (b - a) * f /\ (a < b => (b - a) * d < (b - a) * f)
    BY SMT
  <2>2. a * wide \in Int /\ (b - a) * d \in Int /\ (b - a) * f \in Int
    OBVIOUS
  <2> QED BY <2>1, <2>2 DEF Scaled
<1> HIDE DEF w, s, r
<1>3. s \div w <= r \div w
  BY <1>1, <1>2, DivMonotone
<1>4. ASSUME a < b, r % w = 0 PROVE s \div w < r \div w
  <2>1. (s \div w) * w < (r \div w) * w
    BY <1>1, <1>2, <1>4, DivBounds
  <2> QED BY <2>1, <1>1, DivBounds, LessByFactor
<1>5. s \div w \in Int /\ r \div w \in Int
  BY <1>1, DivBounds
<1> QED BY <1>3, <1>4, <1>5 DEF Exact, s, r, w

LEMMA BetweenIsExact ==
    ASSUME NEW curve, NEW lo, NEW hi, NEW t, NEW p \in Between(curve, lo, hi, t)
    PROVE  LET e == Exact(curve[lo], curve[hi], hi - lo, t - lo) IN
           \/ p = AsByte(e)
           \/ /\ p = AsByte(e - 1) /\ curve[lo] # curve[hi]
              /\ Scaled(curve[lo], curve[hi], hi - lo, t - lo) % (100 * (hi - lo)) = 0
BY DEF Between, Exact, Scaled

LEMMA BetweenBounds ==
    ASSUME NEW curve, IsCurve(curve), NEW t \in Int,
           NEW lo \in DOMAIN curve, NEW hi \in DOMAIN curve, lo < t, t <= hi,
           curve[lo] <= curve[hi], NEW p \in Between(curve, lo, hi, t)
    PROVE  PwmOf(curve[lo]) <= p /\ p <= PwmOf(curve[hi])
<1> DEFINE a == curve[lo]
           b == curve[hi]
           wide == hi - lo
           d == t - lo
           e == Exact(a, b, wide, d)
           x == (255 * a) \div 100
           y == (255 * b) \div 100
<1>1. lo \in Int /\ hi \in Int /\ a \in Int /\ b \in Int
  BY Int32Type DEF IsCurve
<1>2. wide \in Nat \ {0} /\ d \in Int /\ 0 < d /\ d <= wide
  BY <1>1
<1>3. x \in Int /\ y \in Int
  BY <1>1, DivBounds
<1>4. /\ e \in Int /\ x <= e /\ e <= y
      /\ a # b /\ Scaled(a, b, wide, d) % (100 * wide) = 0 => x <= e - 1
  <2>1. a <= b
    OBVIOUS
  <2> HIDE DEF a, b, wide, d
  <2> QED BY <1>1, <1>2, <2>1, ExactBounds
<1>5. PwmOf(a) = AsByte(x) /\ PwmOf(b) = AsByte(y)
  BY DEF PwmOf
<1>6. p = AsByte(e) \/ (p = AsByte(e - 1) /\ x <= e - 1)
  BY <1>4, BetweenIsExact
<1> HIDE DEF a, b, wide, d, e, x, y
<1>7. e - 1 \in Int /\ e - 1 <= y
  BY <1>3, <1>4
<1>8. AsByte(x) <= p /\ p <= AsByte(y)
  BY <1>3, <1>4, <1>6, <1>7, AsByteMonotone
<1> QED BY <1>5, <1>8 DEF a, b

LEMMA BetweenMonotone ==
    ASSUME NEW curve, IsCurve(curve), NEW t \in Int, NEW u \in Int, t < u,
           NEW lo \in DOMAIN curve, NEW hi \in DOMAIN curve, lo < t, u <= hi,
           curve[lo] <= curve[hi],
           NEW p \in Between(curve, lo, hi, t), NEW q \in Between(curve, lo, hi, u)
    PROVE  p <= q
<1> DEFINE a == curve[lo]
           b == curve[hi]
           wide == hi - lo
           d == t - lo
           g == u - lo
           e == Exact(a, b, wide, d)
           f == Exact(a, b, wide, g)
<1>1. lo \in Int /\ hi \in Int /\ a \in Int /\ b \in Int
  BY Int32Type DEF IsCurve
<1>2. /\ wide \in Nat \ {0} /\ d \in Int /\ g \in Int
      /\ 0 < d /\ d < g /\ g <= wide /\ d <= wide /\ 0 < g
  BY <1>1
<1>3. /\ e <= f
      /\ a # b /\ Scaled(a, b, wide, g) % (100 * wide) = 0 => e <= f - 1
  <2>1. a <= b
    OBVIOUS
  <2> HIDE DEF a, b, wide, d, g
  <2> QED BY <1>1, <1>2, <2>1, ExactMonotone
<1>4. e \in Int /\ f \in Int
  <2>1. a <= b
    OBVIOUS
  <2> HIDE DEF a, b, wide, d, g
  <2> QED BY <1>1, <1>2, <2>1, ExactBounds
<1>5. p = AsByte(e) \/ p = AsByte(e - 1)
  BY BetweenIsExact
<1>6. q = AsByte(f) \/ (q = AsByte(f - 1) /\ e <= f - 1)
  BY <1>3, BetweenIsExact
<1> HIDE DEF a, b, wide, d, g, e, f
<1>7. e - 1 \in Int /\ f - 1 \in Int /\ e - 1 <= e /\ e - 1 <= f - 1
  BY <1>3, <1>4
<1>8. /\ AsByte(e - 1) <= AsByte(e) /\ AsByte(e) <= AsByte(f)
      /\ AsByte(e - 1) <= AsByte(f - 1) /\ (e <= f - 1 => AsByte(e) <= AsByte(f - 1))
  BY <1>3, <1>4, <1>7, AsByteMonotone
<1>9. AsByte(e) \in Int /\ AsByte(e - 1) \in Int /\ AsByte(f) \in Int /\ AsByte(f - 1) \in Int
  BY <1>4, <1>7, ByteType DEF Byte
<1> QED BY <1>5, <1>6, <1>8, <1>9

(* A point of the curve bounds the speeds on either side of it. *)
LEMMA PointBounds ==
    ASSUME NEW curve, IsCurve(curve), Rising(curve), NEW t \in Int,
           NEW m \in DOMAIN curve, NEW p \in PwmAt(curve, t, FALSE)
    PROVE  /\ t <= m => p <= PwmOf(curve[m])
           /\ m < t => PwmOf(curve[m]) <= p
<1> DEFINE lo == Last(Below(curve, t))
           hi == First(From(curve, t))
<1>1. \A n \in DOMAIN curve : n \in Int /\ curve[n] \in Int /\ PwmOf(curve[n]) \in Int
  BY Int32Type, PwmOfType DEF IsCurve, Byte
<1>2. /\ Below(curve, t) # {} => lo \in DOMAIN curve /\ lo < t
                                 /\ \A n \in Below(curve, t) : n <= lo
      /\ From(curve, t) # {} => hi \in DOMAIN curve /\ t <= hi
                                 /\ \A n \in From(curve, t) : hi <= n
  BY PointsType, LastIsGreatest, FirstIsLeast DEF Below, From
<1>3. m \in Below(curve, t) <=> m < t
  BY DEF Below
<1>4. m \in From(curve, t) <=> t <= m
  BY <1>1 DEF From
<1>5. p \in Int
  <2>1. PwmAt(curve, t, FALSE) \subseteq Byte
    BY PwmAtType, Zenon
  <2>2. p \in Byte
    BY <2>1, Zenon
  <2> QED BY <2>2 DEF Byte
<1> HIDE DEF lo, hi
<1>6. ASSUME Below(curve, t) # {}, From(curve, t) # {}
      PROVE  PwmOf(curve[lo]) <= p /\ p <= PwmOf(curve[hi])
  <2>1. p \in Between(curve, lo, hi, t)
    BY <1>6 DEF PwmAt, lo, hi
  <2>2. curve[lo] <= curve[hi]
    BY <1>1, <1>2, <1>6 DEF Rising
  <2> QED BY <1>2, <1>6, <2>1, <2>2, BetweenBounds
<1>7. ASSUME t <= m PROVE p <= PwmOf(curve[m])
  <2>1. From(curve, t) # {} /\ curve[hi] <= curve[m]
    BY <1>2, <1>4, <1>7 DEF Rising
  <2>2. p <= PwmOf(curve[hi])
    <3>1. CASE Below(curve, t) # {}
      BY <1>6, <2>1, <3>1
    <3>2. CASE Below(curve, t) = {}
      BY <1>5, <2>1, <3>2 DEF PwmAt, hi
    <3> QED BY <3>1, <3>2
  <2>3. PwmOf(curve[hi]) <= PwmOf(curve[m])
    BY <1>1, <1>2, <2>1, PwmOfMonotone
  <2> QED BY <1>1, <1>2, <1>5, <2>1, <2>2, <2>3
<1>8. ASSUME m < t PROVE PwmOf(curve[m]) <= p
  <2>1. Below(curve, t) # {} /\ curve[m] <= curve[lo]
    BY <1>2, <1>3, <1>8 DEF Rising
  <2>2. PwmOf(curve[lo]) <= p
    <3>1. CASE From(curve, t) # {}
      BY <1>6, <2>1, <3>1
    <3>2. CASE From(curve, t) = {}
      BY <1>5, <2>1, <3>2 DEF PwmAt, lo
    <3> QED BY <3>1, <3>2
  <2>3. PwmOf(curve[m]) <= PwmOf(curve[lo])
    BY <1>1, <1>2, <2>1, PwmOfMonotone
  <2> QED BY <1>1, <1>2, <1>5, <2>1, <2>2, <2>3
<1> QED BY <1>7, <1>8

(* pwm_at_temp does not fall with the temperature along a rising curve, in     *)
(* spite of the truncation and of results that f32 puts below a whole number.  *)
LEMMA PwmAtMonotone ==
    ASSUME NEW curve, IsCurve(curve), Rising(curve),
           NEW t \in Int, NEW u \in Int, t < u,
           NEW p \in PwmAt(curve, t, FALSE), NEW q \in PwmAt(curve, u, FALSE)
    PROVE  p <= q
<1>1. \A n \in DOMAIN curve : n \in Int /\ curve[n] \in Int /\ PwmOf(curve[n]) \in Int
  BY Int32Type, PwmOfType DEF IsCurve, Byte
<1>2. p \in Int /\ q \in Int
  <2>1. PwmAt(curve, t, FALSE) \subseteq Byte /\ PwmAt(curve, u, FALSE) \subseteq Byte
    BY PwmAtType, Zenon
  <2>2. p \in Byte /\ q \in Byte
    BY <2>1, Zenon
  <2> QED BY <2>2 DEF Byte
<1>3. CASE \E m \in DOMAIN curve : t <= m /\ m < u
  <2>1. PICK m \in DOMAIN curve : t <= m /\ m < u
    BY <1>3
  <2>2. p <= PwmOf(curve[m])
    BY <2>1, PointBounds
  <2>3. PwmOf(curve[m]) <= q
    BY <2>1, PointBounds
  <2> QED BY <1>1, <1>2, <2>2, <2>3
<1>4. CASE ~\E m \in DOMAIN curve : t <= m /\ m < u
  <2>1. Below(curve, t) = Below(curve, u) /\ From(curve, t) = From(curve, u)
    BY <1>1, <1>4 DEF Below, From
  <2>2. CASE Below(curve, t) = {} \/ From(curve, t) = {}
    BY <1>2, <2>1, <2>2 DEF PwmAt
  <2>3. CASE Below(curve, t) # {} /\ From(curve, t) # {}
    <3> DEFINE lo == Last(Below(curve, t))
               hi == First(From(curve, t))
    <3>1. p \in Between(curve, lo, hi, t) /\ q \in Between(curve, lo, hi, u)
      BY <2>1, <2>3 DEF PwmAt
    <3>2. lo \in DOMAIN curve /\ hi \in DOMAIN curve /\ lo < t /\ u <= hi
      BY <2>1, <2>3, PointsType DEF Below, From
    <3> HIDE DEF lo, hi
    <3>3. curve[lo] <= curve[hi]
      BY <1>1, <3>2 DEF Rising
    <3> QED BY <3>1, <3>2, <3>3, BetweenMonotone
  <2> QED BY <2>2, <2>3
<1> QED BY <1>3, <1>4
-----------------------------------------------------------------------------
(* Types. A task that runs has a curve, a call that waits has a setting.       *)

GoodTask == {r \in TaskState : r.st = "runs" => r.curve \in Curves}
Waiting == \A c \in Caller : at[c] = "stopping" => want[c] \in Settings
FanInv == TypeOK /\ task \in [FanTask -> GoodTask] /\ Waiting

LEMMA TargetsType ==
    ASSUME NEW kd, NEW cv \in Curves, NEW t \in Int
    PROVE  Targets(kd, cv, t) \subseteq Byte
<1>1. (kd = "amd" /\ t > Critical) \in BOOLEAN
  OBVIOUS
<1>2. IsCurve(cv)
  BY CurvesAreMaps
<1> QED BY <1>1, <1>2, PwmAtType, Zenon DEF Targets

LEMMA WrittenType == \A kd, p : p \in Byte => Written(kd, p) \in Byte
<1> SUFFICES ASSUME NEW kd, NEW p \in Byte PROVE Written(kd, p) \in Byte
  OBVIOUS
<1>1. (2 * p) \div 5 \in Byte
  BY DEF Byte
<1> QED BY <1>1 DEF Written

LEMMA StaticType ==
    ASSUME NEW kd, NEW s \in Fixed
    PROVE  StaticSpeeds(kd, s) \subseteq Byte /\ PwmOf(s) \in Byte
<1>1. s \in 0..100 /\ s \in Int
  BY NumbersAreIntegers
<1> QED BY <1>1, PwmOfType DEF StaticSpeeds, Byte

LEMMA SettingFields ==
    ASSUME NEW s \in Settings
    PROVE  /\ s.mode = "curve" => s.curve \in Curves
           /\ s.mode = "static" => s.speed \in Fixed
BY DEF Settings, Off, Missing, Static, Curve

LEMMA OffType == Off \in Settings
BY DEF Settings

LEMMA RecordTypes ==
    /\ Ended \in GoodTask /\ Panicked \in GoodTask
    /\ \A cv \in Curves : NewTask(cv) \in GoodTask
BY DEF Ended, Panicked, NewTask, TaskState, GoodTask

LEMMA SpawnType ==
    ASSUME FanInv, NEW cv \in Curves, Spawn(cv)
    PROVE  task' \in [FanTask -> GoodTask] /\ handle' \in FanTask \cup {None}
BY RecordTypes DEF FanInv, TypeOK, Spawn

LEMMA AllFansTypes ==
    /\ \A p \in Byte : AllFans(p) \in [Fan -> Byte]
    /\ \A m \in {"auto", "manual"} : AllFans(m) \in [Fan -> {"auto", "manual"}]
BY DEF AllFans

LEMMA WriteFirstType ==
    ASSUME FanInv, NEW n, NEW v \in Byte, WriteFirst(n, v)
    PROVE  mode' \in [Fan -> {"auto", "manual"}] /\ pwm' \in [Fan -> Byte]
BY DEF FanInv, TypeOK, WriteFirst

LEMMA ResetTypes ==
    ASSUME FanInv, NEW hadTask \in BOOLEAN
    PROVE  /\ PartlyReset(hadTask) \subseteq [Fan -> {"auto", "manual"}]
           /\ AfterReset(hadTask) \subseteq [Fan -> {"auto", "manual"}]
<1>1. \A h \in BOOLEAN : PartlyReset(h) \subseteq [Fan -> {"auto", "manual"}]
  BY DEF FanInv, TypeOK, PartlyReset
<1> QED BY <1>1, AllFansTypes DEF AfterReset

(* The variables that apply_config changes. *)
ChangedTypes ==
    /\ handle \in FanTask \cup {None}
    /\ task \in [FanTask -> GoodTask]
    /\ mode \in [Fan -> {"auto", "manual"}]
    /\ pwm \in [Fan -> Byte]
    /\ fw \in Settings
    /\ applied \in Settings \cup {None}

LEMMA ProceedTypes ==
    ASSUME FanInv, NEW s \in Settings, NEW hadTask \in BOOLEAN,
           NEW left \in FanTask \cup {None}, Proceed(s, hadTask, left)
    PROVE  ChangedTypes'
<1> USE DEF Done, Fail, NotStarted, Started, hardware
<1>1. CASE s.mode = "off" /\ AmdOff(left)
  BY <1>1, AllFansTypes, OffType DEF FanInv, TypeOK, ChangedTypes, AmdOff
<1>2. CASE s.mode = "static" /\ AmdStatic(s, left)
  <2>1. PwmOf(s.speed) \in Byte
    BY <1>2, SettingFields, StaticType
  <2>2. CASE WriteFirst(Fans, PwmOf(s.speed)) /\ UNCHANGED fw /\ Done(s, left)
    BY <2>1, <2>2, WriteFirstType DEF FanInv, TypeOK, ChangedTypes
  <2>3. CASE mode' \in {mode, AllFans("manual")} /\ UNCHANGED <<pwm, fw>> /\ Fail(left)
    BY <2>3, AllFansTypes DEF FanInv, TypeOK, ChangedTypes
  <2> QED BY <1>2, <2>2, <2>3 DEF AmdStatic
<1>3. CASE s.mode = "curve" /\ AmdCurve(s, left)
  <2>1. s.curve \in Curves
    BY <1>3, SettingFields
  <2>2. CASE mode' = AllFans("manual") /\ UNCHANGED <<pwm, fw>> /\ Started(s)
    BY <2>1, <2>2, SpawnType, AllFansTypes DEF FanInv, TypeOK, ChangedTypes
  <2>3. CASE UNCHANGED hardware /\ Fail(left)
    BY <2>3 DEF FanInv, TypeOK, ChangedTypes
  <2> QED BY <1>3, <2>2, <2>3 DEF AmdCurve
<1>4. CASE PmfwAny(s, left)
  BY <1>4 DEF FanInv, TypeOK, ChangedTypes, PmfwAny
<1>5. CASE ResetFails(hadTask, left)
  BY <1>5, ResetTypes DEF FanInv, TypeOK, ChangedTypes, ResetFails
<1>6. CASE s.mode = "off" /\ NvidiaOff(hadTask, left)
  BY <1>5, <1>6, AllFansTypes, OffType DEF FanInv, TypeOK, ChangedTypes, NvidiaOff
<1>7. CASE s.mode = "static" /\ NvidiaStatic(s, hadTask, left)
  <2>1. StaticSpeeds(kind, s.speed) \subseteq Byte
    BY <1>7, SettingFields, StaticType
  <2>2. CASE \E v \in StaticSpeeds(kind, s.speed) :
                WriteFirst(Fans, v) /\ UNCHANGED fw /\ Done(s, left)
    BY <2>1, <2>2, WriteFirstType DEF FanInv, TypeOK, ChangedTypes
  <2>3. CASE /\ \E n \in 0..(Fans - 1), v \in StaticSpeeds(kind, s.speed), m \in AfterReset(hadTask) :
                /\ pwm' = [f \in Fan |-> IF f <= n THEN v ELSE pwm[f]]
                /\ mode' = [f \in Fan |-> IF f <= n THEN "manual" ELSE m[f]]
             /\ UNCHANGED fw /\ Fail(left)
    BY <2>1, <2>3, ResetTypes DEF FanInv, TypeOK, ChangedTypes
  <2> QED BY <1>5, <1>7, <2>2, <2>3 DEF NvidiaStatic
<1>8. CASE s.mode = "curve" /\ NvidiaCurve(s, hadTask, left)
  <2>1. s.curve \in Curves
    BY <1>8, SettingFields
  <2>2. CASE mode' \in AfterReset(hadTask) /\ UNCHANGED <<pwm, fw>> /\ Started(s)
    BY <2>1, <2>2, SpawnType, ResetTypes DEF FanInv, TypeOK, ChangedTypes
  <2>3. CASE mode' \in AfterReset(hadTask) /\ UNCHANGED <<pwm, fw>> /\ Fail(left)
    BY <2>3, ResetTypes DEF FanInv, TypeOK, ChangedTypes
  <2> QED BY <1>5, <1>8, <2>2, <2>3 DEF NvidiaCurve
<1> QED BY <1>1, <1>2, <1>3, <1>4, <1>6, <1>7, <1>8 DEF Proceed

LEMMA AfterTaskTypes ==
    ASSUME FanInv, NEW s \in Settings, NEW k \in FanTask \cup {None},
           NEW left \in FanTask \cup {None}, AfterTask(k, s, left)
    PROVE  ChangedTypes'
<1>1. CASE Fail(left) /\ UNCHANGED hardware
  BY <1>1 DEF FanInv, TypeOK, ChangedTypes, Fail, NotStarted, hardware
<1>2. CASE Proceed(s, k # None, left)
  BY <1>2, ProceedTypes
<1> QED BY <1>1, <1>2 DEF AfterTask

LEMMA InitType == Init => FanInv
<1> SUFFICES ASSUME Init PROVE FanInv
  OBVIOUS
<1>1. task \in [FanTask -> GoodTask] /\ task \in [FanTask -> TaskState]
  BY RecordTypes DEF Init, GoodTask
<1>2. mode \in [Fan -> {"auto", "manual"}] /\ pwm \in [Fan -> Byte] /\ fw \in Settings
  <2>1. 0 \in Byte
    BY DEF Byte
  <2> QED BY <2>1, AllFansTypes, OffType DEF Init
<1> QED BY <1>1, <1>2 DEF Init, FanInv, TypeOK, Waiting

(* A task that changes its record and the fans. *)
LEMMA TaskStepType ==
    ASSUME FanInv, NEW k \in FanTask, NEW r \in GoodTask,
           task' = [task EXCEPT ![k] = r],
           mode' \in [Fan -> {"auto", "manual"}], pwm' \in [Fan -> Byte],
           applied' \in {applied, None},
           UNCHANGED <<kind, handle, calls, temp, fw>>
    PROVE  FanInv'
BY DEF FanInv, TypeOK, calls, GoodTask, Waiting

LEMMA FieldTypes ==
    ASSUME FanInv, NEW k \in FanTask
    PROVE  /\ [task[k] EXCEPT !.told = TRUE] \in GoodTask
           /\ [task[k] EXCEPT !.since = IF @ = "write" THEN "near" ELSE @] \in GoodTask
           /\ [task[k] EXCEPT !.since = "lower"] \in GoodTask
           /\ [task[k] EXCEPT !.late = TRUE] \in GoodTask
           /\ \A p \in Byte, w \in BOOLEAN : AfterWrite(k, p, w) \in GoodTask
           /\ task[k].works \in BOOLEAN
<1>1. task[k] \in GoodTask /\ temp \in Temps
  BY DEF FanInv, TypeOK
<1>2. /\ [task[k] EXCEPT !.told = TRUE] \in GoodTask
      /\ [task[k] EXCEPT !.late = TRUE] \in GoodTask
      /\ [task[k] EXCEPT !.since = "lower"] \in GoodTask
  BY <1>1 DEF TaskState, GoodTask
<1>3. [task[k] EXCEPT !.since = IF @ = "write" THEN "near" ELSE @] \in GoodTask
  BY <1>1 DEF TaskState, GoodTask
<1>4. ASSUME NEW p \in Byte, NEW w \in BOOLEAN PROVE AfterWrite(k, p, w) \in GoodTask
  <2>1. AfterWrite(k, p, w) \in TaskState
    BY <1>1 DEF TaskState, GoodTask, AfterWrite
  <2>2. AfterWrite(k, p, w).st = task[k].st /\ AfterWrite(k, p, w).curve = task[k].curve
    BY <1>1 DEF TaskState, GoodTask, AfterWrite
  <2> QED BY <1>1, <2>1, <2>2 DEF GoodTask
<1>5. task[k].works \in BOOLEAN
  BY <1>1 DEF TaskState, GoodTask
<1> QED BY <1>2, <1>3, <1>4, <1>5

LEMMA ChangedSuffices ==
    ASSUME FanInv, ChangedTypes',
           at' \in [Caller -> {"idle", "stopping"}],
           want' \in [Caller -> Settings \cup {None}],
           waits' \in [Caller -> FanTask \cup {None}],
           Waiting', kind' = kind, temp' = temp
    PROVE  FanInv'
BY DEF FanInv, TypeOK, ChangedTypes, GoodTask

LEMMA CallKeepsTypes == ASSUME FanInv, NEW c \in Caller, Call(c) PROVE FanInv'
<1>1. CASE Refuse(c)
  <2>1. Waiting'
    BY <1>1 DEF FanInv, Waiting, Refuse, calls
  <2> QED BY <1>1, <2>1, ChangedSuffices
          DEF FanInv, TypeOK, Refuse, ChangedTypes, Fail, NotStarted, calls, hardware
<1>2. CASE ApplyNow(c)
  <2>1. PICK s \in Settings : AfterTask(handle, s, None)
    BY <1>2 DEF ApplyNow
  <2>2. ChangedTypes'
    BY <2>1, AfterTaskTypes DEF FanInv, TypeOK
  <2>3. Waiting'
    BY <1>2 DEF FanInv, Waiting, ApplyNow, calls
  <2> QED BY <1>2, <2>2, <2>3, ChangedSuffices DEF FanInv, TypeOK, ApplyNow, calls
<1>3. CASE ApplyWait(c)
  <2>1. handle \in FanTask /\ [task[handle] EXCEPT !.told = TRUE] \in GoodTask
    BY <1>3, FieldTypes DEF FanInv, TypeOK, ApplyWait
  <2>2. task' \in [FanTask -> GoodTask]
    BY <1>3, <2>1 DEF FanInv, ApplyWait
  <2>3. ChangedTypes'
    BY <1>3, <2>2 DEF FanInv, TypeOK, ApplyWait, ChangedTypes, hardware
  <2>4. /\ at' \in [Caller -> {"idle", "stopping"}]
        /\ want' \in [Caller -> Settings \cup {None}]
        /\ waits' \in [Caller -> FanTask \cup {None}]
    BY <1>3, <2>1 DEF FanInv, TypeOK, ApplyWait
  <2>5. Waiting'
    BY <1>3 DEF FanInv, TypeOK, Waiting, ApplyWait
  <2> QED BY <1>3, <2>3, <2>4, <2>5, ChangedSuffices DEF ApplyWait
<1>4. CASE Stopped(c)
  <2>1. waits[c] \in FanTask \cup {None} /\ handle \in FanTask \cup {None}
    BY DEF FanInv, TypeOK
  <2>2. want[c] \in Settings
    BY <1>4 DEF FanInv, Waiting, Stopped
  <2>3. ChangedTypes'
    BY <1>4, <2>1, <2>2, AfterTaskTypes DEF Stopped
  <2>4. /\ at' \in [Caller -> {"idle", "stopping"}]
        /\ want' \in [Caller -> Settings \cup {None}]
        /\ waits' \in [Caller -> FanTask \cup {None}]
    BY <1>4 DEF FanInv, TypeOK, Stopped
  <2>5. Waiting'
    BY <1>4 DEF FanInv, TypeOK, Waiting, Stopped
  <2> QED BY <1>4, <2>3, <2>4, <2>5, ChangedSuffices DEF Stopped
<1> QED BY <1>1, <1>2, <1>3, <1>4 DEF Call

(* What a running task may write. *)
LEMMA NowTargetsType ==
    ASSUME FanInv, NEW k \in FanTask, Runs(k)
    PROVE  NowTargets(k) \subseteq Byte
<1>1. task[k].curve \in Curves /\ temp \in Int
  BY NumbersAreIntegers DEF FanInv, TypeOK, GoodTask, Runs
<1> QED BY <1>1, TargetsType DEF NowTargets

LEMMA TaskKeepsTypes == ASSUME FanInv, NEW k \in FanTask, Task(k) PROVE FanInv'
<1>1. /\ mode \in [Fan -> {"auto", "manual"}] /\ pwm \in [Fan -> Byte]
      /\ Ended \in GoodTask /\ Panicked \in GoodTask
  BY RecordTypes DEF FanInv, TypeOK
<1>2. CASE TickPanics(k)
  BY <1>1, <1>2, TaskStepType DEF TickPanics, End, hardware
<1>3. CASE TickNear(k)
  <2>1. task' = [task EXCEPT ![k] = [task[k] EXCEPT !.since = IF @ = "write" THEN "near" ELSE @]]
    BY <1>3 DEF TickNear, FanInv, TypeOK
  <2> QED BY <1>1, <1>3, <2>1, FieldTypes, TaskStepType DEF TickNear, hardware
<1>4. CASE TickWaits(k)
  <2>1. task' = [task EXCEPT ![k] = [task[k] EXCEPT !.since = "lower"]]
    BY <1>4 DEF TickWaits, FanInv, TypeOK
  <2> QED BY <1>1, <1>4, <2>1, FieldTypes, TaskStepType DEF TickWaits, hardware
<1>5. CASE TickWrites(k)
  <2>1. PICK p \in NowTargets(k) :
            /\ pwm' = AllFans(Written(kind, p))
            /\ task' = [task EXCEPT ![k] = AfterWrite(k, p, TRUE)]
    BY <1>5 DEF TickWrites
  <2>2. p \in Byte /\ Written(kind, p) \in Byte
    BY <1>5, NowTargetsType, WrittenType DEF TickWrites
  <2>3. AfterWrite(k, p, TRUE) \in GoodTask
    BY <2>2, FieldTypes
  <2>4. mode' \in [Fan -> {"auto", "manual"}] /\ pwm' \in [Fan -> Byte]
    BY <1>1, <1>5, <2>1, <2>2, AllFansTypes DEF TickWrites
  <2> QED BY <1>5, <2>1, <2>3, <2>4, TaskStepType DEF TickWrites
<1>6. CASE TickFails(k)
  <2>1. PICK p \in NowTargets(k), n \in IF kind = "nvidia" THEN 0..(Fans - 1) ELSE {0} :
            /\ WriteFirst(n, Written(kind, p))
            /\ End(k, IF kind = "amd" /\ ~task[k].works THEN Ended
                      ELSE AfterWrite(k, p, task[k].works))
    BY <1>6 DEF TickFails
  <2>2. p \in Byte /\ Written(kind, p) \in Byte
    BY <1>6, NowTargetsType, WrittenType DEF TickFails
  <2>3. AfterWrite(k, p, task[k].works) \in GoodTask
    BY <2>2, FieldTypes
  <2>4. mode' \in [Fan -> {"auto", "manual"}] /\ pwm' \in [Fan -> Byte]
    BY <2>1, <2>2, WriteFirstType
  <2>5. \E r \in GoodTask : task' = [task EXCEPT ![k] = r]
    BY <1>1, <2>1, <2>3 DEF End
  <2> QED BY <1>6, <2>4, <2>5, TaskStepType DEF TickFails
<1>7. CASE Notified(k)
  BY <1>1, <1>7, TaskStepType DEF Notified, End, hardware
<1>8. CASE DelayPasses(k)
  <2>1. task' = [task EXCEPT ![k] = [task[k] EXCEPT !.late = TRUE]]
    BY <1>8 DEF DelayPasses, FanInv, TypeOK
  <2> QED BY <1>1, <1>8, <2>1, FieldTypes, TaskStepType DEF DelayPasses, hardware
<1> QED BY <1>2, <1>3, <1>4, <1>5, <1>6, <1>7, <1>8 DEF Task, Tick, HealthyTick

LEMMA StepKeepsTypes == FanInv /\ [Next]_vars => FanInv'
<1> SUFFICES ASSUME FanInv, [Next]_vars PROVE FanInv'
  OBVIOUS
<1>1. CASE Heat
  BY <1>1 DEF FanInv, TypeOK, Waiting, GoodTask, Heat, calls, hardware
<1>2. CASE UNCHANGED vars
  BY <1>2 DEF FanInv, TypeOK, Waiting, GoodTask, vars, calls, hardware
<1> QED BY <1>1, <1>2, CallKeepsTypes, TaskKeepsTypes DEF Next

(* Every variable of the fan control keeps its type, whatever is applied in    *)
(* whatever order and whatever fails: speeds are bytes, a task that runs has a *)
(* curve, a call that waits has a setting.                                     *)
THEOREM FanTypeCorrect == Spec => []TypeOK
<1>1. Init => FanInv
  BY InitType
<1>2. FanInv => TypeOK
  BY DEF FanInv
<1> QED BY <1>1, <1>2, StepKeepsTypes, PTL DEF Spec
-----------------------------------------------------------------------------
(* What a step does to the tasks.                                              *)

(* apply_config starts one task or none. *)
LEMMA AfterTaskOutcome ==
    ASSUME NEW s, NEW k, NEW left, AfterTask(k, s, left)
    PROVE  NotStarted(left) \/ Spawn(s.curve)
<1>1. CASE Fail(left)
  BY <1>1 DEF Fail
<1>2. ASSUME NEW h, Proceed(s, h, left)
      PROVE  NotStarted(left) \/ Spawn(s.curve)
  BY <1>2 DEF Proceed, AmdOff, AmdStatic, AmdCurve, PmfwAny, NvidiaOff, NvidiaStatic,
              NvidiaCurve, ResetFails, Done, Fail, Started
<1> QED BY <1>1, <1>2 DEF AfterTask

LEMMA CallOutcome ==
    ASSUME FanInv, NEW c \in Caller, Call(c), ~ApplyWait(c)
    PROVE  task' = task \/ \E cv : Spawn(cv)
<1>1. CASE Refuse(c)
  BY <1>1 DEF Refuse, Fail, NotStarted
<1>2. CASE ApplyNow(c)
  BY <1>2, AfterTaskOutcome DEF ApplyNow, NotStarted
<1>3. CASE Stopped(c)
  BY <1>3, AfterTaskOutcome DEF Stopped, NotStarted
<1> QED BY <1>1, <1>2, <1>3 DEF Call

(* A task is new, or keeps its speed, or has written one for the temperature.  *)
New(k) == ~Runs(k) /\ task'[k].last = -1
Keeps(k) ==
    /\ Runs(k)
    /\ task'[k].curve = task[k].curve
    /\ task'[k].last = task[k].last /\ task'[k].temp = task[k].temp
Sets(k) ==
    /\ Runs(k)
    /\ task'[k].curve = task[k].curve
    /\ task'[k].last \in NowTargets(k) /\ task'[k].temp = temp

LEMMA TaskOutcome ==
    ASSUME FanInv, NEW j \in FanTask, Task(j), NEW k \in FanTask, Runs(k)'
    PROVE  Keeps(k) \/ Sets(k)
<1>1. task \in [FanTask -> TaskState]
  BY DEF FanInv, TypeOK
<1>2. Ended.st # "runs" /\ Panicked.st # "runs"
  BY DEF Ended, Panicked
<1>3. ASSUME k # j PROVE Keeps(k)
  BY <1>1, <1>3 DEF Task, Tick, HealthyTick, TickPanics, TickNear, TickWaits, TickWrites, TickFails,
        Notified, DelayPasses, End, Keeps, Runs
<1>4. ASSUME k = j PROVE Keeps(k) \/ Sets(k)
  <2>1. CASE TickPanics(j) \/ Notified(j)
    BY <1>1, <1>2, <1>4, <2>1 DEF TickPanics, Notified, End, Runs
  <2>2. CASE TickNear(j) \/ TickWaits(j) \/ DelayPasses(j)
    BY <1>1, <1>4, <2>2 DEF TickNear, TickWaits, DelayPasses, Keeps, TaskState
  <2>3. ASSUME NEW p \in NowTargets(j), NEW w, task' = [task EXCEPT ![j] = AfterWrite(j, p, w)],
               Runs(j)
        PROVE  Sets(j)
    BY <1>1, <2>3 DEF Sets, AfterWrite, TaskState
  <2>4. CASE TickWrites(j)
    BY <1>4, <2>3, <2>4 DEF TickWrites
  <2>5. CASE TickFails(j)
    <3>1. PICK p \in NowTargets(j) :
            task' = [task EXCEPT ![j] = IF kind = "amd" /\ ~task[j].works THEN Ended
                                        ELSE AfterWrite(j, p, task[j].works)]
      BY <2>5 DEF TickFails, End
    <3>2. CASE kind = "amd" /\ ~task[j].works
      BY <1>1, <1>2, <1>4, <3>1, <3>2 DEF Runs
    <3>3. CASE ~(kind = "amd" /\ ~task[j].works)
      BY <1>4, <2>3, <2>5, <3>1, <3>3 DEF TickFails
    <3> QED BY <3>2, <3>3
  <2> QED BY <2>1, <2>2, <2>4, <2>5 DEF Task, Tick, HealthyTick
<1> QED BY <1>3, <1>4

LEMMA StepOutcome ==
    ASSUME FanInv, [Next]_vars, NEW k \in FanTask, Runs(k)'
    PROVE  New(k) \/ Keeps(k) \/ Sets(k)
<1>1. task \in [FanTask -> TaskState]
  BY DEF FanInv, TypeOK
<1>2. ASSUME task' = task PROVE Keeps(k)
  BY <1>2 DEF Keeps, Runs
<1>3. ASSUME NEW cv, Spawn(cv) PROVE New(k) \/ Keeps(k)
  BY <1>1, <1>3 DEF Spawn, Unused, New, Keeps, NewTask, Ended, Runs
<1>4. ASSUME NEW c \in Caller, Call(c) PROVE New(k) \/ Keeps(k)
  <2>1. CASE ApplyWait(c)
    BY <1>1, <2>1 DEF ApplyWait, Keeps, Runs, TaskState
  <2> QED BY <1>2, <1>3, <1>4, <2>1, CallOutcome
<1>5. CASE UNCHANGED vars \/ Heat
  BY <1>2, <1>5 DEF vars, Heat
<1> QED BY <1>4, <1>5, TaskOutcome DEF Next

LEMMA KindStays == ASSUME [Next]_vars PROVE kind' = kind
BY DEF Next, Call, Task, Tick, HealthyTick, Refuse, ApplyNow, ApplyWait, Stopped, TickPanics, TickNear,
       TickWaits, TickWrites, TickFails, Notified, DelayPasses, Heat, vars
-----------------------------------------------------------------------------
(* Hotter is never slower. *)

(* The last speed of a task is one for the temperature it remembers. *)
LastFollows ==
    \A k \in FanTask : Runs(k) =>
        task[k].last = -1 \/ task[k].last \in Targets(kind, task[k].curve, task[k].temp)

LEMMA TargetsMonotone ==
    ASSUME NEW kd, NEW cv \in Curves, Rising(cv), NEW t \in Int, NEW u \in Int, t < u,
           NEW p \in Targets(kd, cv, t), NEW q \in Targets(kd, cv, u)
    PROVE  p <= q
<1>1. IsCurve(cv) /\ Critical \in Int
  BY CurvesAreMaps, NumbersAreIntegers
<1>2. p \in 0..255
  BY TargetsType DEF Byte
<1>3. CASE kd = "amd" /\ u > Critical
  <2>1. q = 255
    BY <1>3 DEF Targets, PwmAt
  <2> QED BY <1>2, <2>1
<1>4. CASE ~(kd = "amd" /\ u > Critical)
  <2>1. ~(kd = "amd" /\ t > Critical)
    BY <1>1, <1>4
  <2>2. p \in PwmAt(cv, t, FALSE)
    BY <2>1, Zenon DEF Targets
  <2>3. q \in PwmAt(cv, u, FALSE)
    BY <1>4, Zenon DEF Targets
  <2> QED BY <1>1, <2>2, <2>3, PwmAtMonotone
<1> QED BY <1>3, <1>4

LEMMA RunningTypes ==
    ASSUME FanInv, NEW k \in FanTask, Runs(k)
    PROVE  /\ task[k].curve \in Curves /\ task[k].temp \in Int
           /\ task[k].last \in Byte \cup {-1} /\ temp \in Int
<1>1. task[k] \in GoodTask /\ task[k] \in TaskState /\ temp \in Temps
  BY DEF FanInv, TypeOK
<1>2. task[k].temp \in Temps \cup {0} /\ task[k].last \in Byte \cup {-1}
  BY <1>1 DEF TaskState
<1>3. task[k].curve \in Curves
  BY <1>1 DEF GoodTask, Runs
<1>4. \A u \in Temps \cup {0} : u \in Int
  BY NumbersAreIntegers
<1>5. temp \in Temps \cup {0}
  BY <1>1
<1>6. task[k].temp \in Int /\ temp \in Int
  BY <1>2, <1>4, <1>5, Zenon
<1> QED BY <1>2, <1>3, <1>6

LEMMA StepKeepsLast == ASSUME FanInv, LastFollows, [Next]_vars PROVE LastFollows'
<1> SUFFICES ASSUME NEW k \in FanTask, Runs(k)'
             PROVE  task'[k].last = -1
                    \/ task'[k].last \in Targets(kind', task'[k].curve, task'[k].temp)
  BY DEF LastFollows
<1>1. kind' = kind
  BY KindStays
<1>2. CASE New(k)
  BY <1>2 DEF New
<1>3. CASE Keeps(k)
  BY <1>1, <1>3 DEF Keeps, LastFollows
<1>4. CASE Sets(k)
  BY <1>1, <1>4 DEF Sets, NowTargets
<1> QED BY <1>2, <1>3, <1>4, StepOutcome

LEMMA StepIsFaster ==
    ASSUME FanInv, LastFollows, [Next]_vars, NEW k \in FanTask, Runs(k), Runs(k)',
           Rising(task[k].curve), task[k].temp < task'[k].temp
    PROVE  task[k].last <= task'[k].last
<1>1. /\ task[k].curve \in Curves /\ task[k].temp \in Int
      /\ task[k].last \in Byte \cup {-1} /\ temp \in Int
  BY RunningTypes
<1>2. CASE New(k)
  BY <1>2 DEF New
<1>3. CASE Keeps(k)
  BY <1>1, <1>3 DEF Keeps
<1>4. CASE Sets(k)
  <2>1. task'[k].last \in Targets(kind, task[k].curve, temp) /\ task[k].temp < temp
    BY <1>4 DEF Sets, NowTargets
  <2>2. task'[k].last \in Byte
    BY <1>1, <2>1, TargetsType
  <2>3. CASE task[k].last = -1
    BY <2>2, <2>3 DEF Byte
  <2>4. CASE task[k].last \in Targets(kind, task[k].curve, task[k].temp)
    <3> HIDE DEF Targets
    <3> QED BY <1>1, <2>1, <2>4, TargetsMonotone
  <2> QED BY <2>3, <2>4 DEF LastFollows
<1> QED BY <1>2, <1>3, <1>4, StepOutcome

(* A task with a rising curve never lowers the speed when the GPU has become    *)
(* hotter, for all curves, temperatures, thresholds, delays and failures: the   *)
(* arithmetic of pwm_at_temp and the state that the loop keeps between its ticks *)
(* fit together.                                                               *)
THEOREM HotterIsNeverSlower == Spec => HotterIsFaster
<1>1. Init => FanInv /\ LastFollows
  BY InitType DEF Init, LastFollows, Runs, Ended
<1>2. FanInv /\ LastFollows /\ [Next]_vars => FanInv' /\ LastFollows'
  BY StepKeepsTypes, StepKeepsLast
<1>3. FanInv /\ LastFollows /\ [Next]_vars =>
        [\A k \in FanTask :
            Runs(k) /\ Runs(k)' /\ Rising(task[k].curve) /\ task[k].temp < task'[k].temp
                => task[k].last <= task'[k].last]_vars
  BY StepIsFaster
<1> QED BY <1>1, <1>2, <1>3, PTL DEF Spec, HotterIsFaster
-----------------------------------------------------------------------------
(* One task at a time, if apply_config is called once at a time.               *)

(* Every running task is the one of the controller or is being awaited; while  *)
(* a call awaits one, the controller has none.                                 *)
TaskIsOwned == \A k \in FanTask : Runs(k) =>
    handle = k \/ \E c \in Caller : at[c] = "stopping" /\ waits[c] = k
HandleIsTaken == (\E c \in Caller : at[c] = "stopping") => handle = None
OneCall == \A c, d \in Caller : c = d

LEMMA OwnedIsOne ==
    ASSUME OneCall, FanInv, TaskIsOwned, HandleIsTaken
    PROVE  OneTask
BY NoneIsNoTask DEF OneCall, TaskIsOwned, HandleIsTaken, OneTask

LEMMA SpawnRuns ==
    ASSUME FanInv, NEW cv, Spawn(cv), NEW k \in FanTask, Runs(k)'
    PROVE  Runs(k) \/ handle' = k
BY DEF FanInv, TypeOK, Spawn, Runs

LEMMA CallKeepsOwned ==
    ASSUME OneCall, FanInv, TaskIsOwned, HandleIsTaken, NEW c \in Caller, Call(c)
    PROVE  TaskIsOwned' /\ HandleIsTaken'
<1>1. CASE Refuse(c)
  BY <1>1 DEF Refuse, Fail, NotStarted, calls, TaskIsOwned, HandleIsTaken, Runs
<1>2. ASSUME NEW s, NEW k, AfterTask(k, s, None), \A j \in FanTask : ~Runs(j),
             \A d \in Caller : at'[d] # "stopping"
      PROVE  TaskIsOwned' /\ HandleIsTaken'
  <2>1. ASSUME NEW j \in FanTask, Runs(j)' PROVE handle' = j
    BY <1>2, <2>1, AfterTaskOutcome, SpawnRuns DEF NotStarted, Runs
  <2> QED BY <1>2, <2>1 DEF TaskIsOwned, HandleIsTaken
<1>3. CASE ApplyNow(c)
  <2>1. \A d \in Caller : at[d] = "idle" /\ at'[d] = "idle"
    BY <1>3 DEF ApplyNow, OneCall, calls
  <2>2. \A j \in FanTask : ~Runs(j)
    BY <1>3, <2>1, NoneIsNoTask DEF ApplyNow, TaskIsOwned
  <2>3. PICK s \in Settings : AfterTask(handle, s, None)
    BY <1>3 DEF ApplyNow
  <2> QED BY <1>2, <2>1, <2>2, <2>3
<1>4. CASE ApplyWait(c)
  <2>1. \A k \in FanTask : Runs(k)' => Runs(k)
    BY <1>4 DEF ApplyWait, Runs, FanInv, TypeOK, TaskState
  <2>2. \A k \in FanTask : Runs(k) => handle = k
    BY <1>4, NoneIsNoTask DEF ApplyWait, TaskIsOwned, HandleIsTaken
  <2>3. at'[c] = "stopping" /\ waits'[c] = handle /\ handle' = None
    BY <1>4 DEF ApplyWait, FanInv, TypeOK
  <2> QED BY <2>1, <2>2, <2>3 DEF TaskIsOwned, HandleIsTaken
<1>5. CASE Stopped(c)
  <2>1. handle = None /\ \A d \in Caller : at'[d] = "idle" /\ d = c
    BY <1>5 DEF Stopped, OneCall, FanInv, TypeOK, HandleIsTaken
  <2>2. \A j \in FanTask : ~Runs(j)
    BY <1>5, <2>1, NoneIsNoTask DEF Stopped, TaskIsOwned
  <2>3. AfterTask(waits[c], want[c], None)
    BY <1>5, <2>1 DEF Stopped
  <2> QED BY <1>2, <2>1, <2>2, <2>3
<1> QED BY <1>1, <1>3, <1>4, <1>5 DEF Call

LEMMA TaskKeepsOwned ==
    ASSUME FanInv, TaskIsOwned, HandleIsTaken, NEW j \in FanTask, Task(j)
    PROVE  TaskIsOwned' /\ HandleIsTaken'
<1>1. handle' = handle /\ at' = at /\ waits' = waits
  BY DEF Task, Tick, HealthyTick, TickPanics, TickNear, TickWaits, TickWrites, TickFails, Notified,
         DelayPasses, calls
<1>2. \A k \in FanTask : Runs(k)' => Runs(k)
  BY TaskOutcome DEF Keeps, Sets
<1> QED BY <1>1, <1>2 DEF TaskIsOwned, HandleIsTaken

(* No two fan tasks ever run, whatever is applied and whatever fails, as long   *)
(* as one apply_config of the controller is in progress at a time and no reload *)
(* replaces the controller.                                                     *)
THEOREM OneTaskRuns == ASSUME OneCall PROVE Spec => []OneTask
<1> DEFINE Inv == FanInv /\ TaskIsOwned /\ HandleIsTaken
<1>1. Init => Inv
  BY InitType DEF Init, TaskIsOwned, HandleIsTaken, Runs, Ended
<1>2. Inv /\ [Next]_vars => Inv'
  <2> SUFFICES ASSUME Inv, [Next]_vars PROVE Inv'
    OBVIOUS
  <2>1. CASE UNCHANGED vars \/ Heat
    BY <2>1, StepKeepsTypes DEF vars, Heat, calls, TaskIsOwned, HandleIsTaken, Runs
  <2> QED BY <2>1, StepKeepsTypes, CallKeepsOwned, TaskKeepsOwned DEF Next
<1>3. Inv => OneTask
  BY OwnedIsOne
<1> HIDE DEF Inv
<1> QED BY <1>1, <1>2, <1>3, PTL DEF Spec
-----------------------------------------------------------------------------
(* What was applied stays in force. Firmware curves have no task; otherwise    *)
(* what a call leaves behind is only changed by the task of its curve, that    *)
(* nobody has told to stop.                                                    *)
FirmwareHasNoTask == kind = "pmfw" => \A k \in FanTask : ~Runs(k)
FanSettled == FirmwareHasNoTask /\ SettledFan

LEMMA SpawnSettles ==
    ASSUME FanInv, NEW cv, Spawn(cv)
    PROVE  /\ handle' # None /\ handle' \in FanTask /\ Runs(handle)'
           /\ task'[handle'].curve = cv /\ ~task'[handle'].told
<1>1. PICK k \in FanTask : task' = [task EXCEPT ![k] = NewTask(cv)] /\ handle' = k
  BY DEF Spawn
<1>2. task'[k] = NewTask(cv)
  BY <1>1 DEF FanInv, TypeOK
<1>3. NewTask(cv).st = "runs" /\ NewTask(cv).curve = cv /\ NewTask(cv).told = FALSE
  BY DEF NewTask, Ended
<1>4. handle' # None /\ handle' \in FanTask
  BY <1>1, NoneIsNoTask
<1> QED BY <1>1, <1>2, <1>3, <1>4 DEF Runs

LEMMA WriteAllIsManual ==
    ASSUME NEW v, WriteFirst(Fans, v)
    PROVE  \A f \in Fan : mode'[f] = "manual" /\ pwm'[f] = v
BY NumbersAreIntegers DEF WriteFirst, Fan

(* A call that finds no task running: it applies its setting, or nothing counts *)
(* as applied.                                                                  *)
LEMMA ProceedSettles ==
    ASSUME FanInv, \A k \in FanTask : ~Runs(k), NEW s \in Settings,
           NEW h, NEW left, Proceed(s, h, left), kind' = kind
    PROVE  FanSettled'
<1> DEFINE Goal == FanSettled'
<1> SUFFICES Goal
  OBVIOUS
<1> USE DEF Done, Started
<1>0. ASSUME Fail(left) PROVE Goal
  BY <1>0 DEF Fail, NotStarted, FanSettled, FirmwareHasNoTask, SettledFan, Runs
<1>1. ASSUME NotStarted(left) PROVE \A k \in FanTask : ~Runs(k)'
  BY <1>1 DEF NotStarted, Runs
<1>2. CASE kind # "pmfw" /\ s.mode = "off" /\ mode' = AllFans("auto") /\ Done(Off, left)
  BY <1>1, <1>2 DEF FanSettled, FirmwareHasNoTask, SettledFan, Off, AllFans
<1>3. ASSUME NEW v \in StaticSpeeds(kind, s.speed),
             kind # "pmfw", s.mode = "static", WriteFirst(Fans, v), Done(s, left)
      PROVE  Goal
  BY <1>1, <1>3, WriteAllIsManual DEF FanSettled, FirmwareHasNoTask, SettledFan
<1>4. CASE /\ kind # "pmfw" /\ s.mode = "curve" /\ Started(s)
           /\ kind = "amd" => mode' = AllFans("manual")
  BY <1>4, SpawnSettles DEF FanSettled, FirmwareHasNoTask, SettledFan, AllFans
<1>5. CASE kind = "pmfw" /\ fw' = s /\ Done(s, left)
  BY <1>1, <1>5 DEF FanSettled, FirmwareHasNoTask, SettledFan
<1> HIDE DEF Goal
<1>6. CASE kind = "amd" /\ s.mode = "off" /\ AmdOff(left)
  BY <1>0, <1>2, <1>6 DEF AmdOff
<1>7. CASE kind = "amd" /\ s.mode = "static" /\ AmdStatic(s, left)
  <2>1. PwmOf(s.speed) \in StaticSpeeds(kind, s.speed)
    BY <1>7 DEF StaticSpeeds
  <2> QED BY <1>0, <1>3, <1>7, <2>1 DEF AmdStatic
<1>8. CASE kind = "amd" /\ s.mode = "curve" /\ AmdCurve(s, left)
  BY <1>0, <1>4, <1>8 DEF AmdCurve
<1>9. CASE kind = "pmfw" /\ PmfwAny(s, left)
  BY <1>0, <1>5, <1>9 DEF PmfwAny
<1>10. CASE kind = "nvidia" /\ s.mode = "off" /\ NvidiaOff(h, left)
  BY <1>0, <1>2, <1>10 DEF NvidiaOff, ResetFails
<1>11. CASE kind = "nvidia" /\ s.mode = "static" /\ NvidiaStatic(s, h, left)
  BY <1>0, <1>3, <1>11 DEF NvidiaStatic, ResetFails
<1>12. CASE kind = "nvidia" /\ s.mode = "curve" /\ NvidiaCurve(s, h, left)
  BY <1>0, <1>4, <1>12 DEF NvidiaCurve, ResetFails
<1> QED BY <1>6, <1>7, <1>8, <1>9, <1>10, <1>11, <1>12 DEF Proceed

LEMMA CallSettles ==
    ASSUME OneCall, FanInv, TaskIsOwned, HandleIsTaken, FanSettled, NEW c \in Caller, Call(c)
    PROVE  FanSettled'
<1>0. kind' = kind
  BY DEF Call, Refuse, ApplyNow, ApplyWait, Stopped
<1>1. ASSUME applied' = None, \A k \in FanTask : Runs(k)' => Runs(k) PROVE FanSettled'
  BY <1>0, <1>1 DEF FanSettled, FirmwareHasNoTask, SettledFan
<1>2. CASE Refuse(c)
  BY <1>1, <1>2 DEF Refuse, Fail, NotStarted, Runs
<1>3. CASE ApplyWait(c)
  <2>1. \A k \in FanTask : Runs(k)' => Runs(k)
    BY <1>3 DEF ApplyWait, Runs, FanInv, TypeOK, TaskState
  <2> QED BY <1>1, <1>3, <2>1 DEF ApplyWait
<1>4. ASSUME NEW s \in Settings, NEW k, NEW left, AfterTask(k, s, left),
             \A j \in FanTask : ~Runs(j)
      PROVE  FanSettled'
  <2>1. CASE Fail(left)
    BY <1>1, <2>1 DEF Fail, NotStarted, Runs
  <2> QED BY <1>0, <1>4, <2>1, ProceedSettles DEF AfterTask
<1>5. CASE ApplyNow(c)
  <2>1. \A j \in FanTask : ~Runs(j)
    BY <1>5, NoneIsNoTask DEF ApplyNow, TaskIsOwned, OneCall
  <2> QED BY <1>4, <1>5, <2>1 DEF ApplyNow
<1>6. CASE Stopped(c)
  <2>1. \A j \in FanTask : ~Runs(j)
    BY <1>6, NoneIsNoTask DEF Stopped, TaskIsOwned, HandleIsTaken, OneCall
  <2>2. want[c] \in Settings
    BY <1>6 DEF FanInv, Waiting, Stopped
  <2> QED BY <1>4, <1>6, <2>1, <2>2 DEF Stopped
<1> QED BY <1>2, <1>3, <1>5, <1>6 DEF Call

(* A task runs with a curve of the settings that are in force. *)
LEMMA TaskSettles ==
    ASSUME FanInv, OneTask, FanSettled, NEW k \in FanTask, Task(k)
    PROVE  FanSettled'
<1>1. Runs(k) /\ UNCHANGED <<kind, handle, fw>> /\ applied' \in {applied, None}
  BY DEF Task, Tick, HealthyTick, TickPanics, TickNear, TickWaits, TickWrites, TickFails, Notified,
         DelayPasses, hardware
<1>2. \A j \in FanTask : Runs(j)' => Runs(j)
  BY TaskOutcome DEF Keeps, Sets
<1>3. FirmwareHasNoTask'
  BY <1>1, <1>2 DEF FanSettled, FirmwareHasNoTask
<1>4. CASE applied = None \/ applied' = None
  BY <1>1, <1>3, <1>4 DEF FanSettled, SettledFan
<1>5. CASE applied # None /\ applied' # None
  <2>0. /\ kind # "pmfw" /\ applied.mode \notin {"off", "static"}
        /\ handle \in FanTask /\ Runs(handle)
    BY <1>1, <1>5 DEF FanSettled, FirmwareHasNoTask, SettledFan, FanInv, TypeOK
  <2>1. /\ kind # "pmfw" /\ applied.mode \notin {"off", "static"} /\ handle = k
        /\ task[k].curve = applied.curve /\ ~task[k].told
        /\ kind = "amd" => \A f \in Fan : mode[f] = "manual"
    BY <1>1, <1>5, <2>0 DEF FanSettled, SettledFan, OneTask
  <2>2. TickNear(k) \/ TickWaits(k) \/ TickWrites(k) \/ DelayPasses(k)
    BY <1>1, <1>5, <2>1 DEF Task, Tick, HealthyTick, TickPanics, TickFails, Notified
  <2>3. task \in [FanTask -> TaskState]
    BY DEF FanInv, TypeOK
  <2>4. task'[k].st = "runs" /\ task'[k].curve = task[k].curve /\ task'[k].told = task[k].told
    <3>1. CASE TickNear(k) \/ TickWaits(k) \/ DelayPasses(k)
      BY <1>1, <2>3, <3>1 DEF TickNear, TickWaits, DelayPasses, Runs, TaskState
    <3>2. CASE TickWrites(k)
      BY <1>1, <2>3, <3>2 DEF TickWrites, AfterWrite, Runs, TaskState
    <3> QED BY <2>2, <3>1, <3>2
  <2>5. kind = "amd" => mode' = mode
    BY <2>2 DEF TickNear, TickWaits, TickWrites, DelayPasses, hardware
  <2>6. SettledFan'
    BY <1>1, <1>5, <2>1, <2>4, <2>5, NoneIsNoTask DEF SettledFan, Runs
  <2> QED BY <1>3, <2>6 DEF FanSettled
<1> QED BY <1>4, <1>5

(* SettledFan for all settings, curves, temperatures and failures, with one     *)
(* call of apply_config at a time: an Ok of apply_config is true until an error  *)
(* is logged, of a task as well.                                                *)
THEOREM AppliedStaysInForce == ASSUME OneCall PROVE Spec => []SettledFan
<1> DEFINE Inv == FanInv /\ TaskIsOwned /\ HandleIsTaken /\ FanSettled
<1>1. Init => Inv
  BY InitType DEF Init, TaskIsOwned, HandleIsTaken, Runs, Ended, FanSettled, FirmwareHasNoTask,
                  SettledFan
<1>2. Inv /\ [Next]_vars => Inv'
  <2> SUFFICES ASSUME Inv, [Next]_vars PROVE Inv'
    OBVIOUS
  <2>1. CASE UNCHANGED vars \/ Heat
    BY <2>1, StepKeepsTypes DEF vars, Heat, calls, hardware, TaskIsOwned, HandleIsTaken, Runs,
                                FanSettled, FirmwareHasNoTask, SettledFan
  <2>2. ASSUME NEW c \in Caller, Call(c) PROVE Inv'
    BY <2>2, StepKeepsTypes, CallKeepsOwned, CallSettles DEF Next
  <2>3. ASSUME NEW k \in FanTask, Task(k) PROVE Inv'
    BY <2>3, StepKeepsTypes, TaskKeepsOwned, OwnedIsOne, TaskSettles DEF Next
  <2> QED BY <2>1, <2>2, <2>3 DEF Next
<1>3. Inv => SettledFan
  BY DEF FanSettled
<1> HIDE DEF Inv
<1> QED BY <1>1, <1>2, <1>3, PTL DEF Spec
-----------------------------------------------------------------------------
(* Fan control implements FanOwner.                                            *)

LEMMA DriverIsTask ==
    ASSUME OneTask
    PROVE  /\ \A k \in FanTask : Runs(k) => Driver = task[k].curve
           /\ (\A k \in FanTask : ~Runs(k)) => Driver = None
<1>1. ASSUME NEW k \in FanTask, Runs(k) PROVE Driver = task[k].curve
  <2>1. (CHOOSE j \in FanTask : Runs(j)) = k
    BY <1>1 DEF OneTask
  <2> QED BY <1>1, <2>1 DEF Driver
<1> QED BY <1>1 DEF Driver

(* What a call does to the fans. *)
Fixes == \A f \in Fan : pwm'[f] \in FixedOutput \cup {pwm[f]}

LEMMA WriteFirstFixes ==
    ASSUME NEW n, NEW v \in FixedOutput, pwm' = [f \in Fan |-> IF f <= n THEN v ELSE pwm[f]]
    PROVE  Fixes
BY DEF Fixes

LEMMA StaticIsFixed ==
    ASSUME NEW s \in Fixed
    PROVE  /\ PwmOf(s) \in FixedOutput
           /\ kind = "nvidia" => StaticSpeeds(kind, s) \subseteq FixedOutput
<1>1. StaticSpeeds("amd", s) \subseteq FixedOutput /\ StaticSpeeds("nvidia", s) \subseteq FixedOutput
  BY DEF FixedOutput
<1>2. PwmOf(s) \in StaticSpeeds("amd", s)
  BY DEF StaticSpeeds
<1> QED BY <1>1, <1>2

LEMMA AfterTaskFans ==
    ASSUME FanInv, NEW s \in Settings, NEW k, NEW left, AfterTask(k, s, left)
    PROVE  \/ NotStarted(left) /\ Fixes
           \/ Spawn(s.curve) /\ s.curve \in Curves /\ pwm' = pwm
<1> DEFINE Goal == \/ NotStarted(left) /\ Fixes
                   \/ Spawn(s.curve) /\ s.curve \in Curves /\ pwm' = pwm
<1> SUFFICES Goal
  OBVIOUS
<1>1. ASSUME pwm' = pwm, NotStarted(left) PROVE Goal
  BY <1>1 DEF Fixes
<1>2. CASE Fail(left) /\ UNCHANGED hardware
  BY <1>1, <1>2 DEF Fail, hardware
<1>3. ASSUME NEW h, Proceed(s, h, left) PROVE Goal
  <2>1. CASE AmdOff(left) \/ PmfwAny(s, left) \/ NvidiaOff(h, left) \/ ResetFails(h, left)
    BY <1>1, <2>1 DEF AmdOff, PmfwAny, NvidiaOff, ResetFails, Done, Fail, hardware
  <2>2. CASE s.mode = "static" /\ AmdStatic(s, left)
    <3>1. CASE WriteFirst(Fans, PwmOf(s.speed)) /\ Done(s, left)
      BY <2>2, <3>1, SettingFields, StaticIsFixed, WriteFirstFixes DEF WriteFirst, Done
    <3>2. CASE pwm' = pwm /\ Fail(left)
      BY <1>1, <3>2 DEF Fail
    <3> QED BY <2>2, <3>1, <3>2 DEF AmdStatic
  <2>3. CASE kind = "nvidia" /\ s.mode = "static" /\ NvidiaStatic(s, h, left)
    <3>1. StaticSpeeds(kind, s.speed) \subseteq FixedOutput
      BY <2>3, SettingFields, StaticIsFixed
    <3>2. CASE \E v \in StaticSpeeds(kind, s.speed) : WriteFirst(Fans, v) /\ Done(s, left)
      BY <3>1, <3>2, WriteFirstFixes DEF WriteFirst, Done
    <3>3. CASE /\ \E n \in 0..(Fans - 1), v \in StaticSpeeds(kind, s.speed) :
                    pwm' = [f \in Fan |-> IF f <= n THEN v ELSE pwm[f]]
               /\ Fail(left)
      BY <3>1, <3>3, WriteFirstFixes DEF Fail
    <3> QED BY <2>1, <2>3, <3>2, <3>3 DEF NvidiaStatic
  <2>4. CASE s.mode = "curve" /\ (AmdCurve(s, left) \/ NvidiaCurve(s, h, left))
    <3>1. s.curve \in Curves
      BY <2>4, SettingFields
    <3>2. CASE pwm' = pwm /\ Started(s)
      BY <3>1, <3>2 DEF Started
    <3>3. CASE pwm' = pwm /\ Fail(left)
      BY <1>1, <3>3 DEF Fail
    <3> QED BY <2>1, <2>4, <3>2, <3>3 DEF AmdCurve, NvidiaCurve, hardware
  <2> QED BY <1>3, <2>1, <2>2, <2>3, <2>4 DEF Proceed
<1> HIDE DEF Goal
<1> QED BY <1>2, <1>3 DEF AfterTask

(* What a task does to the fans. *)
LEMMA TaskFans ==
    ASSUME FanInv, NEW j \in FanTask, Task(j)
    PROVE  \/ pwm' = pwm
           \/ /\ Runs(j) /\ Runs(j)'
              /\ \A f \in Fan : pwm'[f] \in CurveOutput[task[j].curve] \cup {pwm[f]}
<1>1. \A p \in NowTargets(j) : Runs(j) => Written(kind, p) \in CurveOutput[task[j].curve]
  <2> SUFFICES ASSUME NEW p \in NowTargets(j), Runs(j)
               PROVE  Written(kind, p) \in CurveOutput[task[j].curve]
    OBVIOUS
  <2>1. kind \in {"amd", "pmfw", "nvidia"} /\ temp \in Temps
    BY DEF FanInv, TypeOK
  <2>2. p \in Targets("amd", task[j].curve, temp) \cup Targets("nvidia", task[j].curve, temp)
    BY <2>1 DEF NowTargets, Targets
  <2>3. Written(kind, p) \in {Written("amd", p), Written("nvidia", p)}
    BY <2>1 DEF Written
  <2> HIDE DEF Written, Targets
  <2>4. task[j].curve \in Curves
    BY RunningTypes
  <2>5. CurveOutput[task[j].curve] =
            {Written(kd, q) : kd \in {"amd", "nvidia"},
                q \in UNION {Targets("amd", task[j].curve, t) \cup Targets("nvidia", task[j].curve, t) :
                                t \in Temps}}
    BY <2>4 DEF CurveOutput
  <2> QED BY <2>1, <2>2, <2>3, <2>5
<1>2. CASE TickPanics(j) \/ TickNear(j) \/ TickWaits(j) \/ Notified(j) \/ DelayPasses(j)
  BY <1>2 DEF TickPanics, TickNear, TickWaits, Notified, DelayPasses, hardware
<1>3. ASSUME NEW p, NEW w, task' = [task EXCEPT ![j] = AfterWrite(j, p, w)], Runs(j)
      PROVE  Runs(j)'
  BY <1>3 DEF FanInv, TypeOK, AfterWrite, Runs, TaskState
<1>4. CASE TickWrites(j)
  BY <1>1, <1>3, <1>4 DEF TickWrites, AllFans
<1>5. CASE TickFails(j)
  <2>1. PICK p \in NowTargets(j), n \in IF kind = "nvidia" THEN 0..(Fans - 1) ELSE {0} :
            /\ WriteFirst(n, Written(kind, p))
            /\ End(j, IF kind = "amd" /\ ~task[j].works THEN Ended
                      ELSE AfterWrite(j, p, task[j].works))
    BY <1>5 DEF TickFails
  <2>2. CASE kind = "amd" /\ ~task[j].works
    <3>1. n = 0 /\ \A f \in Fan : ~(f <= n)
      BY <2>1, <2>2, NumbersAreIntegers DEF Fan
    <3>2. pwm' = [f \in Fan |-> pwm[f]]
      BY <2>1, <3>1 DEF WriteFirst
    <3> QED BY <3>2 DEF FanInv, TypeOK
  <2>3. CASE ~(kind = "amd" /\ ~task[j].works)
    <3>1. Runs(j) /\ Runs(j)'
      BY <1>3, <1>5, <2>1, <2>3 DEF TickFails, End
    <3> QED BY <1>1, <2>1, <3>1 DEF WriteFirst
  <2> QED BY <2>2, <2>3
<1> QED BY <1>2, <1>4, <1>5 DEF Task, Tick, HealthyTick

LEMMA DriverIsTaskAfter ==
    ASSUME OneTask'
    PROVE  /\ \A k \in FanTask : Runs(k)' => Driver' = task'[k].curve
           /\ (\A k \in FanTask : ~Runs(k)') => Driver' = None
<1>1. ASSUME NEW k \in FanTask, Runs(k)' PROVE Driver' = task'[k].curve
  <2>1. (CHOOSE j \in FanTask : Runs(j)') = k
    BY <1>1 DEF OneTask
  <2> QED BY <1>1, <2>1 DEF Driver, Runs
<1> QED BY <1>1 DEF Driver, Runs

LEMMA SameTasksSameDriver ==
    ASSUME OneTask, OneTask',
           \A k \in FanTask : (Runs(k) <=> Runs(k)') /\ (Runs(k) => task'[k].curve = task[k].curve)
    PROVE  Driver' = Driver
<1>1. CASE \E k \in FanTask : Runs(k)
  BY <1>1, DriverIsTask, DriverIsTaskAfter
<1>2. CASE \A k \in FanTask : ~Runs(k)
  BY <1>2, DriverIsTask, DriverIsTaskAfter
<1> QED BY <1>1, <1>2

OwnerStep == [Owner!NextStep]_(Owner!vars)

LEMMA StutterMaps == ASSUME Driver' = Driver, pwm' = pwm PROVE OwnerStep
BY DEF OwnerStep, Owner!vars

(* A call that finds no task running. *)
LEMMA AfterTaskMaps ==
    ASSUME FanInv, OneTask, OneTask', \A k \in FanTask : ~Runs(k),
           NEW s \in Settings, NEW k, NEW left, AfterTask(k, s, left)
    PROVE  OwnerStep
<1>1. Driver = None
  BY DriverIsTask
<1>2. CASE NotStarted(left) /\ Fixes
  <2>1. Driver' = Driver
    BY <1>2, SameTasksSameDriver DEF NotStarted, Runs
  <2>2. Owner!Fix
    BY <1>1, <1>2, <2>1 DEF Owner!Fix, Fixes
  <2> QED BY <2>2 DEF OwnerStep, Owner!NextStep
<1>3. CASE Spawn(s.curve) /\ s.curve \in Curves /\ pwm' = pwm
  <2>1. PICK j \in FanTask : task' = [task EXCEPT ![j] = NewTask(s.curve)]
    BY <1>3 DEF Spawn
  <2>2. task'[j] = NewTask(s.curve)
    BY <2>1 DEF FanInv, TypeOK
  <2>3. Runs(j)' /\ task'[j].curve = s.curve
    BY <2>2 DEF Runs, NewTask, Ended
  <2>4. Owner!TakeOver
    BY <1>1, <1>3, <2>3, DriverIsTaskAfter DEF Owner!TakeOver
  <2> QED BY <2>4 DEF OwnerStep, Owner!NextStep
<1> QED BY <1>2, <1>3, AfterTaskFans

LEMMA CallMaps ==
    ASSUME OneCall, FanInv, TaskIsOwned, HandleIsTaken, OneTask, OneTask',
           NEW c \in Caller, Call(c)
    PROVE  OwnerStep
<1>1. CASE Refuse(c)
  BY <1>1, SameTasksSameDriver, StutterMaps DEF Refuse, Fail, NotStarted, hardware, Runs
<1>2. CASE ApplyNow(c)
  <2>1. \A k \in FanTask : ~Runs(k)
    BY <1>2, NoneIsNoTask DEF ApplyNow, TaskIsOwned, OneCall
  <2> QED BY <1>2, <2>1, AfterTaskMaps DEF ApplyNow
<1>3. CASE ApplyWait(c)
  <2>1. \A k \in FanTask : (Runs(k) <=> Runs(k)') /\ (Runs(k) => task'[k].curve = task[k].curve)
    BY <1>3 DEF ApplyWait, Runs, FanInv, TypeOK, TaskState
  <2> QED BY <1>3, <2>1, SameTasksSameDriver, StutterMaps DEF ApplyWait, hardware
<1>4. CASE Stopped(c)
  <2>1. \A k \in FanTask : ~Runs(k)
    BY <1>4, NoneIsNoTask DEF Stopped, TaskIsOwned, HandleIsTaken, OneCall
  <2>2. want[c] \in Settings
    BY <1>4 DEF FanInv, Waiting, Stopped
  <2> QED BY <1>4, <2>1, <2>2, AfterTaskMaps DEF Stopped
<1> QED BY <1>1, <1>2, <1>3, <1>4 DEF Call

LEMMA TaskMaps ==
    ASSUME FanInv, OneTask, OneTask', NEW j \in FanTask, Task(j)
    PROVE  OwnerStep
<1>1. Runs(j)
  BY DEF Task, Tick, HealthyTick, TickPanics, TickNear, TickWaits, TickWrites, TickFails, Notified, DelayPasses
<1>2. Driver = task[j].curve /\ task[j].curve \in Curves
  BY <1>1, DriverIsTask, RunningTypes
<1>3. \A k \in FanTask : (Runs(k)' => Runs(k) /\ task'[k].curve = task[k].curve) /\ (Runs(k) => k = j)
  BY <1>1, TaskOutcome DEF Keeps, Sets, OneTask
<1>4. CASE ~Runs(j)'
  <2>1. pwm' = pwm
    BY <1>4, TaskFans
  <2>2. Driver' = None
    BY <1>3, <1>4, DriverIsTaskAfter
  <2>3. Owner!Resign
    BY <1>2, <2>1, <2>2, NoneIsNoCurve DEF Owner!Resign
  <2> QED BY <2>3 DEF OwnerStep, Owner!NextStep
<1>5. CASE Runs(j)'
  <2>1. Driver' = Driver
    BY <1>1, <1>3, <1>5, SameTasksSameDriver
  <2>2. CASE pwm' = pwm
    BY <2>1, <2>2, StutterMaps
  <2>3. CASE \A f \in Fan : pwm'[f] \in CurveOutput[task[j].curve] \cup {pwm[f]}
    <3>1. Owner!Drive
      BY <1>2, <2>1, <2>3, NoneIsNoCurve DEF Owner!Drive
    <3> QED BY <3>1 DEF OwnerStep, Owner!NextStep
  <2> QED BY <2>2, <2>3, TaskFans
<1> QED BY <1>4, <1>5

(* Fan control implements FanOwner, whatever is applied and whatever fails, if  *)
(* one apply_config of the controller is in progress at a time: no curve writes *)
(* the fans after another one or a static speed has taken over.                *)
THEOREM FanImplementsOwner == ASSUME OneCall PROVE Spec => FansHaveOneOwner
<1> DEFINE Inv == FanInv /\ TaskIsOwned /\ HandleIsTaken
<1>1. Init => Inv
  BY InitType DEF Init, TaskIsOwned, HandleIsTaken, Runs, Ended
<1>2. Inv /\ [Next]_vars => Inv'
  <2> SUFFICES ASSUME Inv, [Next]_vars PROVE Inv'
    OBVIOUS
  <2>1. CASE UNCHANGED vars \/ Heat
    BY <2>1, StepKeepsTypes DEF vars, Heat, calls, TaskIsOwned, HandleIsTaken, Runs
  <2> QED BY <2>1, StepKeepsTypes, CallKeepsOwned, TaskKeepsOwned DEF Next
<1>3. Init => Owner!Init
  <2> SUFFICES ASSUME Init PROVE Owner!Init
    OBVIOUS
  <2>1. \A k \in FanTask : ~Runs(k)
    BY DEF Init, Runs, Ended
  <2>2. pwm \in [Fan -> FixedOutput]
    BY DEF Init, AllFans, FixedOutput
  <2> QED BY <2>1, <2>2 DEF Owner!Init, Driver
<1>4. Inv => OneTask
  BY OwnedIsOne
<1>5. Inv /\ OneTask /\ OneTask' /\ [Next]_vars => OwnerStep
  <2> SUFFICES ASSUME Inv, OneTask, OneTask', [Next]_vars PROVE OwnerStep
    OBVIOUS
  <2>1. CASE UNCHANGED vars \/ Heat
    BY <2>1, SameTasksSameDriver, StutterMaps DEF vars, Heat, hardware, Runs
  <2> QED BY <2>1, CallMaps, TaskMaps DEF Next
<1> HIDE DEF Inv
<1> QED BY <1>1, <1>2, <1>3, <1>4, <1>5, PTL
        DEF Spec, FansHaveOneOwner, Owner!Spec, OwnerStep
=============================================================================
