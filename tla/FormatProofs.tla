---------------------------- MODULE FormatProofs ----------------------------
(***************************************************************************)
(* Log lines: itoa prints numerals, and the loop of vsnprintf writes the   *)
(* meaning of its format, cut at the end of the buffer, for every word     *)
(* size, buffer size, format and list of arguments.                        *)
(***************************************************************************)
EXTENDS Format, Induction, FiniteSetTheorems, TLAPS

-----------------------------------------------------------------------------
(* Powers of the base. *)

PowersTo(f, base, n) == f = [k \in 0 .. n |-> IF k = 0 THEN 1 ELSE base * f[k - 1]]

LEMMA PowersExist ==
    ASSUME NEW base, NEW m \in Nat
    PROVE  \E f : PowersTo(f, base, m)
<1> DEFINE T == {n \in Nat : \E f : PowersTo(f, base, n)}
<1>1. 0 \in T
  <2>1. PowersTo([k \in 0 .. 0 |-> 1], base, 0)
    BY DEF PowersTo
  <2> QED
    BY <2>1
<1>2. ASSUME NEW n \in Nat, n \in T PROVE n + 1 \in T
  <2>1. PICK f : PowersTo(f, base, n)
    BY <1>2
  <2> DEFINE g == [k \in 0 .. n + 1 |-> IF k = n + 1 THEN base * f[n] ELSE f[k]]
  <2>2. PowersTo(g, base, n + 1)
    <3>1. \A k \in 0 .. n : f[k] = IF k = 0 THEN 1 ELSE base * f[k - 1]
      BY <2>1 DEF PowersTo
    <3>2. g[n + 1] = base * g[n]
      OBVIOUS
    <3>3. \A k \in 0 .. n : g[k] = f[k]
      OBVIOUS
    <3>4. \A k \in 0 .. n : g[k] = IF k = 0 THEN 1 ELSE base * g[k - 1]
      BY <3>1, <3>3
    <3>5. \A k \in 0 .. n + 1 : g[k] = IF k = 0 THEN 1 ELSE base * g[k - 1]
      <4> HIDE DEF g
      <4> TAKE k \in 0 .. n + 1
      <4>1. CASE k = n + 1
        <5>1. k # 0 /\ k - 1 = n
          BY <4>1
        <5> QED
          BY <3>2, <4>1, <5>1
      <4>2. CASE k # n + 1
        <5>1. k \in 0 .. n
          BY <4>2
        <5> QED
          BY <3>4, <5>1
      <4> QED
        BY <4>1, <4>2
    <3>6. g = [k \in 0 .. n + 1 |-> g[k]]
      OBVIOUS
    <3> HIDE DEF g
    <3> QED
      BY <3>5, <3>6 DEF PowersTo
  <2> HIDE DEF g
  <2> QED
    BY <2>2
<1>3. m \in T
  <2> HIDE DEF T
  <2> QED
    BY <1>1, <1>2, SetInduction
<1> QED
  BY <1>3

LEMMA PowerDefined ==
    ASSUME NEW base
    PROVE  PowersTo(Power(base), base, WordSize)
<1>1. \E f : PowersTo(f, base, WordSize)
  BY PowersExist, FormatAssumption
<1>2. Power(base) = CHOOSE f : PowersTo(f, base, WordSize)
  BY DEF Power, PowersTo
<1> HIDE DEF PowersTo
<1> QED
  BY <1>1, <1>2

LEMMA PowerSteps ==
    ASSUME NEW base \in Nat, base > 1
    PROVE  /\ Power(base)[0] = 1
           /\ \A k \in 0 .. WordSize - 1 : Power(base)[k + 1] = base * Power(base)[k]
<1>1. WordSize \in Nat
  BY FormatAssumption
<1>2. \A k \in 0 .. WordSize :
         Power(base)[k] = IF k = 0 THEN 1 ELSE base * Power(base)[k - 1]
  BY PowerDefined DEF PowersTo
<1>3. ASSUME NEW k \in 0 .. WordSize - 1
      PROVE  Power(base)[k + 1] = base * Power(base)[k]
  <2>1. k + 1 \in 0 .. WordSize /\ k + 1 # 0 /\ (k + 1) - 1 = k
    BY <1>1
  <2> QED
    BY <1>2, <2>1
<1>4. 0 \in 0 .. WordSize
  BY <1>1
<1> QED
  BY <1>2, <1>3, <1>4

(* The k-th power of a base of at least 2 is above k. *)
LEMMA PowerGrows ==
    ASSUME NEW base \in Nat, base > 1
    PROVE  \A k \in 0 .. WordSize : Power(base)[k] \in Nat \ {0} /\ Power(base)[k] > k
<1> DEFINE P == Power(base)
           T == {n \in Nat : n <= WordSize => P[n] \in Nat \ {0} /\ P[n] > n}
<1>0. WordSize \in Nat
  BY FormatAssumption
<1>1. P[0] = 1 /\ \A k \in 0 .. WordSize - 1 : P[k + 1] = base * P[k]
  BY PowerSteps
<1> HIDE DEF P
<1>2. 0 \in T
  BY <1>1
<1>3. ASSUME NEW n \in Nat, n \in T PROVE n + 1 \in T
  <2> SUFFICES ASSUME n + 1 <= WordSize
               PROVE  P[n + 1] \in Nat \ {0} /\ P[n + 1] > n + 1
    OBVIOUS
  <2> DEFINE q == P[n]
  <2>1. q \in Nat \ {0} /\ q > n
    BY <1>0, <1>3
  <2>2. P[n + 1] = base * q
    BY <1>0, <1>1
  <2> HIDE DEF q
  <2>3. (base - 2) * q \in Nat
    BY <2>1
  <2>4. base * q = (base - 2) * q + 2 * q
    BY <2>1
  <2>5. base * q \in Nat \ {0} /\ base * q > n + 1
    BY <2>1, <2>3, <2>4
  <2> QED
    BY <2>2, <2>5
<1>4. Nat \subseteq T
  <2> HIDE DEF T
  <2> QED
    BY <1>2, <1>3, SetInduction
<1> QED
  BY <1>0, <1>4 DEF P

LEMMA PowerMonotone ==
    ASSUME NEW base \in Nat, base > 1, NEW k \in 0 .. WordSize, NEW l \in 0 .. WordSize,
           k <= l
    PROVE  Power(base)[k] <= Power(base)[l]
<1> DEFINE P == Power(base)
           T == {n \in Nat : k + n <= WordSize => P[k] <= P[k + n]}
<1>0. WordSize \in Nat /\ k \in Nat /\ l \in Nat
  BY FormatAssumption
<1>1. \A i \in 0 .. WordSize - 1 : P[i + 1] = base * P[i]
  BY PowerSteps
<1>2. \A i \in 0 .. WordSize : P[i] \in Nat \ {0}
  BY PowerGrows
<1> HIDE DEF P
<1>3. 0 \in T
  BY <1>0, <1>2
<1>4. ASSUME NEW n \in Nat, n \in T PROVE n + 1 \in T
  <2> SUFFICES ASSUME k + n + 1 <= WordSize PROVE P[k] <= P[k + (n + 1)]
    BY <1>0
  <2> DEFINE q == P[k + n]
             s == P[k]
  <2>1. q \in Nat \ {0} /\ s \in Nat \ {0} /\ s <= q
    BY <1>0, <1>2, <1>4
  <2>2. k + n \in 0 .. WordSize - 1 /\ k + (n + 1) = (k + n) + 1
    BY <1>0
  <2>3. P[k + (n + 1)] = base * q
    BY <1>1, <2>2
  <2> HIDE DEF q, s
  <2>4. (base - 1) * q \in Nat /\ base * q = (base - 1) * q + q
    BY <2>1
  <2>5. s <= base * q
    BY <2>1, <2>4
  <2> QED
    BY <2>3, <2>5 DEF s
<1>5. Nat \subseteq T
  <2> HIDE DEF T
  <2> QED
    BY <1>3, <1>4, SetInduction
<1>6. l - k \in Nat /\ k + (l - k) = l
  BY <1>0
<1>7. l - k \in T
  BY <1>5, <1>6
<1> QED
  BY <1>0, <1>6, <1>7 DEF P

-----------------------------------------------------------------------------
(* Division. *)

LEMMA DivideFacts ==
    ASSUME NEW n \in Nat, NEW d \in Nat \ {0}
    PROVE  /\ n \div d \in Nat /\ n % d \in 0 .. d - 1
           /\ n = d * (n \div d) + (n % d)
OBVIOUS

LEMMA QuotientUnique ==
    ASSUME NEW d \in Nat \ {0}, NEW q \in Nat, NEW r \in 0 .. d - 1,
           NEW t \in Nat, NEW s \in 0 .. d - 1, d * q + r = d * t + s
    PROVE  q = t
<1>1. ASSUME NEW x \in Nat, NEW y \in Nat, NEW u \in 0 .. d - 1, NEW v \in 0 .. d - 1,
             d * x + u = d * y + v, x < y
      PROVE  FALSE
  <2>1. y - x - 1 \in Nat /\ d * (y - x - 1) \in Nat
    BY <1>1
  <2>2. d * (y - x - 1) = d * y - d * x - d
    BY <1>1
  <2>3. d * x \in Nat /\ d * y \in Nat
    BY <1>1
  <2> QED
    BY <1>1, <2>1, <2>2, <2>3
<1>2. ~(q < t)
  BY <1>1
<1>3. ~(t < q)
  BY <1>1
<1> QED
  BY <1>2, <1>3

LEMMA DivideTwice ==
    ASSUME NEW n \in Nat, NEW b \in Nat \ {0}, NEW c \in Nat \ {0}
    PROVE  (n \div b) \div c = n \div (b * c)
<1> DEFINE m == n \div b
           r == n % b
           q == m \div c
           s == m % c
<1>1. m \in Nat /\ r \in 0 .. b - 1 /\ n = b * m + r
  BY DivideFacts
<1> HIDE DEF m, r
<1>2. q \in Nat /\ s \in 0 .. c - 1 /\ m = c * q + s
  BY <1>1, DivideFacts
<1> HIDE DEF q, s
<1> DEFINE d == b * c
<1>3. d \in Nat \ {0}
  OBVIOUS
<1>4. b * m = d * q + b * s
  BY <1>2
<1>5. b * s \in Nat /\ b * s + r \in 0 .. d - 1
  <2>1. c - 1 - s \in Nat /\ s \in Nat
    BY <1>2
  <2>2. b * (c - 1 - s) \in Nat /\ b * s \in Nat
    BY <2>1
  <2>3. b * (c - 1 - s) = b * c - b - b * s
    BY <2>1
  <2> QED
    BY <1>1, <2>2, <2>3
<1>6. n = d * q + (b * s + r)
  <2>1. d * q \in Nat /\ b * m \in Nat
    BY <1>1, <1>2, <1>3
  <2> HIDE DEF d
  <2> QED
    BY <1>1, <1>4, <1>5, <2>1
<1> HIDE DEF d
<1>7. n \div d \in Nat /\ n % d \in 0 .. d - 1 /\ n = d * (n \div d) + (n % d)
  BY <1>3, DivideFacts
<1>8. q = n \div d
  <2> DEFINE t == n \div d
             u == n % d
             v == b * s + r
  <2>1. t \in Nat /\ u \in 0 .. d - 1 /\ v \in 0 .. d - 1 /\ d * q + v = d * t + u
    BY <1>5, <1>6, <1>7
  <2> HIDE DEF t, u, v
  <2>2. q = t
    BY <1>2, <1>3, <2>1, QuotientUnique
  <2> QED
    BY <2>2 DEF t
<1> QED
  BY <1>3, <1>8 DEF d, q, m

LEMMA DivideLess ==
    ASSUME NEW n \in Nat, NEW b \in Nat \ {0}, NEW c \in Nat
    PROVE  n \div b < c <=> n < b * c
<1> DEFINE m == n \div b
           r == n % b
<1>1. m \in Nat /\ r \in 0 .. b - 1 /\ n = b * m + r
  BY DivideFacts
<1> HIDE DEF m, r
<1>2. ASSUME m < c PROVE n < b * c
  <2>1. c - 1 - m \in Nat
    BY <1>1, <1>2
  <2>2. b * (c - 1 - m) \in Nat /\ b * (c - 1 - m) = b * c - b - b * m
    BY <1>1, <2>1
  <2>3. b * c \in Nat /\ b * m \in Nat
    BY <1>1
  <2> QED
    BY <1>1, <2>2, <2>3
<1>3. ASSUME ~(m < c) PROVE ~(n < b * c)
  <2>1. m - c \in Nat
    BY <1>1, <1>3
  <2>2. b * (m - c) \in Nat /\ b * (m - c) = b * m - b * c
    BY <1>1, <2>1
  <2>3. b * c \in Nat /\ b * m \in Nat
    BY <1>1
  <2> QED
    BY <1>1, <2>2, <2>3
<1> QED
  BY <1>2, <1>3 DEF m

-----------------------------------------------------------------------------
(* The number of places. *)

IsPlaces(k, n, base) ==
    n < Power(base)[k] /\ (k = 1 \/ n >= Power(base)[k - 1])

Places(n, base) == CHOOSE k \in 1 .. WordSize : IsPlaces(k, n, base)

LEMMA PlacesUnique ==
    ASSUME NEW base \in Nat, base > 1, NEW n \in Nat,
           NEW k \in 1 .. WordSize, IsPlaces(k, n, base),
           NEW l \in 1 .. WordSize, IsPlaces(l, n, base)
    PROVE  k = l
<1>0. WordSize \in Nat
  BY FormatAssumption
<1>1. ASSUME NEW x \in 1 .. WordSize, NEW y \in 1 .. WordSize, x < y,
             IsPlaces(x, n, base), IsPlaces(y, n, base)
      PROVE  FALSE
  <2>1. /\ x \in 0 .. WordSize /\ y - 1 \in 0 .. WordSize /\ x <= y - 1
        /\ y # 1
    BY <1>0, <1>1
  <2>2. Power(base)[x] <= Power(base)[y - 1]
    BY <2>1, PowerMonotone
  <2>3. Power(base)[x] \in Nat /\ Power(base)[y - 1] \in Nat
    BY <2>1, PowerGrows
  <2>4. n < Power(base)[x] /\ n >= Power(base)[y - 1]
    BY <1>1, <2>1 DEF IsPlaces
  <2> QED
    BY <2>2, <2>3, <2>4
<1>2. ~(k < l) /\ ~(l < k)
  BY <1>1
<1> QED
  BY <1>0, <1>2

LEMMA PlacesExist ==
    ASSUME NEW base \in Nat, base > 1, NEW n \in 0 .. WordSize, WordSize # 0
    PROVE  Places(n, base) \in 1 .. WordSize /\ IsPlaces(Places(n, base), n, base)
<1> DEFINE T == {k \in 1 .. WordSize : n < Power(base)[k]}
<1>0. WordSize \in Nat
  BY FormatAssumption
<1>1. WordSize \in T
  <2>1. WordSize \in 0 .. WordSize /\ WordSize \in 1 .. WordSize
    BY <1>0
  <2>2. Power(base)[WordSize] \in Nat /\ Power(base)[WordSize] > WordSize
    BY <2>1, PowerGrows
  <2> QED
    BY <1>0, <2>1, <2>2
<1>2. T \subseteq Nat
  BY <1>0
<1>3. PICK k \in T : \A l \in T : k <= l
  <2> HIDE DEF T
  <2> QED
    BY <1>1, <1>2, LeastNumber
<1>4. k \in 1 .. WordSize /\ n < Power(base)[k]
  OBVIOUS
<1>5. ASSUME k # 1 PROVE n >= Power(base)[k - 1]
  <2>1. k - 1 \in 1 .. WordSize /\ k - 1 \in 0 .. WordSize /\ ~(k <= k - 1)
    BY <1>0, <1>4, <1>5
  <2>2. ~(n < Power(base)[k - 1])
    BY <1>3, <2>1
  <2>3. Power(base)[k - 1] \in Nat
    BY <2>1, PowerGrows
  <2> QED
    BY <2>2, <2>3
<1>6. IsPlaces(k, n, base)
  BY <1>4, <1>5 DEF IsPlaces
<1> HIDE DEF IsPlaces
<1> QED
  BY <1>4, <1>6 DEF Places

LEMMA PlacesShort ==
    ASSUME NEW base \in Nat, base > 1, NEW n \in 0 .. WordSize, WordSize # 0, n < base
    PROVE  Places(n, base) = 1
<1>0. WordSize \in Nat /\ 1 \in 1 .. WordSize /\ 0 \in 0 .. WordSize - 1
  BY FormatAssumption
<1>1. Power(base)[1] = base
  <2>1. Power(base)[0 + 1] = base * Power(base)[0] /\ Power(base)[0] = 1
    BY <1>0, PowerSteps
  <2> QED
    BY <2>1
<1>2. IsPlaces(1, n, base)
  BY <1>1 DEF IsPlaces
<1>3. Places(n, base) \in 1 .. WordSize /\ IsPlaces(Places(n, base), n, base)
  BY PlacesExist
<1>4. n \in Nat
  BY <1>0
<1> QED
  BY <1>0, <1>2, <1>3, <1>4, PlacesUnique

LEMMA PlacesLong ==
    ASSUME NEW base \in Nat, base > 1, NEW n \in 0 .. WordSize, WordSize # 0, n >= base
    PROVE  /\ n \div base \in 0 .. WordSize /\ n \div base < n
           /\ Places(n, base) = Places(n \div base, base) + 1
<1> DEFINE m == n \div base
           k == Places(n, base)
<1>0. /\ WordSize \in Nat /\ 1 \in 1 .. WordSize /\ 0 \in 0 .. WordSize - 1 /\ n \in Nat
      /\ base \in Nat \ {0}
  BY FormatAssumption
<1>1. m \in Nat /\ m < n
  <2> DEFINE r == n % base
  <2>1. m \in Nat /\ r \in 0 .. base - 1 /\ n = base * m + r
    BY <1>0, DivideFacts
  <2> HIDE DEF m, r
  <2>2. m # 0
    BY <2>1
  <2>3. (base - 2) * m \in Nat /\ base * m = (base - 2) * m + 2 * m
    BY <2>1
  <2> QED
    BY <2>1, <2>2, <2>3
<1>2. m \in 0 .. WordSize
  BY <1>0, <1>1
<1>3. k \in 1 .. WordSize /\ IsPlaces(k, n, base)
  BY PlacesExist
<1>4. \A i \in 0 .. WordSize : Power(base)[i] \in Nat
  BY PowerGrows
<1>5. k # 1
  <2>1. Power(base)[0 + 1] = base * Power(base)[0] /\ Power(base)[0] = 1
    BY <1>0, PowerSteps
  <2>2. Power(base)[1] = base
    BY <2>1
  <2> QED
    BY <1>0, <1>3, <2>2 DEF IsPlaces
<1>6. \A i \in 0 .. WordSize - 1 : m < Power(base)[i] <=> n < Power(base)[i + 1]
  <2> TAKE i \in 0 .. WordSize - 1
  <2>1. Power(base)[i + 1] = base * Power(base)[i] /\ Power(base)[i] \in Nat
    BY <1>0, <1>4, PowerSteps
  <2> DEFINE c == Power(base)[i]
  <2>2. c \in Nat /\ Power(base)[i + 1] = base * c
    BY <2>1
  <2> HIDE DEF c
  <2>3. m < c <=> n < base * c
    BY <1>0, <2>2, DivideLess
  <2> HIDE DEF m
  <2> QED
    BY <2>2, <2>3 DEF c
<1> HIDE DEF m, k
<1>7. IsPlaces(k - 1, m, base) /\ k - 1 \in 1 .. WordSize
  <2>1. k - 1 \in 1 .. WordSize /\ k - 1 \in 0 .. WordSize - 1 /\ (k - 1) + 1 = k
    BY <1>0, <1>3, <1>5
  <2>2. m < Power(base)[k - 1]
    BY <1>3, <1>6, <2>1 DEF IsPlaces
  <2>3. ASSUME k - 1 # 1 PROVE m >= Power(base)[(k - 1) - 1]
    <3> DEFINE j == (k - 1) - 1
    <3>1. j \in 0 .. WordSize - 1 /\ j + 1 = k - 1 /\ j \in 0 .. WordSize /\ k - 1 \in 0 .. WordSize
      BY <1>0, <2>1, <2>3
    <3> HIDE DEF j
    <3>2. n >= Power(base)[k - 1]
      BY <1>3, <1>5 DEF IsPlaces
    <3>3. ~(n < Power(base)[j + 1])
      BY <1>0, <1>4, <3>1, <3>2
    <3>4. ~(m < Power(base)[j])
      BY <1>6, <3>1, <3>3
    <3>5. m >= Power(base)[j]
      BY <1>1, <1>4, <3>1, <3>4
    <3> QED
      BY <3>5 DEF j
  <2> QED
    BY <2>1, <2>2, <2>3 DEF IsPlaces
<1>8. Places(m, base) \in 1 .. WordSize /\ IsPlaces(Places(m, base), m, base)
  BY <1>2, PlacesExist
<1>9. k - 1 = Places(m, base)
  BY <1>1, <1>7, <1>8, PlacesUnique
<1>10. k = Places(m, base) + 1
  BY <1>0, <1>3, <1>8, <1>9
<1> QED
  BY <1>1, <1>2, <1>10 DEF m, k

-----------------------------------------------------------------------------
(* The digits of a number, lowest first. *)

Low(n, base) ==
    [i \in 1 .. Places(n, base) |-> Digit[((n \div Power(base)[i - 1]) % base) + 1]]

LEMMA LowShort ==
    ASSUME NEW base \in Nat, base > 1, NEW n \in 0 .. WordSize, WordSize # 0, n < base
    PROVE  Low(n, base) = <<Digit[n + 1]>>
<1>1. Places(n, base) = 1 /\ n \in Nat
  BY PlacesShort, FormatAssumption
<1>2. Power(base)[1 - 1] = 1
  BY PowerSteps
<1>3. (n \div 1) % base = n
  BY <1>1
<1>4. Low(n, base) = [i \in 1 .. 1 |-> Digit[((n \div Power(base)[i - 1]) % base) + 1]]
  BY <1>1 DEF Low
<1>5. \A i \in 1 .. 1 : i = 1
  OBVIOUS
<1>6. Low(n, base) = [i \in 1 .. 1 |-> Digit[n + 1]]
  BY <1>2, <1>3, <1>4, <1>5
<1> QED
  BY <1>6

LEMMA LowLong ==
    ASSUME NEW base \in Nat, base > 1, NEW n \in 0 .. WordSize, WordSize # 0, n >= base
    PROVE  Low(n, base) = <<Digit[(n % base) + 1]>> \o Low(n \div base, base)
<1> DEFINE m == n \div base
           l == Places(m, base)
           D(k) == Digit[((n \div Power(base)[k - 1]) % base) + 1]
           E(k) == Digit[((m \div Power(base)[k - 1]) % base) + 1]
<1>0. WordSize \in Nat /\ n \in Nat /\ base \in Nat \ {0}
  BY FormatAssumption
<1>1. m \in 0 .. WordSize /\ Places(n, base) = l + 1
  BY PlacesLong
<1>2. l \in 1 .. WordSize /\ l + 1 \in 1 .. WordSize
  <2>1. l \in 1 .. WordSize /\ Places(n, base) \in 1 .. WordSize
    BY <1>1, PlacesExist
  <2> QED
    BY <1>1, <2>1
<1>3. D(1) = Digit[(n % base) + 1]
  <2>1. Power(base)[1 - 1] = 1 /\ n \div 1 = n
    BY <1>0, PowerSteps
  <2> QED
    BY <2>1
<1>4. ASSUME NEW k \in 2 .. l + 1 PROVE D(k) = E(k - 1)
  <2> DEFINE j == (k - 1) - 1
  <2>1. j \in 0 .. WordSize - 1 /\ j + 1 = k - 1 /\ j \in 0 .. WordSize
    BY <1>0, <1>2
  <2> HIDE DEF j
  <2> DEFINE c == Power(base)[j]
  <2>2. c \in Nat \ {0} /\ Power(base)[k - 1] = base * c
    BY <2>1, PowerSteps, PowerGrows
  <2> HIDE DEF c
  <2>3. (n \div base) \div c = n \div (base * c)
    <3>1. n \in Nat /\ base \in Nat \ {0} /\ c \in Nat \ {0}
      BY <1>0, <2>2
    <3> QED
      BY <3>1, DivideTwice, Zenon
  <2> HIDE DEF m
  <2>4. n \div Power(base)[k - 1] = m \div Power(base)[(k - 1) - 1]
    BY <2>2, <2>3 DEF c, j, m
  <2> QED
    BY <2>4
<1>5. Low(n, base) = [k \in 1 .. l + 1 |-> D(k)]
  BY <1>1 DEF Low
<1>6. Low(m, base) = [k \in 1 .. l |-> E(k)]
  BY DEF Low
<1> DEFINE x == Digit[(n % base) + 1]
<1> HIDE DEF m, l, D, E, x
<1>7. <<x>> \o [k \in 1 .. l |-> E(k)] = [k \in 1 .. l + 1 |-> IF k = 1 THEN x ELSE E(k - 1)]
  BY <1>2
<1>8. [k \in 1 .. l + 1 |-> IF k = 1 THEN x ELSE E(k - 1)] = [k \in 1 .. l + 1 |-> D(k)]
  <2>1. \A k \in 1 .. l + 1 : k = 1 \/ k \in 2 .. l + 1
    BY <1>2
  <2>2. D(1) = x
    BY <1>3 DEF x
  <2> QED
    BY <1>4, <2>1, <2>2
<1> QED
  BY <1>5, <1>6, <1>7, <1>8 DEF m, x

-----------------------------------------------------------------------------
(* itoa. *)

Abs(v) == IF v < 0 THEN -v ELSE v
Rem(v, base) == IF Remainder(v, base) < 0 THEN -Remainder(v, base) ELSE Remainder(v, base)
Word == -WordSize .. WordSize

(* The division of C, which truncates, divides the absolute value, and the digit the loop
   stores is the remainder of it.  This includes the smallest int, which has no
   positive counterpart: tmp_value stays negative. *)
LEMMA TruncatedDivision ==
    ASSUME NEW base \in Nat, base > 1, NEW v \in Int
    PROVE  /\ Abs(v) \in Nat /\ Quotient(v, base) \in Int
           /\ Abs(Quotient(v, base)) = Abs(v) \div base
           /\ Rem(v, base) = Abs(v) % base
           /\ Quotient(v, base) = 0 <=> Abs(v) \div base = 0
<1> DEFINE u == Abs(v)
           q == u \div base
           r == u % base
<1>0. base \in Nat \ {0}
  OBVIOUS
<1>1. u \in Nat
  BY DEF Abs
<1>2. q \in Nat /\ r \in 0 .. base - 1 /\ u = base * q + r
  <2> HIDE DEF u
  <2> QED
    BY <1>0, <1>1, DivideFacts
<1>3. Quotient(v, base) = IF v < 0 THEN -q ELSE q
  BY DEF Quotient, Abs
<1>4. v = IF v < 0 THEN -u ELSE u
  BY DEF Abs
<1> HIDE DEF u, q, r
<1>5. Abs(Quotient(v, base)) = q /\ Quotient(v, base) \in Int
  BY <1>2, <1>3 DEF Abs
<1>6. Remainder(v, base) = IF v < 0 THEN -r ELSE r
  <2>1. CASE v < 0
    <3>1. Remainder(v, base) = (-u) - (-q) * base
      BY <1>3, <1>4, <2>1 DEF Remainder
    <3>2. (-q) * base = -(base * q) /\ base * q \in Int
      BY <1>2
    <3> QED
      BY <1>1, <1>2, <2>1, <3>1, <3>2
  <2>2. CASE ~(v < 0)
    <3>1. Remainder(v, base) = u - q * base
      BY <1>3, <1>4, <2>2 DEF Remainder
    <3>2. q * base = base * q /\ base * q \in Int
      BY <1>2
    <3> QED
      BY <1>1, <1>2, <2>2, <3>1, <3>2
  <2> QED
    BY <2>1, <2>2
<1>7. Rem(v, base) = r
  BY <1>2, <1>6 DEF Rem
<1>8. Quotient(v, base) = 0 <=> q = 0
  BY <1>2, <1>3
<1> QED
  BY <1>1, <1>5, <1>7, <1>8 DEF u, q, r

LEMMA QuotientSmaller ==
    ASSUME NEW base \in Nat, base > 1, NEW v \in Word, Abs(v) >= base, WordSize # 0
    PROVE  /\ Quotient(v, base) \in Word /\ Quotient(v, base) # 0
           /\ Abs(Quotient(v, base)) < Abs(v) /\ Abs(v) \in 0 .. WordSize
<1> DEFINE u == Abs(v)
           q == Quotient(v, base)
<1>0. WordSize \in Nat /\ v \in Int
  BY FormatAssumption DEF Word
<1>1. u \in 0 .. WordSize
  BY <1>0 DEF Abs, Word
<1>2. Abs(q) = u \div base /\ q \in Int /\ (q = 0 <=> u \div base = 0)
  BY <1>0, TruncatedDivision
<1>3. u >= base
  OBVIOUS
<1> HIDE DEF u, q
<1>4. u \div base \in 0 .. WordSize /\ u \div base < u
  BY <1>1, <1>3, PlacesLong
<1>5. q \in Word
  BY <1>0, <1>2, <1>4 DEF Abs, Word
<1>6. u \div base # 0
  <2>1. u \div base < 1 <=> u < base * 1
    BY <1>0, <1>1, DivideLess
  <2> QED
    BY <1>0, <1>1, <1>3, <2>1
<1> QED
  BY <1>1, <1>2, <1>4, <1>5, <1>6 DEF u, q

LEMMA QuotientZero ==
    ASSUME NEW base \in Nat, base > 1, NEW v \in Word, ~(Abs(v) >= base), WordSize # 0
    PROVE  /\ Quotient(v, base) = 0 /\ Rem(v, base) = Abs(v)
           /\ Abs(v) \in 0 .. WordSize /\ Abs(v) < base
<1> DEFINE u == Abs(v)
<1>0. WordSize \in Nat /\ v \in Int /\ base \in Nat \ {0}
  BY FormatAssumption DEF Word
<1>1. u \in 0 .. WordSize
  BY <1>0 DEF Abs, Word
<1>2. (Quotient(v, base) = 0 <=> u \div base = 0) /\ Rem(v, base) = u % base
  BY <1>0, TruncatedDivision
<1>3. u < base
  BY <1>0, <1>1
<1> HIDE DEF u
<1>4. u \div base = 0 /\ u % base = u
  BY <1>0, <1>1, <1>3
<1> QED
  BY <1>1, <1>2, <1>3, <1>4 DEF u

(* What the loop of itoa computes from each value of tmp_value. *)
LowLoop(f, base) ==
    f = [v \in Word |->
           IF Quotient(v, base) = 0 THEN <<Digit[Rem(v, base) + 1]>>
           ELSE <<Digit[Rem(v, base) + 1]>> \o f[Quotient(v, base)]]

LEMMA LowLoopHolds ==
    ASSUME NEW base \in Nat, base > 1, WordSize # 0
    PROVE  LowLoop([v \in Word |-> Low(Abs(v), base)], base)
<1> DEFINE F == [v \in Word |-> Low(Abs(v), base)]
<1>1. ASSUME NEW v \in Word
      PROVE  F[v] = IF Quotient(v, base) = 0 THEN <<Digit[Rem(v, base) + 1]>>
                    ELSE <<Digit[Rem(v, base) + 1]>> \o F[Quotient(v, base)]
  <2>0. F[v] = Low(Abs(v), base) /\ v \in Int
    BY FormatAssumption DEF Word
  <2>1. CASE Abs(v) >= base
    <3>1. /\ Quotient(v, base) \in Word /\ Quotient(v, base) # 0
          /\ Abs(v) \in 0 .. WordSize
      BY <2>1, QuotientSmaller
    <3>2. Abs(Quotient(v, base)) = Abs(v) \div base /\ Rem(v, base) = Abs(v) % base
      BY <2>0, TruncatedDivision
    <3>3. Low(Abs(v), base) = <<Digit[(Abs(v) % base) + 1]>> \o Low(Abs(v) \div base, base)
      BY <2>1, <3>1, LowLong
    <3>4. F[Quotient(v, base)] = Low(Abs(Quotient(v, base)), base)
      BY <3>1
    <3> HIDE DEF F
    <3> QED
      BY <2>0, <3>1, <3>2, <3>3, <3>4
  <2>2. CASE ~(Abs(v) >= base)
    <3>1. /\ Quotient(v, base) = 0 /\ Rem(v, base) = Abs(v)
          /\ Abs(v) \in 0 .. WordSize /\ Abs(v) < base
      BY <2>2, QuotientZero
    <3>2. Low(Abs(v), base) = <<Digit[Abs(v) + 1]>>
      BY <3>1, LowShort
    <3> HIDE DEF F
    <3> QED
      BY <2>0, <3>1, <3>2
  <2> QED
    BY <2>1, <2>2
<1>2. F = [v \in Word |-> F[v]]
  OBVIOUS
<1> HIDE DEF F
<1>3. LowLoop(F, base)
  BY <1>1, <1>2 DEF LowLoop
<1> QED
  BY <1>3 DEF F

LEMMA LowLoopUnique ==
    ASSUME NEW base \in Nat, base > 1, WordSize # 0, NEW f, LowLoop(f, base), NEW w \in Word
    PROVE  f[w] = Low(Abs(w), base)
<1> DEFINE T == {n \in Nat : \A v \in Word : Abs(v) <= n => f[v] = Low(Abs(v), base)}
<1>0. WordSize \in Nat /\ \A v \in Word : v \in Int /\ Abs(v) \in Nat
  BY FormatAssumption DEF Word, Abs
<1>1. \A v \in Word : f[v] = IF Quotient(v, base) = 0 THEN <<Digit[Rem(v, base) + 1]>>
                             ELSE <<Digit[Rem(v, base) + 1]>> \o f[Quotient(v, base)]
  BY DEF LowLoop
<1>2. ASSUME NEW v \in Word, ~(Abs(v) >= base) PROVE f[v] = Low(Abs(v), base)
  <2>1. /\ Quotient(v, base) = 0 /\ Rem(v, base) = Abs(v)
        /\ Abs(v) \in 0 .. WordSize /\ Abs(v) < base
    BY <1>2, QuotientZero
  <2>2. Low(Abs(v), base) = <<Digit[Abs(v) + 1]>>
    BY <2>1, LowShort
  <2> QED
    BY <1>1, <2>1, <2>2
<1>3. 0 \in T
  <2> SUFFICES ASSUME NEW v \in Word, Abs(v) <= 0 PROVE f[v] = Low(Abs(v), base)
    OBVIOUS
  <2>1. ~(Abs(v) >= base)
    BY <1>0
  <2> QED
    BY <1>2, <2>1
<1>4. ASSUME NEW n \in Nat, n \in T PROVE n + 1 \in T
  <2> SUFFICES ASSUME NEW v \in Word, Abs(v) <= n + 1 PROVE f[v] = Low(Abs(v), base)
    OBVIOUS
  <2>1. CASE Abs(v) >= base
    <3> DEFINE q == Quotient(v, base)
    <3>1. /\ q \in Word /\ q # 0 /\ Abs(q) < Abs(v) /\ Abs(v) \in 0 .. WordSize
      BY <2>1, QuotientSmaller
    <3>2. Abs(q) = Abs(v) \div base /\ Rem(v, base) = Abs(v) % base
      BY <1>0, TruncatedDivision
    <3>3. Low(Abs(v), base) = <<Digit[(Abs(v) % base) + 1]>> \o Low(Abs(v) \div base, base)
      BY <2>1, <3>1, LowLong
    <3>4. f[v] = <<Digit[Rem(v, base) + 1]>> \o f[q]
      BY <1>1, <3>1
    <3> HIDE DEF q
    <3>5. Abs(q) <= n
      BY <1>0, <3>1
    <3>6. f[q] = Low(Abs(q), base)
      BY <1>4, <3>1, <3>5
    <3> QED
      BY <3>2, <3>3, <3>4, <3>6
  <2>2. CASE ~(Abs(v) >= base)
    BY <1>2, <2>2
  <2> QED
    BY <2>1, <2>2
<1>5. Nat \subseteq T
  <2> HIDE DEF T
  <2> QED
    BY <1>3, <1>4, SetInduction
<1>6. Abs(w) \in T /\ Abs(w) <= Abs(w)
  BY <1>0, <1>5
<1> QED
  BY <1>6

LEMMA LowFirstIsLow ==
    ASSUME NEW base \in Nat, base > 1, WordSize # 0, NEW v \in Word
    PROVE  LowFirst(v, base) = Low(Abs(v), base)
<1> DEFINE low == CHOOSE f : LowLoop(f, base)
<1>1. \E f : LowLoop(f, base)
  BY LowLoopHolds
<1>2. LowLoop(low, base)
  <2> HIDE DEF LowLoop
  <2> QED
    BY <1>1
<1>3. LowFirst(v, base) = low[v]
  BY DEF LowFirst, LowLoop, Rem, Word
<1> HIDE DEF low
<1> QED
  BY <1>2, <1>3, LowLoopUnique

(* The digits that itoa stores and turns around are the numeral of the absolute value. *)
LEMMA ItoaIsNumeral ==
    ASSUME NEW base \in Nat, base > 1, WordSize # 0, NEW v \in Word
    PROVE  itoa(v, base) = Sign(v, base) \o Numeral(Abs(v), base, Digit)
<1> DEFINE n == Abs(v)
           l == Places(n, base)
           D(k) == Digit[((n \div Power(base)[k]) % base) + 1]
<1>0. WordSize \in Nat /\ n \in 0 .. WordSize
  BY FormatAssumption DEF Abs, Word
<1>1. l \in 1 .. WordSize
  BY <1>0, PlacesExist
<1>2. LowFirst(v, base) = Low(n, base)
  BY LowFirstIsLow
<1>3. Numeral(n, base, Digit) = [i \in 1 .. l |-> D(l - i)]
  BY DEF Numeral, Places, IsPlaces
<1>4. Low(n, base) = [i \in 1 .. l |-> D(i - 1)]
  BY DEF Low
<1> HIDE DEF n, l, D
<1>5. Ext!Reverse([i \in 1 .. l |-> D(i - 1)]) = [i \in 1 .. l |-> D(l - i)]
  <2> DEFINE s == [i \in 1 .. l |-> D(i - 1)]
  <2>1. Len(s) = l
    BY <1>0, <1>1
  <2>2. \A i \in 1 .. l : (l - i) + 1 \in 1 .. l /\ ((l - i) + 1) - 1 = l - i
    BY <1>0, <1>1
  <2>3. \A i \in 1 .. l : s[(l - i) + 1] = D(l - i)
    BY <2>2
  <2>4. Ext!Reverse(s) = [i \in 1 .. Len(s) |-> s[(Len(s) - i) + 1]]
    BY DEF Ext!Reverse
  <2> HIDE DEF s
  <2>5. Ext!Reverse(s) = [i \in 1 .. l |-> s[(l - i) + 1]]
    BY <2>1, <2>4
  <2>6. Ext!Reverse(s) = [i \in 1 .. l |-> D(l - i)]
    BY <2>3, <2>5
  <2> QED
    BY <2>6 DEF s
<1>6. Ext!Reverse(LowFirst(v, base)) = Numeral(n, base, Digit)
  BY <1>2, <1>3, <1>4, <1>5
<1> QED
  BY <1>6 DEF itoa, n

-----------------------------------------------------------------------------
(* The texts of conversions. *)

Glyph == STRING \cup {Digit[i] : i \in 1 .. 16} \cup {UpperDigit[i] : i \in 1 .. 16}
            \cup {"-", "%", "(", "n", "u", "l", ")"}

LEMMA NumeralDigits ==
    ASSUME NEW base \in 2 .. 16, WordSize # 0, NEW n \in 0 .. WordSize
    PROVE  /\ Places(n, base) \in Nat
           /\ \A i \in 1 .. Places(n, base) :
                 ((n \div Power(base)[Places(n, base) - i]) % base) + 1 \in 1 .. 16
<1> DEFINE l == Places(n, base)
<1>0. WordSize \in Nat /\ base \in Nat \ {0} /\ base \in Nat /\ base > 1 /\ n \in Nat
  BY FormatAssumption
<1>1. l \in 1 .. WordSize
  BY <1>0, PlacesExist
<1> HIDE DEF l
<1>2. ASSUME NEW i \in 1 .. l
      PROVE  ((n \div Power(base)[l - i]) % base) + 1 \in 1 .. 16
  <2> DEFINE c == Power(base)[l - i]
             q == n \div c
  <2>1. l - i \in 0 .. WordSize
    BY <1>0, <1>1
  <2>2. c \in Nat \ {0}
    BY <1>0, <2>1, PowerGrows
  <2> HIDE DEF c
  <2>3. q \in Nat
    BY <1>0, <2>2, DivideFacts
  <2> HIDE DEF q
  <2>4. q % base \in 0 .. base - 1
    BY <1>0, <2>3, DivideFacts
  <2>5. (q % base) + 1 \in 1 .. 16
    BY <1>0, <2>4
  <2> QED
    BY <2>5 DEF q, c
<1> QED
  BY <1>0, <1>1, <1>2 DEF l

LEMMA NumeralIs ==
    ASSUME NEW base, NEW n, NEW digit
    PROVE  Numeral(n, base, digit) =
              [i \in 1 .. Places(n, base) |->
                 digit[((n \div Power(base)[Places(n, base) - i]) % base) + 1]]
BY DEF Numeral, Places, IsPlaces

LEMMA DigitsAre ==
    /\ DOMAIN Digit = 1 .. 16
    /\ \A i \in 1 .. 16 : Digit[i] \in Glyph /\ UpperDigit[i] \in Glyph
    /\ \A i, j \in 1 .. 16 : Digit[i] = Digit[j] => i = j
<1>1. DOMAIN Digit = 1 .. 16
  BY DEF Digit
<1>2. \A i \in 1 .. 16 : Digit[i] \in Glyph /\ UpperDigit[i] \in Glyph
  BY DEF Glyph
<1>3. \A i \in 1 .. 16 : i \in {1, 2, 3, 4, 5, 6, 7, 8, 9, 10, 11, 12, 13, 14, 15, 16}
  OBVIOUS
<1>4. \A i, j \in {1, 2, 3, 4, 5, 6, 7, 8, 9, 10, 11, 12, 13, 14, 15, 16} :
         Digit[i] = Digit[j] => i = j
  BY DEF Digit
<1> QED
  BY <1>1, <1>2, <1>3, <1>4

LEMMA NumeralIsSeq ==
    ASSUME NEW base \in 2 .. 16, WordSize # 0, NEW n \in 0 .. WordSize
    PROVE  Numeral(n, base, Digit) \in Seq(Glyph) /\ Numeral(n, base, UpperDigit) \in Seq(Glyph)
<1> DEFINE l == Places(n, base)
           d(i) == ((n \div Power(base)[l - i]) % base) + 1
<1>1. l \in Nat /\ \A i \in 1 .. l : d(i) \in 1 .. 16
  BY NumeralDigits
<1>2. /\ Numeral(n, base, Digit) = [i \in 1 .. l |-> Digit[d(i)]]
      /\ Numeral(n, base, UpperDigit) = [i \in 1 .. l |-> UpperDigit[d(i)]]
  BY NumeralIs
<1> HIDE DEF l, d
<1>3. [i \in 1 .. l |-> Digit[d(i)]] \in Seq(Glyph)
  BY <1>1, DigitsAre
<1>4. [i \in 1 .. l |-> UpperDigit[d(i)]] \in Seq(Glyph)
  BY <1>1, DigitsAre
<1> QED
  BY <1>2, <1>3, <1>4, Zenon

LEMMA UpperNumeral ==
    ASSUME WordSize # 0, NEW n \in 0 .. WordSize
    PROVE  Upper(Numeral(n, 16, Digit)) = Numeral(n, 16, UpperDigit)
<1> DEFINE l == Places(n, 16)
           d(i) == ((n \div Power(16)[l - i]) % 16) + 1
           s == Numeral(n, 16, Digit)
           Index(i) == CHOOSE e \in DOMAIN Digit : Digit[e] = s[i]
<1>1. l \in Nat /\ \A i \in 1 .. l : d(i) \in 1 .. 16
  <2>1. 16 \in 2 .. 16
    OBVIOUS
  <2> QED
    BY <2>1, NumeralDigits
<1>2. /\ s = [i \in 1 .. l |-> Digit[d(i)]]
      /\ Numeral(n, 16, UpperDigit) = [i \in 1 .. l |-> UpperDigit[d(i)]]
  BY NumeralIs
<1>3. Upper(s) = [i \in DOMAIN s |-> UpperDigit[Index(i)]]
  BY DEF Upper
<1> HIDE DEF l, d, s
<1>4. DOMAIN s = 1 .. l /\ \A i \in 1 .. l : s[i] = Digit[d(i)]
  BY <1>2
<1>5. ASSUME NEW i \in 1 .. l
      PROVE  Index(i) = d(i)
  <2>1. d(i) \in 1 .. 16 /\ s[i] = Digit[d(i)]
    BY <1>1, <1>4
  <2>2. \A e \in 1 .. 16 : Digit[e] = s[i] <=> e = d(i)
    BY <2>1, DigitsAre
  <2>3. DOMAIN Digit = 1 .. 16
    BY DigitsAre
  <2> QED
    BY <2>1, <2>2, <2>3
<1> HIDE DEF Index
<1>6. Upper(s) = [i \in 1 .. l |-> UpperDigit[d(i)]]
  BY <1>3, <1>4, <1>5
<1> QED
  BY <1>2, <1>6 DEF s

LEMMA WordFacts ==
    ASSUME NEW num \in 0 .. WordSize - 1
    PROVE  /\ WordSize # 0 /\ AsInt(num) \in Word /\ Abs(AsInt(num)) \in 0 .. WordSize
           /\ num \in 0 .. WordSize
           /\ num < WordSize \div 2 => AsInt(num) = num /\ ~(num < 0) /\ Abs(num) = num
<1>1. WordSize \in Nat /\ WordSize \div 2 \in Nat
  BY FormatAssumption
<1> QED
  BY <1>1 DEF AsInt, Word, Abs

(* %d: for every word and every width of the int, itoa in base 10 gives the sign and the
   decimal numeral of the number, the most negative one included, whose absolute
   value is not an int: the loop takes that of the remainders only. *)
THEOREM ItoaSigned ==
    ASSUME NEW num \in 0 .. WordSize - 1
    PROVE  /\ itoa(AsInt(num), 10) = Signed(AsInt(num))
           /\ Signed(AsInt(num)) \in Seq(Glyph)
<1> DEFINE v == AsInt(num)
<1>1. WordSize # 0 /\ v \in Word /\ Abs(v) \in 0 .. WordSize
  BY WordFacts
<1> HIDE DEF v
<1>2. itoa(v, 10) = Sign(v, 10) \o Numeral(Abs(v), 10, Digit)
  BY <1>1, ItoaIsNumeral
<1> DEFINE s == Numeral(Abs(v), 10, Digit)
<1>3. s \in Seq(Glyph)
  <2>1. 10 \in 2 .. 16
    OBVIOUS
  <2> QED
    BY <1>1, <2>1, NumeralIsSeq
<1>4. Sign(v, 10) = IF v < 0 THEN <<"-">> ELSE <<>>
  BY DEF Sign
<1>5. Signed(v) = IF v < 0 THEN <<"-">> \o s ELSE s
  BY DEF Signed, Abs
<1> HIDE DEF s
<1>6. <<"-">> \in Seq(Glyph)
  BY DEF Glyph
<1>7. <<"-">> \o s \in Seq(Glyph) /\ <<>> \o s = s
  BY <1>3, <1>6
<1> QED
  BY <1>2, <1>3, <1>4, <1>5, <1>7 DEF s, v

LEMMA ItoaHex ==
    ASSUME NEW num \in 0 .. WordSize - 1
    PROVE  /\ itoa(AsInt(num), 16) = Numeral(Abs(AsInt(num)), 16, Digit)
           /\ Upper(itoa(AsInt(num), 16)) = Numeral(Abs(AsInt(num)), 16, UpperDigit)
           /\ itoa(AsInt(num), 16) \in Seq(Glyph)
           /\ Upper(itoa(AsInt(num), 16)) \in Seq(Glyph)
<1> DEFINE v == AsInt(num)
<1>1. WordSize # 0 /\ v \in Word /\ Abs(v) \in 0 .. WordSize
  BY WordFacts
<1> HIDE DEF v
<1>2. itoa(v, 16) = Sign(v, 16) \o Numeral(Abs(v), 16, Digit)
  BY <1>1, ItoaIsNumeral
<1>3. Sign(v, 16) = <<>>
  BY DEF Sign
<1>4. Numeral(Abs(v), 16, Digit) \in Seq(Glyph) /\ Numeral(Abs(v), 16, UpperDigit) \in Seq(Glyph)
  <2>1. 16 \in 2 .. 16
    OBVIOUS
  <2> QED
    BY <1>1, <2>1, NumeralIsSeq
<1>5. itoa(v, 16) = Numeral(Abs(v), 16, Digit)
  <2> DEFINE s == Numeral(Abs(v), 16, Digit)
  <2>1. s \in Seq(Glyph)
    BY <1>4
  <2> HIDE DEF s
  <2>2. <<>> \o s = s
    BY <2>1
  <2> QED
    BY <1>2, <1>3, <2>2, Zenon DEF s
<1>6. Upper(itoa(v, 16)) = Numeral(Abs(v), 16, UpperDigit)
  BY <1>1, <1>5, UpperNumeral
<1> QED
  BY <1>4, <1>5, <1>6 DEF v

(* A word below half of the word size is the same number signed and unsigned. *)
LEMMA ItoaUnsigned ==
    ASSUME NEW num \in 0 .. WordSize - 1, num < WordSize \div 2
    PROVE  /\ itoa(AsInt(num), 10) = Numeral(num, 10, Digit)
           /\ itoa(AsInt(num), 16) = Numeral(num, 16, Digit)
           /\ Upper(itoa(AsInt(num), 16)) = Numeral(num, 16, UpperDigit)
<1>1. AsInt(num) = num /\ ~(num < 0) /\ Abs(num) = num
  BY WordFacts
<1>2. Signed(num) = Numeral(num, 10, Digit)
  BY <1>1 DEF Signed
<1> QED
  BY <1>1, <1>2, ItoaSigned, ItoaHex

LEMMA TextIsSeq ==
    ASSUME NEW specifier \in STRING, NEW arg,
           specifier \in Taking => arg \in Argument
    PROVE  Text(specifier, arg) \in Seq(Glyph)
<1>1. CASE specifier \in {"d", "u", "x", "X"}
  <2>1. specifier \in Taking /\ arg \in Argument
    BY <1>1 DEF Taking
  <2> DEFINE num == arg.num
  <2>2. num \in 0 .. WordSize - 1
    BY <2>1 DEF Argument
  <2>3. WordSize # 0 /\ num \in 0 .. WordSize /\ 10 \in 2 .. 16 /\ 16 \in 2 .. 16
    BY <2>2, WordFacts
  <2>4. /\ Signed(AsInt(num)) \in Seq(Glyph)
        /\ Numeral(num, 10, Digit) \in Seq(Glyph)
        /\ Numeral(num, 16, Digit) \in Seq(Glyph)
        /\ Numeral(num, 16, UpperDigit) \in Seq(Glyph)
    BY <2>2, <2>3, ItoaSigned, NumeralIsSeq
  <2> HIDE DEF num
  <2> QED
    BY <1>1, <2>4 DEF Text, num
<1>2. CASE specifier \in {"s", "c"}
  <2>1. specifier \in Taking /\ arg \in Argument
    BY <1>2 DEF Taking
  <2>2. arg.str \in Seq(STRING) /\ arg.chr \in STRING
    BY <2>1 DEF Argument
  <2>3. arg.str \in Seq(Glyph) /\ <<arg.chr>> \in Seq(Glyph)
    BY <2>2 DEF Glyph
  <2>4. <<"(", "n", "u", "l", "l", ")">> \in Seq(Glyph)
    BY DEF Glyph
  <2> QED
    BY <1>2, <2>3, <2>4 DEF Text
<1>3. CASE specifier \notin {"d", "u", "x", "X", "s", "c"}
  <2>1. <<"%">> \in Seq(Glyph) /\ <<"%", specifier>> \in Seq(Glyph)
    BY DEF Glyph
  <2> QED
    BY <1>3, <2>1 DEF Text
<1> QED
  BY <1>1, <1>2, <1>3

-----------------------------------------------------------------------------
(* The meaning of a format from each of its characters on. *)

(* g[q] in terms of the meaning from later characters on. *)
RestAt(g, q, f, list) ==
    [k \in Nat |->
       IF q > Len(f) THEN <<>>
       ELSE IF f[q] # "%" THEN <<f[q]>> \o g[q + 1][k]
       ELSE IF q = Len(f) THEN <<>>
       ELSE Text(f[q + 1], list[k])
               \o g[q + 2][IF f[q + 1] \in Taking THEN k + 1 ELSE k]]

RestFrom(g, m, f, list) == g = [q \in m .. Len(f) + 1 |-> RestAt(g, q, f, list)]

LEMMA RestAtSame ==
    ASSUME NEW f, NEW list, NEW g, NEW h, Len(f) \in Nat, NEW q \in Nat,
           q + 1 <= Len(f) + 1 => g[q + 1] = h[q + 1],
           q + 2 <= Len(f) + 1 => g[q + 2] = h[q + 2]
    PROVE  RestAt(g, q, f, list) = RestAt(h, q, f, list)
<1>1. CASE q > Len(f)
  BY <1>1 DEF RestAt
<1>2. CASE q = Len(f)
  <2>1. g[q + 1] = h[q + 1] /\ ~(q > Len(f))
    BY <1>2
  <2> QED
    BY <1>2, <2>1 DEF RestAt
<1>3. CASE q < Len(f)
  <2>1. g[q + 1] = h[q + 1] /\ g[q + 2] = h[q + 2] /\ ~(q > Len(f)) /\ q # Len(f)
    BY <1>3
  <2> QED
    BY <2>1 DEF RestAt
<1> QED
  BY <1>1, <1>2, <1>3

LEMMA RestExists ==
    ASSUME NEW f, NEW list, Len(f) \in Nat
    PROVE  \E g : RestFrom(g, 1, f, list)
<1> DEFINE N == Len(f) + 1
           T == {n \in Nat : n < N => \E g : RestFrom(g, N - n, f, list)}
<1>1. 0 \in T
  <2> DEFINE g == [q \in N .. N |-> [k \in Nat |-> <<>>]]
  <2>1. \A q \in N .. N : RestAt(g, q, f, list) = [k \in Nat |-> <<>>]
    BY DEF RestAt
  <2>2. RestFrom(g, N - 0, f, list)
    <3>1. N - 0 = N
      OBVIOUS
    <3>2. g = [q \in N .. N |-> RestAt(g, q, f, list)]
      BY <2>1
    <3> HIDE DEF g
    <3> QED
      BY <3>1, <3>2 DEF RestFrom
  <2> HIDE DEF g
  <2> QED
    BY <2>2
<1>2. ASSUME NEW n \in Nat, n \in T PROVE n + 1 \in T
  <2> SUFFICES ASSUME n + 1 < N PROVE \E g : RestFrom(g, N - (n + 1), f, list)
    OBVIOUS
  <2> DEFINE m == N - n
  <2>0. m \in Nat /\ m > 1 /\ m <= N /\ N \in Nat /\ N - (n + 1) = m - 1 /\ N = Len(f) + 1
    OBVIOUS
  <2>1. PICK h : RestFrom(h, m, f, list)
    BY <1>2
  <2> HIDE DEF m, N
  <2> DEFINE g == [q \in m - 1 .. N |-> IF q = m - 1 THEN RestAt(h, m - 1, f, list) ELSE h[q]]
  <2>2. \A q \in m .. N : h[q] = RestAt(h, q, f, list)
    BY <2>0, <2>1 DEF RestFrom
  <2>3. \A q \in m .. N : g[q] = h[q]
    BY <2>0
  <2>4. g[m - 1] = RestAt(h, m - 1, f, list)
    BY <2>0
  <2>5. g = [q \in m - 1 .. N |-> g[q]]
    OBVIOUS
  <2> HIDE DEF g
  <2>6. \A q \in m - 1 .. N : RestAt(g, q, f, list) = RestAt(h, q, f, list)
    <3> TAKE q \in m - 1 .. N
    <3>1. q \in Nat
      BY <2>0
    <3>2. q + 1 <= N => q + 1 \in m .. N
      BY <2>0
    <3>3. q + 2 <= N => q + 2 \in m .. N
      BY <2>0
    <3> QED
      BY <2>0, <2>3, <3>1, <3>2, <3>3, RestAtSame
  <2>7. \A q \in m - 1 .. N : q = m - 1 \/ q \in m .. N
    BY <2>0
  <2>8. \A q \in m - 1 .. N : g[q] = RestAt(g, q, f, list)
    BY <2>2, <2>3, <2>4, <2>6, <2>7
  <2>9. g = [q \in m - 1 .. N |-> RestAt(g, q, f, list)]
    BY <2>5, <2>8
  <2>10. RestFrom(g, m - 1, f, list)
    BY <2>0, <2>9 DEF RestFrom
  <2> QED
    BY <2>0, <2>10
<1>3. Len(f) \in T
  <2> HIDE DEF T
  <2> QED
    BY <1>1, <1>2, SetInduction
<1>4. N - Len(f) = 1 /\ Len(f) < N
  OBVIOUS
<1> QED
  BY <1>3, <1>4

LEMMA RestDefined ==
    ASSUME NEW f, NEW list, Len(f) \in Nat
    PROVE  RestFrom(Rest(f, list), 1, f, list)
<1>1. \E g : RestFrom(g, 1, f, list)
  BY RestExists
<1>2. Rest(f, list) = CHOOSE g : RestFrom(g, 1, f, list)
  BY DEF Rest, RestFrom, RestAt
<1> HIDE DEF RestFrom
<1> QED
  BY <1>1, <1>2

(* What the next characters of the format mean. *)
Unfolds(R, q, k, f, list) ==
    /\ q > Len(f) => R[q][k] = <<>>
    /\ q <= Len(f) /\ f[q] # "%" => R[q][k] = <<f[q]>> \o R[q + 1][k]
    /\ q = Len(f) /\ f[q] = "%" => R[q][k] = <<>>
    /\ q < Len(f) /\ f[q] = "%" =>
          R[q][k] = Text(f[q + 1], list[k])
                       \o R[q + 2][IF f[q + 1] \in Taking THEN k + 1 ELSE k]

LEMMA RestSteps ==
    ASSUME NEW f, NEW list, Len(f) \in Nat, NEW q \in 1 .. Len(f) + 1, NEW k \in Nat
    PROVE  Unfolds(Rest(f, list), q, k, f, list)
<1> DEFINE R == Rest(f, list)
<1>1. RestFrom(R, 1, f, list)
  BY RestDefined
<1> HIDE DEF R
<1>2. R[q] = RestAt(R, q, f, list)
  BY <1>1 DEF RestFrom
<1>3. R[q][k] = IF q > Len(f) THEN <<>>
                ELSE IF f[q] # "%" THEN <<f[q]>> \o R[q + 1][k]
                ELSE IF q = Len(f) THEN <<>>
                ELSE Text(f[q + 1], list[k])
                        \o R[q + 2][IF f[q + 1] \in Taking THEN k + 1 ELSE k]
  BY <1>2 DEF RestAt
<1>4. /\ q <= Len(f) => ~(q > Len(f))
      /\ q = Len(f) => ~(q > Len(f))
      /\ q < Len(f) => ~(q > Len(f)) /\ q # Len(f)
  OBVIOUS
<1>5. Unfolds(R, q, k, f, list)
  BY <1>3, <1>4 DEF Unfolds
<1> QED
  BY <1>5 DEF R

(* The conversions from character q on, and that there are arguments for them. *)
Left(f, q) == {c \in Conversions(f) : c >= q}
Enough(f, list, q, k) == k \in Nat \ {0} /\ (k - 1) + Cardinality(Left(f, q)) <= Len(list)

LEMMA FewerLeft ==
    ASSUME NEW f, Len(f) \in Nat, NEW q \in Nat, NEW r \in Nat, q <= r
    PROVE  /\ Left(f, r) \subseteq Left(f, q) /\ IsFiniteSet(Left(f, q))
           /\ Cardinality(Left(f, q)) \in Nat /\ Cardinality(Left(f, r)) \in Nat
           /\ Cardinality(Left(f, r)) <= Cardinality(Left(f, q))
<1>1. IsFiniteSet(1 .. Len(f) - 1)
  BY FS_Interval
<1>2. Conversions(f) \subseteq 1 .. Len(f) - 1
  BY DEF Conversions
<1>3. Left(f, q) \subseteq 1 .. Len(f) - 1 /\ Left(f, r) \subseteq 1 .. Len(f) - 1
  BY <1>2 DEF Left
<1>4. IsFiniteSet(Left(f, q)) /\ IsFiniteSet(Left(f, r))
  BY <1>1, <1>3, FS_Subset
<1>5. Left(f, r) \subseteq Left(f, q)
  <2> SUFFICES ASSUME NEW c \in Left(f, r) PROVE c \in Left(f, q)
    OBVIOUS
  <2>1. c \in 1 .. Len(f) - 1 /\ c \in Conversions(f) /\ c >= r
    BY <1>3 DEF Left
  <2> QED
    BY <2>1 DEF Left
<1>6. Cardinality(Left(f, r)) <= Cardinality(Left(f, q))
  BY <1>4, <1>5, FS_Subset
<1>7. Cardinality(Left(f, q)) \in Nat /\ Cardinality(Left(f, r)) \in Nat
  BY <1>4, FS_CardinalityType
<1> QED
  BY <1>4, <1>5, <1>6, <1>7

LEMMA EnoughSkip ==
    ASSUME NEW f, Len(f) \in Nat, NEW list, Len(list) \in Nat, NEW q \in Nat, NEW r \in Nat, q <= r,
           NEW k, Enough(f, list, q, k)
    PROVE  Enough(f, list, r, k)
<1> DEFINE x == Cardinality(Left(f, q))
           y == Cardinality(Left(f, r))
<1>1. x \in Nat /\ y \in Nat /\ y <= x
  BY FewerLeft
<1>2. k \in Nat \ {0} /\ (k - 1) + x <= Len(list)
  BY DEF Enough
<1> HIDE DEF x, y
<1>3. (k - 1) + y <= Len(list)
  BY <1>1, <1>2
<1> QED
  BY <1>2, <1>3 DEF Enough, y

LEMMA EnoughTake ==
    ASSUME NEW f, Len(f) \in Nat, NEW list, Len(list) \in Nat, NEW q \in Nat, NEW r \in Nat, q < r,
           NEW k, Enough(f, list, q, k), q \in Conversions(f)
    PROVE  k \in 1 .. Len(list) /\ Enough(f, list, r, k + 1)
<1> DEFINE x == Cardinality(Left(f, q))
           y == Cardinality(Left(f, r))
<1>0. q <= r
  OBVIOUS
<1>1. x \in Nat /\ y \in Nat /\ Left(f, r) \subseteq Left(f, q) /\ IsFiniteSet(Left(f, q))
  BY <1>0, FewerLeft
<1>2. q \in Left(f, q) /\ q \notin Left(f, r)
  BY DEF Left
<1>3. y # x
  BY <1>1, <1>2, FS_Subset
<1>4. y <= x
  BY <1>0, FewerLeft
<1>5. k \in Nat \ {0} /\ (k - 1) + x <= Len(list)
  BY DEF Enough
<1> HIDE DEF x, y
<1>6. k \in 1 .. Len(list) /\ (k + 1) - 1 + y <= Len(list) /\ k + 1 \in Nat \ {0}
  BY <1>1, <1>3, <1>4, <1>5
<1> QED
  BY <1>6 DEF Enough, y

(* With an argument for every conversion the meaning is a sequence of characters. *)
LEMMA RestIsSeq ==
    ASSUME NEW f \in Seq(STRING), NEW list \in Seq(Argument), NEW q \in 1 .. Len(f) + 1,
           NEW k, Enough(f, list, q, k)
    PROVE  Rest(f, list)[q][k] \in Seq(Glyph)
<1> DEFINE N == Len(f) + 1
           R == Rest(f, list)
           Good(j) == \A i : Enough(f, list, j, i) => R[j][i] \in Seq(Glyph)
           T == {n \in Nat : \A j \in 1 .. N : j >= N - n => Good(j)}
<1>0. Len(f) \in Nat /\ Len(list) \in Nat /\ N \in Nat /\ N = Len(f) + 1
  OBVIOUS
<1>1. <<>> \in Seq(Glyph)
  OBVIOUS
<1> HIDE DEF N
<1>2. 0 \in T
  <2> SUFFICES ASSUME NEW j \in 1 .. N, j >= N - 0, NEW i, Enough(f, list, j, i)
               PROVE  R[j][i] \in Seq(Glyph)
    OBVIOUS
  <2>1. j \in 1 .. Len(f) + 1 /\ j > Len(f) /\ i \in Nat
    BY <1>0 DEF Enough
  <2>2. Unfolds(R, j, i, f, list)
    BY <1>0, <2>1, RestSteps
  <2>3. R[j][i] = <<>>
    BY <2>1, <2>2 DEF Unfolds
  <2> QED
    BY <1>1, <2>3
<1>3. ASSUME NEW n \in Nat, n \in T PROVE n + 1 \in T
  <2> SUFFICES ASSUME NEW j \in 1 .. N, j >= N - (n + 1), NEW i, Enough(f, list, j, i)
               PROVE  R[j][i] \in Seq(Glyph)
    OBVIOUS
  <2>0. j \in 1 .. Len(f) + 1 /\ j \in Nat /\ i \in Nat /\ i \in Nat \ {0}
    BY <1>0 DEF Enough
  <2>10. Unfolds(R, j, i, f, list)
    BY <1>0, <2>0, RestSteps
  <2>1. CASE j > Len(f)
    <3>1. R[j][i] = <<>>
      BY <2>1, <2>10 DEF Unfolds
    <3> QED
      BY <1>1, <3>1
  <2>2. CASE j <= Len(f) /\ f[j] # "%"
    <3>1. R[j][i] = <<f[j]>> \o R[j + 1][i]
      BY <2>2, <2>10 DEF Unfolds
    <3>2. j + 1 \in 1 .. N /\ j + 1 >= N - n /\ j + 1 \in Nat /\ j <= j + 1
      BY <1>0, <2>0, <2>2
    <3>3. Enough(f, list, j + 1, i)
      BY <1>0, <2>0, <3>2, EnoughSkip
    <3>4. R[j + 1][i] \in Seq(Glyph)
      BY <1>3, <3>2, <3>3
    <3>5. f[j] \in STRING
      BY <2>0, <2>2
    <3>6. <<f[j]>> \in Seq(Glyph)
      BY <3>5 DEF Glyph
    <3> HIDE DEF R
    <3> QED
      BY <3>1, <3>4, <3>6
  <2>3. CASE j = Len(f) /\ f[j] = "%"
    <3>1. R[j][i] = <<>>
      BY <2>3, <2>10 DEF Unfolds
    <3> QED
      BY <1>1, <3>1
  <2>4. CASE j < Len(f) /\ f[j] = "%"
    <3> DEFINE next == IF f[j + 1] \in Taking THEN i + 1 ELSE i
               text == Text(f[j + 1], list[i])
    <3>1. R[j][i] = text \o R[j + 2][next]
      BY <2>4, <2>10 DEF Unfolds
    <3>2. /\ j + 2 \in 1 .. N /\ j + 2 >= N - n /\ j + 2 \in Nat /\ j <= j + 2 /\ j < j + 2
          /\ j + 1 \in 1 .. Len(f) /\ j \in 1 .. Len(f) - 1
      BY <1>0, <2>0, <2>4
    <3>3. f[j + 1] \in Taking => j \in Conversions(f)
      BY <2>4, <3>2 DEF Conversions
    <3>4. f[j + 1] \in Taking => i \in 1 .. Len(list) /\ Enough(f, list, j + 2, i + 1)
      BY <1>0, <2>0, <3>2, <3>3, EnoughTake
    <3>5. Enough(f, list, j + 2, i)
      BY <1>0, <2>0, <3>2, EnoughSkip
    <3>6. Enough(f, list, j + 2, next)
      BY <3>4, <3>5
    <3>7. R[j + 2][next] \in Seq(Glyph)
      BY <1>3, <3>2, <3>6
    <3>8. f[j + 1] \in STRING /\ (f[j + 1] \in Taking => list[i] \in Argument)
      BY <3>2, <3>4
    <3>9. text \in Seq(Glyph)
      BY <3>8, TextIsSeq
    <3> HIDE DEF R, text, next
    <3> QED
      BY <3>1, <3>7, <3>9
  <2>5. j > Len(f) \/ j = Len(f) \/ j < Len(f)
    BY <1>0, <2>0
  <2> QED
    BY <1>0, <2>0, <2>1, <2>2, <2>3, <2>4, <2>5
<1>4. Nat \subseteq T
  <2> HIDE DEF T
  <2> QED
    BY <1>2, <1>3, SetInduction
<1>5. N \in T
  <2> HIDE DEF T
  <2> QED
    BY <1>0, <1>4
<1>6. q >= N - N /\ q \in 1 .. N
  BY <1>0
<1>7. Good(q)
  BY <1>5, <1>6
<1> QED
  BY <1>7

-----------------------------------------------------------------------------
(* The loop of vsnprintf. *)

FormatInv ==
    /\ busy \in BOOLEAN /\ current_log_level \in Levels
    /\ format \in Seq(Character) /\ args \in Seq(Argument)
    /\ p \in 1 .. Len(format) + 1 /\ Enough(format, args, p, a)
    /\ buf \in Seq(Glyph) /\ Len(buf) <= LogSize - 1

(* b is what r is still missing from, or a full buffer. *)
CutAt(max, b, r, whole) == whole = b \o r \/ (Len(b) = max /\ Ext!IsPrefix(b, whole))

CutInv ==
    Unambiguous =>
       /\ busy => CutAt(LogSize - 1, buf, Rest(format, args)[p][a], Meaning(format, args))
       /\ ~busy => LineIsCutMeaning

(* As much of text as fits into room bytes. *)
Taken(text, room) == SubSeq(text, 1, IF Len(text) <= room THEN Len(text) ELSE room)

LEMMA TakenIs ==
    ASSUME NEW S, NEW text \in Seq(S), NEW room \in Nat
    PROVE  /\ Taken(text, room) \in Seq(S)
           /\ Len(text) <= room => Taken(text, room) = text
           /\ ~(Len(text) <= room) =>
                 /\ Len(Taken(text, room)) = room
                 /\ \A i \in 1 .. room : Taken(text, room)[i] = text[i]
<1>1. CASE Len(text) <= room
  <2>1. SubSeq(text, 1, Len(text)) = text
    OBVIOUS
  <2> QED
    BY <1>1, <2>1 DEF Taken
<1>2. CASE ~(Len(text) <= room)
  <2>1. /\ SubSeq(text, 1, room) \in Seq(S) /\ Len(SubSeq(text, 1, room)) = room
        /\ \A i \in 1 .. room : SubSeq(text, 1, room)[i] = text[i]
    BY <1>2
  <2> QED
    BY <1>2, <2>1 DEF Taken
<1> QED
  BY <1>1, <1>2

LEMMA TakenOne ==
    ASSUME NEW S, NEW c \in S, NEW room \in Nat, room > 0
    PROVE  Taken(<<c>>, room) = <<c>> /\ Taken(<<>>, room) = <<>>
<1>1. <<c>> \in Seq(S) /\ <<>> \in Seq(S) /\ Len(<<c>>) = 1 /\ Len(<<>>) = 0
  OBVIOUS
<1>2. Len(<<c>>) <= room /\ Len(<<>>) <= room
  BY <1>1
<1> QED
  BY <1>1, <1>2, TakenIs

Associates(s, t, u) == s \o (t \o u) = (s \o t) \o u

LEMMA ConcatAssociates ==
    ASSUME NEW S, NEW s \in Seq(S), NEW t \in Seq(S), NEW u \in Seq(S)
    PROVE  Associates(s, t, u)
BY DEF Associates

LEMMA PrefixOfConcat ==
    ASSUME NEW S, NEW b \in Seq(S), NEW r \in Seq(S)
    PROVE  Ext!IsPrefix(b, b \o r) /\ Len(b) <= Len(b \o r)
BY DEF Ext!IsPrefix

(* Appending the next text, or the part of it that fits, keeps the line cut and nothing
   else wrong with it. *)
LEMMA CutStep ==
    ASSUME NEW S, NEW b \in Seq(S), NEW text \in Seq(S), NEW r \in Seq(S),
           NEW max \in Nat, Len(b) <= max
    PROVE  /\ b \o Taken(text, max - Len(b)) \in Seq(S)
           /\ Len(b \o Taken(text, max - Len(b))) <= max
           /\ CutAt(max, b \o Taken(text, max - Len(b)), r, b \o (text \o r))
<1> DEFINE room == max - Len(b)
           t == Taken(text, room)
           whole == b \o (text \o r)
<1>0. room \in Nat /\ Len(b) \in Nat /\ Len(b) + room = max
  OBVIOUS
<1>1. /\ t \in Seq(S)
      /\ Len(text) <= room => t = text
      /\ ~(Len(text) <= room) => Len(t) = room /\ \A i \in 1 .. room : t[i] = text[i]
  <2> HIDE DEF room
  <2> QED
    BY <1>0, TakenIs
<1> HIDE DEF room, t
<1>2. b \o t \in Seq(S) /\ Len(b \o t) = Len(b) + Len(t)
  BY <1>1
<1>3. CASE Len(text) <= room
  <2>1. t = text
    BY <1>1, <1>3
  <2>2. (b \o text) \o r = whole
    OBVIOUS
  <2>3. Len(b \o t) <= max
    BY <1>0, <1>2, <1>3, <2>1
  <2> QED
    BY <1>2, <2>1, <2>2, <2>3 DEF CutAt, room, t
<1>4. CASE ~(Len(text) <= room)
  <2>1. Len(t) = room /\ \A i \in 1 .. room : t[i] = text[i]
    BY <1>1, <1>4
  <2> DEFINE u == SubSeq(text, room + 1, Len(text))
  <2>2. u \in Seq(S) /\ Len(u) = Len(text) - room /\ \A i \in 1 .. Len(text) - room : u[i] = text[room + i]
    BY <1>0, <1>4
  <2> HIDE DEF u
  <2>3. t \o u = text
    <3>1. /\ t \o u \in Seq(S) /\ Len(t \o u) = Len(text)
          /\ \A k \in 1 .. Len(text) : (t \o u)[k] = IF k <= room THEN t[k] ELSE u[k - room]
      <4>1. Len(t) + Len(u) = Len(text)
        BY <1>0, <2>1, <2>2
      <4>2. /\ t \o u \in Seq(S) /\ Len(t \o u) = Len(t) + Len(u)
            /\ \A k \in 1 .. Len(t) + Len(u) :
                  (t \o u)[k] = IF k <= Len(t) THEN t[k] ELSE u[k - Len(t)]
        BY <1>1, <2>2, ConcatFacts
      <4> QED
        BY <2>1, <4>1, <4>2
    <3>2. \A k \in 1 .. Len(text) : (t \o u)[k] = text[k]
      <4> TAKE k \in 1 .. Len(text)
      <4>1. CASE k <= room
        BY <2>1, <3>1, <4>1
      <4>2. CASE ~(k <= room)
        <5>1. k - room \in 1 .. Len(text) - room /\ room + (k - room) = k
          BY <1>0, <4>2
        <5> QED
          BY <2>2, <3>1, <4>2, <5>1
      <4> QED
        BY <4>1, <4>2
    <3> QED
      BY <3>1, <3>2, SameSeq
  <2>4. whole = (b \o t) \o (u \o r) /\ u \o r \in Seq(S)
    <3>1. (t \o u) \o r = t \o (u \o r) /\ u \o r \in Seq(S)
      <4>1. Associates(t, u, r)
        BY <1>1, <2>2, ConcatAssociates
      <4>2. u \o r \in Seq(S)
        BY <2>2
      <4> QED
        BY <4>1, <4>2, Zenon DEF Associates
    <3>2. b \o (t \o (u \o r)) = (b \o t) \o (u \o r)
      <4> DEFINE v == u \o r
      <4>1. v \in Seq(S)
        BY <3>1
      <4> HIDE DEF v
      <4>2. Associates(b, t, v)
        BY <1>1, <4>1, ConcatAssociates
      <4> QED
        BY <4>2, Zenon DEF Associates, v
    <3> QED
      BY <2>3, <3>1, <3>2
  <2>5. Ext!IsPrefix(b \o t, whole)
    BY <1>2, <2>4, PrefixOfConcat
  <2>6. Len(b \o t) = max
    BY <1>0, <1>2, <2>1
  <2> HIDE DEF whole
  <2>7. Len(b \o t) <= max
    BY <1>0, <2>6
  <2>8. CutAt(max, b \o t, r, whole)
    BY <2>5, <2>6 DEF CutAt
  <2> QED
    BY <1>2, <2>7, <2>8 DEF room, t, whole
<1> QED
  BY <1>3, <1>4

-----------------------------------------------------------------------------
(* One iteration: what it writes, how far it moves, and that this is what the format
   means there. *)

Plain(f, list) ==
    \A n \in 2 .. Len(f) :
        f[n - 1] = "%" /\ f[n] \in {"u", "x", "X"}
           => \A k \in DOMAIN list : list[k].num < WordSize \div 2

ReadsAt(f, list, q, k) ==
    /\ f \in Seq(Character) /\ list \in Seq(Argument)
    /\ q \in 1 .. Len(f) /\ Enough(f, list, q, k)

Writes(f, list, q, k, text, skip, taken) ==
    /\ text \in Seq(Glyph) /\ skip \in Nat /\ taken \in Nat
    /\ q + skip \in 1 .. Len(f) + 1 /\ Enough(f, list, q + skip, k + taken)
    /\ Plain(f, list) =>
          Rest(f, list)[q][k] = text \o Rest(f, list)[q + skip][k + taken]

LEMMA AtFacts ==
    ASSUME NEW f, NEW list, NEW q, NEW k, ReadsAt(f, list, q, k)
    PROVE  /\ f \in Seq(STRING) /\ Len(f) \in Nat /\ Len(list) \in Nat
           /\ q \in 1 .. Len(f) + 1 /\ q \in Nat /\ f[q] \in STRING
           /\ q + 1 \in 1 .. Len(f) + 1 /\ q + 1 \in Nat /\ q <= q + 1
           /\ k \in Nat /\ k + 0 = k /\ Enough(f, list, q, k)
           /\ Unfolds(Rest(f, list), q, k, f, list)
<1>1. /\ f \in Seq(Character) /\ list \in Seq(Argument)
      /\ q \in 1 .. Len(f) /\ Enough(f, list, q, k)
  BY DEF ReadsAt
<1>2. f \in Seq(STRING)
  <2>1. Len(f) \in Nat /\ \A i \in 1 .. Len(f) : f[i] \in STRING
    BY <1>1 DEF Character
  <2> QED
    BY <1>1, <2>1
<1>3. /\ Len(f) \in Nat /\ Len(list) \in Nat /\ q \in Nat /\ q \in 1 .. Len(f) + 1
      /\ q + 1 \in 1 .. Len(f) + 1 /\ q + 1 \in Nat /\ q <= q + 1 /\ f[q] \in STRING
  BY <1>1, <1>2
<1>4. k \in Nat /\ k + 0 = k
  BY <1>1 DEF Enough
<1>5. Unfolds(Rest(f, list), q, k, f, list)
  BY <1>3, <1>4, RestSteps
<1> QED
  BY <1>1, <1>2, <1>3, <1>4, <1>5

LEMMA WritesCharacter ==
    ASSUME NEW f, NEW list, NEW q, NEW k, ReadsAt(f, list, q, k), f[q] # "%"
    PROVE  Writes(f, list, q, k, <<f[q]>>, 1, 0)
<1> DEFINE R == Rest(f, list)
<1>1. /\ Len(f) \in Nat /\ Len(list) \in Nat
      /\ q \in Nat /\ f[q] \in STRING
      /\ q + 1 \in 1 .. Len(f) + 1 /\ q + 1 \in Nat /\ q <= q + 1
      /\ k \in Nat /\ k + 0 = k /\ Enough(f, list, q, k)
      /\ Unfolds(R, q, k, f, list)
  BY AtFacts
<1> HIDE DEF R
<1>2. <<f[q]>> \in Seq(Glyph)
  BY <1>1 DEF Glyph
<1>3. Enough(f, list, q + 1, k)
  BY <1>1, EnoughSkip
<1>4. q <= Len(f)
  BY DEF ReadsAt
<1>5. R[q][k] = <<f[q]>> \o R[q + 1][k]
  BY <1>1, <1>4 DEF Unfolds
<1>6. 1 \in Nat /\ 0 \in Nat
  OBVIOUS
<1> QED
  BY <1>1, <1>2, <1>3, <1>5, <1>6 DEF Writes, R

LEMMA WritesNothing ==
    ASSUME NEW f, NEW list, NEW q, NEW k, ReadsAt(f, list, q, k), f[q] = "%", q = Len(f)
    PROVE  Writes(f, list, q, k, <<>>, 1, 0)
<1> DEFINE R == Rest(f, list)
<1>1. /\ Len(f) \in Nat /\ Len(list) \in Nat
      /\ q \in Nat
      /\ q + 1 \in 1 .. Len(f) + 1 /\ q + 1 \in Nat /\ q <= q + 1
      /\ k \in Nat /\ k + 0 = k /\ Enough(f, list, q, k)
      /\ Unfolds(R, q, k, f, list)
  BY AtFacts
<1>2. Unfolds(R, q + 1, k, f, list)
  BY <1>1, RestSteps
<1> HIDE DEF R
<1>3. Enough(f, list, q + 1, k)
  BY <1>1, EnoughSkip
<1>4. R[q][k] = <<>>
  BY <1>1 DEF Unfolds
<1>5. q + 1 > Len(f)
  BY <1>1
<1>6. R[q + 1][k] = <<>>
  BY <1>2, <1>5 DEF Unfolds
<1>7. 1 \in Nat /\ 0 \in Nat /\ <<>> \in Seq(Glyph) /\ <<>> \o <<>> = <<>>
  OBVIOUS
<1> QED
  BY <1>1, <1>3, <1>4, <1>6, <1>7 DEF Writes, R

(* A conversion: what it writes need only be what it means when the format is plain. *)
LEMMA WritesConversion ==
    ASSUME NEW f, NEW list, NEW q, NEW k, ReadsAt(f, list, q, k), f[q] = "%", q < Len(f),
           NEW text \in Seq(Glyph), Plain(f, list) => text = Text(f[q + 1], list[k])
    PROVE  /\ f[q + 1] \in Taking => Writes(f, list, q, k, text, 2, 1)
           /\ f[q + 1] \notin Taking => Writes(f, list, q, k, text, 2, 0)
<1> DEFINE R == Rest(f, list)
<1>1. /\ Len(f) \in Nat /\ Len(list) \in Nat
      /\ q \in Nat
      /\ k \in Nat /\ k + 0 = k /\ Enough(f, list, q, k)
      /\ Unfolds(R, q, k, f, list)
  BY AtFacts
<1> HIDE DEF R
<1>2. /\ q + 2 \in 1 .. Len(f) + 1 /\ q + 2 \in Nat /\ q <= q + 2 /\ q < q + 2
      /\ q \in 1 .. Len(f) - 1 /\ 0 \in Nat /\ 1 \in Nat /\ 2 \in Nat
  BY <1>1 DEF ReadsAt
<1>3. R[q][k] = Text(f[q + 1], list[k])
                   \o R[q + 2][IF f[q + 1] \in Taking THEN k + 1 ELSE k]
  BY <1>1 DEF Unfolds
<1>4. CASE f[q + 1] \in Taking
  <2>1. q \in Conversions(f)
    BY <1>2, <1>4 DEF Conversions
  <2>2. Enough(f, list, q + 2, k + 1)
    BY <1>1, <1>2, <2>1, EnoughTake
  <2>3. R[q][k] = Text(f[q + 1], list[k]) \o R[q + 2][k + 1]
    BY <1>3, <1>4
  <2> QED
    BY <1>2, <1>4, <2>2, <2>3 DEF Writes, R
<1>5. CASE f[q + 1] \notin Taking
  <2>1. Enough(f, list, q + 2, k)
    BY <1>1, <1>2, EnoughSkip
  <2>2. R[q][k] = Text(f[q + 1], list[k]) \o R[q + 2][k]
    BY <1>3, <1>5
  <2> QED
    BY <1>1, <1>2, <1>5, <2>1, <2>2 DEF Writes, R
<1> QED
  BY <1>4, <1>5

LEMMA TakesArgument ==
    ASSUME NEW f, NEW list, NEW q, NEW k, ReadsAt(f, list, q, k), f[q] = "%", q < Len(f),
           f[q + 1] \in Taking
    PROVE  k \in DOMAIN list /\ list[k] \in Argument
<1>1. /\ Len(f) \in Nat /\ Len(list) \in Nat /\ q \in Nat /\ q + 1 \in Nat
      /\ Enough(f, list, q, k)
  BY AtFacts
<1>2. q \in 1 .. Len(f) - 1 /\ q < q + 1
  BY <1>1 DEF ReadsAt
<1>3. q \in Conversions(f)
  BY <1>2 DEF Conversions
<1>4. k \in 1 .. Len(list)
  BY <1>1, <1>2, <1>3, EnoughTake
<1>5. list \in Seq(Argument)
  BY DEF ReadsAt
<1> QED
  BY <1>4, <1>5

LEMMA WritesNumber ==
    ASSUME NEW f, NEW list, NEW q, NEW k, ReadsAt(f, list, q, k), f[q] = "%", q < Len(f)
    PROVE  /\ f[q + 1] \in {"d", "u"} =>
                 Writes(f, list, q, k, itoa(AsInt(list[k].num), 10), 2, 1)
           /\ f[q + 1] = "x" =>
                 Writes(f, list, q, k, itoa(AsInt(list[k].num), 16), 2, 1)
           /\ f[q + 1] = "X" =>
                 Writes(f, list, q, k, Upper(itoa(AsInt(list[k].num), 16)), 2, 1)
<1> SUFFICES ASSUME f[q + 1] \in {"d", "u", "x", "X"}
             PROVE  /\ f[q + 1] \in {"d", "u"} =>
                          Writes(f, list, q, k, itoa(AsInt(list[k].num), 10), 2, 1)
                    /\ f[q + 1] = "x" =>
                          Writes(f, list, q, k, itoa(AsInt(list[k].num), 16), 2, 1)
                    /\ f[q + 1] = "X" =>
                          Writes(f, list, q, k, Upper(itoa(AsInt(list[k].num), 16)), 2, 1)
  OBVIOUS
<1> DEFINE num == list[k].num
           decimal == itoa(AsInt(num), 10)
           hex == itoa(AsInt(num), 16)
           upper == Upper(itoa(AsInt(num), 16))
<1>1. f[q + 1] \in Taking
  BY DEF Taking
<1>2. k \in DOMAIN list /\ list[k] \in Argument
  BY <1>1, TakesArgument
<1>3. num \in 0 .. WordSize - 1
  BY <1>2 DEF Argument
<1> HIDE DEF num
<1>4. decimal = Signed(AsInt(num)) /\ decimal \in Seq(Glyph)
  BY <1>3, ItoaSigned
<1>5. hex \in Seq(Glyph) /\ upper \in Seq(Glyph)
  BY <1>3, ItoaHex
<1>6. ASSUME Plain(f, list), f[q + 1] \in {"u", "x", "X"}
      PROVE  /\ decimal = Numeral(num, 10, Digit) /\ hex = Numeral(num, 16, Digit)
             /\ upper = Numeral(num, 16, UpperDigit)
  <2>1. q + 1 \in 2 .. Len(f) /\ (q + 1) - 1 = q
    BY DEF ReadsAt
  <2>2. f[(q + 1) - 1] = "%"
    BY <2>1
  <2>3. num < WordSize \div 2
    BY <1>2, <1>6, <2>1, <2>2 DEF Plain, num
  <2> QED
    BY <1>3, <2>3, ItoaUnsigned
<1> HIDE DEF decimal, hex, upper
<1>7. CASE f[q + 1] \in {"d", "u"}
  <2>1. Plain(f, list) => decimal = Text(f[q + 1], list[k])
    BY <1>4, <1>6, <1>7 DEF Text, num
  <2>2. Writes(f, list, q, k, decimal, 2, 1)
    BY <1>1, <1>4, <2>1, WritesConversion
  <2> QED
    BY <1>7, <2>2 DEF decimal, num
<1>8. CASE f[q + 1] = "x"
  <2>1. Plain(f, list) => hex = Text(f[q + 1], list[k])
    BY <1>6, <1>8 DEF Text, num
  <2>2. Writes(f, list, q, k, hex, 2, 1)
    BY <1>1, <1>5, <2>1, WritesConversion
  <2> QED
    BY <1>8, <2>2 DEF hex, num
<1>9. CASE f[q + 1] = "X"
  <2>1. Plain(f, list) => upper = Text(f[q + 1], list[k])
    BY <1>6, <1>9 DEF Text, num
  <2>2. Writes(f, list, q, k, upper, 2, 1)
    BY <1>1, <1>5, <2>1, WritesConversion
  <2> QED
    BY <1>9, <2>2 DEF upper, num
<1> QED
  BY <1>7, <1>8, <1>9

(* The conversions that write what they mean for every argument. *)
LEMMA WritesText ==
    ASSUME NEW f, NEW list, NEW q, NEW k, ReadsAt(f, list, q, k), f[q] = "%", q < Len(f)
    PROVE  /\ f[q + 1] \in Taking =>
                 Writes(f, list, q, k, Text(f[q + 1], list[k]), 2, 1)
           /\ f[q + 1] \notin Taking =>
                 Writes(f, list, q, k, Text(f[q + 1], list[k]), 2, 0)
<1> DEFINE text == Text(f[q + 1], list[k])
<1>1. f \in Seq(STRING) /\ q \in Nat /\ Len(f) \in Nat
  BY AtFacts
<1>2. q + 1 \in 1 .. Len(f)
  BY <1>1
<1>3. f[q + 1] \in STRING
  BY <1>1, <1>2
<1>4. f[q + 1] \in Taking => list[k] \in Argument
  BY TakesArgument
<1>5. text \in Seq(Glyph)
  BY <1>3, <1>4, TextIsSeq
<1>6. Plain(f, list) => text = Text(f[q + 1], list[k])
  OBVIOUS
<1> HIDE DEF text
<1>7. /\ f[q + 1] \in Taking => Writes(f, list, q, k, text, 2, 1)
      /\ f[q + 1] \notin Taking => Writes(f, list, q, k, text, 2, 0)
  BY <1>5, <1>6, WritesConversion
<1> QED
  BY <1>7 DEF text

(* The line after the iteration, of which max bytes fit. *)
LEMMA CutKept ==
    ASSUME NEW f, NEW list, NEW q, NEW k, ReadsAt(f, list, q, k),
           NEW text, NEW skip, NEW taken, Writes(f, list, q, k, text, skip, taken),
           NEW b \in Seq(Glyph), NEW max \in Nat, Len(b) < max, NEW whole
    PROVE  /\ b \o Taken(text, max - Len(b)) \in Seq(Glyph)
           /\ Len(b \o Taken(text, max - Len(b))) <= max
           /\ Plain(f, list) /\ CutAt(max, b, Rest(f, list)[q][k], whole)
                 => CutAt(max, b \o Taken(text, max - Len(b)),
                          Rest(f, list)[q + skip][k + taken], whole)
<1> DEFINE r == Rest(f, list)[q + skip][k + taken]
           s == Rest(f, list)[q][k]
<1>1. /\ text \in Seq(Glyph) /\ q + skip \in 1 .. Len(f) + 1
      /\ Enough(f, list, q + skip, k + taken)
      /\ Plain(f, list) => s = text \o r
  BY DEF Writes
<1>2. f \in Seq(STRING) /\ list \in Seq(Argument)
  BY AtFacts DEF ReadsAt
<1>3. r \in Seq(Glyph)
  BY <1>1, <1>2, RestIsSeq
<1> HIDE DEF r, s
<1>4. Len(b) <= max /\ Len(b) # max
  OBVIOUS
<1>5. /\ b \o Taken(text, max - Len(b)) \in Seq(Glyph)
      /\ Len(b \o Taken(text, max - Len(b))) <= max
      /\ CutAt(max, b \o Taken(text, max - Len(b)), r, b \o (text \o r))
  BY <1>1, <1>3, <1>4, CutStep
<1>6. ASSUME Plain(f, list), CutAt(max, b, s, whole)
      PROVE  CutAt(max, b \o Taken(text, max - Len(b)), r, whole)
  <2>1. whole = b \o s
    BY <1>4, <1>6 DEF CutAt
  <2>2. whole = b \o (text \o r)
    BY <1>1, <1>6, <2>1
  <2> QED
    BY <1>5, <2>2
<1> QED
  BY <1>5, <1>6 DEF r, s

-----------------------------------------------------------------------------
(* The steps of the module. *)

Iterates(text, skip, taken) ==
    Emit(Taken(text, Room), skip, taken) /\ Writes(format, args, p, a, text, skip, taken)

LEMMA LogSizeFacts == LogSize - 1 \in Nat /\ LogSize \in Nat
BY FormatAssumption

LEMMA ContinuesAt ==
    ASSUME FormatInv, Continues
    PROVE  /\ ReadsAt(format, args, p, a) /\ busy /\ Room \in Nat /\ Room > 0
           /\ Len(buf) < LogSize - 1 /\ Room = (LogSize - 1) - Len(buf)
<1>1. Len(format) \in Nat /\ Len(buf) \in Nat
  BY DEF FormatInv
<1>2. p \in 1 .. Len(format) + 1 /\ p <= Len(format) /\ Enough(format, args, p, a)
  BY DEF FormatInv, Continues
<1>3. p \in 1 .. Len(format)
  BY <1>1, <1>2
<1>4. ReadsAt(format, args, p, a)
  BY <1>2, <1>3 DEF ReadsAt, FormatInv
<1>5. Room > 0 /\ busy
  BY DEF Continues
<1>6. Room \in Nat /\ Len(buf) < LogSize - 1 /\ Room = (LogSize - 1) - Len(buf)
  BY <1>1, <1>5, LogSizeFacts DEF Room
<1> QED
  BY <1>4, <1>5, <1>6

(* Every iteration of the loop writes what the format means there, as far as it fits. *)
LEMMA IterationWrites ==
    ASSUME FormatInv,
           copy_character \/ convert_number \/ convert_string \/ convert_character
              \/ lone_percent \/ unknown_specifier
    PROVE  Continues /\ \E text, skip, taken : Iterates(text, skip, taken)
<1>0. Continues
  BY DEF copy_character, convert_number, convert_string, convert_character, lone_percent,
         unknown_specifier
<1>1. ReadsAt(format, args, p, a) /\ Room \in Nat /\ Room > 0
  BY <1>0, ContinuesAt
<1>2. Len(format) \in Nat /\ p \in 1 .. Len(format) /\ format \in Seq(Character)
  BY <1>1, AtFacts DEF ReadsAt
<1>3. p < Len(format) => Specifier = format[p + 1] /\ Specifier # "end"
  <2> SUFFICES ASSUME p < Len(format)
               PROVE  Specifier = format[p + 1] /\ Specifier # "end"
    OBVIOUS
  <2>1. p + 1 \in 1 .. Len(format)
    BY <1>2
  <2>2. format[p + 1] \in Character
    BY <1>2, <2>1
  <2> QED
    BY <2>2 DEF Specifier, Character
<1>4. ~(p < Len(format)) => Specifier = "end" /\ p = Len(format)
  BY <1>2 DEF Specifier
<1>5. \A str : Fitting(str) = Taken(str, Room)
  BY DEF Fitting, Taken
<1>6. \A c : Taken(<<c>>, Room) = <<c>> /\ Taken(<<>>, Room) = <<>>
  <2> TAKE c
  <2>1. c \in {c}
    OBVIOUS
  <2> QED
    BY <1>1, <2>1, TakenOne
<1>7. CASE copy_character
  <2>1. format[p] # "%" /\ Emit(<<format[p]>>, 1, 0)
    BY <1>7 DEF copy_character
  <2>2. Writes(format, args, p, a, <<format[p]>>, 1, 0)
    BY <1>1, <2>1, WritesCharacter
  <2>3. Taken(<<format[p]>>, Room) = <<format[p]>>
    BY <1>6
  <2>4. Iterates(<<format[p]>>, 1, 0)
    BY <2>1, <2>2, <2>3 DEF Iterates
  <2> QED
    BY <1>0, <2>4
<1>8. CASE convert_number
  <2>1. format[p] = "%" /\ Specifier \in {"d", "u", "x", "X"}
    BY <1>8 DEF convert_number
  <2>2. p < Len(format) /\ Specifier = format[p + 1]
    BY <1>3, <1>4, <2>1
  <2>3. CASE Specifier \in {"d", "u"} /\ Emit(Fitting(itoa(AsInt(args[a].num), 10)), 2, 1)
    <3>1. Writes(format, args, p, a, itoa(AsInt(args[a].num), 10), 2, 1)
      BY <1>1, <2>1, <2>2, <2>3, WritesNumber
    <3>2. Iterates(itoa(AsInt(args[a].num), 10), 2, 1)
      BY <1>5, <2>3, <3>1 DEF Iterates
    <3> QED
      BY <1>0, <3>2
  <2>4. CASE Specifier = "x" /\ Emit(Fitting(itoa(AsInt(args[a].num), 16)), 2, 1)
    <3>1. Writes(format, args, p, a, itoa(AsInt(args[a].num), 16), 2, 1)
      BY <1>1, <2>1, <2>2, <2>4, WritesNumber
    <3>2. Iterates(itoa(AsInt(args[a].num), 16), 2, 1)
      BY <1>5, <2>4, <3>1 DEF Iterates
    <3> QED
      BY <1>0, <3>2
  <2>5. CASE Specifier = "X" /\ Emit(Fitting(Upper(itoa(AsInt(args[a].num), 16))), 2, 1)
    <3>1. Writes(format, args, p, a, Upper(itoa(AsInt(args[a].num), 16)), 2, 1)
      BY <1>1, <2>1, <2>2, <2>5, WritesNumber
    <3>2. Iterates(Upper(itoa(AsInt(args[a].num), 16)), 2, 1)
      BY <1>5, <2>5, <3>1 DEF Iterates
    <3> QED
      BY <1>0, <3>2
  <2> QED
    BY <1>8, <2>3, <2>4, <2>5 DEF convert_number
<1>9. CASE convert_string
  <2> DEFINE str == IF args[a].null THEN <<"(", "n", "u", "l", "l", ")">> ELSE args[a].str
  <2>1. format[p] = "%" /\ Specifier = "s" /\ Emit(Fitting(str), 2, 1)
    BY <1>9 DEF convert_string
  <2>2. p < Len(format) /\ format[p + 1] = "s"
    BY <1>3, <1>4, <2>1
  <2>3. Text(format[p + 1], args[a]) = str /\ format[p + 1] \in Taking
    BY <2>2 DEF Text, Taking
  <2>4. Writes(format, args, p, a, str, 2, 1)
    <3> HIDE DEF str
    <3> QED
      BY <1>1, <2>1, <2>2, <2>3, WritesText
  <2> HIDE DEF str
  <2>5. Iterates(str, 2, 1)
    BY <1>5, <2>1, <2>4 DEF Iterates
  <2> QED
    BY <1>0, <2>5
<1>10. CASE convert_character
  <2>1. format[p] = "%" /\ Specifier \in {"c", "%"}
    BY <1>10 DEF convert_character
  <2>2. p < Len(format) /\ Specifier = format[p + 1]
    BY <1>3, <1>4, <2>1
  <2>3. CASE Specifier = "c" /\ Emit(<<args[a].chr>>, 2, 1)
    <3>1. Text(format[p + 1], args[a]) = <<args[a].chr>> /\ format[p + 1] \in Taking
      BY <2>2, <2>3 DEF Text, Taking
    <3>2. Writes(format, args, p, a, <<args[a].chr>>, 2, 1)
      BY <1>1, <2>1, <2>2, <3>1, WritesText
    <3>3. Taken(<<args[a].chr>>, Room) = <<args[a].chr>>
      BY <1>6
    <3>4. Iterates(<<args[a].chr>>, 2, 1)
      BY <2>3, <3>2, <3>3 DEF Iterates
    <3> QED
      BY <1>0, <3>4
  <2>4. CASE Specifier = "%" /\ Emit(<<"%">>, 2, 0)
    <3>1. Text(format[p + 1], args[a]) = <<"%">> /\ format[p + 1] \notin Taking
      BY <2>2, <2>4 DEF Text, Taking
    <3>2. Writes(format, args, p, a, <<"%">>, 2, 0)
      BY <1>1, <2>1, <2>2, <3>1, WritesText
    <3>3. Taken(<<"%">>, Room) = <<"%">>
      BY <1>6
    <3>4. Iterates(<<"%">>, 2, 0)
      BY <2>4, <3>2, <3>3 DEF Iterates
    <3> QED
      BY <1>0, <3>4
  <2> QED
    BY <1>10, <2>3, <2>4 DEF convert_character
<1>11. CASE lone_percent
  <2>1. format[p] = "%" /\ Specifier = "end" /\ Emit(<<>>, 1, 0)
    BY <1>11 DEF lone_percent
  <2>2. p = Len(format)
    BY <1>3, <1>4, <2>1
  <2>3. Writes(format, args, p, a, <<>>, 1, 0)
    BY <1>1, <2>1, <2>2, WritesNothing
  <2>4. Taken(<<>>, Room) = <<>>
    BY <1>6
  <2>5. Iterates(<<>>, 1, 0)
    BY <2>1, <2>3, <2>4 DEF Iterates
  <2> QED
    BY <1>0, <2>5
<1>12. CASE unknown_specifier
  <2>1. /\ format[p] = "%" /\ Specifier \notin {"d", "u", "x", "X", "s", "c", "%", "end"}
        /\ Emit(Fitting(<<"%", Specifier>>), 2, 0)
    BY <1>12 DEF unknown_specifier
  <2>2. p < Len(format) /\ Specifier = format[p + 1]
    BY <1>3, <1>4, <2>1
  <2>3. Text(format[p + 1], args[a]) = <<"%", Specifier>> /\ format[p + 1] \notin Taking
    BY <2>1, <2>2 DEF Text, Taking
  <2>4. Writes(format, args, p, a, <<"%", Specifier>>, 2, 0)
    BY <1>1, <2>1, <2>2, <2>3, WritesText
  <2>5. Iterates(<<"%", Specifier>>, 2, 0)
    BY <1>5, <2>1, <2>4 DEF Iterates
  <2> QED
    BY <1>0, <2>5
<1> QED
  BY <1>7, <1>8, <1>9, <1>10, <1>11, <1>12

LEMMA IterationKeeps ==
    ASSUME FormatInv, CutInv, Continues, NEW text, NEW skip, NEW taken,
           Iterates(text, skip, taken)
    PROVE  FormatInv' /\ CutInv'
<1> DEFINE max == LogSize - 1
           b == buf \o Taken(text, max - Len(buf))
           q == p + skip
           k == a + taken
           whole == Meaning(format, args)
<1>1. /\ ReadsAt(format, args, p, a) /\ busy /\ Len(buf) < max /\ Room = max - Len(buf)
      /\ max \in Nat /\ buf \in Seq(Glyph)
  BY ContinuesAt, LogSizeFacts DEF FormatInv
<1>2. Writes(format, args, p, a, text, skip, taken)
  BY DEF Iterates
<1>3. /\ b \in Seq(Glyph) /\ Len(b) <= max
      /\ Plain(format, args) /\ CutAt(max, buf, Rest(format, args)[p][a], whole)
            => CutAt(max, b, Rest(format, args)[q][k], whole)
  <2> HIDE DEF max, whole
  <2> QED
    BY <1>1, <1>2, CutKept
<1>4. /\ buf' = b /\ p' = q /\ a' = k
      /\ current_log_level' = current_log_level /\ busy' = busy /\ format' = format /\ args' = args
  BY <1>1 DEF Iterates, Emit
<1>5. q \in 1 .. Len(format) + 1 /\ Enough(format, args, q, k)
  BY <1>2 DEF Writes
<1>6. Unambiguous <=> Plain(format, args)
  BY DEF Unambiguous, Plain
<1>7. Plain(format, args) => CutAt(max, b, Rest(format, args)[q][k], whole)
  BY <1>1, <1>3, <1>6 DEF CutInv
<1> HIDE DEF b, q, k
<1>8. FormatInv'
  BY <1>3, <1>4, <1>5 DEF FormatInv
<1>9. Unambiguous' <=> Plain(format, args)
  BY <1>4 DEF Unambiguous, Plain
<1>10. Meaning(format, args)' = whole
  BY <1>4
<1>11. CutInv'
  BY <1>1, <1>4, <1>7, <1>9, <1>10 DEF CutInv
<1> QED
  BY <1>8, <1>11

(* At its start a line is empty and everything is still to be written. *)
LEMMA WholeAtStart ==
    ASSUME NEW f \in Seq(Character), NEW list \in Seq(Argument),
           Cardinality(Conversions(f)) <= Len(list)
    PROVE  /\ 1 \in 1 .. Len(f) + 1 /\ Enough(f, list, 1, 1)
           /\ Meaning(f, list) \in Seq(Glyph)
           /\ CutAt(LogSize - 1, <<>>, Rest(f, list)[1][1], Meaning(f, list))
<1>1. /\ f \in Seq(STRING) /\ Len(f) \in Nat /\ Len(list) \in Nat /\ 1 \in 1 .. Len(f) + 1
      /\ 1 \in Nat \ {0}
  <2>1. Len(f) \in Nat /\ \A i \in 1 .. Len(f) : f[i] \in STRING
    BY DEF Character
  <2> QED
    BY <2>1
<1>2. Left(f, 1) = Conversions(f)
  BY <1>1 DEF Left, Conversions
<1>3. Cardinality(Left(f, 1)) \in Nat
  <2>1. 1 \in Nat /\ 1 <= 1
    OBVIOUS
  <2> QED
    BY <1>1, <2>1, FewerLeft
<1>4. (1 - 1) + Cardinality(Left(f, 1)) <= Len(list)
  <2> DEFINE c == Cardinality(Left(f, 1))
  <2>1. c \in Nat /\ c <= Len(list)
    BY <1>2, <1>3
  <2> HIDE DEF c
  <2>2. (1 - 1) + c <= Len(list)
    BY <1>1, <2>1
  <2> QED
    BY <2>2 DEF c
<1>5. Enough(f, list, 1, 1)
  BY <1>1, <1>4 DEF Enough
<1> DEFINE r == Rest(f, list)[1][1]
<1>6. r \in Seq(Glyph)
  BY <1>1, <1>5, RestIsSeq
<1>7. Meaning(f, list) = r
  BY DEF Meaning
<1> HIDE DEF r
<1>8. r = <<>> \o r
  BY <1>6
<1> QED
  BY <1>1, <1>5, <1>6, <1>7, <1>8 DEF CutAt, r

(* A line whose format is used up, or whose buffer is full, is the whole meaning or its
   beginning of that length. *)
CutLine(max, b, whole) ==
    Ext!IsPrefix(b, whole) /\ Len(b) = IF Len(whole) <= max THEN Len(whole) ELSE max

LEMMA CutPrefix ==
    ASSUME NEW S, NEW b \in Seq(S), NEW r \in Seq(S), NEW max \in Nat, Len(b) <= max,
           NEW whole, CutAt(max, b, r, whole)
    PROVE  /\ Ext!IsPrefix(b, whole)
           /\ r = <<>> \/ Len(b) = max => CutLine(max, b, whole)
<1>1. CASE whole = b \o r
  <2>1. Ext!IsPrefix(b, b \o r) /\ Len(b) <= Len(b \o r)
    BY PrefixOfConcat
  <2>2. Len(b \o r) \in Nat /\ Len(b) \in Nat
    OBVIOUS
  <2>3. r = <<>> => Len(b \o r) = Len(b)
    OBVIOUS
  <2> DEFINE n == Len(b \o r)
             l == Len(b)
  <2>4. r = <<>> \/ l = max => l = IF n <= max THEN n ELSE max
    <3>1. n \in Nat /\ l \in Nat /\ l <= n /\ l <= max /\ (r = <<>> => n = l)
      BY <2>1, <2>2, <2>3
    <3> HIDE DEF n, l
    <3>2. CASE r = <<>>
      BY <3>1, <3>2
    <3>3. CASE l = max
      BY <3>1, <3>3
    <3> QED
      BY <3>2, <3>3
  <2> QED
    BY <1>1, <2>1, <2>4 DEF CutLine
<1>2. CASE Len(b) = max /\ Ext!IsPrefix(b, whole)
  <2>1. Len(b) <= Len(whole)
    BY <1>2 DEF Ext!IsPrefix
  <2> QED
    BY <1>2, <2>1 DEF CutLine
<1> QED
  BY <1>1, <1>2 DEF CutAt

(* At the end of the loop. *)
LEMMA DoneIsCut ==
    ASSUME FormatInv, CutInv, busy, ~Continues, Unambiguous
    PROVE  CutLine(LogSize - 1, buf, Meaning(format, args))
<1> DEFINE r == Rest(format, args)[p][a]
           max == LogSize - 1
           whole == Meaning(format, args)
<1>0. format \in Seq(STRING) /\ Len(format) \in Nat
  <2>1. format \in Seq(Character)
    BY DEF FormatInv
  <2>2. Len(format) \in Nat /\ \A i \in 1 .. Len(format) : format[i] \in STRING
    BY <2>1 DEF Character
  <2> QED
    BY <2>1, <2>2
<1>1. /\ args \in Seq(Argument) /\ p \in 1 .. Len(format) + 1 /\ Enough(format, args, p, a)
      /\ a \in Nat /\ buf \in Seq(Glyph) /\ Len(buf) <= max /\ max \in Nat
  BY LogSizeFacts DEF FormatInv, Enough
<1>2. r \in Seq(Glyph)
  BY <1>0, <1>1, RestIsSeq
<1>3. CutAt(max, buf, r, whole)
  BY DEF CutInv
<1>4. ~(p <= Len(format)) \/ ~(Room > 0)
  BY DEF Continues
<1>5. ~(p <= Len(format)) => r = <<>>
  <2> SUFFICES ASSUME ~(p <= Len(format)) PROVE r = <<>>
    OBVIOUS
  <2>1. p > Len(format)
    BY <1>0, <1>1
  <2>2. Unfolds(Rest(format, args), p, a, format, args)
    BY <1>0, <1>1, RestSteps
  <2> QED
    BY <2>1, <2>2 DEF Unfolds
<1>6. ~(Room > 0) => Len(buf) = max
  BY <1>1 DEF Room
<1> HIDE DEF r, max, whole
<1>7. CutLine(max, buf, whole)
  BY <1>1, <1>2, <1>3, <1>4, <1>5, <1>6, CutPrefix
<1> QED
  BY <1>7 DEF max, whole

LEMMA FormatStarts == FormatInit => FormatInv /\ CutInv
<1> SUFFICES ASSUME FormatInit PROVE FormatInv /\ CutInv
  OBVIOUS
<1>1. <<>> \in Seq(Character) /\ <<>> \in Seq(Argument) /\ <<>> \in Seq(Glyph) /\ Len(<<>>) = 0
  OBVIOUS
<1>2. Conversions(<<>>) = {}
  BY <1>1 DEF Conversions
<1>3. Cardinality(Conversions(<<>>)) <= Len(<<>>)
  BY <1>1, <1>2, FS_EmptySet
<1>4. /\ 1 \in 1 .. Len(<<>>) + 1 /\ Enough(<<>>, <<>>, 1, 1)
      /\ Meaning(<<>>, <<>>) \in Seq(Glyph)
      /\ CutAt(LogSize - 1, <<>>, Rest(<<>>, <<>>)[1][1], Meaning(<<>>, <<>>))
  BY <1>1, <1>3, WholeAtStart
<1>5. FormatInv
  <2>1. Len(<<>>) <= LogSize - 1
    BY <1>1, LogSizeFacts
  <2> QED
    BY <1>1, <1>4, <2>1, FormatAssumption DEF FormatInit, FormatInv
<1>6. Rest(<<>>, <<>>)[1][1] = <<>>
  <2>1. 1 > Len(<<>>) /\ Len(<<>>) \in Nat /\ 1 \in Nat
    BY <1>1
  <2>2. Unfolds(Rest(<<>>, <<>>), 1, 1, <<>>, <<>>)
    BY <1>4, <2>1, RestSteps
  <2> QED
    BY <2>1, <2>2 DEF Unfolds
<1>7. CutLine(LogSize - 1, <<>>, Meaning(<<>>, <<>>))
  <2> DEFINE r == Rest(<<>>, <<>>)[1][1]
             max == LogSize - 1
  <2>1. Len(<<>>) <= max /\ max \in Nat /\ r = <<>> /\ r \in Seq(Glyph)
    <3>1. Len(<<>>) <= max /\ max \in Nat
      BY <1>1, LogSizeFacts
    <3> HIDE DEF max
    <3> QED
      BY <1>1, <1>6, <3>1
  <2> HIDE DEF r, max
  <2>2. CutAt(max, <<>>, r, Meaning(<<>>, <<>>))
    BY <1>4 DEF r, max
  <2>3. CutLine(max, <<>>, Meaning(<<>>, <<>>))
    BY <1>1, <2>1, <2>2, CutPrefix
  <2> QED
    BY <2>3 DEF max
<1>8. LineIsCutMeaning
  BY <1>7 DEF LineIsCutMeaning, CutLine, FormatInit
<1> QED
  BY <1>5, <1>8 DEF CutInv, FormatInit

LEMMA FormatKeeps == FormatInv /\ CutInv /\ [FormatNext]_formatVars => FormatInv' /\ CutInv'
<1> SUFFICES ASSUME FormatInv, CutInv, [FormatNext]_formatVars
             PROVE  FormatInv' /\ CutInv'
  OBVIOUS
<1>1. ASSUME NEW level \in Levels, log_set_level(level)
      PROVE  FormatInv' /\ CutInv'
  <2>1. /\ current_log_level' \in Levels /\ busy' = busy /\ format' = format /\ args' = args
        /\ p' = p /\ a' = a /\ buf' = buf
    BY <1>1 DEF log_set_level
  <2>2. FormatInv'
    BY <2>1 DEF FormatInv
  <2>3. CutInv'
    BY <2>1 DEF CutInv, Unambiguous, LineIsCutMeaning
  <2> QED
    BY <2>2, <2>3
<1>2. ASSUME NEW level \in Levels, NEW f \in Formats, NEW list \in Arguments,
             log_printf(level, f, list)
      PROVE  FormatInv' /\ CutInv'
  <2>1. /\ current_log_level' = current_log_level /\ busy' = TRUE /\ format' = f /\ args' = list
        /\ p' = 1 /\ a' = 1 /\ buf' = <<>>
    BY <1>2 DEF log_printf
  <2>2. f \in Seq(Character) /\ list \in Seq(Argument) /\ Cardinality(Conversions(f)) <= Len(list)
    BY FormatAssumption
  <2>3. /\ 1 \in 1 .. Len(f) + 1 /\ Enough(f, list, 1, 1)
        /\ CutAt(LogSize - 1, <<>>, Rest(f, list)[1][1], Meaning(f, list))
    BY <2>2, WholeAtStart
  <2>4. <<>> \in Seq(Glyph) /\ Len(<<>>) <= LogSize - 1
    BY LogSizeFacts
  <2>5. FormatInv'
    BY <2>1, <2>2, <2>3, <2>4 DEF FormatInv
  <2>6. CutInv'
    BY <2>1, <2>3 DEF CutInv
  <2> QED
    BY <2>5, <2>6
<1>3. ASSUME copy_character \/ convert_number \/ convert_string \/ convert_character
                \/ lone_percent \/ unknown_specifier
      PROVE  FormatInv' /\ CutInv'
  <2>1. Continues /\ \E text, skip, taken : Iterates(text, skip, taken)
    BY <1>3, IterationWrites
  <2>2. PICK text, skip, taken : Iterates(text, skip, taken)
    BY <2>1
  <2> QED
    BY <2>1, <2>2, IterationKeeps
<1>4. ASSUME log_vprintf_done PROVE FormatInv' /\ CutInv'
  <2>1. /\ busy /\ ~Continues /\ busy' = FALSE
        /\ current_log_level' = current_log_level /\ format' = format /\ args' = args
        /\ p' = p /\ a' = a /\ buf' = buf
    BY <1>4 DEF log_vprintf_done
  <2>2. FormatInv'
    BY <2>1 DEF FormatInv
  <2>3. Unambiguous => CutLine(LogSize - 1, buf, Meaning(format, args))
    BY <2>1, DoneIsCut
  <2>4. LineIsCutMeaning'
    BY <2>1, <2>3 DEF LineIsCutMeaning, Unambiguous, CutLine
  <2>5. CutInv'
    BY <2>1, <2>4 DEF CutInv
  <2> QED
    BY <2>2, <2>5
<1>5. CASE UNCHANGED formatVars
  <2>1. /\ current_log_level' = current_log_level /\ busy' = busy /\ format' = format /\ args' = args
        /\ p' = p /\ a' = a /\ buf' = buf
    BY <1>5 DEF formatVars
  <2>2. FormatInv'
    BY <2>1 DEF FormatInv
  <2>3. CutInv'
    BY <2>1 DEF CutInv, Unambiguous, LineIsCutMeaning
  <2> QED
    BY <2>2, <2>3
<1> QED
  BY <1>1, <1>2, <1>3, <1>4, <1>5 DEF FormatNext

(* The state of the formatter is well typed, and the line is never longer than the
   buffer of log_vprintf less its terminating zero. *)
THEOREM FormatTypeCorrect == FormatSpec => []FormatTypeOK
<1>1. FormatInv => FormatTypeOK
  BY DEF FormatInv, FormatTypeOK
<1> QED
  BY <1>1, FormatStarts, FormatKeeps, PTL DEF FormatSpec

(* For every format, argument list, size of the buffer and width of the int: what
   vsnprintf has put into the buffer is the meaning of the format, cut at the size of the
   buffer and nowhere else. *)
THEOREM LineIsCutMeaningAlways == FormatSpec => []LineIsCutMeaning
<1>1. FormatInv /\ CutInv => LineIsCutMeaning
  <2> SUFFICES ASSUME FormatInv, CutInv, busy, Unambiguous
               PROVE  Ext!IsPrefix(buf, Meaning(format, args))
    BY DEF CutInv, FormatInv, LineIsCutMeaning
  <2> DEFINE r == Rest(format, args)[p][a]
             max == LogSize - 1
  <2>1. format \in Seq(STRING)
    <3>1. format \in Seq(Character)
      BY DEF FormatInv
    <3>2. Len(format) \in Nat /\ \A i \in 1 .. Len(format) : format[i] \in STRING
      BY <3>1 DEF Character
    <3> QED
      BY <3>1, <3>2
  <2>2. /\ args \in Seq(Argument) /\ p \in 1 .. Len(format) + 1 /\ Enough(format, args, p, a)
        /\ buf \in Seq(Glyph) /\ Len(buf) <= max /\ max \in Nat
    BY LogSizeFacts DEF FormatInv
  <2>3. r \in Seq(Glyph)
    BY <2>1, <2>2, RestIsSeq
  <2>4. CutAt(max, buf, r, Meaning(format, args))
    BY DEF CutInv
  <2> HIDE DEF r, max
  <2> QED
    BY <2>2, <2>3, <2>4, CutPrefix
<1> QED
  BY <1>1, FormatStarts, FormatKeeps, PTL DEF FormatSpec
=============================================================================
