------------------------- MODULE GrafanaQuery_proofs -------------------------
(***************************************************************************)
(* Theorems about the calendar, about the reductions of data points, and   *)
(* about the queries of Grafana, which use both.                           *)
(*                                                                         *)
(*   1. Calendar, for any lengths of units and months and any ladder of    *)
(*      aggregators that nest.                                             *)
(*   2. Downsampling, for any points in ascending order.                   *)
(*   3. Queries, for any series, observations and requests.                *)
(***************************************************************************)
EXTENDS GrafanaQuery, Recursion, FiniteSetTheorems, TLAPS

-----------------------------------------------------------------------------
(* 1. Calendar. Arithmetic first.                                          *)

(* Quotient and remainder of a number of ticks.                            *)
LEMMA Division ==
  ASSUME NEW t \in Nat, NEW n \in Nat \ {0}
  PROVE  /\ t \div n \in Nat
         /\ t % n \in 0 .. n - 1
         /\ t = (t \div n) * n + (t % n)
OBVIOUS

(* Multiples of n are ordered as their factors.                            *)
LEMMA Order ==
  ASSUME NEW a \in Int, NEW b \in Int, NEW n \in Nat \ {0}, a * n < (b + 1) * n
  PROVE  a <= b
OBVIOUS

(* Multiplication is associative: units are multiples of multiples.        *)
LEMMA Associate ==
  ASSUME NEW a \in Int, NEW b \in Int, NEW c \in Int
  PROVE  (a * b) * c = a * (b * c)
OBVIOUS

(* What leaves no remainder is a multiple.                                 *)
LEMMA DividesWhole ==
  ASSUME NEW m \in Nat \ {0}, NEW n \in Nat \ {0}, m % n = 0
  PROVE  \E q \in Nat : m = q * n
<1>1. m \div n \in Nat /\ m = (m \div n) * n + (m % n)
  BY Division
<1>2. (m \div n) * n \in Nat
  BY <1>1
<1>3. m = (m \div n) * n
  BY <1>1, <1>2
<1> QED
  BY <1>1, <1>3

-----------------------------------------------------------------------------
(* Periods of a fixed length.                                              *)

FixedUnit == {"1m", "1h", "1d"}

(* A minute, an hour and a day have positive lengths.                      *)
LEMMA UnitType ==
  ASSUME NEW u \in FixedUnit
  PROVE  UnitLength[u] \in Nat \ {0}
BY UnitAssumption DEF FixedUnit

(* The period of t ends at the first multiple of the length of the unit,   *)
(* from t on.                                                              *)
LEMMA ShunkIsCeiling ==
  ASSUME NEW u \in FixedUnit, NEW t \in Nat
  PROVE  /\ Shunk(u, t) \in Nat
         /\ \E q \in Nat : Shunk(u, t) = q * UnitLength[u]
         /\ t <= Shunk(u, t)
         /\ Shunk(u, t) - UnitLength[u] < t
<1> DEFINE n == UnitLength[u]
<1>0. n \in Nat \ {0} /\ u # "1mo"
  BY UnitType DEF FixedUnit
<1> HIDE DEF n
<1>1. /\ t \div n \in Nat
      /\ t % n \in 0 .. n - 1
      /\ t = (t \div n) * n + (t % n)
  BY <1>0, Division
<1>2. CASE t % n = 0
  <2>1. Shunk(u, t) = t
    BY <1>0, <1>2 DEF Shunk, IsBorder, n
  <2>2. t = (t \div n) * n
    BY <1>0, <1>1, <1>2
  <2>3. \E q \in Nat : Shunk(u, t) = q * n
    BY <1>1, <2>1, <2>2
  <2>4. t - n < t
    BY <1>0
  <2> QED
    BY <2>1, <2>3, <2>4 DEF n
<1>3. CASE t % n # 0
  <2>1. Shunk(u, t) = (t \div n) * n + n
    BY <1>0, <1>3 DEF Shunk, IsBorder, ShunkAfter, TruncatedTo, n
  <2>2. (t \div n) * n + n = ((t \div n) + 1) * n
    BY <1>0, <1>1
  <2>3. (t \div n) + 1 \in Nat /\ (t \div n) * n \in Nat
    BY <1>0, <1>1
  <2>4. \E q \in Nat : Shunk(u, t) = q * n
    BY <2>1, <2>2, <2>3
  <2>5. t % n > 0 /\ t % n < n
    BY <1>0, <1>1, <1>3
  <2>6. /\ Shunk(u, t) \in Nat
        /\ t <= Shunk(u, t) /\ Shunk(u, t) - n < t
    <3> DEFINE low == (t \div n) * n
               rest == t % n
    <3>1. low \in Nat /\ rest \in Nat /\ t = low + rest /\ rest > 0 /\ rest < n
           /\ Shunk(u, t) = low + n
      BY <1>1, <2>1, <2>3, <2>5
    <3> HIDE DEF low, rest
    <3> QED
      BY <1>0, <3>1
  <2> QED
    BY <2>4, <2>6 DEF n
<1> QED
  BY <1>2, <1>3

(* An instant is in the range ]start, end] of its period.                  *)
THEOREM InOwnRange ==
  ASSUME NEW u \in FixedUnit, NEW t \in Nat
  PROVE  RangeOf(u, Shunk(u, t))[1] < t /\ t <= RangeOf(u, Shunk(u, t))[2]
<1>1. u # "1mo"
  BY DEF FixedUnit
<1> QED
  BY <1>1, ShunkIsCeiling DEF RangeOf

(* There is one multiple of n in ]t - n, t] only.                          *)
LEMMA UniqueCeiling ==
  ASSUME NEW n \in Nat \ {0}, NEW t \in Nat, NEW a \in Nat, NEW b \in Nat,
         t <= a * n, a * n - n < t, t <= b * n, b * n - n < t
  PROVE  a * n = b * n
<1>1. a * n \in Nat /\ b * n \in Nat
  OBVIOUS
<1>2. a * n < (b + 1) * n /\ b * n < (a + 1) * n
  <2>1. (b + 1) * n = b * n + n /\ (a + 1) * n = a * n + n
    OBVIOUS
  <2> QED
    BY <1>1, <2>1
<1>3. a <= b /\ b <= a
  BY <1>2, Order
<1> QED
  BY <1>3

(* The periods of a unit are made of whole periods of any unit that        *)
(* divides it: going through the finer unit does not change the period.    *)
THEOREM PeriodsNest ==
  ASSUME NEW u \in FixedUnit, NEW v \in FixedUnit, NEW t \in Nat,
         UnitLength[v] % UnitLength[u] = 0
  PROVE  Shunk(v, Shunk(u, t)) = Shunk(v, t)
<1> DEFINE n == UnitLength[u]
           m == UnitLength[v]
           c == Shunk(u, t)
           e == Shunk(v, t)
           f == Shunk(v, c)
<1>0. n \in Nat \ {0} /\ m \in Nat \ {0}
  BY UnitType
<1>1. c \in Nat /\ t <= c /\ c - n < t
  BY ShunkIsCeiling
<1>2. PICK qc \in Nat : c = qc * n
  BY ShunkIsCeiling
<1>3. e \in Nat /\ t <= e /\ e - m < t
  BY ShunkIsCeiling
<1>4. PICK qe \in Nat : e = qe * m
  BY ShunkIsCeiling
<1>5. f \in Nat /\ c <= f /\ f - m < c
  BY <1>1, ShunkIsCeiling
<1>6. PICK qf \in Nat : f = qf * m
  BY <1>1, ShunkIsCeiling
<1>7. PICK k \in Nat : m = k * n
  <2>1. m \div n \in Nat /\ m = (m \div n) * n + (m % n)
    BY <1>0, Division
  <2>2. m = (m \div n) * n
    BY <1>0, <2>1
  <2> QED
    BY <2>1, <2>2
<1> HIDE DEF n, m, c, e, f
<1>8. c <= e
  <2>1. e = (qe * k) * n
    BY <1>0, <1>4, <1>7, Associate
  <2>2. qe * k \in Nat
    BY <1>4, <1>7
  <2>3. c < e + n
    BY <1>0, <1>1, <1>3
  <2>4. qc * n < (qe * k + 1) * n
    <3>1. (qe * k + 1) * n = (qe * k) * n + n
      BY <1>0, <2>2
    <3> QED
      BY <1>2, <2>1, <2>3, <3>1
  <2>5. qc <= qe * k
    BY <1>0, <1>2, <2>2, <2>4, Order
  <2>6. qc * n <= (qe * k) * n
    BY <1>0, <1>2, <2>2, <2>5
  <2> QED
    BY <1>2, <2>1, <2>6
<1>9. e - m < c
  BY <1>0, <1>1, <1>3
<1>10. qe * m = qf * m
  BY <1>0, <1>1, <1>3, <1>4, <1>5, <1>6, <1>8, <1>9, UniqueCeiling
<1> QED
  BY <1>4, <1>6, <1>10 DEF c, e, f

-----------------------------------------------------------------------------
(* Months.                                                                 *)

LastMonth == Len(MonthDays)

(* A day has a positive length, and a month 28 to 31 days.                 *)
LEMMA DayAndMonths ==
  /\ Day \in Nat \ {0}
  /\ LastMonth \in Nat /\ LastMonth >= 3
  /\ \A i \in 1 .. LastMonth : /\ MonthDays[i] \in 28 .. 31
                       /\ MonthDays[i] * Day \in Nat
                       /\ 28 * Day <= MonthDays[i] * Day
                       /\ MonthDays[i] * Day <= 31 * Day
<1>1. Day \in Nat \ {0} /\ LastMonth \in Nat /\ LastMonth >= 3
  BY UnitAssumption, MonthAssumption, HorizonAssumption DEF Day, LastMonth
<1>2. \A i \in 1 .. LastMonth : MonthDays[i] \in 28 .. 31
  BY MonthAssumption DEF LastMonth
<1>3. \A k \in 28 .. 31 : /\ k * Day \in Nat
                          /\ 28 * Day <= k * Day /\ k * Day <= 31 * Day
  BY <1>1
<1> QED BY <1>1, <1>2, <1>3

(* The definition by recursion gives the start of every month.             *)
LEMMA MonthStartDef ==
  MonthStart = [i \in 1 .. LastMonth + 1 |->
                  IF i = 1 THEN 0 ELSE MonthStart[i - 1] + MonthDays[i - 1] * Day]
<1> DEFINE Starts(f, n) ==
             f = [i \in 1 .. n + 1 |->
                    IF i = 1 THEN 0 ELSE f[i - 1] + MonthDays[i - 1] * Day]
           T == {n \in Nat : \E f : Starts(f, n)}
<1>1. 0 \in T
  <2>1. Starts([i \in 1 .. 1 |-> 0], 0)
    OBVIOUS
  <2> QED BY <2>1
<1>2. ASSUME NEW n \in Nat, n \in T PROVE n + 1 \in T
  <2>1. PICK f : Starts(f, n)
    BY <1>2
  <2> DEFINE g == [i \in 1 .. (n + 1) + 1 |->
                     IF i = n + 2 THEN f[n + 1] + MonthDays[n + 1] * Day ELSE f[i]]
  <2>2. \A i \in 1 .. n + 1 : f[i] = IF i = 1 THEN 0
                                     ELSE f[i - 1] + MonthDays[i - 1] * Day
    BY <2>1
  <2>3. ASSUME NEW i \in 1 .. (n + 1) + 1
        PROVE  g[i] = IF i = 1 THEN 0 ELSE g[i - 1] + MonthDays[i - 1] * Day
    <3>1. CASE i = n + 2
      BY <3>1
    <3>2. CASE i # n + 2
      BY <2>2, <3>2
    <3> QED BY <3>1, <3>2
  <2>4. Starts(g, n + 1)
    BY <2>3
  <2> HIDE DEF Starts
  <2> QED BY <2>4
<1> HIDE DEF T
<1>3. LastMonth \in T
  BY <1>1, <1>2, Induction, DayAndMonths
<1>4. \E f : Starts(f, LastMonth)
  BY <1>3 DEF T
<1> QED BY <1>4 DEF MonthStart, LastMonth

(* Months follow one another, from the first instant on.                   *)
LEMMA MonthStartNext ==
  /\ MonthStart[1] = 0
  /\ \A i \in 1 .. LastMonth + 1 : MonthStart[i] \in Nat
  /\ \A i \in 1 .. LastMonth : MonthStart[i + 1] = MonthStart[i] + MonthDays[i] * Day
<1>1. \A i \in 1 .. LastMonth + 1 :
        MonthStart[i] = IF i = 1 THEN 0
                        ELSE MonthStart[i - 1] + MonthDays[i - 1] * Day
  BY MonthStartDef
<1>2. MonthStart[1] = 0
  BY <1>1, DayAndMonths
<1>3. ASSUME NEW i \in 1 .. LastMonth
      PROVE  MonthStart[i + 1] = MonthStart[i] + MonthDays[i] * Day
  <2>1. i + 1 \in 1 .. LastMonth + 1 /\ i + 1 # 1 /\ (i + 1) - 1 = i
    BY DayAndMonths
  <2>2. MonthStart[i + 1] = MonthStart[(i + 1) - 1] + MonthDays[(i + 1) - 1] * Day
    BY <1>1, <2>1
  <2> QED BY <2>1, <2>2
<1> DEFINE T == {n \in Nat : n <= LastMonth => MonthStart[n + 1] \in Nat}
<1>4. 0 \in T
  BY <1>2
<1>5. ASSUME NEW n \in Nat, n \in T PROVE n + 1 \in T
  <2>1. ASSUME n + 1 <= LastMonth PROVE MonthStart[(n + 1) + 1] \in Nat
    <3>1. n + 1 \in 1 .. LastMonth /\ MonthStart[n + 1] \in Nat
      BY <1>5, <2>1, DayAndMonths
    <3>2. MonthDays[n + 1] * Day \in Nat
      BY <3>1, DayAndMonths
    <3> QED BY <1>3, <3>1, <3>2
  <2> QED BY <2>1
<1> HIDE DEF T
<1>6. Nat \subseteq T
  BY <1>4, <1>5, Induction
<1>7. ASSUME NEW i \in 1 .. LastMonth + 1 PROVE MonthStart[i] \in Nat
  <2>1. i - 1 \in T /\ i - 1 <= LastMonth /\ (i - 1) + 1 = i
    BY <1>6, DayAndMonths
  <2> QED BY <2>1 DEF T
<1> QED BY <1>2, <1>3, <1>7

(* A month starts at least 28 days after the start of any month before it. *)
LEMMA MonthsGrow ==
  ASSUME NEW i \in 1 .. LastMonth + 1, NEW j \in 1 .. LastMonth + 1, i < j
  PROVE  MonthStart[i] + 28 * Day <= MonthStart[j]
<1> DEFINE T == {n \in Nat : i + n + 1 <= LastMonth + 1 =>
                               MonthStart[i] + 28 * Day <= MonthStart[i + n + 1]}
<1>0. Day \in Nat \ {0} /\ 28 * Day \in Nat /\ LastMonth \in Nat
  BY DayAndMonths
<1>1. 0 \in T
  <2>1. ASSUME i + 1 <= LastMonth + 1
        PROVE  MonthStart[i] + 28 * Day <= MonthStart[i + 1]
    <3>1. i \in 1 .. LastMonth /\ MonthStart[i] \in Nat
      BY <1>0, <2>1, MonthStartNext
    <3> QED BY <1>0, <3>1, MonthStartNext, DayAndMonths
  <2> QED BY <1>0, <2>1
<1>2. ASSUME NEW n \in Nat, n \in T PROVE n + 1 \in T
  <2>1. ASSUME i + (n + 1) + 1 <= LastMonth + 1
        PROVE  MonthStart[i] + 28 * Day <= MonthStart[i + (n + 1) + 1]
    <3>1. i + n + 1 \in 1 .. LastMonth /\ i + (n + 1) + 1 = (i + n + 1) + 1
      BY <1>0, <2>1
    <3>2. MonthStart[i] + 28 * Day <= MonthStart[i + n + 1]
      BY <1>0, <1>2, <2>1
    <3> DEFINE k == i + n + 1
    <3>3. /\ MonthStart[k + 1] = MonthStart[k] + MonthDays[k] * Day
          /\ MonthStart[k] \in Nat /\ MonthStart[i] \in Nat
          /\ MonthDays[k] * Day \in Nat
      BY <1>0, <3>1, MonthStartNext, DayAndMonths
    <3> HIDE DEF k
    <3>4. MonthStart[i] + 28 * Day <= MonthStart[k + 1]
      BY <1>0, <3>2, <3>3 DEF k
    <3> QED BY <3>1, <3>4 DEF k
  <2> QED BY <2>1
<1> HIDE DEF T
<1>3. j - i - 1 \in T
  BY <1>1, <1>2, Induction
<1>4. i + (j - i - 1) + 1 = j
  OBVIOUS
<1> QED BY <1>3, <1>4 DEF T

(* Any instant of the calendar is in one month.                            *)
LEMMA MonthOfIs ==
  ASSUME NEW t \in Int, NEW i \in 1 .. LastMonth, MonthStart[i] <= t, t < MonthStart[i + 1]
  PROVE  MonthOf(t) = i /\ StartOfMonth(t) = MonthStart[i]
<1>0. Day \in Nat \ {0} /\ LastMonth \in Nat
  BY DayAndMonths
<1>1. ASSUME NEW j \in 1 .. LastMonth, MonthStart[j] <= t, t < MonthStart[j + 1]
      PROVE  j = i
  <2>1. /\ MonthStart[i] \in Nat /\ MonthStart[i + 1] \in Nat
        /\ MonthStart[j] \in Nat /\ MonthStart[j + 1] \in Nat
    BY <1>0, MonthStartNext
  <2>2. ~ (j < i)
    <3>1. ASSUME j < i PROVE MonthStart[j + 1] <= MonthStart[i]
      <4>1. j + 1 = i \/ j + 1 < i
        BY <3>1
      <4>2. CASE j + 1 < i
        BY <1>0, <2>1, <4>2, MonthsGrow
      <4> QED BY <2>1, <4>1, <4>2
    <3> QED BY <1>1, <2>1, <3>1
  <2>3. ~ (i < j)
    <3>1. ASSUME i < j PROVE MonthStart[i + 1] <= MonthStart[j]
      <4>1. i + 1 = j \/ i + 1 < j
        BY <3>1
      <4>2. CASE i + 1 < j
        BY <1>0, <2>1, <4>2, MonthsGrow
      <4> QED BY <2>1, <4>1, <4>2
    <3> QED BY <1>1, <2>1, <3>1
  <2> QED BY <2>2, <2>3
<1>2. MonthOf(t) = i
  BY <1>1 DEF MonthOf, LastMonth
<1> QED BY <1>2 DEF StartOfMonth

(* That month exists.                                                      *)
LEMMA MonthOfType ==
  ASSUME NEW t \in Nat, t < MonthStart[LastMonth + 1]
  PROVE  /\ MonthOf(t) \in 1 .. LastMonth
         /\ MonthStart[MonthOf(t)] <= t /\ t < MonthStart[MonthOf(t) + 1]
         /\ StartOfMonth(t) = MonthStart[MonthOf(t)]
<1> DEFINE T == {j \in 1 .. LastMonth + 1 : t < MonthStart[j]}
<1>0. LastMonth \in Nat /\ LastMonth >= 3
  BY DayAndMonths
<1>1. LastMonth + 1 \in T /\ T \subseteq Nat
  BY <1>0
<1>2. PICK j \in T : \A k \in T : j <= k
  BY <1>1, LeastElement
<1>3. j # 1
  BY <1>2, MonthStartNext
<1>4. j - 1 \in 1 .. LastMonth /\ (j - 1) + 1 = j
  BY <1>0, <1>2, <1>3
<1>5. j - 1 \notin T
  BY <1>2, <1>4
<1>6. MonthStart[j - 1] <= t
  <2>1. j - 1 \in 1 .. LastMonth + 1 /\ MonthStart[j - 1] \in Nat
    BY <1>0, <1>4, MonthStartNext
  <2> QED BY <1>5, <2>1
<1>7. MonthOf(t) = j - 1 /\ StartOfMonth(t) = MonthStart[j - 1]
  BY <1>2, <1>4, <1>6, MonthOfIs
<1> QED BY <1>2, <1>4, <1>6, <1>7

(* The next instants of a month, until 28 days have passed, are in it.     *)
LEMMA MonthOfDay ==
  ASSUME NEW i \in 1 .. LastMonth, NEW d \in 1 .. MonthDays[i], NEW r \in 0 .. Day - 1
  PROVE  /\ MonthStart[i] + (d - 1) * Day + r \in Nat
         /\ MonthOf(MonthStart[i] + (d - 1) * Day + r) = i
         /\ StartOfMonth(MonthStart[i] + (d - 1) * Day + r) = MonthStart[i]
         /\ MonthStart[i] + (d - 1) * Day + r < MonthStart[LastMonth + 1]
<1> DEFINE D == MonthDays[i]
           t == MonthStart[i] + (d - 1) * Day + r
<1>1. Day \in Nat \ {0} /\ D \in Nat /\ d \in Nat \ {0} /\ d <= D
  BY DayAndMonths
<1>2. MonthStart[i] \in Nat /\ MonthStart[i + 1] = MonthStart[i] + D * Day
  BY DayAndMonths, MonthStartNext
<1> HIDE DEF D
<1>3. (d - 1) * Day \in Nat /\ (d - 1) * Day + Day <= D * Day
  <2>1. (d - 1) * Day + Day = d * Day /\ d * Day <= D * Day
    BY <1>1
  <2> QED BY <1>1, <2>1
<1>4. t \in Nat /\ MonthStart[i] <= t /\ t < MonthStart[i + 1]
  <2> DEFINE p == (d - 1) * Day
             q == D * Day
  <2>1. p \in Nat /\ q \in Nat /\ p + Day <= q
    BY <1>1, <1>3
  <2> HIDE DEF p, q
  <2> QED BY <1>1, <1>2, <2>1 DEF p, q
<1>5. t < MonthStart[LastMonth + 1]
  <2>1. /\ i + 1 \in 1 .. LastMonth + 1 /\ LastMonth + 1 \in 1 .. LastMonth + 1
        /\ MonthStart[i + 1] \in Nat /\ MonthStart[LastMonth + 1] \in Nat
    BY DayAndMonths, MonthStartNext
  <2>2. CASE i < LastMonth
    <3>1. MonthStart[i + 1] + 28 * Day <= MonthStart[LastMonth + 1]
      BY <2>1, <2>2, DayAndMonths, MonthsGrow
    <3> QED BY <1>1, <1>4, <2>1, <3>1
  <2>3. CASE i = LastMonth
    BY <1>4, <2>3
  <2> QED BY <2>2, <2>3, DayAndMonths
<1> QED BY <1>4, <1>5, MonthOfIs

(* A month starts at the start of a day.                                   *)
LEMMA MonthStartWhole ==
  ASSUME NEW i \in 1 .. LastMonth + 1
  PROVE  \E q \in Nat : MonthStart[i] = q * Day
<1> DEFINE T == {n \in Nat : n <= LastMonth => \E q \in Nat : MonthStart[n + 1] = q * Day}
<1>0. Day \in Nat \ {0} /\ LastMonth \in Nat
  BY DayAndMonths
<1>1. 0 \in T
  <2>1. MonthStart[0 + 1] = 0 * Day
    BY <1>0, MonthStartNext
  <2> QED BY <2>1
<1>2. ASSUME NEW n \in Nat, n \in T PROVE n + 1 \in T
  <2>1. ASSUME n + 1 <= LastMonth
        PROVE  \E q \in Nat : MonthStart[(n + 1) + 1] = q * Day
    <3>1. PICK q \in Nat : MonthStart[n + 1] = q * Day
      BY <1>0, <1>2, <2>1
    <3>2. n + 1 \in 1 .. LastMonth /\ MonthDays[n + 1] \in Nat
      BY <1>0, <2>1, DayAndMonths
    <3>3. MonthStart[(n + 1) + 1] = MonthStart[n + 1] + MonthDays[n + 1] * Day
      BY <3>2, MonthStartNext
    <3>4. q * Day + MonthDays[n + 1] * Day = (q + MonthDays[n + 1]) * Day
      BY <1>0, <3>2
    <3>5. q + MonthDays[n + 1] \in Nat
      BY <3>2
    <3> QED BY <3>1, <3>3, <3>4, <3>5
  <2> QED BY <2>1
<1> HIDE DEF T
<1>3. i - 1 \in T /\ i - 1 <= LastMonth /\ (i - 1) + 1 = i
  BY <1>0, <1>1, <1>2, Induction
<1> QED BY <1>3 DEF T

(* A multiple of n leaves no remainder.                                    *)
LEMMA NoRemainder ==
  ASSUME NEW q \in Nat, NEW n \in Nat \ {0}
  PROVE  (q * n) % n = 0 /\ (q * n) \div n = q
<1> DEFINE t == q * n
           p == t \div n
           r == t % n
<1>1. t \in Nat
  OBVIOUS
<1> HIDE DEF t
<1>2. p \in Nat /\ r \in 0 .. n - 1 /\ t = p * n + r
  BY <1>1, Division
<1> HIDE DEF p, r
<1>3. p * n \in Nat /\ (p + 1) * n = p * n + n /\ (q + 1) * n = q * n + n
  BY <1>2
<1>4. p * n < (q + 1) * n /\ q * n < (p + 1) * n
  BY <1>1, <1>2, <1>3 DEF t
<1>5. p <= q /\ q <= p
  BY <1>2, <1>4, Order
<1>6. p = q
  BY <1>2, <1>5
<1>7. r = 0
  BY <1>1, <1>2, <1>3, <1>6 DEF t
<1> QED BY <1>6, <1>7 DEF t, p, r

(* Going some months further or back leads to that month.                  *)
LEMMA PlusMonthsIn ==
  ASSUME NEW t \in Nat, t < MonthStart[LastMonth + 1], NEW n \in Int,
         MonthOf(t) + n \in 1 .. LastMonth
  PROVE  /\ PlusMonths(t, n) \in Nat
         /\ MonthOf(PlusMonths(t, n)) = MonthOf(t) + n
         /\ StartOfMonth(PlusMonths(t, n)) = MonthStart[MonthOf(t) + n]
         /\ PlusMonths(t, n) < MonthStart[LastMonth + 1]
<1> DEFINE i == MonthOf(t)
           m == i + n
           k == DayOfMonth(t)
           d == IF k <= MonthDays[m] THEN k ELSE MonthDays[m]
<1>1. i \in 1 .. LastMonth /\ MonthStart[i] <= t /\ MonthStart[i] \in Nat
  BY MonthOfType, MonthStartNext, DayAndMonths
<1>2. Day \in Nat \ {0} /\ t % Day \in 0 .. Day - 1 /\ MonthDays[m] \in 28 .. 31
  BY DayAndMonths
<1>3. k \in Nat \ {0}
  <2>1. t - MonthStart[i] \in Nat /\ k = (t - MonthStart[i]) \div Day + 1
    BY <1>1 DEF DayOfMonth
  <2>2. (t - MonthStart[i]) \div Day \in Nat
    BY <1>2, <2>1, Division
  <2> QED BY <2>1, <2>2
<1>4. d \in 1 .. MonthDays[m]
  BY <1>2, <1>3
<1>5. PlusMonths(t, n) = MonthStart[m] + (d - 1) * Day + (t % Day)
  BY DEF PlusMonths
<1> HIDE DEF i, k, d
<1> QED BY <1>2, <1>4, <1>5, MonthOfDay DEF i

(* The end of a month, a month earlier, is its start.                      *)
LEMMA MonthBack ==
  ASSUME NEW i \in 2 .. LastMonth
  PROVE  PlusMonths(MonthStart[i], -1) = MonthStart[i - 1]
<1> DEFINE t == MonthStart[i]
<1>0. Day \in Nat \ {0} /\ LastMonth \in Nat
  BY DayAndMonths
<1>1. /\ i \in 1 .. LastMonth /\ i - 1 \in 1 .. LastMonth /\ t \in Nat
      /\ MonthStart[i - 1] \in Nat
  BY <1>0, MonthStartNext
<1>2. t < MonthStart[i + 1]
  <2>1. MonthStart[i] + 28 * Day <= MonthStart[i + 1] /\ MonthStart[i + 1] \in Nat
    BY <1>0, <1>1, MonthsGrow, MonthStartNext
  <2> QED BY <1>0, <1>1, <2>1
<1>3. MonthOf(t) = i
  BY <1>1, <1>2, MonthOfIs
<1>4. DayOfMonth(t) = 1
  <2>1. t - MonthStart[i] = 0 /\ 0 \div Day = 0
    BY <1>0, <1>1
  <2> QED BY <1>3, <2>1 DEF DayOfMonth
<1>5. t % Day = 0
  <2>1. PICK q \in Nat : t = q * Day
    BY <1>0, <1>1, MonthStartWhole
  <2> QED BY <1>0, <2>1, NoRemainder
<1>6. 1 <= MonthDays[i + (-1)] /\ i + (-1) = i - 1
  BY <1>0, <1>1, DayAndMonths
<1>7. PlusMonths(t, -1) = MonthStart[i - 1] + (1 - 1) * Day + 0
  BY <1>3, <1>4, <1>5, <1>6 DEF PlusMonths
<1> QED BY <1>0, <1>1, <1>7

-----------------------------------------------------------------------------
(* Periods of a month.                                                     *)

(* The period of t ends at the first start of a month, from t on.          *)
LEMMA MonthShunk ==
  ASSUME NEW t \in Nat, NEW i \in 2 .. LastMonth,
         MonthStart[i - 1] < t, t <= MonthStart[i]
  PROVE  Shunk("1mo", t) = MonthStart[i]
<1>0. Day \in Nat \ {0} /\ LastMonth \in Nat
  BY DayAndMonths
<1>1. /\ i \in 1 .. LastMonth /\ i - 1 \in 1 .. LastMonth /\ (i - 1) + 1 = i
      /\ MonthStart[i] \in Nat /\ MonthStart[i - 1] \in Nat
      /\ MonthStart[i + 1] \in Nat /\ MonthStart[LastMonth + 1] \in Nat
  BY <1>0, MonthStartNext
<1>2. MonthStart[i] < MonthStart[i + 1]
  <2>1. MonthStart[i] + 28 * Day <= MonthStart[i + 1]
    BY <1>0, MonthsGrow
  <2> QED BY <1>0, <1>1, <2>1
<1>3. CASE t = MonthStart[i]
  BY <1>1, <1>2, <1>3, MonthOfIs DEF Shunk, IsBorder
<1>4. CASE t # MonthStart[i]
  <2>1. MonthOf(t) = i - 1 /\ StartOfMonth(t) = MonthStart[i - 1]
    <3> DEFINE k == i - 1
    <3>1. /\ k \in 1 .. LastMonth /\ MonthStart[k] <= t
          /\ t < MonthStart[k + 1] /\ MonthStart[k] \in Nat
      BY <1>1, <1>4
    <3> HIDE DEF k
    <3>2. MonthOf(t) = k /\ StartOfMonth(t) = MonthStart[k]
      BY <3>1, MonthOfIs
    <3> QED BY <3>2 DEF k
  <2>2. t < MonthStart[LastMonth + 1]
    <3>1. MonthStart[i] + 28 * Day <= MonthStart[LastMonth + 1]
      BY <1>0, <1>1, MonthsGrow
    <3> QED BY <1>0, <1>1, <3>1
  <2>3. StartOfMonth(PlusMonths(t, 1)) = MonthStart[i]
    <3>1. MonthOf(t) + 1 = i
      BY <1>1, <2>1
    <3> QED BY <1>1, <2>2, <3>1, PlusMonthsIn
  <2> QED BY <1>1, <2>1, <2>3 DEF Shunk, IsBorder, ShunkAfter
<1> QED BY <1>3, <1>4

(* The instants with a month before them, and two after.                   *)
InCalendar(t) ==
  t \in Nat /\ MonthStart[2] <= t /\ t <= MonthStart[LastMonth - 1]

(* Such an instant is in the month that ends at the start of a month.      *)
LEMMA MonthAround ==
  ASSUME NEW t, InCalendar(t)
  PROVE  \E i \in 2 .. LastMonth - 1 : MonthStart[i - 1] < t /\ t <= MonthStart[i]
<1> DEFINE T == {j \in 1 .. LastMonth - 1 : t <= MonthStart[j]}
<1>0. /\ LastMonth \in Nat /\ LastMonth >= 3 /\ t \in Nat
      /\ Day \in Nat \ {0}
  BY DayAndMonths DEF InCalendar
<1>1. LastMonth - 1 \in T /\ T \subseteq Nat
  BY <1>0 DEF InCalendar
<1>2. PICK j \in T : \A k \in T : j <= k
  BY <1>1, LeastElement
<1>3. j # 1
  <2>1. MonthStart[1] + 28 * Day <= MonthStart[2] /\ MonthStart[2] \in Nat
        /\ MonthStart[1] = 0
    BY <1>0, MonthsGrow, MonthStartNext
  <2> QED BY <1>0, <1>2, <2>1 DEF InCalendar
<1>4. j - 1 \in 1 .. LastMonth - 1 /\ j - 1 \notin T
  BY <1>0, <1>2, <1>3
<1>5. MonthStart[j - 1] < t
  <2>1. j - 1 \in 1 .. LastMonth + 1 /\ MonthStart[j - 1] \in Nat
    BY <1>0, <1>4, MonthStartNext
  <2> QED BY <1>0, <1>4, <2>1
<1> QED BY <1>2, <1>4, <1>5

(* A minute, an hour and a day are whole parts of a day.                   *)
LEMMA UnitInDay ==
  ASSUME NEW u \in FixedUnit
  PROVE  \E q \in Nat : Day = q * UnitLength[u]
<1> DEFINE m == UnitLength["1m"]
           h == UnitLength["1h"]
           d == UnitLength["1d"]
<1>0. m \in Nat \ {0} /\ h \in Nat \ {0} /\ d \in Nat \ {0} /\ Day = d
  BY UnitAssumption DEF Day
<1>1. h % m = 0 /\ d % h = 0
  BY UnitAssumption
<1> HIDE DEF m, h, d
<1>2. PICK b \in Nat : h = b * m
  BY <1>0, <1>1, DividesWhole
<1>3. PICK c \in Nat : d = c * h
  BY <1>0, <1>1, DividesWhole
<1>4. d = (c * b) * m /\ c * b \in Nat
  BY <1>0, <1>2, <1>3, Associate
<1>5. d = 1 * d
  BY <1>0
<1> QED BY <1>0, <1>3, <1>4, <1>5 DEF FixedUnit, m, h, d

(* No period of a minute, an hour or a day crosses the start of a month.   *)
LEMMA ShunkInMonth ==
  ASSUME NEW u \in FixedUnit, NEW t \in Nat, NEW i \in 1 .. LastMonth + 1,
         t <= MonthStart[i]
  PROVE  Shunk(u, t) <= MonthStart[i]
<1> DEFINE n == UnitLength[u]
           s == Shunk(u, t)
           e == MonthStart[i]
<1>1. n \in Nat \ {0} /\ s \in Nat /\ s - n < t /\ e \in Nat
  BY UnitType, ShunkIsCeiling, MonthStartNext
<1>2. PICK q \in Nat : s = q * n
  BY ShunkIsCeiling
<1>3. PICK a \in Nat : e = a * Day
  BY MonthStartWhole
<1>4. PICK b \in Nat : Day = b * n
  BY UnitInDay
<1> HIDE DEF n, s, e
<1>5. e = (a * b) * n /\ a * b \in Nat
  BY <1>1, <1>3, <1>4, Associate
<1>6. q * n < (a * b + 1) * n
  <2>1. (a * b + 1) * n = (a * b) * n + n
    BY <1>1, <1>5
  <2>2. t <= e
    BY DEF e
  <2> QED BY <1>1, <1>2, <1>5, <2>1, <2>2
<1>7. q <= a * b
  BY <1>1, <1>5, <1>6, Order
<1>8. q * n <= (a * b) * n
  BY <1>1, <1>5, <1>7
<1> QED BY <1>2, <1>5, <1>8 DEF s, e

-----------------------------------------------------------------------------
(* The cascade of the configured aggregators.                              *)

Unit == FixedUnit \cup {"1mo"}

(* A period of v is made of whole periods of u.                            *)
Divides(u, v) ==
  \/ v = "1mo"
  \/ u \in FixedUnit /\ v \in FixedUnit /\ UnitLength[v] % UnitLength[u] = 0

NestedCascade ==
  \A i \in 1 .. Len(Aggregators) :
    i + 1 \in 1 .. Len(Aggregators) => Divides(Aggregators[i], Aggregators[i + 1])

(* The configured aggregators are numbered.                                *)
LEMMA LengthType ==
  /\ Len(Aggregators) \in Nat
  /\ \A i \in 1 .. Len(Aggregators) : Aggregators[i] \in Unit
BY AggregatorsAssumption DEF Unit, FixedUnit

(* The timestamps of clients have months around them.                      *)
LEMMA HorizonInCalendar == \A t \in Horizon : InCalendar(t)
<1>1. /\ MonthStart[2] \in Nat /\ MonthStart[LastMonth - 1] \in Nat
  BY DayAndMonths, MonthStartNext
<1> QED BY <1>1, HorizonAssumption DEF InCalendar, LastMonth

(* The end of a period of a month is the start of another one.             *)
LEMMA MonthShunkIs ==
  ASSUME NEW t, InCalendar(t)
  PROVE  \E i \in 2 .. LastMonth - 1 :
           /\ Shunk("1mo", t) = MonthStart[i]
           /\ MonthStart[i - 1] < t /\ t <= MonthStart[i]
<1>1. PICK i \in 2 .. LastMonth - 1 : MonthStart[i - 1] < t /\ t <= MonthStart[i]
  BY MonthAround
<1>2. i \in 2 .. LastMonth /\ t \in Nat
  BY DayAndMonths DEF InCalendar
<1> QED BY <1>1, <1>2, MonthShunk

(* The ends of the periods of an instant of the calendar are in it.        *)
LEMMA ShunkStays ==
  ASSUME NEW a \in Unit, NEW t, InCalendar(t)
  PROVE  InCalendar(Shunk(a, t)) /\ t <= Shunk(a, t)
<1>0. /\ LastMonth \in Nat /\ LastMonth >= 3 /\ t \in Nat /\ Day \in Nat \ {0}
      /\ MonthStart[2] \in Nat /\ MonthStart[LastMonth - 1] \in Nat
  BY DayAndMonths, MonthStartNext DEF InCalendar
<1>1. CASE a \in FixedUnit
  <2>1. Shunk(a, t) \in Nat /\ t <= Shunk(a, t)
    BY <1>0, <1>1, ShunkIsCeiling
  <2>2. Shunk(a, t) <= MonthStart[LastMonth - 1]
    BY <1>0, <1>1, ShunkInMonth DEF InCalendar
  <2> QED BY <1>0, <2>1, <2>2 DEF InCalendar
<1>2. CASE a = "1mo"
  <2>1. PICK i \in 2 .. LastMonth - 1 :
           Shunk("1mo", t) = MonthStart[i] /\ t <= MonthStart[i]
    BY MonthShunkIs
  <2>2. i \in 1 .. LastMonth + 1 /\ MonthStart[i] \in Nat
    BY <1>0, MonthStartNext
  <2>3. MonthStart[i] <= MonthStart[LastMonth - 1]
    <3>1. CASE i = LastMonth - 1
      BY <1>0, <3>1
    <3>2. CASE i < LastMonth - 1
      <4>1. MonthStart[i] + 28 * Day <= MonthStart[LastMonth - 1]
        BY <1>0, <2>2, <3>2, MonthsGrow
      <4> QED BY <1>0, <2>2, <4>1
    <3> QED BY <1>0, <3>1, <3>2
  <2> QED BY <1>0, <1>2, <2>1, <2>2, <2>3 DEF InCalendar
<1> QED BY <1>1, <1>2 DEF Unit

(* The end of the finer period of an instant is in the month of the        *)
(* instant.                                                                *)
LEMMA MonthsNest ==
  ASSUME NEW a \in Unit, NEW t, InCalendar(t)
  PROVE  Shunk("1mo", Shunk(a, t)) = Shunk("1mo", t)
<1> DEFINE c == Shunk(a, t)
<1>1. PICK i \in 2 .. LastMonth - 1 :
         /\ Shunk("1mo", t) = MonthStart[i]
         /\ MonthStart[i - 1] < t /\ t <= MonthStart[i]
  BY MonthShunkIs
<1>2. /\ i \in 2 .. LastMonth /\ i \in 1 .. LastMonth + 1
      /\ MonthStart[i] \in Nat /\ MonthStart[i - 1] \in Nat
  BY DayAndMonths, MonthStartNext
<1>3. c \in Nat /\ t <= c /\ t \in Nat
  BY ShunkStays DEF InCalendar
<1>4. c <= MonthStart[i]
  BY <1>1, <1>2, <1>3, ShunkInMonth DEF Unit
<1>5. MonthStart[i - 1] < c
  BY <1>1, <1>2, <1>3
<1> HIDE DEF c
<1>6. Shunk("1mo", c) = MonthStart[i]
  BY <1>2, <1>3, <1>4, <1>5, MonthShunk
<1> QED BY <1>1, <1>6 DEF c

SamePeriodInv ==
  /\ level \in 0 .. Len(Aggregators)
  /\ InCalendar(dt) /\ InCalendar(moment)
  /\ level = 0 => moment = dt
  /\ SamePeriod

(* No observation changes period on its way through the levels, when the   *)
(* periods of each level are made of whole periods of the previous one.    *)
THEOREM CascadeKeepsPeriod ==
  ASSUME NestedCascade
  PROVE  Spec => []SamePeriod
<1>1. Init => SamePeriodInv
  BY LengthType, HorizonInCalendar DEF Init, SamePeriodInv, SamePeriod
<1>2. SamePeriodInv /\ [Next]_vars => SamePeriodInv'
  <2> SUFFICES ASSUME SamePeriodInv, [Next]_vars PROVE SamePeriodInv'
    OBVIOUS
  <2>1. CASE Aggregate
    <3> DEFINE v == Aggregators[level + 1]
    <3>1. /\ level + 1 \in 1 .. Len(Aggregators)
          /\ level' = level + 1 /\ dt' = dt /\ moment' = Shunk(v, moment)
      BY <2>1, LengthType DEF Aggregate, SamePeriodInv
    <3>2. v \in Unit
      BY <3>1, LengthType
    <3>3. InCalendar(moment')
      BY <3>1, <3>2, ShunkStays DEF SamePeriodInv
    <3>4. moment' = Shunk(v, dt)
      <4>1. CASE level = 0
        BY <3>1, <4>1 DEF SamePeriodInv
      <4>2. CASE level > 0
        <5> DEFINE u == Aggregators[level]
        <5>1. level \in 1 .. Len(Aggregators)
          BY <4>2 DEF SamePeriodInv
        <5>2. u \in Unit /\ Divides(u, v)
          BY <3>1, <5>1, LengthType, NestedCascade DEF NestedCascade
        <5>3. moment = Shunk(u, dt) /\ InCalendar(dt) /\ dt \in Nat
          BY <4>2 DEF SamePeriodInv, SamePeriod, Aggregator, InCalendar
        <5> QED
          BY <3>1, <5>2, <5>3, PeriodsNest, MonthsNest DEF Divides
      <4> QED
        BY <4>1, <4>2, LengthType DEF SamePeriodInv
    <3>5. SamePeriod'
      BY <3>1, <3>4 DEF SamePeriod, Aggregator
    <3> QED
      BY <3>1, <3>3, <3>5, LengthType DEF SamePeriodInv, InCalendar
  <2>2. CASE UNCHANGED vars
    BY <2>2 DEF vars, SamePeriodInv, SamePeriod, Aggregator
  <2> QED
    BY <2>1, <2>2 DEF Next
<1>3. SamePeriodInv => SamePeriod
  BY DEF SamePeriodInv
<1> QED
  BY <1>1, <1>2, <1>3, PTL DEF Spec

-----------------------------------------------------------------------------
(* Whole milliseconds.                                                     *)

Whole(t) == t \in Nat /\ \E q \in Nat : t = q * TicksPerMs

(* The column of timestamps keeps whole milliseconds as they are.          *)
LEMMA StoredWhole ==
  ASSUME NEW t, Whole(t)
  PROVE  Stored(t) = t
<1> DEFINE n == TicksPerMs
<1>0. n \in Nat \ {0} /\ t \in Nat
  BY TicksAssumption DEF Whole
<1>1. PICK q \in Nat : t = q * n
  BY DEF Whole
<1> HIDE DEF n
<1>2. /\ t \div n \in Nat
      /\ t % n \in 0 .. n - 1
      /\ t = (t \div n) * n + (t % n)
  BY <1>0, Division
<1> DEFINE p == t \div n
<1>3. p \in Nat /\ p * n \in Nat
  BY <1>0, <1>2
<1>4. p * n <= t /\ t < p * n + n
  BY <1>0, <1>2, <1>3
<1>5. p * n + n = (p + 1) * n
  BY <1>0, <1>3
<1> HIDE DEF p
<1>6. q <= p
  BY <1>0, <1>1, <1>3, <1>4, <1>5, Order
<1>7. q * n <= p * n
  BY <1>0, <1>1, <1>3, <1>6
<1>8. p * n = t
  BY <1>0, <1>1, <1>3, <1>4, <1>7
<1> QED
  BY <1>8 DEF Stored, p, n

(* The column of timestamps never rounds an instant up.                    *)
LEMMA StoredBelow ==
  ASSUME NEW t \in Int
  PROVE  Stored(t) \in Int /\ Stored(t) <= t
<1> DEFINE n == TicksPerMs
<1>0. n \in Nat \ {0}
  BY TicksAssumption
<1> HIDE DEF n
<1>1. t \div n \in Int /\ (t \div n) * n <= t
  BY <1>0
<1>2. (t \div n) * n \in Int
  BY <1>0, <1>1
<1> QED
  BY <1>1, <1>2 DEF Stored, n

(* Minutes, hours and days are whole numbers of milliseconds.              *)
LEMMA UnitWhole ==
  ASSUME NEW u \in FixedUnit
  PROVE  \E q \in Nat : UnitLength[u] = q * TicksPerMs
<1> DEFINE r == TicksPerMs
           m == UnitLength["1m"]
           h == UnitLength["1h"]
           d == UnitLength["1d"]
<1>0. r \in Nat \ {0} /\ m \in Nat \ {0} /\ h \in Nat \ {0} /\ d \in Nat \ {0}
  BY TicksAssumption, UnitAssumption
<1>1. m % r = 0 /\ h % m = 0 /\ d % h = 0
  BY UnitAssumption
<1> HIDE DEF r, m, h, d
<1>2. PICK a \in Nat : m = a * r
  BY <1>0, <1>1, DividesWhole
<1>3. PICK b \in Nat : h = b * m
  BY <1>0, <1>1, DividesWhole
<1>4. PICK c \in Nat : d = c * h
  BY <1>0, <1>1, DividesWhole
<1>5. h = (b * a) * r /\ b * a \in Nat
  BY <1>0, <1>2, <1>3, Associate
<1>6. d = (c * (b * a)) * r /\ c * (b * a) \in Nat
  BY <1>0, <1>4, <1>5, Associate
<1> QED
  BY <1>2, <1>5, <1>6 DEF FixedUnit, r, m, h, d

(* Periods end at whole milliseconds, whatever the instant.                *)
LEMMA ShunkWhole ==
  ASSUME NEW u \in FixedUnit, NEW t \in Nat
  PROVE  Whole(Shunk(u, t))
<1> DEFINE n == UnitLength[u]
           s == Shunk(u, t)
<1>1. PICK k \in Nat : n = k * TicksPerMs
  BY UnitWhole
<1>2. PICK q \in Nat : s = q * n
  BY ShunkIsCeiling
<1>0. TicksPerMs \in Nat \ {0} /\ s \in Nat
  BY TicksAssumption, ShunkIsCeiling
<1> HIDE DEF n, s
<1>3. s = (q * k) * TicksPerMs /\ q * k \in Nat
  BY <1>0, <1>1, <1>2, Associate
<1>4. Whole(s)
  BY <1>0, <1>3 DEF Whole
<1> QED
  BY <1>4 DEF s

(* Rounding down to whole milliseconds does not pass a whole one.          *)
LEMMA StoredAbove ==
  ASSUME NEW s, Whole(s), NEW t \in Nat, s <= t
  PROVE  s <= Stored(t) /\ Stored(t) \in Nat
<1> DEFINE n == TicksPerMs
           p == t \div n
<1>0. n \in Nat \ {0}
  BY TicksAssumption
<1>1. PICK q \in Nat : s = q * n
  BY DEF Whole
<1> HIDE DEF n
<1>2. p \in Nat /\ t % n \in 0 .. n - 1 /\ t = p * n + (t % n)
  BY <1>0, Division
<1> HIDE DEF p
<1>3. p * n \in Nat /\ (p + 1) * n = p * n + n
  BY <1>0, <1>2
<1>4. q * n < (p + 1) * n
  BY <1>0, <1>1, <1>2, <1>3
<1>5. q <= p
  BY <1>0, <1>1, <1>2, <1>4, Order
<1>6. q * n <= p * n
  BY <1>0, <1>1, <1>2, <1>5
<1> QED BY <1>1, <1>3, <1>6 DEF Stored, p, n

(* A month starts at a whole millisecond.                                  *)
LEMMA MonthStartMs ==
  ASSUME NEW i \in 1 .. LastMonth + 1
  PROVE  Whole(MonthStart[i])
<1>0. Day \in Nat \ {0} /\ TicksPerMs \in Nat \ {0} /\ MonthStart[i] \in Nat
  BY DayAndMonths, TicksAssumption, MonthStartNext
<1>1. PICK q \in Nat : MonthStart[i] = q * Day
  BY MonthStartWhole
<1>2. PICK k \in Nat : Day = k * TicksPerMs
  BY UnitWhole DEF FixedUnit, Day
<1>3. MonthStart[i] = (q * k) * TicksPerMs /\ q * k \in Nat
  BY <1>0, <1>1, <1>2, Associate
<1> QED BY <1>0, <1>3 DEF Whole

(* The range of a period consists of whole milliseconds within the         *)
(* calendar, and the instant that the period is the one of is in it.       *)
LEMMA RangeOfPeriod ==
  ASSUME NEW a \in Unit, NEW t, InCalendar(t)
  PROVE  LET s == Shunk(a, t)
             from == RangeOf(a, s)[1]
         IN /\ RangeOf(a, s)[2] = s /\ Whole(s) /\ InCalendar(s)
            /\ Whole(from) /\ from < t /\ t <= s
<1> DEFINE s == Shunk(a, t)
           from == RangeOf(a, s)[1]
<1>0. t \in Nat /\ InCalendar(s) /\ t <= s /\ s \in Nat /\ RangeOf(a, s)[2] = s
  BY ShunkStays DEF InCalendar, RangeOf
<1>1. CASE a \in FixedUnit
  <2> DEFINE n == UnitLength[a]
  <2>1. from < t /\ from = s - n /\ n \in Nat \ {0}
    BY <1>0, <1>1, InOwnRange, UnitType DEF RangeOf, FixedUnit
  <2>2. Whole(s)
    BY <1>0, <1>1, ShunkWhole
  <2>3. PICK q \in Nat : s = q * TicksPerMs
    BY <2>2 DEF Whole
  <2>4. PICK k \in Nat : n = k * TicksPerMs
    BY <1>1, UnitWhole
  <2>5. n <= s
    <3>1. PICK b \in Nat : Day = b * n
      BY <1>1, UnitInDay
    <3>2. b # 0 /\ Day \in Nat \ {0}
      BY <2>1, <3>1, DayAndMonths
    <3>3. n <= Day
      <4> HIDE DEF n
      <4>1. b * n = (b - 1) * n + n /\ (b - 1) * n \in Nat
        BY <2>1, <3>2
      <4> QED BY <2>1, <3>1, <3>2, <4>1
    <3>4. Day <= MonthStart[2] /\ MonthStart[2] \in Nat
      <4>1. MonthStart[1] = 0 /\ MonthStart[2] \in Nat
        BY DayAndMonths, MonthStartNext
      <4>2. MonthStart[1] + 28 * Day <= MonthStart[2]
        BY DayAndMonths, MonthsGrow
      <4> QED BY <3>2, <4>1, <4>2
    <3> QED BY <1>0, <2>1, <3>2, <3>3, <3>4 DEF InCalendar
  <2> HIDE DEF n, s, from
  <2>6. from = (q - k) * TicksPerMs /\ from \in Nat /\ q - k \in Nat
    <3>1. TicksPerMs \in Nat \ {0}
      BY TicksAssumption
    <3>2. k * TicksPerMs < (q + 1) * TicksPerMs
      <4>1. (q + 1) * TicksPerMs = q * TicksPerMs + TicksPerMs
        BY <3>1
      <4> QED BY <1>0, <2>1, <2>3, <2>4, <2>5, <3>1, <4>1
    <3>3. k <= q
      BY <3>1, <3>2, Order
    <3>4. (q - k) * TicksPerMs = q * TicksPerMs - k * TicksPerMs
      BY <3>1
    <3> QED BY <1>0, <2>1, <2>3, <2>4, <2>5, <3>3, <3>4
  <2>7. Whole(from)
    BY <2>6 DEF Whole
  <2> QED BY <1>0, <2>1, <2>2, <2>7 DEF s, from
<1>2. CASE a = "1mo"
  <2>1. PICK i \in 2 .. LastMonth - 1 :
          /\ s = MonthStart[i]
          /\ MonthStart[i - 1] < t /\ t <= MonthStart[i]
    BY <1>2, MonthShunkIs
  <2>2. /\ i \in 2 .. LastMonth /\ i \in 1 .. LastMonth + 1
        /\ i - 1 \in 1 .. LastMonth + 1
    BY DayAndMonths
  <2>3. from = MonthStart[i - 1]
    BY <1>2, <2>1, <2>2, MonthBack DEF RangeOf
  <2> QED BY <1>0, <2>1, <2>2, <2>3, MonthStartMs
<1> QED BY <1>1, <1>2 DEF Unit

-----------------------------------------------------------------------------
(* Shards.                                                                 *)

(* The first instant of a shard.                                           *)
StartOf(s) == IF sharder = "month" THEN MonthStart[s] ELSE s * Day

(* The shards whose ends are in the calendar.                              *)
IsShard(s) == IF sharder = "month" THEN s \in 1 .. LastMonth ELSE s \in Nat

Sharding == sharder \in {"month", "day"}

(* Shards start one after the other.                                       *)
LEMMA ShardStarts ==
  ASSUME Sharding, NEW s, IsShard(s)
  PROVE  /\ s \in Nat /\ ShardRange(s)[1] = StartOf(s) /\ StartOf(s) \in Nat
         /\ StartOf(s + 1) \in Nat /\ StartOf(s) < StartOf(s + 1)
         /\ \A r : IsShard(r) /\ r < s => StartOf(r + 1) <= StartOf(s)
<1>0. Day \in Nat \ {0} /\ LastMonth \in Nat
  BY DayAndMonths
<1>1. CASE sharder = "month"
  <2>1. /\ s \in 1 .. LastMonth /\ s \in 1 .. LastMonth + 1
        /\ s + 1 \in 1 .. LastMonth + 1
    BY <1>0, <1>1 DEF IsShard
  <2>2. MonthStart[s] \in Nat /\ MonthStart[s + 1] \in Nat
    BY <2>1, MonthStartNext
  <2>3. MonthStart[s] < MonthStart[s + 1]
    <3>1. MonthStart[s] + 28 * Day <= MonthStart[s + 1]
      BY <1>0, <2>1, MonthsGrow
    <3> QED BY <1>0, <2>2, <3>1
  <2>4. ASSUME NEW r \in 1 .. LastMonth, r < s
        PROVE  MonthStart[r + 1] <= MonthStart[s]
    <3>1. r + 1 \in 1 .. LastMonth + 1 /\ MonthStart[r + 1] \in Nat
      BY <1>0, MonthStartNext
    <3>2. CASE r + 1 = s
      BY <2>2, <3>2
    <3>3. CASE r + 1 < s
      <4>1. MonthStart[r + 1] + 28 * Day <= MonthStart[s]
        BY <2>1, <3>1, <3>3, MonthsGrow
      <4> QED BY <1>0, <2>2, <3>1, <4>1
    <3> QED BY <2>1, <2>4, <3>2, <3>3
  <2> QED BY <1>1, <2>1, <2>2, <2>3, <2>4 DEF IsShard, StartOf, ShardRange
<1>2. CASE sharder = "day"
  <2>1. s \in Nat
    BY <1>2 DEF IsShard
  <2>2. s * Day \in Nat /\ (s + 1) * Day \in Nat /\ s * Day < (s + 1) * Day
    <3>1. (s + 1) * Day = s * Day + Day
      BY <1>0, <2>1
    <3> QED BY <1>0, <2>1, <3>1
  <2>3. \A r \in Nat : r < s => (r + 1) * Day <= s * Day
    BY <1>0, <2>1
  <2> QED BY <1>2, <2>1, <2>2, <2>3 DEF IsShard, StartOf, ShardRange
<1> QED BY <1>1, <1>2 DEF Sharding

(* Each instant of the calendar is in its shard.                           *)
LEMMA ShardHolds ==
  ASSUME Sharding, NEW t \in Nat, t < MonthStart[LastMonth + 1]
  PROVE  IsShard(Shard(t)) /\ StartOf(Shard(t)) <= t /\ t < StartOf(Shard(t) + 1)
<1>0. Day \in Nat \ {0}
  BY DayAndMonths
<1>1. CASE sharder = "month"
  BY <1>1, MonthOfType DEF IsShard, StartOf, Shard
<1>2. CASE sharder = "day"
  <2> DEFINE q == t \div Day
  <2>1. q \in Nat /\ t % Day \in 0 .. Day - 1 /\ t = q * Day + (t % Day)
    BY <1>0, Division
  <2> HIDE DEF q
  <2>2. (q + 1) * Day = q * Day + Day /\ q * Day \in Nat
    BY <1>0, <2>1
  <2>3. q * Day <= t /\ t < (q + 1) * Day
    BY <1>0, <2>1, <2>2
  <2> QED BY <1>2, <2>1, <2>3 DEF IsShard, StartOf, Shard, q
<1> QED BY <1>1, <1>2 DEF Sharding

(* A shard starts after an instant if and only if it comes after the shard *)
(* of the instant.                                                         *)
LEMMA StartsAfter ==
  ASSUME Sharding, NEW t \in Nat, t < MonthStart[LastMonth + 1],
         NEW s, IsShard(s)
  PROVE  StartOf(s) > t <=> s > Shard(t)
<1> DEFINE r == Shard(t)
<1>1. IsShard(r) /\ StartOf(r) <= t /\ t < StartOf(r + 1)
  BY ShardHolds
<1> HIDE DEF r
<1>2. /\ r \in Nat /\ s \in Nat /\ StartOf(s) \in Nat /\ StartOf(r) \in Nat
      /\ StartOf(r + 1) \in Nat /\ StartOf(s + 1) \in Nat
      /\ StartOf(s) < StartOf(s + 1)
  BY <1>1, ShardStarts
<1>3. ASSUME s > r PROVE StartOf(s) > t
  <2>1. StartOf(r + 1) <= StartOf(s)
    BY <1>1, <1>2, <1>3, ShardStarts
  <2> QED BY <1>1, <1>2, <2>1
<1>4. ASSUME s < r PROVE StartOf(s) <= t
  <2>1. StartOf(s + 1) <= StartOf(r)
    BY <1>1, <1>2, <1>4, ShardStarts
  <2> QED BY <1>1, <1>2, <2>1
<1>5. ASSUME s = r PROVE StartOf(s) <= t
  BY <1>1, <1>5
<1> QED BY <1>2, <1>3, <1>4, <1>5 DEF r

(* A hop from an instant leads to the next shard.                          *)
LEMMA HopToNext ==
  ASSUME Sharding, NEW t \in Nat, t < MonthStart[LastMonth + 1],
         sharder = "month" => Shard(t) < LastMonth
  PROVE  /\ NextHop(t) \in Nat /\ Shard(NextHop(t)) = Shard(t) + 1
         /\ sharder = "month" => NextHop(t) < MonthStart[LastMonth + 1]
<1>0. Day \in Nat \ {0} /\ LastMonth \in Nat
  BY DayAndMonths
<1>1. CASE sharder = "month"
  <2>1. MonthOf(t) \in 1 .. LastMonth /\ MonthOf(t) + 1 \in 1 .. LastMonth
    BY <1>0, <1>1, MonthOfType DEF Shard
  <2>2. /\ PlusMonths(t, 1) \in Nat
        /\ MonthOf(PlusMonths(t, 1)) = MonthOf(t) + 1
        /\ PlusMonths(t, 1) < MonthStart[LastMonth + 1]
    BY <2>1, PlusMonthsIn
  <2> QED BY <1>1, <2>2 DEF NextHop, Shard
<1>2. CASE sharder = "day"
  BY <1>0, <1>2 DEF NextHop, Shard
<1> QED BY <1>1, <1>2 DEF Sharding

(* The search for shards hops from one instant to the next: the definition *)
(* by recursion gives all of them.                                         *)
LEMMA HopsExist ==
  ASSUME NEW start
  PROVE  \E hop : hop = [k \in Nat |->
                          IF k = 0 THEN start ELSE NextHop(hop[k - 1])]
<1> DEFINE Hops(f, n) ==
             f = [k \in 0 .. n |-> IF k = 0 THEN start ELSE NextHop(f[k - 1])]
           T == {n \in Nat : \E f : Hops(f, n)}
<1>1. 0 \in T
  <2>1. Hops([k \in 0 .. 0 |-> start], 0)
    OBVIOUS
  <2> QED BY <2>1
<1>2. ASSUME NEW n \in Nat, n \in T PROVE n + 1 \in T
  <2>1. PICK f : Hops(f, n)
    BY <1>2
  <2> DEFINE g == [k \in 0 .. n + 1 |-> IF k = n + 1 THEN NextHop(f[n]) ELSE f[k]]
  <2>2. \A k \in 0 .. n : f[k] = IF k = 0 THEN start ELSE NextHop(f[k - 1])
    BY <2>1
  <2>3. ASSUME NEW k \in 0 .. n + 1
        PROVE  g[k] = IF k = 0 THEN start ELSE NextHop(g[k - 1])
    <3>1. CASE k = n + 1
      <4>1. k - 1 = n /\ g[n] = f[n]
        BY <3>1
      <4> QED BY <3>1, <4>1
    <3>2. CASE k # n + 1
      <4>1. k \in 0 .. n /\ (k # 0 => k - 1 \in 0 .. n /\ g[k - 1] = f[k - 1])
        BY <3>2
      <4> QED BY <2>2, <3>2, <4>1
    <3> QED BY <3>1, <3>2
  <2>4. Hops(g, n + 1)
    BY <2>3
  <2> HIDE DEF Hops
  <2> QED BY <2>4
<1>3. Nat \subseteq T
  <2> HIDE DEF T
  <2> QED BY <1>1, <1>2, Induction
<1> DEFINE upTo(n) == CHOOSE f : Hops(f, n)
           hop == [k \in Nat |-> upTo(k)[k]]
<1>4. \A n \in Nat : Hops(upTo(n), n)
  BY <1>3
<1>5. ASSUME NEW n \in Nat PROVE upTo(n)[n] = upTo(n + 1)[n]
  <2> DEFINE f == upTo(n)
             g == upTo(n + 1)
             U == {k \in Nat : k <= n => f[k] = g[k]}
  <2>1. Hops(f, n) /\ Hops(g, n + 1)
    <3> HIDE DEF Hops, upTo
    <3>1. n + 1 \in Nat
      OBVIOUS
    <3> QED BY <1>4, <3>1
  <2> HIDE DEF f, g
  <2>2. /\ \A k \in 0 .. n : f[k] = IF k = 0 THEN start ELSE NextHop(f[k - 1])
        /\ \A k \in 0 .. n + 1 : g[k] = IF k = 0 THEN start ELSE NextHop(g[k - 1])
    BY <2>1
  <2>3. 0 \in U
    BY <2>2
  <2>4. ASSUME NEW k \in Nat, k \in U PROVE k + 1 \in U
    <3>1. ASSUME k + 1 <= n PROVE f[k + 1] = g[k + 1]
      <4>1. /\ k + 1 \in 0 .. n /\ k + 1 \in 0 .. n + 1 /\ (k + 1) - 1 = k
            /\ k + 1 # 0 /\ f[k] = g[k]
        BY <2>4, <3>1
      <4>2. f[k + 1] = NextHop(f[k]) /\ g[k + 1] = NextHop(g[k])
        BY <2>2, <4>1
      <4> QED BY <4>1, <4>2
    <3> QED BY <3>1
  <2>5. n \in U
    <3> HIDE DEF U
    <3> QED BY <2>3, <2>4, Induction
  <2> QED BY <2>5 DEF f, g
<1>6. ASSUME NEW k \in Nat
      PROVE  hop[k] = IF k = 0 THEN start ELSE NextHop(hop[k - 1])
  <2>1. upTo(k)[k] = IF k = 0 THEN start ELSE NextHop(upTo(k)[k - 1])
    <3> DEFINE f == upTo(k)
    <3>1. f = [j \in 0 .. k |-> IF j = 0 THEN start ELSE NextHop(f[j - 1])]
      BY <1>4
    <3> HIDE DEF f
    <3>2. f[k] = IF k = 0 THEN start ELSE NextHop(f[k - 1])
      BY <3>1
    <3> QED BY <3>2 DEF f
  <2>2. k # 0 => k - 1 \in Nat /\ (k - 1) + 1 = k
    OBVIOUS
  <2>3. k # 0 => upTo(k)[k - 1] = upTo(k - 1)[k - 1]
    BY <1>5, <2>2
  <2> HIDE DEF upTo
  <2> QED BY <2>1, <2>2, <2>3
<1>7. hop = [k \in Nat |-> IF k = 0 THEN start ELSE NextHop(hop[k - 1])]
  <2> HIDE DEF upTo
  <2> QED BY <1>6
<1> HIDE DEF hop
<1> QED BY <1>7

(* The number of the shard of an instant is no more than the number of days*)
(* of the calendar.                                                        *)
LEMMA ShardsPerDay ==
  ASSUME Sharding, NEW t \in Nat, t < MonthStart[LastMonth]
  PROVE  Shard(t) + 1 \in 0 .. MonthStart[LastMonth + 1] \div Day
<1>0. Day \in Nat \ {0} /\ LastMonth \in Nat /\ LastMonth >= 3
  BY DayAndMonths
<1> DEFINE end == MonthStart[LastMonth + 1]
<1>1. /\ MonthStart[LastMonth] \in Nat /\ end \in Nat
      /\ MonthStart[LastMonth] + 28 * Day <= end
  BY <1>0, MonthStartNext, MonthsGrow
<1>2. end \div Day \in Nat /\ \A q \in Nat : q * Day <= end => q <= end \div Day
  <2>1. end \div Day \in Nat /\ end % Day \in 0 .. Day - 1
        /\ end = (end \div Day) * Day + (end % Day)
    <3> HIDE DEF end
    <3> QED BY <1>0, <1>1, Division
  <2> DEFINE p == end \div Day
  <2>2. end < (p + 1) * Day
    <3>1. (p + 1) * Day = p * Day + Day
      BY <1>0, <2>1
    <3> HIDE DEF p
    <3> QED BY <1>0, <1>1, <2>1, <3>1 DEF p
  <2>3. ASSUME NEW q \in Nat, q * Day <= end PROVE q <= p
    <3>1. q * Day < (p + 1) * Day /\ p \in Int
      <4> HIDE DEF p, end
      <4>1. p \in Nat
        BY <2>1 DEF p
      <4> QED BY <1>0, <1>1, <2>2, <2>3, <4>1
    <3> HIDE DEF p, end
    <3> QED BY <1>0, <3>1, Order
  <2> QED BY <2>1, <2>3
<1>3. CASE sharder = "day"
  <2> DEFINE q == t \div Day
  <2>1. q \in Nat /\ t % Day \in 0 .. Day - 1 /\ t = q * Day + (t % Day)
    BY <1>0, Division
  <2> HIDE DEF q, end
  <2>2. (q + 1) * Day = q * Day + Day /\ q * Day \in Nat /\ q * Day <= t
    BY <1>0, <2>1
  <2>3. (q + 1) * Day <= end
    BY <1>0, <1>1, <2>2
  <2>4. q + 1 <= end \div Day /\ q + 1 \in Nat
    BY <1>2, <2>1, <2>3
  <2> QED BY <1>2, <1>3, <2>4 DEF Shard, q, end
<1>4. CASE sharder = "month"
  <2> DEFINE T == {n \in Nat : n <= LastMonth => n * Day <= MonthStart[n + 1]}
  <2>1. 0 \in T
    BY <1>0, MonthStartNext
  <2>2. ASSUME NEW n \in Nat, n \in T PROVE n + 1 \in T
    <3>1. ASSUME n + 1 <= LastMonth
          PROVE  (n + 1) * Day <= MonthStart[(n + 1) + 1]
      <4> DEFINE x == MonthStart[n + 1]
                 y == MonthStart[(n + 1) + 1]
                 z == n * Day
      <4>1. x + 28 * Day <= y /\ x \in Nat /\ y \in Nat
        BY <1>0, <3>1, MonthsGrow, MonthStartNext
      <4>2. (n + 1) * Day = z + Day /\ z \in Nat /\ z <= x
        BY <1>0, <2>2, <3>1
      <4> HIDE DEF x, y, z
      <4>3. z + Day <= y
        BY <1>0, <4>1, <4>2
      <4> QED BY <4>2, <4>3 DEF y
    <3> QED BY <3>1
  <2> HIDE DEF T
  <2>3. LastMonth \in T
    BY <1>0, <2>1, <2>2, Induction
  <2>4. LastMonth <= end \div Day
    BY <1>0, <1>2, <2>3 DEF T
  <2>5. t < MonthStart[LastMonth + 1]
    BY <1>0, <1>1
  <2>6. Shard(t) \in 1 .. LastMonth
    BY <1>4, <2>5, ShardHolds DEF IsShard
  <2>7. Shard(t) < LastMonth
    <3>1. IsShard(LastMonth) /\ StartOf(LastMonth) > t
      BY <1>0, <1>1, <1>4 DEF IsShard, StartOf
    <3> QED BY <2>5, <3>1, StartsAfter
  <2> HIDE DEF end
  <2> QED BY <1>0, <1>2, <2>4, <2>6, <2>7 DEF end
<1> QED BY <1>3, <1>4 DEF Sharding

(* The shards of a period are those from the shard of its start to the     *)
(* shard of its end, each of them once, and none when it ends in a shard   *)
(* before the one where it starts.                                         *)
THEOREM ShardsAreConsecutive ==
  ASSUME Sharding, NEW start \in Nat, NEW end \in Nat,
         start < MonthStart[LastMonth], end < MonthStart[LastMonth]
  PROVE  LET n == IF Shard(start) <= Shard(end)
                  THEN Shard(end) + 1 - Shard(start) ELSE 0
         IN Shards(start, end) = [k \in 1 .. n |-> Shard(start) + k - 1]
<1> DEFINE a == Shard(start)
           b == Shard(end)
           n == IF a <= b THEN b + 1 - a ELSE 0
           top == MonthStart[LastMonth + 1]
           days == top \div Day
<1>0. /\ Day \in Nat \ {0} /\ LastMonth \in Nat /\ LastMonth >= 3
      /\ MonthStart[LastMonth] \in Nat /\ top \in Nat
      /\ MonthStart[LastMonth] < top /\ start < top /\ end < top
  <2>1. MonthStart[LastMonth] \in Nat /\ top \in Nat
    BY DayAndMonths, MonthStartNext
  <2>2. MonthStart[LastMonth] + 28 * Day <= top
    BY DayAndMonths, MonthsGrow
  <2> QED BY <2>1, <2>2, DayAndMonths
<1>1. IsShard(a) /\ IsShard(b) /\ a \in Nat /\ b \in Nat
  BY <1>0, ShardHolds, ShardStarts
<1>2. b + 1 \in 0 .. days /\ n \in 0 .. b + 1
  BY <1>1, ShardsPerDay
<1>3. sharder = "month" => a < LastMonth /\ b < LastMonth /\ a >= 1
  <2>1. ASSUME sharder = "month" PROVE IsShard(LastMonth) /\ a >= 1
               /\ StartOf(LastMonth) > start /\ StartOf(LastMonth) > end
    BY <1>0, <1>1, <2>1 DEF IsShard, StartOf
  <2> QED BY <1>0, <2>1, StartsAfter
<1> DEFINE IsHop(f) == f = [k \in Nat |-> IF k = 0 THEN start ELSE NextHop(f[k - 1])]
           hop == CHOOSE f : IsHop(f)
           Past(k) == ShardRange(Shard(hop[k]))[1] > end
           First(k) == Past(k) /\ \A j \in 0 .. k - 1 : ~Past(j)
           found == CHOOSE k \in 0 .. days : First(k)
<1>4. IsHop(hop)
  BY HopsExist
<1>5. Shards(start, end) = [k \in 1 .. found |-> Shard(hop[k - 1])]
  BY DEF Shards, LastMonth
<1> HIDE DEF hop
<1>6. \A k \in Nat : hop[k] = IF k = 0 THEN start ELSE NextHop(hop[k - 1])
  BY <1>4
<1> HIDE DEF IsHop
<1> DEFINE Within(k) == sharder = "month" => a + k <= LastMonth
           T == {k \in Nat : Within(k) =>
                   /\ hop[k] \in Nat /\ Shard(hop[k]) = a + k
                   /\ hop[k] < top \/ sharder = "day"}
<1>7. 0 \in T
  BY <1>0, <1>1, <1>6
<1>8. ASSUME NEW k \in Nat, k \in T PROVE k + 1 \in T
  <2>1. ASSUME Within(k + 1)
        PROVE  /\ hop[k + 1] \in Nat /\ Shard(hop[k + 1]) = a + (k + 1)
               /\ hop[k + 1] < top \/ sharder = "day"
    <3>1. hop[k] \in Nat /\ Shard(hop[k]) = a + k /\ (hop[k] < top \/ sharder = "day")
      BY <1>0, <1>1, <1>8, <2>1
    <3>2. hop[k + 1] = NextHop(hop[k])
      <4>1. k + 1 \in Nat /\ k + 1 # 0 /\ (k + 1) - 1 = k
        OBVIOUS
      <4> QED BY <1>6, <4>1
    <3>3. CASE sharder = "day"
      BY <1>0, <1>1, <3>1, <3>2, <3>3 DEF NextHop, Shard
    <3>4. CASE sharder = "month"
      <4>1. Shard(hop[k]) < LastMonth /\ hop[k] < top
        BY <1>0, <1>1, <2>1, <3>1, <3>4
      <4> QED BY <1>1, <3>1, <3>2, <3>4, <4>1, HopToNext
    <3> QED BY <3>3, <3>4 DEF Sharding
  <2> QED BY <2>1
<1>9. \A k \in Nat : Within(k) => Shard(hop[k]) = a + k
  <2>1. Nat \subseteq T
    <3> HIDE DEF T
    <3> QED BY <1>7, <1>8, Induction
  <2> QED BY <2>1
<1> HIDE DEF T
<1>10. ASSUME NEW k \in Nat, Within(k) PROVE Past(k) <=> a + k > b
  <2>1. IsShard(a + k)
    BY <1>0, <1>1, <1>3, <1>10 DEF IsShard, Sharding
  <2>2. ShardRange(a + k)[1] = StartOf(a + k)
    BY <2>1, ShardStarts
  <2>3. StartOf(a + k) > end <=> a + k > b
    BY <1>0, <2>1, StartsAfter
  <2> QED BY <1>9, <1>10, <2>2, <2>3
<1>11. Within(n) /\ n \in 0 .. days /\ \A k \in 0 .. n : Within(k)
  BY <1>0, <1>1, <1>2, <1>3
<1>12. First(n)
  <2>1. Past(n)
    BY <1>1, <1>10, <1>11
  <2>2. ASSUME NEW j \in 0 .. n - 1 PROVE ~Past(j)
    <3>1. j \in Nat /\ Within(j) /\ ~(a + j > b)
      BY <1>1, <1>2, <1>11
    <3> HIDE DEF Past, Within
    <3> QED BY <1>10, <3>1
  <2> HIDE DEF Past
  <2> QED BY <2>1, <2>2
<1>13. found = n
  <2>1. ASSUME NEW k \in 0 .. days, First(k) PROVE k = n
    <3>1. k \in Nat /\ n \in Nat /\ Past(n) /\ Past(k)
          /\ (\A j \in 0 .. n - 1 : ~Past(j)) /\ (\A j \in 0 .. k - 1 : ~Past(j))
      BY <1>11, <1>12, <2>1
    <3> HIDE DEF Past, n
    <3> QED BY <3>1
  <2> HIDE DEF First, n, days
  <2> QED BY <1>11, <1>12, <2>1
<1>14. ASSUME NEW k \in 1 .. n PROVE Shard(hop[k - 1]) = a + k - 1
  <2>1. k - 1 \in 0 .. n /\ k - 1 \in Nat
    BY <1>2
  <2>2. Within(k - 1)
    BY <1>11, <2>1
  <2>3. Shard(hop[k - 1]) = a + (k - 1)
    <3> HIDE DEF Within
    <3> QED BY <1>9, <2>1, <2>2
  <2>4. a + (k - 1) = a + k - 1
    BY <1>1, <1>2
  <2> QED BY <2>3, <2>4
<1> HIDE DEF found, n
<1>15. Shards(start, end) = [k \in 1 .. n |-> a + k - 1]
  BY <1>5, <1>13, <1>14
<1> QED BY <1>15 DEF n

-----------------------------------------------------------------------------
(* An observation on its way through the aggregators.                      *)

(* The last update was made at the end of the period of an instant of the  *)
(* calendar, for the row stored at that instant.                           *)
Updated ==
  level > 0 => \E t : /\ InCalendar(t)
                     /\ row = Stored(t) /\ moment = Shunk(Aggregator, t)

OnItsWay ==
  /\ Sharding
  /\ level \in 0 .. Len(Aggregators)
  /\ InCalendar(moment)
  /\ Updated

(* Each level takes the end of the period of the previous one.             *)
LEMMA AlwaysOnItsWay == Spec => []OnItsWay
<1>1. Init => OnItsWay
  BY LengthType, HorizonInCalendar DEF Init, OnItsWay, Updated, Sharding
<1>2. OnItsWay /\ [Next]_vars => OnItsWay'
  <2> SUFFICES ASSUME OnItsWay, [Next]_vars PROVE OnItsWay'
    OBVIOUS
  <2>1. CASE Aggregate
    <3> DEFINE v == Aggregators[level + 1]
    <3>1. /\ level + 1 \in 1 .. Len(Aggregators) /\ sharder' = sharder
          /\ level' = level + 1 /\ moment' = Shunk(v, moment)
          /\ row' = Stored(moment)
      BY <2>1, LengthType DEF Aggregate, OnItsWay
    <3>2. v \in Unit /\ InCalendar(moment)
      BY <3>1, LengthType DEF OnItsWay
    <3>3. InCalendar(moment')
      BY <3>1, <3>2, ShunkStays
    <3>4. Updated'
      BY <3>1, <3>2 DEF Updated, Aggregator
    <3> QED BY <3>1, <3>3, <3>4, LengthType DEF OnItsWay, InCalendar, Sharding
  <2>2. CASE UNCHANGED vars
    BY <2>2 DEF vars, OnItsWay, Updated, Aggregator, InCalendar, Sharding
  <2> QED BY <2>1, <2>2 DEF Next
<1> QED BY <1>1, <1>2, PTL DEF Spec

(* The range of the last update, and the instant whose row made it happen. *)
LEMMA LastUpdate ==
  ASSUME OnItsWay, level > 0
  PROVE  LET from == RangeOf(Aggregator, moment)[1]
         IN /\ RangeOf(Aggregator, moment)[2] = moment
            /\ Whole(from) /\ Whole(moment) /\ InCalendar(moment)
            /\ \E t : /\ InCalendar(t) /\ row = Stored(t)
                     /\ from < t /\ t <= moment
<1>1. Aggregator \in Unit
  BY LengthType DEF Aggregator, OnItsWay
<1>2. PICK t : InCalendar(t) /\ row = Stored(t) /\ moment = Shunk(Aggregator, t)
  BY DEF OnItsWay, Updated
<1> QED BY <1>1, <1>2, RangeOfPeriod

(* The moments of an observation whose timestamp is of whole milliseconds. *)
WholeMoments ==
  /\ Whole(moment)
  /\ level > 0 => \E t : /\ Whole(t) /\ row = t /\ InCalendar(t)
                        /\ moment = Shunk(Aggregator, t)

(* The query of a period whose row is of whole milliseconds has the row.   *)
LEMMA WholeRowInRange ==
  ASSUME OnItsWay, WholeMoments
  PROVE  RowInRange
<1>1. ASSUME level > 0 PROVE InQuery(row, Aggregator, moment)
  <2> DEFINE from == RangeOf(Aggregator, moment)[1]
  <2>1. Aggregator \in Unit
    BY <1>1, LengthType DEF Aggregator, OnItsWay
  <2>2. PICK t : /\ Whole(t) /\ row = t /\ InCalendar(t)
                 /\ moment = Shunk(Aggregator, t)
    BY <1>1 DEF WholeMoments
  <2>3. /\ Whole(from) /\ Whole(moment) /\ from < t /\ t <= moment
        /\ RangeOf(Aggregator, moment)[2] = moment
    BY <2>1, <2>2, RangeOfPeriod
  <2>4. Stored(from) = from /\ Stored(moment) = moment
    BY <2>3, StoredWhole
  <2> QED BY <2>2, <2>3, <2>4 DEF InQuery
<1> QED BY <1>1 DEF RowInRange

(* When clients give whole milliseconds, the history of a period is never  *)
(* empty when it is aggregated: it has the row that made it be aggregated. *)
THEOREM HistoryHasItsRow ==
  ASSUME \A t \in Horizon : Whole(t)
  PROVE  Spec => []RowInRange
<1>1. Init => WholeMoments
  BY DEF Init, WholeMoments
<1>2. OnItsWay /\ WholeMoments /\ [Next]_vars => WholeMoments'
  <2> SUFFICES ASSUME OnItsWay, WholeMoments, [Next]_vars PROVE WholeMoments'
    OBVIOUS
  <2>1. CASE Aggregate
    <3> DEFINE v == Aggregators[level + 1]
    <3>1. /\ level + 1 \in 1 .. Len(Aggregators)
          /\ level' = level + 1 /\ moment' = Shunk(v, moment)
          /\ row' = Stored(moment)
      BY <2>1, LengthType DEF Aggregate, OnItsWay
    <3>2. v \in Unit /\ InCalendar(moment) /\ Whole(moment)
      BY <3>1, LengthType DEF OnItsWay, WholeMoments
    <3>3. Whole(moment') /\ row' = moment
      BY <3>1, <3>2, RangeOfPeriod, StoredWhole
    <3> QED BY <3>1, <3>2, <3>3 DEF WholeMoments, Aggregator, Whole
  <2>2. CASE UNCHANGED vars
    BY <2>2 DEF vars, WholeMoments, Aggregator, Whole, InCalendar
  <2> QED BY <2>1, <2>2 DEF Next
<1>3. OnItsWay /\ WholeMoments => RowInRange
  BY WholeRowInRange
<1> QED BY <1>1, <1>2, <1>3, AlwaysOnItsWay, PTL DEF Spec

(* The shards that are queried for the last update.                        *)
LEMMA QueriedShards ==
  ASSUME OnItsWay, level > 0
  PROVE  LET from == RangeOf(Aggregator, moment)[1]
         IN /\ from \in Nat /\ moment \in Nat /\ from < moment
            /\ moment < MonthStart[LastMonth]
            /\ Shard(from) \in Nat /\ Shard(moment) \in Nat
            /\ Shard(from) <= Shard(moment)
            /\ Queried = [k \in 1 .. Shard(moment) + 1 - Shard(from) |->
                            Shard(from) + k - 1]
<1> DEFINE from == RangeOf(Aggregator, moment)[1]
<1>0. Sharding
  BY DEF OnItsWay
<1>1. PICK t : InCalendar(t) /\ from < t /\ t <= moment
  BY LastUpdate
<1>2. /\ from \in Nat /\ moment \in Nat /\ from < moment
      /\ moment <= MonthStart[LastMonth - 1]
      /\ RangeOf(Aggregator, moment)[2] = moment
  BY <1>1, LastUpdate DEF Whole, InCalendar
<1>3. moment < MonthStart[LastMonth] /\ moment < MonthStart[LastMonth + 1]
  <2>1. /\ MonthStart[LastMonth - 1] \in Nat /\ MonthStart[LastMonth] \in Nat
        /\ MonthStart[LastMonth + 1] \in Nat
        /\ MonthStart[LastMonth - 1] + 28 * Day <= MonthStart[LastMonth]
        /\ MonthStart[LastMonth] + 28 * Day <= MonthStart[LastMonth + 1]
    BY DayAndMonths, MonthStartNext, MonthsGrow
  <2> QED BY <1>2, <2>1, DayAndMonths
<1> HIDE DEF from
<1>4. from < MonthStart[LastMonth] /\ from < MonthStart[LastMonth + 1]
  <2>1. MonthStart[LastMonth] \in Nat /\ MonthStart[LastMonth + 1] \in Nat
    BY DayAndMonths, MonthStartNext
  <2> QED BY <1>2, <1>3, <2>1
<1>5. /\ IsShard(Shard(from)) /\ IsShard(Shard(moment))
      /\ StartOf(Shard(from)) <= from
  BY <1>0, <1>2, <1>3, <1>4, ShardHolds
<1>6. Shard(from) \in Nat /\ Shard(moment) \in Nat /\ StartOf(Shard(from)) \in Nat
  BY <1>0, <1>5, ShardStarts
<1>7. Shard(from) <= Shard(moment)
  <2>1. StartOf(Shard(from)) > moment <=> Shard(from) > Shard(moment)
    BY <1>0, <1>2, <1>3, <1>5, StartsAfter
  <2> QED BY <1>2, <1>5, <1>6, <2>1
<1>8. Shards(from, moment) =
        [k \in 1 .. Shard(moment) + 1 - Shard(from) |-> Shard(from) + k - 1]
  BY <1>0, <1>2, <1>3, <1>4, <1>7, ShardsAreConsecutive
<1>9. Queried = Shards(from, moment)
  BY <1>2 DEF Queried, from
<1> QED BY <1>2, <1>3, <1>6, <1>7, <1>8, <1>9 DEF from

(* Whatever the timestamps, the aggregators and the sharder, the row that  *)
(* made the update happen is looked for in the shard where it is stored.   *)
THEOREM ShardsHaveTheRow == Spec => []RowInShards
<1>1. ASSUME OnItsWay, level > 0
      PROVE  \E i \in DOMAIN Queried : Queried[i] = Shard(row)
  <2> DEFINE from == RangeOf(Aggregator, moment)[1]
             a == Shard(from)
             b == Shard(moment)
             r == Shard(row)
  <2>1. PICK t : InCalendar(t) /\ row = Stored(t) /\ from < t /\ t <= moment
    BY <1>1, LastUpdate
  <2>2. /\ from \in Nat /\ moment \in Nat /\ moment < MonthStart[LastMonth]
        /\ a \in Nat /\ b \in Nat /\ Whole(from)
        /\ Queried = [k \in 1 .. b + 1 - a |-> a + k - 1]
    BY <1>1, QueriedShards, LastUpdate
  <2>3. from <= row /\ row <= moment /\ row \in Nat /\ Sharding
    <3> HIDE DEF from
    <3>1. t \in Nat /\ t \in Int /\ from <= t
      BY <2>1, <2>2 DEF InCalendar
    <3>2. from <= Stored(t) /\ Stored(t) \in Nat /\ Stored(t) <= t
      BY <2>1, <2>2, <3>1, StoredAbove, StoredBelow
    <3> QED BY <1>1, <2>1, <2>2, <3>1, <3>2 DEF OnItsWay
  <2>4. /\ moment < MonthStart[LastMonth + 1] /\ row < MonthStart[LastMonth + 1]
        /\ from < MonthStart[LastMonth + 1]
    <3>1. /\ MonthStart[LastMonth] \in Nat /\ MonthStart[LastMonth + 1] \in Nat
          /\ MonthStart[LastMonth] + 28 * Day <= MonthStart[LastMonth + 1]
      BY DayAndMonths, MonthStartNext, MonthsGrow
    <3> HIDE DEF from
    <3> QED BY <2>2, <2>3, <3>1, DayAndMonths
  <2> HIDE DEF from
  <2>5. /\ IsShard(a) /\ IsShard(r) /\ StartOf(a) <= from /\ StartOf(r) <= row
        /\ r \in Nat /\ StartOf(a) \in Nat /\ StartOf(r) \in Nat
    BY <2>2, <2>3, <2>4, ShardHolds, ShardStarts
  <2>6. a <= r /\ r <= b
    <3>1. /\ StartOf(a) > row <=> a > r
          /\ StartOf(r) > moment <=> r > b
      BY <2>2, <2>3, <2>4, <2>5, StartsAfter
    <3> QED BY <2>2, <2>3, <2>5, <3>1
  <2> HIDE DEF a, b, r
  <2>7. r - a + 1 \in 1 .. b + 1 - a /\ a + (r - a + 1) - 1 = r
    BY <2>2, <2>5, <2>6
  <2>8. r - a + 1 \in DOMAIN Queried /\ Queried[r - a + 1] = r
    BY <2>2, <2>7
  <2> QED BY <2>8 DEF r
<1>2. OnItsWay => RowInShards
  BY <1>1 DEF RowInShards
<1> QED BY <1>2, AlwaysOnItsWay, PTL

(* The last instant of a shard is the one before the next shard.           *)
LEMMA ShardEnd ==
  ASSUME Sharding, NEW s, IsShard(s), sharder = "month" => s < LastMonth
  PROVE  ShardRange(s)[2] = StartOf(s + 1) - 1
<1>0. Day \in Nat \ {0} /\ LastMonth \in Nat
  BY DayAndMonths
<1>1. CASE sharder = "month"
  <2> DEFINE d == 31 - MonthDays[s]
  <2>1. /\ s \in 1 .. LastMonth /\ s + 1 \in 1 .. LastMonth
        /\ MonthStart[s] \in Nat /\ MonthStart[s + 1] \in Nat
    BY <1>0, <1>1, MonthStartNext DEF IsShard
  <2>2. /\ MonthDays[s] \in 28 .. 31 /\ MonthDays[s + 1] \in 28 .. 31
        /\ MonthStart[s + 1] = MonthStart[s] + MonthDays[s] * Day
    BY <2>1, DayAndMonths, MonthStartNext
  <2>3. MonthStart[s] + 31 * Day = MonthStart[s + 1] + ((d + 1) - 1) * Day + 0
    <3>1. MonthDays[s] * Day + d * Day = 31 * Day
      BY <1>0, <2>2
    <3>2. d * Day \in Nat /\ MonthDays[s] * Day \in Nat /\ (d + 1) - 1 = d
      BY <1>0, <2>2
    <3> HIDE DEF d
    <3> QED BY <1>0, <2>1, <2>2, <3>1, <3>2
  <2>4. d + 1 \in 1 .. MonthDays[s + 1] /\ 0 \in 0 .. Day - 1
    BY <1>0, <2>2
  <2> HIDE DEF d
  <2>5. StartOfMonth(MonthStart[s] + 31 * Day) = MonthStart[s + 1]
    BY <2>1, <2>3, <2>4, MonthOfDay
  <2> QED BY <1>1, <2>5 DEF ShardRange, StartOf
<1>2. CASE sharder = "day"
  BY <1>2 DEF ShardRange, StartOf
<1> QED BY <1>1, <1>2 DEF Sharding

(* Consecutive numbers are all different.                                  *)
LEMMA ConsecutiveNumbers ==
  ASSUME NEW a \in Nat, NEW n \in Nat
  PROVE  /\ IsFiniteSet({a + k - 1 : k \in 1 .. n})
         /\ Cardinality({a + k - 1 : k \in 1 .. n}) = n
<1>1. {a + k - 1 : k \in 1 .. n} = a .. a + n - 1
  <2>1. ASSUME NEW x \in a .. a + n - 1 PROVE \E k \in 1 .. n : x = a + k - 1
    <3>1. x - a + 1 \in 1 .. n /\ x = a + (x - a + 1) - 1
      OBVIOUS
    <3> QED BY <3>1
  <2>2. ASSUME NEW k \in 1 .. n PROVE a + k - 1 \in a .. a + n - 1
    OBVIOUS
  <2> QED BY <2>1, <2>2
<1>2. /\ IsFiniteSet(a .. a + n - 1)
      /\ Cardinality(a .. a + n - 1) =
           IF a > a + n - 1 THEN 0 ELSE (a + n - 1) - a + 1
  <2>1. a \in Int /\ a + n - 1 \in Int
    OBVIOUS
  <2> QED BY <2>1, FS_Interval
<1>3. (IF a > a + n - 1 THEN 0 ELSE (a + n - 1) - a + 1) = n
  OBVIOUS
<1> QED BY <1>1, <1>2, <1>3

(* Whatever the timestamps, the aggregators and the sharder, no shard is   *)
(* queried twice, and none that lies out of the range of the period.       *)
THEOREM QueriesAreMinimal == Spec => []MinimalShards
<1>1. ASSUME OnItsWay, level > 0
      PROVE  LET range == RangeOf(Aggregator, moment)
             IN /\ Cardinality({Queried[i] : i \in DOMAIN Queried}) = Len(Queried)
                /\ \A i \in DOMAIN Queried :
                     /\ ShardRange(Queried[i])[1] <= range[2]
                     /\ ShardRange(Queried[i])[2] >= range[1]
  <2> DEFINE from == RangeOf(Aggregator, moment)[1]
             a == Shard(from)
             b == Shard(moment)
             n == b + 1 - a
  <2>1. /\ from \in Nat /\ moment \in Nat /\ moment < MonthStart[LastMonth]
        /\ a \in Nat /\ b \in Nat /\ a <= b /\ from < moment
        /\ RangeOf(Aggregator, moment)[2] = moment
        /\ Queried = [k \in 1 .. n |-> a + k - 1] /\ Sharding
    BY <1>1, QueriedShards, LastUpdate DEF OnItsWay
  <2>2. /\ moment < MonthStart[LastMonth + 1] /\ from < MonthStart[LastMonth + 1]
        /\ MonthStart[LastMonth] \in Nat
    <3>1. /\ MonthStart[LastMonth] \in Nat /\ MonthStart[LastMonth + 1] \in Nat
          /\ MonthStart[LastMonth] + 28 * Day <= MonthStart[LastMonth + 1]
      BY DayAndMonths, MonthStartNext, MonthsGrow
    <3> HIDE DEF from
    <3> QED BY <2>1, <3>1, DayAndMonths
  <2> HIDE DEF from
  <2>3. /\ IsShard(a) /\ IsShard(b)
        /\ StartOf(b) <= moment /\ from < StartOf(a + 1)
        /\ StartOf(a + 1) \in Nat /\ StartOf(b) \in Nat
    BY <2>1, <2>2, ShardHolds, ShardStarts
  <2>4. sharder = "month" => b < LastMonth
    <3>1. ASSUME sharder = "month"
          PROVE  IsShard(LastMonth) /\ StartOf(LastMonth) > moment
      BY <2>1, <2>2, <3>1, DayAndMonths DEF IsShard, StartOf
    <3> QED BY <2>1, <2>2, <3>1, StartsAfter
  <2>5. ASSUME NEW i \in DOMAIN Queried
        PROVE  /\ ShardRange(Queried[i])[1] <= moment
               /\ ShardRange(Queried[i])[2] >= from
    <3> DEFINE s == a + i - 1
    <3>1. i \in 1 .. n /\ Queried[i] = s /\ s \in Nat /\ a <= s /\ s <= b
      <4> HIDE DEF a, b
      <4> QED BY <2>1
    <3> HIDE DEF s, n
    <3>2. IsShard(s) /\ (sharder = "month" => s < LastMonth)
      <4> HIDE DEF a, b
      <4> QED BY <2>1, <2>3, <2>4, <3>1, DayAndMonths DEF IsShard
    <3>3. /\ ShardRange(s)[1] = StartOf(s) /\ ShardRange(s)[2] = StartOf(s + 1) - 1
          /\ StartOf(s) \in Nat /\ StartOf(s + 1) \in Nat
      BY <2>1, <3>2, ShardStarts, ShardEnd
    <3>4. StartOf(s) <= moment
      <4>1. StartOf(s) > moment <=> s > b
        BY <2>1, <2>2, <3>2, StartsAfter
      <4> HIDE DEF b
      <4> QED BY <2>1, <3>1, <3>3, <4>1
    <3>5. from < StartOf(s + 1)
      <4>1. CASE s = a
        BY <2>3, <4>1
      <4>2. CASE a < s
        <5>1. StartOf(a + 1) <= StartOf(s) /\ StartOf(s) < StartOf(s + 1)
          BY <2>1, <2>3, <3>2, <4>2, ShardStarts
        <5> HIDE DEF a
        <5> QED BY <2>1, <2>3, <3>3, <5>1
      <4> HIDE DEF a
      <4> QED BY <2>1, <3>1, <4>1, <4>2
    <3> QED BY <2>1, <3>1, <3>3, <3>4, <3>5
  <2>6. Cardinality({Queried[i] : i \in DOMAIN Queried}) = Len(Queried)
    <3> HIDE DEF a, b
    <3>1. n \in Nat
      BY <2>1
    <3> HIDE DEF n
    <3>2. {Queried[i] : i \in DOMAIN Queried} = {a + k - 1 : k \in 1 .. n}
      BY <2>1
    <3>3. Len(Queried) = n
      BY <2>1, <3>1
    <3> QED BY <2>1, <3>1, <3>2, <3>3, ConsecutiveNumbers
  <2> QED BY <2>1, <2>5, <2>6 DEF from
<1>2. OnItsWay => MinimalShards
  BY <1>1 DEF MinimalShards
<1> QED BY <1>2, AlwaysOnItsWay, PTL

-----------------------------------------------------------------------------
(* 2. Downsampling. Arithmetic first.                                      *)

(* The truncated average of c numbers between lo and hi lies between them. *)
LEMMA Average ==
  ASSUME NEW c \in Nat \ {0}, NEW lo \in Nat, NEW hi \in Nat, NEW t \in Nat,
         c * lo <= t, t <= c * hi
  PROVE  t \div c \in Nat /\ lo <= t \div c /\ t \div c <= hi
<1> DEFINE q == t \div c
<1>1. q \in Nat /\ t % c \in 0 .. c - 1 /\ t = q * c + (t % c)
  BY Division
<1>2. t % c \in Nat /\ t % c < c
  BY <1>1
<1> DEFINE r == t % c
<1> HIDE DEF q, r
<1>3. q \in Nat /\ r \in Nat /\ r < c /\ t = q * c + r
  BY <1>1, <1>2 DEF q, r
<1>4. lo * c < (q + 1) * c
  <2>1. (q + 1) * c = q * c + c /\ lo * c = c * lo
    BY <1>3
  <2> QED BY <1>3, <2>1
<1>5. q * c < (hi + 1) * c
  <2>1. (hi + 1) * c = hi * c + c /\ hi * c = c * hi /\ q * c \in Nat
    BY <1>3
  <2> QED BY <1>3, <2>1
<1>6. lo <= q /\ q <= hi
  BY <1>3, <1>4, <1>5, Order
<1> QED BY <1>3, <1>6 DEF q

(* One more number, not lower than the others.                             *)
LEMMA OneMore ==
  ASSUME NEW c \in Nat, NEW lo \in Nat, NEW mid \in Nat, NEW hi \in Nat,
         NEW t \in Nat, c * lo <= t, t <= c * mid, lo <= hi, mid <= hi
  PROVE  (c + 1) * lo <= t + hi /\ t + hi <= (c + 1) * hi
<1>1. (c + 1) * lo = c * lo + lo /\ (c + 1) * hi = c * hi + hi
  OBVIOUS
<1>2. c * lo \in Nat /\ c * mid \in Nat /\ c * hi \in Nat
  OBVIOUS
<1>3. c * mid <= c * hi
  OBVIOUS
<1> QED BY <1>1, <1>2, <1>3

-----------------------------------------------------------------------------
(* What holds while a pass goes over the points, beside GroupsInOrder: the *)
(* sum of the temporary list lies between as many times its bounds.        *)
Sums ==
  /\ first = next => total = 0
  /\ first < next => /\ (next - first) * points[first] <= total
                     /\ total <= (next - first) * points[next - 1]

(* Not only neighbours: every list ends before the later ones start.       *)
Apart ==
  \A i \in DOMAIN groups :
    /\ groups[i].last < first
    /\ \A j \in DOMAIN groups : i < j => groups[i].last < groups[j].first

Ordered == ReductionTypeOK /\ GroupsInOrder /\ Sums /\ Apart

(* A list that is closed at p gives a group that has its points' order.    *)
LEMMA NewGroup ==
  ASSUME Ordered, next <= Len(points)
  PROVE  LET t == (total + points[next]) \div (next - first + 1) IN
         /\ t \in Nat
         /\ points[first] <= t /\ t <= points[next]
<1> DEFINE c == next - first
           lo == points[first]
           hi == points[next]
<1>1. /\ next \in Nat \ {0} /\ first \in Nat \ {0} /\ first <= next
      /\ total \in Nat /\ c \in Nat
      /\ points \in Seq(Nat) /\ Ascending(points)
  BY DEF Ordered, ReductionTypeOK, GroupsInOrder
<1>2. lo \in Nat /\ hi \in Nat /\ lo <= hi
  BY <1>1 DEF Ascending
<1>3. (c + 1) * lo <= total + hi /\ total + hi <= (c + 1) * hi
  <2>1. CASE first = next
    <3>1. total = 0 /\ c = 0 /\ lo = hi
      BY <2>1, <1>1 DEF Ordered, Sums
    <3> QED BY <3>1, <1>2
  <2>2. CASE first < next
    <3> DEFINE mid == points[next - 1]
    <3>1. mid \in Nat /\ mid <= hi
      BY <1>1, <2>2 DEF Ascending
    <3>2. c * lo <= total /\ total <= c * mid
      BY <2>2 DEF Ordered, Sums
    <3> HIDE DEF c, lo, hi, mid
    <3> QED BY <1>1, <1>2, <3>1, <3>2, OneMore
  <2> QED BY <1>1, <2>1, <2>2
<1>4. c + 1 \in Nat \ {0} /\ total + hi \in Nat
  BY <1>1, <1>2
<1> HIDE DEF c, lo, hi
<1>5. LET t == (total + hi) \div (c + 1) IN t \in Nat /\ lo <= t /\ t <= hi
  BY <1>2, <1>3, <1>4, Average
<1> QED BY <1>5 DEF c, lo, hi

(* A point enters the list, and the list may be closed.                    *)
LEMMA TakeOrdered ==
  ASSUME Ordered, NEW full \in BOOLEAN, Take(full),
         UNCHANGED <<interval, most, roundedUp, points>>
  PROVE  Ordered'
<1> DEFINE t == (total + points[next]) \div (next - first + 1)
           g == [first |-> first, last |-> next, time |-> t]
<1>0. next <= Len(points)
  BY DEF Take
<1>1. /\ next \in Nat \ {0} /\ first \in Nat \ {0} /\ first <= next
      /\ next <= Len(points) /\ Len(points) \in Nat
      /\ total \in Nat /\ size \in Nat
      /\ points \in Seq(Nat) /\ Ascending(points)
      /\ groups \in Seq(Group) /\ Len(groups) \in Nat
  BY <1>0 DEF Ordered, ReductionTypeOK, GroupsInOrder
<1>2. t \in Nat /\ points[first] <= t /\ t <= points[next]
  BY <1>1, NewGroup
<1> HIDE DEF t
<1>3. g \in Group
  BY <1>1, <1>2 DEF Group
<1>4. next' = next + 1 /\ points' = points
  BY DEF Take
<1>5. CASE full \/ next = Len(points)
  <2>1. /\ groups' = Append(groups, g) /\ first' = next + 1 /\ total' = 0
        /\ size' = 0
    BY <1>5 DEF Take, t
  <2>2. /\ groups' \in Seq(Group) /\ Len(groups') = Len(groups) + 1
        /\ \A k \in 1 .. Len(groups) : groups'[k] = groups[k]
        /\ groups'[Len(groups) + 1] = g
    BY <1>1, <1>3, <2>1
  <2>3. ReductionTypeOK'
    BY <1>1, <1>4, <2>1, <2>2 DEF Ordered, ReductionTypeOK
  <2>4. Closed(Len(groups))' = next
    BY <1>1, <2>2 DEF Closed
  <2>5. \A k \in 0 .. Len(groups) : Closed(k)' = Closed(k)
    BY <1>1, <2>2 DEF Closed
  <2>6. ASSUME NEW k \in DOMAIN groups'
        PROVE  /\ groups'[k].first = Closed(k - 1)' + 1
               /\ groups'[k].first <= groups'[k].last
               /\ groups'[k].last < next'
               /\ points'[groups'[k].first] <= groups'[k].time
               /\ groups'[k].time <= points'[groups'[k].last]
    <3>1. k \in 1 .. Len(groups) + 1
      BY <1>1, <2>2
    <3>2. CASE k \in 1 .. Len(groups)
      <4>1. k \in DOMAIN groups /\ groups'[k] = groups[k] /\ k - 1 \in 0 .. Len(groups)
        BY <1>1, <2>2, <3>2
      <4>2. groups[k] \in Group
        BY <1>1, <4>1
      <4>3. /\ groups[k].first = Closed(k - 1) + 1
            /\ groups[k].first <= groups[k].last
            /\ groups[k].last < next
            /\ points[groups[k].first] <= groups[k].time
            /\ groups[k].time <= points[groups[k].last]
        BY <4>1 DEF Ordered, GroupsInOrder
      <4>4. Closed(k - 1)' = Closed(k - 1)
        BY <2>5, <4>1
      <4>5. groups[k].last \in Nat
        BY <4>2 DEF Group
      <4> QED BY <1>1, <1>4, <4>1, <4>3, <4>4, <4>5
    <3>3. CASE k = Len(groups) + 1
      <4>1. groups'[k] = g /\ k - 1 = Len(groups)
        BY <1>1, <2>2, <3>3
      <4>2. Closed(k - 1)' = Closed(Len(groups))
        BY <1>1, <2>5, <4>1
      <4>3. first = Closed(Len(groups)) + 1
        BY DEF Ordered, GroupsInOrder
      <4> QED BY <1>1, <1>2, <1>4, <4>1, <4>2, <4>3
    <3> QED BY <1>1, <3>1, <3>2, <3>3
  <2>8. GroupsInOrder'
    <3>1. Ascending(points)'
      BY <1>1, <1>4
    <3>2. first' = Closed(Len(groups))' + 1
      BY <2>1, <2>4
    <3> QED BY <2>1, <1>4, <2>6, <3>1, <3>2 DEF GroupsInOrder
  <2>9. Sums'
    BY <1>1, <1>4, <2>1 DEF Sums
  <2>7. DOMAIN groups = 1 .. Len(groups) /\ DOMAIN groups' = 1 .. Len(groups) + 1
    BY <1>1, <2>2
  <2>10. Apart'
    <3>1. ASSUME NEW i \in DOMAIN groups', NEW j \in DOMAIN groups', i < j
          PROVE  groups'[i].last < groups'[j].first
      <4>1. i \in DOMAIN groups /\ groups'[i] = groups[i] /\ groups[i].last < first
        BY <1>1, <2>2, <3>1 DEF Ordered, Apart
      <4>2. CASE j \in DOMAIN groups
        <5> HIDE DEF g
        <5>1. groups'[j] = groups[j]
          BY <2>2, <2>7, <4>2
        <5> QED BY <3>1, <4>1, <4>2, <5>1 DEF Ordered, Apart
      <4>3. CASE j \notin DOMAIN groups
        <5>1. j = Len(groups) + 1
          BY <1>1, <2>7, <4>3
        <5> QED BY <2>2, <4>1, <5>1
      <4> QED BY <4>2, <4>3
    <3>2. ASSUME NEW i \in DOMAIN groups'
          PROVE  groups'[i].last < first'
      <4>1. CASE i \in DOMAIN groups
        <5>1. groups'[i] = groups[i]
          BY <1>1, <2>2, <4>1
        <5>2. groups[i] \in Group
          BY <1>1, <4>1
        <5>3. groups[i].last \in Nat
          BY <5>2 DEF Group
        <5>4. groups[i].last < next
          BY <4>1 DEF Ordered, GroupsInOrder
        <5> QED BY <1>1, <2>1, <5>1, <5>3, <5>4
      <4>2. CASE i \notin DOMAIN groups
        <5>1. groups'[i] = g
          BY <1>1, <2>2, <4>2
        <5> QED BY <1>1, <2>1, <5>1
      <4> QED BY <4>1, <4>2
    <3> QED BY <3>1, <3>2 DEF Apart
  <2> QED BY <2>3, <2>8, <2>9, <2>10 DEF Ordered
<1>6. CASE ~full /\ next # Len(points)
  <2>1. /\ UNCHANGED <<first, groups>> /\ total' = total + points[next]
        /\ size' = SizeWith(next)
    BY <1>6 DEF Take
  <2>2. points[next] \in Nat
    BY <1>1
  <2>3. size' \in Nat
    <3>1. CASE next = 1
      BY <1>1, <2>1, <2>2, <3>1 DEF SizeWith
    <3>2. CASE next # 1
      <4>1. points[next - 1] \in Nat /\ points[next - 1] <= points[next]
        BY <1>1, <3>2 DEF Ascending
      <4>2. size' = size + (points[next] - points[next - 1])
        BY <2>1, <3>2 DEF SizeWith
      <4> DEFINE a == points[next]
                 b == points[next - 1]
      <4>3. a \in Nat /\ b \in Nat /\ b <= a /\ size' = size + (a - b)
        BY <2>2, <4>1, <4>2
      <4> HIDE DEF a, b
      <4> QED BY <1>1, <4>3
    <3> QED BY <3>1, <3>2
  <2>4. ReductionTypeOK'
    BY <1>1, <1>4, <1>6, <2>1, <2>2, <2>3 DEF Ordered, ReductionTypeOK
  <2>5. \A k \in Int : Closed(k)' = Closed(k)
    BY <2>1 DEF Closed
  <2>6. GroupsInOrder'
    <3>1. ASSUME NEW k \in DOMAIN groups
          PROVE  /\ groups[k].first = Closed(k - 1)' + 1
                 /\ groups[k].first <= groups[k].last
                 /\ groups[k].last < next'
                 /\ points[groups[k].first] <= groups[k].time
                 /\ groups[k].time <= points[groups[k].last]
      <4>1. groups[k] \in Group /\ k \in Int
        BY <1>1
      <4>2. /\ groups[k].first = Closed(k - 1) + 1
            /\ groups[k].first <= groups[k].last
            /\ groups[k].last < next
            /\ points[groups[k].first] <= groups[k].time
            /\ groups[k].time <= points[groups[k].last]
        BY DEF Ordered, GroupsInOrder
      <4>3. Closed(k - 1)' = Closed(k - 1)
        BY <2>5, <4>1
      <4>4. groups[k].last \in Nat
        BY <4>1 DEF Group
      <4> QED BY <1>1, <1>4, <4>2, <4>3, <4>4
    <3>2. first' = Closed(Len(groups))' + 1
      BY <1>1, <2>1, <2>5 DEF Ordered, GroupsInOrder
    <3>3. next' > Len(points') => first' = next'
      BY <1>1, <1>4, <1>6
    <3> QED BY <1>1, <1>4, <2>1, <3>1, <3>2, <3>3 DEF GroupsInOrder
  <2>7. Sums'
    <3> DEFINE c == next - first
               lo == points[first]
               hi == points[next]
    <3>1. c \in Nat /\ lo \in Nat /\ hi \in Nat /\ lo <= hi
      BY <1>1 DEF Ascending
    <3>2. (c + 1) * lo <= total + hi /\ total + hi <= (c + 1) * hi
      <4>1. CASE first = next
        <5>1. total = 0 /\ c = 0 /\ lo = hi
          BY <4>1, <1>1 DEF Ordered, Sums
        <5> QED BY <5>1, <3>1
      <4>2. CASE first < next
        <5> DEFINE mid == points[next - 1]
        <5>1. mid \in Nat /\ mid <= hi
          BY <1>1, <4>2 DEF Ascending
        <5>2. c * lo <= total /\ total <= c * mid
          BY <4>2 DEF Ordered, Sums
        <5> HIDE DEF c, lo, hi, mid
        <5> QED BY <1>1, <3>1, <5>1, <5>2, OneMore
      <4> QED BY <1>1, <4>1, <4>2
    <3>3. next' - first' = c + 1 /\ points'[first'] = lo /\ points'[next' - 1] = hi
      BY <1>1, <1>4, <2>1
    <3>4. first' < next'
      BY <1>1, <1>4, <2>1
    <3> HIDE DEF c, lo, hi
    <3>5. total' = total + hi
      BY <2>1 DEF hi
    <3>6. first' # next'
      BY <1>1, <1>4, <2>1
    <3>7. /\ (next' - first') * points'[first'] <= total'
          /\ total' <= (next' - first') * points'[next' - 1]
      BY <3>2, <3>3, <3>5
    <3> QED BY <3>6, <3>7 DEF Sums
  <2>8. Apart'
    BY <2>1 DEF Ordered, Apart
  <2> QED BY <2>4, <2>6, <2>7, <2>8 DEF Ordered
<1> QED BY <1>5, <1>6

(* The averages of a pass are in order.                                    *)
LEMMA ReplaceOrdered ==
  ASSUME Ordered, NEW following, Replace(following)
  PROVE  Ordered'
<1>1. /\ groups \in Seq(Group) /\ Len(groups) \in Nat
      /\ points \in Seq(Nat) /\ Ascending(points) /\ Len(points) \in Nat
      /\ next \in Nat /\ next <= Len(points) + 1
  BY DEF Ordered, ReductionTypeOK, GroupsInOrder
<1>2. /\ points' = [k \in DOMAIN groups |-> groups[k].time]
      /\ next' = 1 /\ first' = 1 /\ total' = 0 /\ size' = 0 /\ groups' = <<>>
      /\ UNCHANGED <<interval, most, roundedUp>>
  BY DEF Replace
<1>3. ASSUME NEW k \in DOMAIN groups
      PROVE  /\ groups[k].time \in Nat
             /\ groups[k].first \in DOMAIN points
             /\ groups[k].last \in DOMAIN points
             /\ points[groups[k].first] <= groups[k].time
             /\ groups[k].time <= points[groups[k].last]
  <2>1. groups[k] \in Group
    BY <1>1
  <2>2. groups[k].first <= groups[k].last /\ groups[k].last < next
    BY DEF Ordered, GroupsInOrder
  <2>3. /\ points[groups[k].first] <= groups[k].time
        /\ groups[k].time <= points[groups[k].last]
    BY DEF Ordered, GroupsInOrder
  <2>4. /\ groups[k].time \in Nat /\ groups[k].first \in Nat \ {0}
        /\ groups[k].last \in Nat \ {0}
    BY <2>1 DEF Group
  <2> DEFINE a == groups[k].first
             b == groups[k].last
  <2>5. a \in Nat \ {0} /\ b \in Nat \ {0} /\ a <= b /\ b < next
    BY <2>2, <2>4
  <2> HIDE DEF a, b
  <2>6. a \in 1 .. Len(points) /\ b \in 1 .. Len(points)
    BY <1>1, <2>5
  <2> QED BY <1>1, <2>3, <2>4, <2>6 DEF a, b
<1>4. points' \in Seq(Nat) /\ Len(points') = Len(groups)
  <2>1. DOMAIN groups = 1 .. Len(groups)
    BY <1>1
  <2>2. points' = [k \in 1 .. Len(groups) |-> groups[k].time]
    BY <1>2, <2>1
  <2>3. \A k \in 1 .. Len(groups) : groups[k].time \in Nat
    BY <1>3, <2>1
  <2> QED BY <1>1, <2>2, <2>3
<1>5. ASSUME NEW i \in DOMAIN groups, NEW j \in DOMAIN groups, i <= j
      PROVE  groups[i].time <= groups[j].time
  <2>1. CASE i = j
    BY <1>3, <2>1
  <2>2. CASE i < j
    <3>1. groups[i].last < groups[j].first
      BY <2>2 DEF Ordered, Apart
    <3> DEFINE a == groups[i].last
               b == groups[j].first
    <3>2. a \in DOMAIN points /\ b \in DOMAIN points /\ a < b
      BY <1>3, <3>1
    <3>3. groups[i].time <= points[a] /\ points[b] <= groups[j].time
      BY <1>3
    <3> HIDE DEF a, b
    <3>4. points[a] <= points[b] /\ points[a] \in Nat /\ points[b] \in Nat
      BY <1>1, <3>2 DEF Ascending
    <3> QED BY <1>3, <3>3, <3>4
  <2> QED BY <1>1, <1>5, <2>1, <2>2
<1>6. Ascending(points)'
  BY <1>2, <1>5 DEF Ascending
<1>7. ReductionTypeOK'
  BY <1>2, <1>4 DEF Ordered, ReductionTypeOK
<1>8. GroupsInOrder'
  <2>1. Closed(Len(groups))' = 0
    BY <1>2 DEF Closed
  <2> QED BY <1>2, <1>6, <2>1 DEF GroupsInOrder
<1>9. Sums' /\ Apart'
  BY <1>2 DEF Sums, Apart
<1> QED BY <1>7, <1>8, <1>9 DEF Ordered

(* The invariant holds at the start of a pass.                             *)
LEMMA InitOrdered == ReduceInit => Ordered
<1> SUFFICES ASSUME ReduceInit PROVE Ordered
  OBVIOUS
<1>1. ReductionTypeOK
  BY DEF ReduceInit, ReductionTypeOK
<1>2. GroupsInOrder
  BY DEF ReduceInit, GroupsInOrder, Closed
<1>3. Sums /\ Apart
  BY DEF ReduceInit, Sums, Apart
<1> QED BY <1>1, <1>2, <1>3 DEF Ordered

(* Each step of a pass, and what leaves the points alone, keeps it.        *)
LEMMA StepOrdered == Ordered /\ [Reduce]_reductionVars => Ordered'
<1> SUFFICES ASSUME Ordered, [Reduce]_reductionVars PROVE Ordered'
  OBVIOUS
<1> DEFINE Data == <<interval, most, roundedUp, points>>
<1>1. ASSUME UNCHANGED <<Data, passVars>>
      PROVE  Ordered'
  BY <1>1 DEF Ordered, ReductionTypeOK, GroupsInOrder, Sums, Apart, Closed,
              passVars
<1>2. CASE SkipInterval \/ SkipMax
  BY <1>1, <1>2 DEF SkipInterval, SkipMax, SkipTo
<1>3. CASE TakeForInterval
  <2>1. IntervalFull(next) \in BOOLEAN
    BY DEF IntervalFull
  <2> QED BY <1>3, <2>1, TakeOrdered DEF TakeForInterval
<1>4. CASE TakeForMax
  <2> DEFINE rest == ((next - 1) * most) % Len(points)
             late == roundedUp /\ (next - 1) * most >= Len(points)
  <2>1. ShareFull(next) \in BOOLEAN
    <3>1. CASE late
      <4>1. ShareFull(next) = (0 < rest /\ rest <= most)
        BY <3>1 DEF ShareFull
      <4> QED BY <4>1
    <3>2. CASE ~late
      <4>1. ShareFull(next) = (rest < most)
        BY <3>2 DEF ShareFull
      <4> QED BY <4>1
    <3> QED BY <3>1, <3>2
  <2> QED BY <1>4, <2>1, TakeOrdered DEF TakeForMax
<1>5. CASE EndInterval \/ EndMax
  BY <1>5, ReplaceOrdered DEF EndInterval, EndMax
<1>6. CASE UNCHANGED reductionVars
  BY <1>1, <1>6 DEF reductionVars
<1> QED BY <1>2, <1>3, <1>4, <1>5, <1>6 DEF Reduce

(* Types of the reduction: counters stay within the points, and averages   *)
(* are whole numbers that are not negative.                                *)
THEOREM ReductionTypes == ReduceSpec => []ReductionTypeOK
<1>1. Ordered => ReductionTypeOK
  BY DEF Ordered
<1> QED BY <1>1, InitOrdered, StepOrdered, PTL DEF ReduceSpec

(* Each pass averages consecutive points, each of them once, and none is   *)
(* left (GroupsInOrder; GrafanaBackend.scala:121-169 and 189-243).         *)
THEOREM PassesKeepOrder == ReduceSpec => []GroupsInOrder
<1>1. Ordered => GroupsInOrder
  BY DEF Ordered
<1> QED BY <1>1, InitOrdered, StepOrdered, PTL DEF ReduceSpec

-----------------------------------------------------------------------------
(* The point before the temporary list, or the epoch.                      *)
Before == IF first = 1 THEN 0 ELSE points[first - 1]

(* intervalSize is the time since then.                                    *)
Sizes ==
  phase = "interval" /\ interval # Absent =>
    /\ first = next => size = 0
    /\ first < next => size = points[next - 1] - Before /\ size <= interval

(* The size of the list with the next point.                               *)
LEMMA SizeIs ==
  ASSUME Ordered, Sizes, phase = "interval", interval # Absent,
         next <= Len(points)
  PROVE  /\ SizeWith(next) = points[next] - Before
         /\ Before \in Nat
<1>1. /\ next \in Nat \ {0} /\ first \in Nat \ {0} /\ first <= next
      /\ Len(points) \in Nat /\ points \in Seq(Nat)
  BY DEF Ordered, ReductionTypeOK
<1>2. points[next] \in Nat
  BY <1>1
<1>3. Before \in Nat
  <2>1. CASE first = 1
    BY <2>1 DEF Before
  <2>2. CASE first # 1
    <3>1. first - 1 \in 1 .. Len(points)
      BY <1>1, <2>2
    <3>2. points[first - 1] \in Nat
      BY <1>1, <3>1
    <3> QED BY <2>2, <3>2 DEF Before
  <2> QED BY <2>1, <2>2
<1>4. SizeWith(next) = points[next] - Before
  <2>1. CASE first = next
    <3>1. size = 0
      BY <2>1 DEF Sizes
    <3>2. SizeWith(next) = 0 + (points[next] - Before)
      BY <2>1, <3>1 DEF SizeWith, Before
    <3> QED BY <1>2, <1>3, <3>2
  <2>2. CASE first < next
    <3>1. size = points[next - 1] - Before
      BY <2>2 DEF Sizes
    <3>2. next # 1 /\ next - 1 \in 1 .. Len(points)
      BY <1>1, <2>2
    <3> DEFINE b == points[next - 1]
    <3>3. b \in Nat
      BY <1>1, <3>2
    <3>4. SizeWith(next) = (b - Before) + (points[next] - b)
      BY <3>1, <3>2 DEF SizeWith
    <3> HIDE DEF b
    <3> QED BY <1>2, <1>3, <3>3, <3>4
  <2> QED BY <1>1, <2>1, <2>2
<1> QED BY <1>3, <1>4

(* A pass over intervals keeps both.                                       *)
LEMMA TakeApart ==
  ASSUME Ordered, Sizes, IntervalsApart, TakeForInterval
  PROVE  Sizes' /\ IntervalsApart'
<1>0. /\ next <= Len(points) /\ phase = "interval" /\ interval # Absent
      /\ next' = next + 1
      /\ UNCHANGED <<phase, interval, most, roundedUp, points>>
  BY DEF TakeForInterval, Take
<1> DEFINE full == IntervalFull(next)
           g == [first |-> first, last |-> next,
                 time |-> (total + points[next]) \div (next - first + 1)]
<1>1. /\ next \in Nat \ {0} /\ first \in Nat \ {0} /\ first <= next
      /\ Len(points) \in Nat /\ points \in Seq(Nat) /\ Ascending(points)
      /\ groups \in Seq(Group) /\ Len(groups) \in Nat
      /\ first = Closed(Len(groups)) + 1
  BY DEF Ordered, ReductionTypeOK, GroupsInOrder
<1>2. SizeWith(next) = points[next] - Before /\ Before \in Nat
  BY <1>0, SizeIs
<1>3. interval \in Nat
  BY <1>0 DEF Ordered, ReductionTypeOK
<1>4. points[next] \in Nat
  BY <1>0, <1>1
<1>5. CASE full \/ next = Len(points)
  <2>1. groups' = Append(groups, g) /\ first' = next + 1 /\ size' = 0
    BY <1>5 DEF TakeForInterval, Take
  <2>2. Sizes'
    BY <1>0, <1>1, <2>1 DEF Sizes
  <2>3. /\ Len(groups') = Len(groups) + 1
        /\ \A k \in 1 .. Len(groups) : groups'[k] = groups[k]
        /\ groups'[Len(groups) + 1] = g
        /\ DOMAIN groups' = 1 .. Len(groups) + 1
    BY <1>1, <2>1
  <2>4. \A k \in 0 .. Len(groups) : Closed(k)' = Closed(k)
    BY <1>1, <2>3 DEF Closed
  <2>5. ASSUME NEW k \in DOMAIN groups' \ {1}
        PROVE  LET from == points'[Closed(k - 1)'] IN
               /\ \A p \in groups'[k].first .. groups'[k].last - 1 :
                    points'[p] - from <= interval'
               /\ groups'[k].last < Len(points') =>
                    points'[groups'[k].last] - from > interval'
    <3>1. k \in 2 .. Len(groups) + 1 /\ k - 1 \in 0 .. Len(groups)
      BY <1>1, <2>3
    <3>2. Closed(k - 1)' = Closed(k - 1)
      BY <2>4, <3>1
    <3>3. CASE k \in 1 .. Len(groups)
      <4>1. groups'[k] = groups[k] /\ k \in DOMAIN groups \ {1}
        BY <1>1, <2>3, <3>1, <3>3
      <4>2. LET from == points[Closed(k - 1)] IN
            /\ \A p \in groups[k].first .. groups[k].last - 1 :
                 points[p] - from <= interval
            /\ groups[k].last < Len(points) =>
                 points[groups[k].last] - from > interval
        BY <1>0, <4>1 DEF IntervalsApart
      <4> QED BY <1>0, <3>2, <4>1, <4>2
    <3>4. CASE k = Len(groups) + 1
      <4>1. groups'[k] = g /\ k - 1 = Len(groups) /\ Len(groups) \in DOMAIN groups
        BY <1>1, <2>3, <3>1, <3>4
      <4>2. groups[Len(groups)] \in Group /\ Closed(Len(groups)) = groups[Len(groups)].last
        BY <1>1, <3>1, <3>4, <4>1 DEF Closed
      <4>3. first # 1 /\ Closed(Len(groups)) = first - 1
        <5>1. groups[Len(groups)].last \in Nat \ {0}
          BY <4>2 DEF Group
        <5> DEFINE c == Closed(Len(groups))
        <5>2. c \in Nat \ {0} /\ first = c + 1
          BY <1>1, <4>2, <5>1
        <5> HIDE DEF c
        <5>3. first # 1 /\ c = first - 1
          BY <5>2
        <5> QED BY <5>3 DEF c
      <4>4. points'[Closed(k - 1)'] = Before
        BY <1>0, <3>2, <4>1, <4>3 DEF Before
      <4>5. ASSUME NEW p \in first .. next - 1
            PROVE  points[p] - Before <= interval
        <5>1. p \in 1 .. Len(points) /\ next - 1 \in 1 .. Len(points)
              /\ p <= next - 1 /\ first < next
          BY <1>0, <1>1
        <5>2. /\ points[p] <= points[next - 1]
              /\ points[p] \in Nat /\ points[next - 1] \in Nat
          BY <1>1, <5>1 DEF Ascending
        <5>3. points[next - 1] - Before <= interval
          BY <1>0, <5>1 DEF Sizes
        <5> DEFINE a == points[p]
                   b == points[next - 1]
        <5> HIDE DEF a, b
        <5>4. a \in Nat /\ b \in Nat /\ a <= b /\ b - Before <= interval
          BY <5>2, <5>3 DEF a, b
        <5>5. a - Before <= interval
          BY <1>2, <1>3, <5>4
        <5> QED BY <5>5 DEF a
      <4>6. next < Len(points) => points[next] - Before > interval
        <5>1. next < Len(points) => IntervalFull(next)
          BY <1>1, <1>5
        <5> QED BY <1>2, <5>1 DEF IntervalFull
      <4> QED BY <1>0, <4>1, <4>4, <4>5, <4>6
    <3> QED BY <1>1, <3>1, <3>3, <3>4
  <2>6. IntervalsApart'
    BY <2>5 DEF IntervalsApart
  <2> QED BY <2>2, <2>6
<1>6. CASE ~(full \/ next = Len(points))
  <2>1. UNCHANGED <<first, groups>> /\ size' = SizeWith(next)
    BY <1>6 DEF TakeForInterval, Take
  <2>2. IntervalsApart'
    BY <1>0, <2>1 DEF IntervalsApart, Closed
  <2>3. SizeWith(next) <= interval
    <3>1. ~(SizeWith(next) > interval)
      BY <1>6 DEF IntervalFull
    <3> QED BY <1>2, <1>3, <1>4, <3>1
  <2>4. Before' = Before /\ points'[next' - 1] = points[next] /\ first' # next'
    BY <1>0, <1>1, <2>1 DEF Before
  <2>5. Sizes'
    BY <1>0, <1>2, <2>1, <2>3, <2>4 DEF Sizes
  <2> QED BY <2>2, <2>5
<1> QED BY <1>5, <1>6

-----------------------------------------------------------------------------
(* The share of the points.                                                *)

(* c lists are closed when the i-th point has been seen, in n points of    *)
(* which m are to be kept: about i * m / n, after the first.               *)
Spread(c, i, n, m) ==
  \/ c <= 1
  \/ IF roundedUp THEN (c - 1) * n < i * m ELSE (c - 1) * n <= i * m

(* A list that is closed at the i-th point is due.                         *)
LEMMA CloseSpread ==
  ASSUME NEW n \in Nat \ {0}, NEW m \in Nat \ {0}, NEW i \in Nat \ {0},
         NEW c \in Nat, Spread(c, i - 1, n, m),
         LET rest == (i * m) % n IN
         IF roundedUp /\ i * m >= n THEN 0 < rest /\ rest <= m ELSE rest < m
  PROVE  Spread(c + 1, i, n, m)
<1> DEFINE a == i * m
           b == (i - 1) * m
           q == a \div n
           r == a % n
<1>1. a \in Nat /\ b \in Nat /\ b = a - m /\ m <= a
  OBVIOUS
<1>2. q \in Nat /\ r \in Nat /\ r < n /\ a = q * n + r
  <2> HIDE DEF a
  <2>1. q \in Nat /\ r \in 0 .. n - 1 /\ a = q * n + r
    BY <1>1, Division
  <2> HIDE DEF q, r
  <2> QED BY <2>1
<1>3. (c + 1) - 1 = c
  OBVIOUS
<1>4. q * n \in Nat /\ q * n = a - r
  BY <1>1, <1>2
<1>5. \A k \in Nat : k <= q => k * n <= q * n
  BY <1>2
<1>6. CASE roundedUp
  <2>1. c <= 1 \/ (c - 1) * n < b
    BY <1>6 DEF Spread, b
  <2>2. a >= n
    <3>1. CASE a < n
      <4>1. q = 0
        <5>1. q * n < (0 + 1) * n
          BY <3>1, <1>1, <1>2, <1>4
        <5> HIDE DEF q
        <5> QED BY <1>2, <5>1, Order
      <4>2. r = a /\ r < m
        <5>1. r = a
          BY <1>1, <1>2, <4>1
        <5>2. ~(a >= n)
          BY <1>1, <3>1
        <5> QED BY <5>1, <5>2 DEF a, r
      <4> QED BY <1>1, <4>2
    <3> QED BY <1>1, <3>1
  <2>3. 0 < r /\ r <= m
    BY <1>6, <2>2 DEF a, r
  <2>4. c = 0 \/ c * n < a
    <3> HIDE DEF a, b, q, r
    <3>1. b <= q * n /\ q * n < a
      BY <1>1, <1>2, <1>4, <2>3
    <3>2. q # 0
      BY <1>1, <1>2, <2>2, <2>3
    <3>3. c <= q \/ c = 0
      <4>1. CASE c <= 1
        BY <1>2, <3>2, <4>1
      <4>2. CASE (c - 1) * n < b /\ c # 0
        <5>1. (c - 1) * n < ((q - 1) + 1) * n
          <6>1. (q - 1) + 1 = q
            BY <1>2
          <6>2. (c - 1) * n \in Int
            OBVIOUS
          <6> QED BY <1>1, <1>4, <3>1, <4>2, <6>1, <6>2
        <5>2. c - 1 <= q - 1
          BY <1>2, <5>1, Order
        <5> QED BY <1>2, <5>2
      <4> QED BY <2>1, <4>1, <4>2
    <3>4. c * n \in Nat
      OBVIOUS
    <3> QED BY <1>1, <1>4, <1>5, <3>1, <3>3, <3>4
  <2> QED BY <1>3, <1>6, <2>4 DEF Spread, a
<1>7. CASE ~roundedUp
  <2>1. c <= 1 \/ (c - 1) * n <= b
    BY <1>7 DEF Spread, b
  <2>2. r < m
    BY <1>7 DEF a, r
  <2>3. c = 0 \/ c * n <= a
    <3> HIDE DEF a, b, q, r
    <3>1. b < q * n /\ q * n <= a
      BY <1>1, <1>2, <1>4, <2>2
    <3>2. q # 0
      BY <1>1, <1>2, <2>2
    <3>3. c <= q \/ c = 0
      <4>1. CASE c <= 1
        BY <1>2, <3>2, <4>1
      <4>2. CASE (c - 1) * n <= b /\ c # 0
        <5>1. (c - 1) * n < ((q - 1) + 1) * n
          <6>1. (q - 1) + 1 = q
            BY <1>2
          <6>2. (c - 1) * n \in Int
            OBVIOUS
          <6> QED BY <1>1, <1>4, <3>1, <4>2, <6>1, <6>2
        <5>2. c - 1 <= q - 1
          BY <1>2, <5>1, Order
        <5> QED BY <1>2, <5>2
      <4> QED BY <2>1, <4>1, <4>2
    <3>4. c * n \in Nat
      OBVIOUS
    <3> QED BY <1>1, <1>4, <1>5, <3>1, <3>3, <3>4
  <2> QED BY <1>3, <1>7, <2>3 DEF Spread, a
<1> QED BY <1>6, <1>7

(* A point that does not close a list leaves the share as it is.           *)
LEMMA KeepSpread ==
  ASSUME NEW n \in Nat \ {0}, NEW m \in Nat \ {0}, NEW i \in Nat \ {0},
         NEW c \in Nat, Spread(c, i - 1, n, m)
  PROVE  Spread(c, i, n, m)
<1> DEFINE a == i * m
           b == (i - 1) * m
           d == (c - 1) * n
<1>1. a \in Nat /\ b \in Nat /\ b <= a /\ d \in Int
  OBVIOUS
<1>2. c <= 1 \/ IF roundedUp THEN d < b ELSE d <= b
  BY DEF Spread
<1> HIDE DEF a, b, d
<1>3. c <= 1 \/ IF roundedUp THEN d < a ELSE d <= a
  BY <1>1, <1>2
<1> QED BY <1>3 DEF Spread, a, d

(* Before the last point, at most as many lists are closed as are wanted.  *)
LEMMA SpreadBound ==
  ASSUME NEW n \in Nat \ {0}, NEW m \in Nat \ {0}, NEW i \in Nat,
         NEW c \in Nat, Spread(c, i, n, m), i < n
  PROVE  c <= m
<1>1. CASE c <= 1
  BY <1>1
<1>2. CASE (c - 1) * n <= i * m
  <2>1. i * m < ((m - 1) + 1) * n
    <3>1. i * m < n * m
      OBVIOUS
    <3>2. ((m - 1) + 1) * n = n * m
      OBVIOUS
    <3> QED BY <3>1, <3>2
  <2>2. (c - 1) * n < ((m - 1) + 1) * n
    <3>1. (c - 1) * n \in Int /\ i * m \in Int /\ ((m - 1) + 1) * n \in Int
      OBVIOUS
    <3> QED BY <1>2, <2>1, <3>1
  <2>3. c - 1 <= m - 1
    BY <2>2, Order
  <2> QED BY <2>3
<1>3. c <= 1 \/ (c - 1) * n <= i * m
  <2>1. (c - 1) * n \in Int /\ i * m \in Int
    OBVIOUS
  <2> QED BY <2>1 DEF Spread
<1> QED BY <1>1, <1>2, <1>3

-----------------------------------------------------------------------------
(* The whole reduction.                                                    *)

Fresh == next = 1 /\ first = 1 /\ total = 0 /\ size = 0 /\ groups = <<>>

(* Nothing happens in a pass that is to be skipped.                        *)
Untouched ==
  /\ phase \in {"interval", "max", "answered"}
  /\ \/ phase = "interval" /\ interval = Absent
     \/ phase = "max" /\ Few
     \/ phase = "answered"
     => Fresh

(* How far the second pass is, in the number of lists.                     *)
Shares ==
  phase = "max" /\ ~Few =>
    /\ next = 1 => groups = <<>>
    /\ next \in 2 .. Len(points) =>
         Spread(Len(groups), next - 2, Len(points), most)
    /\ next > Len(points) => Len(groups) <= most + 1

Bounded == phase = "answered" /\ most # Absent => Len(points) <= most + 1

Reduced == Ordered /\ Untouched /\ Sizes /\ IntervalsApart /\ Shares /\ Bounded

(* A point of the second pass.                                             *)
LEMMA TakeShares ==
  ASSUME Ordered, Shares, TakeForMax
  PROVE  Shares'
<1> DEFINE n == Len(points)
           c == Len(groups)
           i == next - 1
<1>1. /\ phase = "max" /\ ~Few /\ next <= n /\ next' = next + 1
      /\ UNCHANGED <<phase, interval, most, roundedUp, points>>
  BY DEF TakeForMax, Take
<1>2. /\ n \in Nat /\ c \in Nat /\ next \in Nat \ {0} /\ groups \in Seq(Group)
  BY DEF Ordered, ReductionTypeOK
<1>3. most \in Nat \ {0} /\ most < n
  <2>1. most # Absent /\ ~(n <= most)
    BY <1>1 DEF Few
  <2>2. most \in Nat \ {0}
    BY <2>1 DEF Ordered, ReductionTypeOK
  <2> QED BY <1>2, <2>1, <2>2
<1>4. Len(groups') \in {c, c + 1} /\ (Len(groups') = c + 1 => ShareFull(next) \/ next = n)
  <2>1. CASE ShareFull(next) \/ next = n
    <3>1. \E g : groups' = Append(groups, g)
      BY <2>1 DEF TakeForMax, Take
    <3> QED BY <1>2, <2>1, <3>1
  <2>2. CASE ~(ShareFull(next) \/ next = n)
    <3>1. groups' = groups
      BY <2>2 DEF TakeForMax, Take
    <3> QED BY <1>2, <3>1
  <2> QED BY <2>1, <2>2
<1>5. CASE next = 1
  <2>1. c = 0 /\ n >= 2
    <3>1. groups = <<>>
      BY <1>1, <1>5 DEF Shares
    <3> QED BY <1>2, <1>3, <3>1
  <2>2. Len(groups') <= 1
    <3>1. Len(groups') \in {c, c + 1} /\ c = 0
      BY <1>4, <2>1
    <3> DEFINE d == Len(groups')
    <3> HIDE DEF c, d
    <3>2. d = 0 \/ d = 1
      BY <3>1 DEF d
    <3>3. d <= 1
      BY <3>2
    <3> QED BY <3>3 DEF d
  <2>3. Spread(Len(groups), next - 2, Len(points), most)'
    BY <2>2 DEF Spread
  <2>4. next' = 2 /\ ~(next' > Len(points'))
    BY <1>1, <1>2, <1>5, <2>1
  <2> QED BY <2>3, <2>4 DEF Shares
<1>6. CASE next # 1
  <2>1. i \in Nat \ {0} /\ i - 1 = next - 2 /\ next' - 2 = i
    BY <1>1, <1>2, <1>6
  <2>2. Spread(c, i - 1, n, most)
    <3>1. next \in 2 .. n
      BY <1>1, <1>2, <1>6
    <3>2. Spread(c, next - 2, n, most)
      BY <1>1, <3>1 DEF Shares
    <3> QED BY <2>1, <3>2
  <2>3. n \in Nat \ {0}
    BY <1>2, <1>3
  <2>4. CASE next = n
    <3>1. c <= most
      <4>1. i - 1 \in Nat /\ i - 1 < n
        BY <1>2, <2>1, <2>4
      <4> HIDE DEF n, c, i
      <4> QED BY <1>2, <1>3, <2>2, <2>3, <4>1, SpreadBound
    <3>2. Len(groups') <= most + 1
      BY <1>2, <1>3, <1>4, <3>1
    <3> QED BY <1>1, <1>2, <1>3, <2>4, <3>2 DEF Shares
  <2>5. CASE next < n
    <3>1. Spread(Len(groups'), i, n, most)
      <4>1. CASE Len(groups') = c
        <5> HIDE DEF n, c, i
        <5> QED BY <1>2, <1>3, <2>1, <2>2, <2>3, <4>1, KeepSpread
      <4>2. CASE Len(groups') = c + 1
        <5>1. ShareFull(next)
          BY <1>2, <1>4, <2>5, <4>2
        <5>2. LET rest == (i * most) % n IN
              IF roundedUp /\ i * most >= n THEN 0 < rest /\ rest <= most
              ELSE rest < most
          BY <5>1 DEF ShareFull
        <5> HIDE DEF n, c, i
        <5> QED BY <1>2, <1>3, <2>1, <2>2, <2>3, <4>2, <5>2, CloseSpread
      <4> QED BY <1>4, <4>1, <4>2
    <3>2. Spread(Len(groups'), i, n, most) = Spread(Len(groups), next - 2, Len(points), most)'
      BY <1>1, <2>1 DEF Spread
    <3>3. ~(next' > n) /\ next' # 1
      BY <1>1, <1>2, <2>5
    <3> QED BY <1>1, <3>1, <3>2, <3>3 DEF Shares
  <2> QED BY <1>1, <1>2, <2>4, <2>5
<1> QED BY <1>5, <1>6

(* The start.                                                              *)
LEMMA InitReduced == ReduceInit => Reduced
<1> SUFFICES ASSUME ReduceInit PROVE Reduced
  OBVIOUS
<1>1. Ordered
  BY InitOrdered
<1>2. Untouched
  BY DEF ReduceInit, Untouched, Fresh
<1>3. Sizes /\ IntervalsApart
  BY DEF ReduceInit, Sizes, IntervalsApart
<1>4. Shares /\ Bounded
  BY DEF ReduceInit, Shares, Bounded
<1> QED BY <1>1, <1>2, <1>3, <1>4 DEF Reduced

(* Each step.                                                              *)
LEMMA StepReduced == Reduced /\ [Reduce]_reductionVars => Reduced'
<1> SUFFICES ASSUME Reduced, [Reduce]_reductionVars PROVE Reduced'
  OBVIOUS
<1>0. Ordered /\ Untouched /\ Sizes /\ IntervalsApart /\ Shares /\ Bounded
  BY DEF Reduced
<1>1. Ordered'
  BY <1>0, StepOrdered
<1>2. most \in (Nat \ {0}) \cup {Absent} /\ Len(points) \in Nat
  BY <1>0 DEF Ordered, ReductionTypeOK
<1>3. CASE SkipInterval
  <2>1. /\ phase' = "max" /\ Fresh /\ UNCHANGED <<interval, most, roundedUp, points, passVars>>
    BY <1>0, <1>3 DEF SkipInterval, SkipTo, Untouched
  <2>2. Fresh'
    BY <2>1 DEF Fresh, passVars
  <2>3. Untouched' /\ Sizes' /\ IntervalsApart' /\ Bounded'
    BY <2>1, <2>2 DEF Untouched, Sizes, IntervalsApart, Bounded
  <2>4. Shares'
    <3>1. groups' = <<>> /\ next' = 1 /\ Len(points') \in Nat
      BY <1>2, <2>1, <2>2 DEF Fresh
    <3>2. ~(Few') => Len(points') \in Nat \ {0}
      <4>1. CASE most = Absent
        BY <2>1, <4>1 DEF Few
      <4>2. CASE most # Absent
        <5>1. most \in Nat \ {0} /\ most' = most /\ points' = points
          BY <1>2, <2>1, <4>2
        <5> QED BY <1>2, <5>1, <4>2 DEF Few
      <4> QED BY <4>1, <4>2
    <3> QED BY <3>1, <3>2 DEF Shares
  <2> QED BY <1>1, <2>3, <2>4 DEF Reduced
<1>4. CASE TakeForInterval
  <2>1. /\ phase = "interval" /\ interval # Absent
        /\ UNCHANGED <<phase, interval, most, roundedUp, points>>
    BY <1>4 DEF TakeForInterval
  <2>2. Sizes' /\ IntervalsApart'
    BY <1>0, <1>4, TakeApart
  <2>3. Untouched' /\ Shares' /\ Bounded'
    BY <2>1 DEF Untouched, Shares, Bounded
  <2> QED BY <1>1, <2>2, <2>3 DEF Reduced
<1>5. CASE EndInterval
  <2>1. /\ phase' = "max" /\ Fresh' /\ UNCHANGED <<interval, most, roundedUp>>
    BY <1>5 DEF EndInterval, Replace, Fresh
  <2>2. Untouched' /\ Sizes' /\ IntervalsApart' /\ Bounded'
    BY <2>1 DEF Untouched, Sizes, IntervalsApart, Bounded
  <2>3. Shares'
    <3>1. groups' = <<>> /\ next' = 1 /\ Len(points') \in Nat
      BY <1>1, <2>1 DEF Fresh, Ordered, ReductionTypeOK
    <3>2. ~(Few') => Len(points') \in Nat \ {0}
      <4>1. CASE most = Absent
        BY <2>1, <4>1 DEF Few
      <4>2. CASE most # Absent
        <5>1. most \in Nat \ {0} /\ most' = most
          BY <1>2, <2>1, <4>2
        <5> QED BY <3>1, <5>1, <4>2 DEF Few
      <4> QED BY <4>1, <4>2
    <3> QED BY <3>1, <3>2 DEF Shares
  <2> QED BY <1>1, <2>2, <2>3 DEF Reduced
<1>6. CASE SkipMax
  <2>1. /\ phase' = "answered" /\ Few /\ Fresh
        /\ UNCHANGED <<interval, most, roundedUp, points, passVars>>
    BY <1>0, <1>6 DEF SkipMax, SkipTo, Untouched
  <2>2. Fresh'
    BY <2>1 DEF Fresh, passVars
  <2>3. Untouched' /\ Sizes' /\ IntervalsApart' /\ Shares'
    BY <2>1, <2>2 DEF Untouched, Sizes, IntervalsApart, Shares
  <2>4. Bounded'
    <3>1. CASE most = Absent
      BY <2>1, <3>1 DEF Bounded
    <3>2. CASE most # Absent
      <4>1. most \in Nat /\ Len(points) <= most
        BY <1>2, <2>1, <3>2 DEF Few
      <4>2. Len(points) <= most + 1
        BY <1>2, <4>1
      <4> QED BY <2>1, <4>2 DEF Bounded
    <3> QED BY <3>1, <3>2
  <2> QED BY <1>1, <2>3, <2>4 DEF Reduced
<1>7. CASE TakeForMax
  <2>1. /\ phase = "max" /\ ~Few
        /\ UNCHANGED <<phase, interval, most, roundedUp, points>>
    BY <1>7 DEF TakeForMax
  <2>2. Shares'
    BY <1>0, <1>7, TakeShares
  <2>3. Untouched' /\ Sizes' /\ IntervalsApart' /\ Bounded'
    BY <2>1 DEF Untouched, Sizes, IntervalsApart, Bounded, Few
  <2> QED BY <1>1, <2>2, <2>3 DEF Reduced
<1>8. CASE EndMax
  <2>1. /\ phase = "max" /\ ~Few /\ phase' = "answered" /\ Fresh'
        /\ next > Len(points)
        /\ UNCHANGED <<interval, most, roundedUp>>
    BY <1>8 DEF EndMax, Replace, Fresh
  <2>2. Untouched' /\ Sizes' /\ IntervalsApart' /\ Shares'
    BY <2>1 DEF Untouched, Sizes, IntervalsApart, Shares
  <2>3. Len(groups) <= most + 1
    BY <1>0, <2>1 DEF Shares
  <2>4. Len(points') = Len(groups)
    <3>1. points' = [k \in DOMAIN groups |-> groups[k].time]
      BY <1>8 DEF EndMax, Replace
    <3>2. groups \in Seq(Group)
      BY <1>0 DEF Ordered, ReductionTypeOK
    <3>3. points' = [k \in 1 .. Len(groups) |-> groups[k].time] /\ Len(groups) \in Nat
      BY <3>1, <3>2
    <3> QED BY <3>3
  <2>5. Bounded'
    BY <2>1, <2>3, <2>4 DEF Bounded
  <2> QED BY <1>1, <2>2, <2>5 DEF Reduced
<1>9. CASE UNCHANGED reductionVars
  <2>1. Untouched' /\ Sizes' /\ IntervalsApart'
    BY <1>0, <1>9 DEF Untouched, Sizes, IntervalsApart, Few, Fresh, Before,
                      Closed, reductionVars, passVars
  <2>2. Shares' /\ Bounded'
    BY <1>0, <1>9 DEF Shares, Bounded, Spread, Few, reductionVars, passVars
  <2> QED BY <1>1, <2>1, <2>2 DEF Reduced
<1> QED BY <1>3, <1>4, <1>5, <1>6, <1>7, <1>8, <1>9 DEF Reduce

(* The averages of two lists are never for one interval, and the answer has*)
(* one point at most beyond maxDataPoints, however the ratio is rounded    *)
(* (AnswerBounded; GrafanaBackend.scala:134-141 and 207-219).              *)
THEOREM AnswerIsBounded == ReduceSpec => []AnswerBounded
<1>1. Reduced => AnswerBounded
  BY DEF Reduced, Bounded, AnswerBounded
<1> QED BY <1>1, InitReduced, StepReduced, PTL DEF ReduceSpec

-----------------------------------------------------------------------------
(* 3. Queries. Sequences in strictly ascending order first.                *)
Strict(s) == \A i, j \in DOMAIN s : i < j => s[i] < s[j]

(* Two of them, the first of which ends before the second begins.          *)
LEMMA JoinStrict ==
  ASSUME NEW s \in Seq(Nat), NEW t \in Seq(Nat), Strict(s), Strict(t),
         \A a \in Range(s), b \in Range(t) : a < b
  PROVE  /\ s \o t \in Seq(Nat) /\ Strict(s \o t)
         /\ Range(s \o t) = Range(s) \cup Range(t)
<1> DEFINE m == Len(s)
           n == Len(t)
           u == s \o t
<1>1. /\ m \in Nat /\ n \in Nat /\ DOMAIN s = 1 .. m /\ DOMAIN t = 1 .. n
      /\ u \in Seq(Nat) /\ DOMAIN u = 1 .. m + n
  OBVIOUS
<1>2. /\ \A i \in 1 .. m : u[i] = s[i]
      /\ \A i \in m + 1 .. m + n : u[i] = t[i - m]
  OBVIOUS
<1> HIDE DEF m, n, u
<1>3. \A i \in 1 .. m : s[i] \in Range(s)
  BY <1>1 DEF Range
<1>4. \A i \in m + 1 .. m + n : i - m \in 1 .. n /\ t[i - m] \in Range(t)
  <2>1. \A i \in m + 1 .. m + n : i - m \in 1 .. n
    BY <1>1
  <2>2. \A i \in 1 .. n : t[i] \in Range(t)
    BY <1>1 DEF Range
  <2> QED BY <2>1, <2>2
<1>5. ASSUME NEW i \in 1 .. m + n, NEW j \in 1 .. m + n, i < j
      PROVE  u[i] < u[j]
  <2>1. CASE j <= m
    <3>1. i \in 1 .. m /\ j \in 1 .. m
      BY <1>1, <1>5, <2>1
    <3> QED BY <1>1, <1>2, <1>5, <3>1 DEF Strict
  <2>2. CASE i > m
    <3>1. /\ i \in m + 1 .. m + n /\ j \in m + 1 .. m + n
          /\ i - m \in 1 .. n /\ j - m \in 1 .. n /\ i - m < j - m
      BY <1>1, <1>5, <2>2
    <3> QED BY <1>1, <1>2, <3>1 DEF Strict
  <2>3. CASE i <= m /\ j > m
    <3>1. i \in 1 .. m /\ j \in m + 1 .. m + n
      BY <1>1, <1>5, <2>3
    <3> QED BY <1>2, <1>3, <1>4, <3>1
  <2> QED BY <1>1, <2>1, <2>2, <2>3
<1>6. Range(u) \subseteq Range(s) \cup Range(t)
  <2>1. ASSUME NEW i \in 1 .. m + n PROVE u[i] \in Range(s) \cup Range(t)
    <3>1. i \in 1 .. m \/ i \in m + 1 .. m + n
      BY <1>1
    <3> QED BY <1>2, <1>3, <1>4, <3>1
  <2> QED BY <1>1, <2>1 DEF Range
<1>7. Range(s) \subseteq Range(u)
  <2>1. \A i \in 1 .. m : i \in DOMAIN u /\ s[i] = u[i]
    BY <1>1, <1>2
  <2> QED BY <1>1, <2>1 DEF Range
<1>8. Range(t) \subseteq Range(u)
  <2>1. \A i \in 1 .. n : i + m \in m + 1 .. m + n /\ (i + m) - m = i
    BY <1>1
  <2>2. \A i \in 1 .. n : i + m \in DOMAIN u /\ t[i] = u[i + m]
    BY <1>1, <1>2, <2>1
  <2> QED BY <1>1, <2>2 DEF Range
<1>9. Strict(u)
  BY <1>1, <1>5 DEF Strict
<1> QED BY <1>1, <1>6, <1>7, <1>8, <1>9 DEF u

(* What FlattenSeq computes, step by step.                                 *)
LEMMA FlattenSteps ==
  ASSUME NEW n \in Nat \ {0}, NEW q \in [1 .. n -> Seq(Nat)]
  PROVE  \E F \in [1 .. n -> Seq(Nat)] :
           /\ \A i \in 1 .. n : F[i] = IF i = 1 THEN q[i] ELSE F[i - 1] \o q[i]
           /\ FlattenSeq(q) = F[n]
<1> DEFINE X == 1 .. n
           P == Seq(Nat)
           W == [i \in X |-> i]
           G == [p \in X \X [X -> P] |->
                   IF p[1] = 1 THEN q[p[1]] ELSE p[2][p[1] - 1] \o q[p[1]]]
           d == CHOOSE f : f = [i \in 1 .. Len(q) |->
                                  IF i = 1 THEN q[i] ELSE f[i - 1] \o q[i]]
<1>0. Len(q) = n /\ n \in X /\ <<>> \in P
  OBVIOUS
<1>1. W \in [X -> Nat]
  OBVIOUS
<1>2. ASSUME NEW i \in X, NEW a \in [X -> P]
      PROVE  G[<<i, a>>] = IF i = 1 THEN q[i] ELSE a[i - 1] \o q[i]
  OBVIOUS
<1>3. G \in [X \X [X -> P] -> P]
  <2>1. ASSUME NEW i \in X, NEW a \in [X -> P] PROVE G[<<i, a>>] \in P
    <3>1. q[i] \in P
      OBVIOUS
    <3>2. CASE i = 1
      <4> HIDE DEF G
      <4> QED BY <1>2, <3>1, <3>2
    <3>3. CASE i # 1
      <4>1. a[i - 1] \in Seq(Nat)
        BY <3>3
      <4>2. a[i - 1] \o q[i] \in Seq(Nat)
        BY <3>1, <4>1
      <4> HIDE DEF G
      <4> QED BY <1>2, <3>3, <4>2
    <3> QED BY <3>2, <3>3
  <2> QED BY <2>1
<1>4. ASSUME NEW i \in X, NEW a \in [X -> P], NEW b \in [X -> P],
             \A j \in X : W[j] < W[i] => a[j] = b[j]
      PROVE  G[<<i, a>>] = G[<<i, b>>]
  <2>1. i # 1 => a[i - 1] = b[i - 1]
    <3>1. i # 1 => i - 1 \in X /\ W[i - 1] < W[i]
      OBVIOUS
    <3> QED BY <1>4, <3>1
  <2> HIDE DEF G, X, P, W
  <2>2. CASE i = 1
    BY <1>2, <2>2
  <2>3. CASE i # 1
    BY <1>2, <2>1, <2>3
  <2> QED BY <2>2, <2>3
<1>5. PICK F \in [X -> P] : \A i \in X : F[i] = G[<<i, F>>]
  <2>1. G \in Steps(X, W, P)
    <3> HIDE DEF G, W, X, P
    <3> QED BY <1>3, <1>4 DEF Steps
  <2>2. P # {}
    BY <1>0
  <2> HIDE DEF G, W, X, P, d
  <2>3. Fixed(X, P, G) # {}
    BY <1>1, <2>1, <2>2, FixedExists
  <2> QED BY <2>3 DEF Fixed
<1>6. \A i \in X : F[i] = IF i = 1 THEN q[i] ELSE F[i - 1] \o q[i]
  <2> HIDE DEF G
  <2> QED BY <1>2, <1>5
<1> HIDE DEF G
<1>7. F = [i \in 1 .. Len(q) |-> IF i = 1 THEN q[i] ELSE F[i - 1] \o q[i]]
  BY <1>0, <1>6
<1>8. d = [i \in 1 .. Len(q) |-> IF i = 1 THEN q[i] ELSE d[i - 1] \o q[i]]
  BY <1>7
<1>9. FlattenSeq(q) = d[n]
  BY <1>0 DEF FlattenSeq
<1> HIDE DEF d
<1>10. \A i \in X : d[i] = IF i = 1 THEN q[i] ELSE d[i - 1] \o q[i]
  BY <1>0, <1>8
<1> DEFINE T == {i \in Nat : i \in X => d[i] = F[i]}
<1>11. \A i \in X : d[i] = F[i]
  <2>1. 0 \in T
    OBVIOUS
  <2>2. ASSUME NEW i \in Nat, i \in T PROVE i + 1 \in T
    <3> SUFFICES ASSUME i + 1 \in X PROVE d[i + 1] = F[i + 1]
      OBVIOUS
    <3>1. CASE i = 0
      BY <1>6, <1>10, <3>1
    <3>2. CASE i # 0
      <4>1. i \in X /\ i + 1 # 1 /\ (i + 1) - 1 = i
        BY <3>2
      <4>2. d[i] = F[i]
        BY <2>2, <4>1
      <4> HIDE DEF X
      <4>3. d[i + 1] = d[i] \o q[i + 1] /\ F[i + 1] = F[i] \o q[i + 1]
        BY <1>6, <1>10, <4>1
      <4> QED BY <4>2, <4>3
    <3> QED BY <3>1, <3>2
  <2>3. Nat \subseteq T
    <3> HIDE DEF T
    <3> QED BY <2>1, <2>2, Induction
  <2> QED BY <2>3
<1> QED BY <1>0, <1>6, <1>9, <1>11

(* Sequences that follow one another in order make an ordered sequence.    *)
LEMMA FlattenStrict ==
  ASSUME NEW n \in Nat, NEW q \in [1 .. n -> Seq(Nat)],
         \A i \in 1 .. n : Strict(q[i]),
         \A i, j \in 1 .. n : i < j =>
           \A a \in Range(q[i]), b \in Range(q[j]) : a < b
  PROVE  /\ FlattenSeq(q) \in Seq(Nat) /\ Strict(FlattenSeq(q))
         /\ Range(FlattenSeq(q)) = UNION {Range(q[i]) : i \in 1 .. n}
<1>1. CASE n = 0
  <2>1. q = <<>>
    BY <1>1
  <2>2. FlattenSeq(q) = <<>>
    BY <2>1 DEF FlattenSeq
  <2>3. \A s : s = <<>> => s \in Seq(Nat) /\ DOMAIN s = {}
    OBVIOUS
  <2> DEFINE s == FlattenSeq(q)
  <2>4. s \in Seq(Nat) /\ DOMAIN s = {}
    BY <2>2, <2>3
  <2>5. \A i : i \notin 1 .. n
    BY <1>1
  <2> HIDE DEF s
  <2>6. Strict(s) /\ Range(s) = {}
    BY <2>4 DEF Strict, Range
  <2>7. UNION {Range(q[i]) : i \in 1 .. n} = {}
    BY <2>5
  <2> QED BY <2>4, <2>6, <2>7 DEF s
<1>2. CASE n # 0
  <2>1. PICK F \in [1 .. n -> Seq(Nat)] :
          /\ \A i \in 1 .. n : F[i] = IF i = 1 THEN q[i] ELSE F[i - 1] \o q[i]
          /\ FlattenSeq(q) = F[n]
    BY <1>2, FlattenSteps
  <2> DEFINE U(i) == UNION {Range(q[j]) : j \in 1 .. i}
             T == {i \in Nat : i \in 1 .. n => Strict(F[i]) /\ Range(F[i]) = U(i)}
  <2>2. 0 \in T
    OBVIOUS
  <2>3. ASSUME NEW i \in Nat, i \in T PROVE i + 1 \in T
    <3> SUFFICES ASSUME i + 1 \in 1 .. n
                 PROVE  Strict(F[i + 1]) /\ Range(F[i + 1]) = U(i + 1)
      OBVIOUS
    <3>1. CASE i = 0
      <4>1. F[i + 1] = q[1] /\ 1 \in 1 .. n
        BY <2>1, <3>1
      <4>2. U(i + 1) = Range(q[1])
        BY <3>1
      <4> HIDE DEF U
      <4> QED BY <4>1, <4>2
    <3>2. CASE i # 0
      <4>1. i \in 1 .. n /\ i + 1 # 1 /\ (i + 1) - 1 = i
        BY <3>2
      <4>2. Strict(F[i]) /\ Range(F[i]) = U(i)
        BY <2>3, <4>1
      <4>3. F[i + 1] = F[i] \o q[i + 1]
        BY <2>1, <4>1
      <4>4. \A a \in U(i), b \in Range(q[i + 1]) : a < b
        <5> SUFFICES ASSUME NEW j \in 1 .. i, NEW a \in Range(q[j]),
                            NEW b \in Range(q[i + 1])
                     PROVE  a < b
          OBVIOUS
        <5>1. j \in 1 .. n /\ i + 1 \in 1 .. n /\ j < i + 1
          BY <4>1
        <5>2. \A x \in Range(q[j]), y \in Range(q[i + 1]) : x < y
          BY <5>1
        <5> QED BY <5>2
      <4>5. U(i + 1) = U(i) \cup Range(q[i + 1])
        <5>1. 1 .. i + 1 = (1 .. i) \cup {i + 1}
          OBVIOUS
        <5> QED BY <5>1
      <4> HIDE DEF U
      <4>6. F[i] \in Seq(Nat) /\ q[i + 1] \in Seq(Nat) /\ Strict(q[i + 1])
        BY <4>1
      <4>7. /\ Strict(F[i] \o q[i + 1])
            /\ Range(F[i] \o q[i + 1]) = Range(F[i]) \cup Range(q[i + 1])
        BY <4>2, <4>4, <4>6, JoinStrict
      <4> QED BY <4>2, <4>3, <4>5, <4>7
    <3> QED BY <3>1, <3>2
  <2>4. Nat \subseteq T
    <3> HIDE DEF T
    <3> QED BY <2>2, <2>3, Induction
  <2>5. n \in 1 .. n
    BY <1>2
  <2> QED BY <2>1, <2>4, <2>5
<1> QED BY <1>1, <1>2

(* The enumerations of T from its greatest element to its least one.       *)
Descending(T) ==
  {f \in [1 .. Cardinality(T) -> T] :
     \A i, j \in DOMAIN f : i < j => f[i] > f[j]}

(* There is one, and it has all the elements of T.                         *)
LEMMA DescendingExists ==
  ASSUME NEW T, T \subseteq Nat, IsFiniteSet(T)
  PROVE  Descending(T) # {}
<1> DEFINE X == {n \in Nat : \A U \in SUBSET T : Cardinality(U) = n => Descending(U) # {}}
<1>0. \A U \in SUBSET T : IsFiniteSet(U) /\ Cardinality(U) \in Nat
  BY FS_Subset, FS_CardinalityType
<1>1. 0 \in X
  <2> SUFFICES ASSUME NEW U \in SUBSET T, Cardinality(U) = 0
               PROVE  Descending(U) # {}
    OBVIOUS
  <2>1. U = {}
    BY <1>0, FS_EmptySet
  <2> DEFINE f == [i \in 1 .. Cardinality(U) |-> 0]
  <2>2. \A i : i \notin 1 .. Cardinality(U)
    OBVIOUS
  <2>3. f \in [1 .. Cardinality(U) -> U] /\ DOMAIN f = 1 .. Cardinality(U)
    BY <2>2
  <2> HIDE DEF f
  <2> QED BY <2>2, <2>3 DEF Descending
<1>2. ASSUME NEW n \in Nat, n \in X PROVE n + 1 \in X
  <2> SUFFICES ASSUME NEW U \in SUBSET T, Cardinality(U) = n + 1
               PROVE  Descending(U) # {}
    OBVIOUS
  <2>1. U # {} /\ U \subseteq Nat
    BY <1>0, FS_EmptySet
  <2>2. PICK m \in U : \A y \in U : m <= y
    BY <2>1, LeastElement
  <2> DEFINE V == U \ {m}
  <2>3. Cardinality(V) = n /\ V \in SUBSET T
    BY <1>0, FS_RemoveElement
  <2>4. PICK f : f \in Descending(V)
    <3> HIDE DEF V
    <3> QED BY <1>2, <2>3
  <2>5. /\ f \in [1 .. n -> V]
        /\ \A i, j \in 1 .. n : i < j => f[i] > f[j]
    <3>1. /\ f \in [1 .. Cardinality(V) -> V]
          /\ \A i, j \in DOMAIN f : i < j => f[i] > f[j]
      BY <2>4 DEF Descending
    <3> QED BY <2>3, <3>1
  <2> DEFINE g == [i \in 1 .. n + 1 |-> IF i <= n THEN f[i] ELSE m]
  <2>6. \A i \in 1 .. n + 1 : g[i] \in U
    <3>1. \A i \in 1 .. n : f[i] \in U
      BY <2>5
    <3> QED BY <3>1
  <2>7. \A i, j \in 1 .. n + 1 : i < j => g[i] > g[j]
    <3> SUFFICES ASSUME NEW i \in 1 .. n + 1, NEW j \in 1 .. n + 1, i < j
                 PROVE  g[i] > g[j]
      OBVIOUS
    <3>0. i \in 1 .. n /\ g[i] = f[i] /\ f[i] \in U /\ f[i] # m
      BY <2>5
    <3>1. CASE j <= n
      <4>1. j \in 1 .. n /\ g[j] = f[j]
        BY <3>1
      <4> QED BY <2>5, <3>0, <4>1
    <3>2. CASE j > n
      <4>1. g[j] = m
        BY <3>2
      <4>2. m <= f[i] /\ m \in Nat /\ f[i] \in Nat
        BY <2>1, <2>2, <3>0
      <4> HIDE DEF g
      <4> QED BY <3>0, <4>1, <4>2
    <3> QED BY <3>1, <3>2
  <2>8. g \in [1 .. n + 1 -> U] /\ DOMAIN g = 1 .. n + 1
    BY <2>6
  <2>9. g \in Descending(U)
    <3> HIDE DEF g
    <3>1. 1 .. Cardinality(U) = 1 .. n + 1
      OBVIOUS
    <3>2. g \in [1 .. Cardinality(U) -> U]
      BY <2>8, <3>1
    <3>3. \A i, j \in DOMAIN g : i < j => g[i] > g[j]
      BY <2>7, <2>8
    <3> QED BY <3>2, <3>3 DEF Descending
  <2> QED BY <2>9
<1>3. Nat \subseteq X
  <2> HIDE DEF X
  <2> QED BY <1>1, <1>2, Induction
<1>4. T \in SUBSET T /\ Cardinality(T) \in Nat
  BY <1>0
<1> QED BY <1>3, <1>4

LEMMA DescendingAll ==
  ASSUME NEW T, T \subseteq Nat, IsFiniteSet(T), NEW f \in Descending(T)
  PROVE  f \in Seq(Nat) /\ Range(f) = T
<1> DEFINE n == Cardinality(T)
<1>0. n \in Nat
  BY FS_CardinalityType
<1>1. f \in [1 .. n -> T] /\ \A i, j \in DOMAIN f : i < j => f[i] > f[j]
  BY DEF Descending
<1>2. \A i \in 1 .. n : f[i] \in Nat
  BY <1>1
<1>3. \A i, j \in 1 .. n : f[i] = f[j] => i = j
  <2> SUFFICES ASSUME NEW i \in 1 .. n, NEW j \in 1 .. n, f[i] = f[j], i # j
               PROVE  FALSE
    OBVIOUS
  <2>1. i < j \/ j < i
    BY <1>0
  <2>2. f[i] > f[j] \/ f[j] > f[i]
    BY <1>1, <2>1
  <2> HIDE DEF n
  <2> QED BY <1>2, <2>2
<1>4. f \in Injection(1 .. n, T)
  <2> HIDE DEF n
  <2> QED BY <1>1, <1>3 DEF Injection, IsInjective
<1>5. IsFiniteSet(1 .. n) /\ Cardinality(1 .. n) = Cardinality(T)
  BY <1>0, FS_Interval
<1>6. f \in Surjection(1 .. n, T)
  <2> HIDE DEF n
  <2> QED BY <1>4, <1>5, FS_Injection
<1>7. \A t \in T : \E i \in 1 .. n : f[i] = t
  <2> HIDE DEF n
  <2> QED BY <1>6 DEF Surjection
<1>8. DOMAIN f = 1 .. n
  BY <1>1
<1> HIDE DEF n
<1>9. Range(f) = T
  BY <1>1, <1>7, <1>8 DEF Range
<1>10. f \in Seq(Nat)
  BY <1>0, <1>1, <1>2
<1> QED BY <1>9, <1>10

(* Reversed, it is in strictly ascending order.                            *)
LEMMA DescendingReversed ==
  ASSUME NEW T, T \subseteq Nat, IsFiniteSet(T), NEW f \in Descending(T)
  PROVE  Reverse(f) \in Seq(Nat) /\ Strict(Reverse(f)) /\ Range(Reverse(f)) = T
<1> DEFINE n == Len(f)
           r == Reverse(f)
<1>0. f \in Seq(Nat) /\ Range(f) = T
  BY DescendingAll
<1>1. n \in Nat /\ DOMAIN f = 1 .. n
  BY <1>0
<1>2. \A i, j \in 1 .. n : i < j => f[i] > f[j]
  <2>1. \A i, j \in DOMAIN f : i < j => f[i] > f[j]
    BY DEF Descending
  <2> QED BY <1>1, <2>1
<1>3. r = [i \in 1 .. n |-> f[(n - i) + 1]]
  BY DEF Reverse
<1> HIDE DEF n, r
<1>4. DOMAIN r = 1 .. n /\ \A i \in 1 .. n : r[i] = f[(n - i) + 1]
  BY <1>3
<1>5. \A i \in 1 .. n : (n - i) + 1 \in 1 .. n /\ (n - ((n - i) + 1)) + 1 = i
  BY <1>1
<1>6. \A i \in 1 .. n : f[i] \in Nat
  BY <1>0, <1>1
<1>7. \A i \in 1 .. n : r[i] \in Nat
  BY <1>4, <1>5, <1>6
<1>8. r \in Seq(Nat)
  BY <1>1, <1>3, <1>4, <1>7
<1>9. ASSUME NEW i \in 1 .. n, NEW j \in 1 .. n, i < j PROVE r[i] < r[j]
  <2>1. (n - j) + 1 < (n - i) + 1
    BY <1>1, <1>9
  <2>2. f[(n - j) + 1] > f[(n - i) + 1]
    BY <1>2, <1>5, <2>1
  <2> QED BY <1>4, <1>5, <1>6, <2>2
<1>10. Strict(r)
  BY <1>4, <1>9 DEF Strict
<1>11. Range(r) \subseteq Range(f)
  BY <1>1, <1>4, <1>5 DEF Range
<1>12. Range(f) \subseteq Range(r)
  <2>1. ASSUME NEW i \in 1 .. n PROVE f[i] \in Range(r)
    <3>1. (n - i) + 1 \in DOMAIN r /\ r[(n - i) + 1] = f[i]
      BY <1>4, <1>5
    <3> QED BY <3>1 DEF Range
  <2> QED BY <1>1, <2>1 DEF Range
<1> QED BY <1>0, <1>8, <1>10, <1>11, <1>12 DEF r

(* The rows of a shard, as the query reads them.                           *)
Wanted(S, s) == {Stored(t) : t \in {t \in S : Shard(t) = s /\ Asked(Stored(t))}}

LEMMA RowsReversed ==
  ASSUME NEW S, IsFiniteSet(S), \A t \in S : Stored(t) \in Nat, NEW s
  PROVE  LET r == Reverse(RowsOf(S, s))
         IN r \in Seq(Nat) /\ Strict(r) /\ Range(r) = Wanted(S, s)
<1> DEFINE T == Wanted(S, s)
           A == {t \in S : Shard(t) = s /\ Asked(Stored(t))}
           g == [t \in A |-> Stored(t)]
<1>1. T \subseteq Nat
  BY DEF Wanted
<1>2. IsFiniteSet(A)
  BY FS_Subset
<1>3. g \in Surjection(A, T)
  BY DEF Surjection, Wanted
<1>4. IsFiniteSet(T)
  <2> HIDE DEF g, A, T
  <2> QED BY <1>2, <1>3, FS_Surjection
<1> HIDE DEF g, A
<1>5. RowsOf(S, s) = CHOOSE f : f \in Descending(T)
  BY DEF RowsOf, Wanted, Descending
<1> HIDE DEF T
<1>6. RowsOf(S, s) \in Descending(T)
  BY <1>1, <1>4, <1>5, DescendingExists
<1> QED BY <1>1, <1>4, <1>6, DescendingReversed DEF T

-----------------------------------------------------------------------------
(* The instants that the calendar knows.                                   *)
Dated(t) == t \in Nat /\ t < MonthStart[LastMonth + 1]

LEMMA StartWhole ==
  ASSUME Sharding, NEW s, IsShard(s)
  PROVE  Whole(StartOf(s))
<1>1. CASE sharder = "month"
  <2>1. s \in 1 .. LastMonth + 1 /\ StartOf(s) = MonthStart[s]
    BY <1>1, DayAndMonths DEF IsShard, StartOf
  <2> QED BY <2>1, MonthStartMs
<1>2. CASE sharder = "day"
  <2>0. s \in Nat /\ StartOf(s) = s * Day /\ TicksPerMs \in Nat /\ Day \in Nat
    BY <1>2, DayAndMonths, TicksAssumption DEF IsShard, StartOf
  <2>1. PICK k \in Nat : Day = k * TicksPerMs
    BY UnitWhole DEF FixedUnit, Day
  <2>2. s * (k * TicksPerMs) = (s * k) * TicksPerMs /\ s * k \in Nat
    BY <2>0, Associate
  <2>3. StartOf(s) = (s * k) * TicksPerMs /\ StartOf(s) \in Nat
    <3>1. StartOf(s) = s * (k * TicksPerMs)
      BY <2>0, <2>1
    <3>2. s * Day \in Nat
      BY <2>0
    <3> QED BY <2>0, <2>2, <3>1, <3>2
  <2> QED BY <2>2, <2>3 DEF Whole
<1> QED BY <1>1, <1>2 DEF Sharding

(* Later instants are in later shards.                                     *)
LEMMA ShardGrows ==
  ASSUME Sharding, NEW t, Dated(t), NEW u, Dated(u), t <= u
  PROVE  Shard(t) \in Nat /\ Shard(u) \in Nat /\ Shard(t) <= Shard(u)
<1>1. /\ IsShard(Shard(t)) /\ StartOf(Shard(t)) <= t
      /\ IsShard(Shard(u))
  BY ShardHolds DEF Dated
<1>2. Shard(t) \in Nat /\ Shard(u) \in Nat /\ StartOf(Shard(t)) \in Nat
  BY <1>1, ShardStarts
<1>3. ~ (StartOf(Shard(t)) > u)
  BY <1>1, <1>2 DEF Dated
<1>4. ~ (Shard(t) > Shard(u))
  BY <1>1, <1>3, StartsAfter DEF Dated
<1> QED BY <1>2, <1>4

(* The row of an instant is in the shard of the instant.                   *)
LEMMA ShardOfRow ==
  ASSUME Sharding, NEW t, Dated(t)
  PROVE  Dated(Stored(t)) /\ Shard(Stored(t)) = Shard(t)
<1> DEFINE s == Shard(t)
           r == Stored(t)
<1>1. IsShard(s) /\ StartOf(s) <= t
  BY ShardHolds DEF Dated
<1>2. Whole(StartOf(s))
  BY <1>1, StartWhole
<1>3. StartOf(s) <= r /\ r \in Nat
  BY <1>1, <1>2, StoredAbove DEF Dated
<1>4. r <= t
  BY StoredBelow DEF Dated
<1>5. MonthStart[LastMonth + 1] \in Nat /\ StartOf(s) \in Nat
  <2>1. LastMonth + 1 \in 1 .. LastMonth + 1
    BY DayAndMonths
  <2> QED BY <1>2, <2>1, MonthStartMs DEF Whole
<1>6. Dated(r)
  BY <1>3, <1>4, <1>5 DEF Dated
<1> HIDE DEF r, s
<1>7. Shard(r) \in Nat /\ s \in Nat /\ Shard(r) <= s
  BY <1>4, <1>6, ShardGrows DEF s
<1>8. ~ (StartOf(s) > r)
  BY <1>3, <1>5
<1>9. ~ (s > Shard(r))
  BY <1>1, <1>6, <1>8, StartsAfter DEF Dated
<1> QED BY <1>6, <1>7, <1>9 DEF r, s

(* The rows of S in the range of the request.                              *)
AskedOf(S) == {Stored(t) : t \in {t \in S : Asked(Stored(t))}}

(* The answer for S has each of them once, in strictly ascending order.    *)
LEMMA AnswerIs ==
  ASSUME Sharding, request \in Requests,
         NEW S, IsFiniteSet(S), \A t \in S : Dated(t)
  PROVE  /\ AnswerOf(S) \in Seq(Nat) /\ Strict(AnswerOf(S))
         /\ Range(AnswerOf(S)) = AskedOf(S)
<1> DEFINE from == request.from
           to == request.to
           a == Shard(from)
           b == Shard(to)
           n == IF a <= b THEN b + 1 - a ELSE 0
           q == [k \in 1 .. n |-> Reverse(RowsOf(S, a + k - 1))]
<1>1. /\ from \in Nat /\ to \in Nat
      /\ from < MonthStart[LastMonth] /\ to < MonthStart[LastMonth]
  <2>1. MonthStart[Len(MonthDays)] \in Nat
    <3>1. LastMonth \in 1 .. LastMonth + 1
      BY DayAndMonths
    <3>2. MonthStart[LastMonth] \in Nat
      BY <3>1, MonthStartMs DEF Whole
    <3> QED BY <3>2 DEF LastMonth
  <2>2. /\ from \in 0 .. MonthStart[Len(MonthDays)] - 1
        /\ to \in 0 .. MonthStart[Len(MonthDays)] - 1
    BY RequestsAssumption
  <2> HIDE DEF from, to
  <2> QED BY <2>1, <2>2 DEF LastMonth
<1>2. Dated(from) /\ Dated(to)
  <2>1. LastMonth \in 1 .. LastMonth
    BY DayAndMonths
  <2>2. /\ MonthStart[LastMonth] \in Nat /\ MonthStart[LastMonth + 1] \in Nat
        /\ MonthStart[LastMonth] < MonthStart[LastMonth + 1]
    BY <2>1, MonthStartNext, MonthsGrow, DayAndMonths
  <2> HIDE DEF from, to
  <2> QED BY <1>1, <2>2 DEF Dated
<1>3. a \in Nat /\ b \in Nat
  <2> HIDE DEF from, to
  <2> QED BY <1>2, ShardGrows DEF Dated
<1>4. Shards(from, to) = [k \in 1 .. n |-> a + k - 1]
  <2> HIDE DEF from, to
  <2> QED BY <1>1, ShardsAreConsecutive
<1>5. n \in Nat
  <2> HIDE DEF a, b
  <2> QED BY <1>3
<1>6. AnswerOf(S) = FlattenSeq(q)
  <2> DEFINE shards == Shards(request.from, request.to)
  <2>1. DOMAIN shards = 1 .. n /\ \A k \in 1 .. n : shards[k] = a + k - 1
    <3> HIDE DEF a, b, n
    <3> QED BY <1>4
  <2>2. [k \in DOMAIN shards |-> Reverse(RowsOf(S, shards[k]))] = q
    <3> HIDE DEF shards, a, b, n
    <3> QED BY <2>1
  <2> HIDE DEF q
  <2> QED BY <2>2 DEF AnswerOf
<1>7. \A t \in S : /\ Stored(t) \in Nat /\ Dated(Stored(t))
                   /\ Shard(Stored(t)) = Shard(t)
  BY ShardOfRow DEF Dated
<1>8. ASSUME NEW s
      PROVE  LET r == Reverse(RowsOf(S, s))
             IN r \in Seq(Nat) /\ Strict(r) /\ Range(r) = Wanted(S, s)
  BY <1>7, RowsReversed
<1> HIDE DEF a, b, n, from, to
<1>9. /\ q \in [1 .. n -> Seq(Nat)]
      /\ \A k \in 1 .. n : Strict(q[k]) /\ Range(q[k]) = Wanted(S, a + k - 1)
  BY <1>8
<1> HIDE DEF q
<1>10. ASSUME NEW i \in 1 .. n, NEW j \in 1 .. n, i < j,
              NEW x \in Range(q[i]), NEW y \in Range(q[j])
       PROVE  x < y
  <2>1. PICK t \in S : Shard(t) = a + i - 1 /\ x = Stored(t)
    BY <1>9, <1>10 DEF Wanted
  <2>2. PICK u \in S : Shard(u) = a + j - 1 /\ y = Stored(u)
    BY <1>9, <1>10 DEF Wanted
  <2>3. /\ Dated(x) /\ Dated(y) /\ Shard(x) = a + i - 1 /\ Shard(y) = a + j - 1
    BY <1>7, <2>1, <2>2
  <2>4. ~ (Shard(y) <= Shard(x))
    BY <1>3, <1>5, <1>10, <2>3
  <2>5. ~ (y <= x)
    BY <2>3, <2>4, ShardGrows
  <2> QED BY <2>3, <2>5 DEF Dated
<1>11. /\ FlattenSeq(q) \in Seq(Nat) /\ Strict(FlattenSeq(q))
       /\ Range(FlattenSeq(q)) = UNION {Range(q[k]) : k \in 1 .. n}
  <2>1. \A k \in 1 .. n : Strict(q[k])
    BY <1>9
  <2>2. \A i, j \in 1 .. n : i < j =>
          \A x \in Range(q[i]), y \in Range(q[j]) : x < y
    BY <1>10
  <2>3. q \in [1 .. n -> Seq(Nat)]
    BY <1>9
  <2> QED BY <1>5, <2>1, <2>2, <2>3, FlattenStrict
<1>12. UNION {Range(q[k]) : k \in 1 .. n} = AskedOf(S)
  <2>1. ASSUME NEW k \in 1 .. n PROVE Range(q[k]) \subseteq AskedOf(S)
    BY <1>9 DEF Wanted, AskedOf
  <2>2. ASSUME NEW t \in S, Asked(Stored(t))
        PROVE  \E k \in 1 .. n : Stored(t) \in Range(q[k])
    <3>1. Stored(from) <= Stored(t) /\ Stored(t) <= Stored(to)
      BY <2>2 DEF Asked, from, to
    <3>2. /\ Dated(Stored(from)) /\ Shard(Stored(from)) = a
          /\ Dated(Stored(to)) /\ Shard(Stored(to)) = b
      BY <1>2, ShardOfRow DEF a, b
    <3>3. a <= Shard(t) /\ Shard(t) <= b /\ Shard(t) \in Nat
      BY <1>7, <3>1, <3>2, ShardGrows
    <3> DEFINE k == Shard(t) + 1 - a
    <3>4. k \in 1 .. n /\ a + k - 1 = Shard(t)
      BY <1>3, <3>3 DEF n
    <3>5. Stored(t) \in Wanted(S, a + k - 1)
      <4> HIDE DEF k
      <4> QED BY <2>2, <3>4 DEF Wanted
    <3> HIDE DEF k
    <3> QED BY <1>9, <3>4, <3>5
  <2>3. AskedOf(S) \subseteq UNION {Range(q[k]) : k \in 1 .. n}
    BY <2>2 DEF AskedOf
  <2> QED BY <2>1, <2>3
<1> QED BY <1>6, <1>11, <1>12

-----------------------------------------------------------------------------
(* The merge.                                                              *)

(* The head of a strictly ascending sequence, and the rest.                *)
LEMMA HeadTail ==
  ASSUME NEW s \in Seq(Nat), s # <<>>, Strict(s)
  PROVE  /\ Head(s) \in Nat /\ Head(s) \in Range(s)
         /\ Tail(s) \in Seq(Nat) /\ Strict(Tail(s))
         /\ Range(Tail(s)) = Range(s) \ {Head(s)}
         /\ \A t \in Range(s) : Head(s) <= t
<1> DEFINE n == Len(s)
           u == Tail(s)
<1>1. n \in Nat \ {0} /\ DOMAIN s = 1 .. n /\ 1 \in 1 .. n /\ Head(s) = s[1]
  OBVIOUS
<1>2. u \in Seq(Nat) /\ Len(u) = n - 1 /\ DOMAIN u = 1 .. n - 1
  OBVIOUS
<1>3. \A i \in 1 .. n - 1 : u[i] = s[i + 1]
  OBVIOUS
<1> HIDE DEF n, u
<1>4. \A i \in 1 .. n : s[i] \in Nat
  BY <1>1
<1>5. \A i, j \in 1 .. n : i < j => s[i] < s[j]
  BY <1>1 DEF Strict
<1>6. Head(s) \in Nat /\ Head(s) \in Range(s)
  BY <1>1, <1>4 DEF Range
<1>7. \A i \in 1 .. n - 1 : i + 1 \in 1 .. n /\ 1 < i + 1 /\ u[i] # Head(s)
  <2> SUFFICES ASSUME NEW i \in 1 .. n - 1
               PROVE  i + 1 \in 1 .. n /\ 1 < i + 1 /\ u[i] # Head(s)
    OBVIOUS
  <2>1. i + 1 \in 1 .. n /\ 1 < i + 1
    BY <1>1
  <2>2. s[1] < s[i + 1]
    BY <1>1, <1>5, <2>1
  <2>3. s[1] \in Nat /\ s[i + 1] \in Nat /\ u[i] = s[i + 1]
    BY <1>1, <1>3, <1>4, <2>1
  <2> QED BY <1>1, <2>1, <2>2, <2>3
<1>8. Strict(u)
  <2> SUFFICES ASSUME NEW i \in 1 .. n - 1, NEW j \in 1 .. n - 1, i < j
               PROVE  u[i] < u[j]
    BY <1>2 DEF Strict
  <2>1. i + 1 \in 1 .. n /\ j + 1 \in 1 .. n /\ i + 1 < j + 1
    BY <1>7
  <2> QED BY <1>3, <1>5, <2>1
<1>9. Range(u) \subseteq Range(s) \ {Head(s)}
  BY <1>1, <1>2, <1>3, <1>7 DEF Range
<1>10. ASSUME NEW i \in 1 .. n
       PROVE  /\ Head(s) <= s[i]
              /\ s[i] # Head(s) => s[i] \in Range(u)
  <2>1. CASE i = 1
    BY <1>1, <1>4, <2>1
  <2>2. CASE i # 1
    <3>1. 1 < i /\ i - 1 \in 1 .. n - 1 /\ (i - 1) + 1 = i
      BY <1>1, <2>2
    <3>2. s[1] < s[i] /\ u[i - 1] = s[i]
      BY <1>1, <1>3, <1>5, <3>1
    <3>3. s[i] \in Range(u)
      BY <1>2, <3>1, <3>2 DEF Range
    <3> QED BY <1>1, <1>4, <3>2, <3>3
  <2> QED BY <2>1, <2>2
<1>11. \A t \in Range(s) : Head(s) <= t /\ (t # Head(s) => t \in Range(u))
  BY <1>1, <1>10 DEF Range
<1>12. Range(u) = Range(s) \ {Head(s)}
  BY <1>9, <1>11
<1> QED BY <1>2, <1>6, <1>8, <1>11, <1>12 DEF u

(* The timestamps of a series in O that the request asks for.              *)
TimesOf(O, x) == AskedOf(Of(x, O))

PointsAt(t) == {k \in DOMAIN points : points[k] = t}

(* The series whose row at t is among the points.                          *)
Merged(full, t) == {x \in Series : t \in full[x] /\ t \notin Range(lists[x])}

(* full[x] are the rows that were found of series x: those that had been   *)
(* stored before, and perhaps others. They are among the points, or still  *)
(* in the lists, which start no earlier than the last point.               *)
Merging(full) ==
  /\ \A x \in Series : /\ TimesOf(before, x) \subseteq full[x]
                       /\ full[x] \subseteq TimesOf(stored, x)
                       /\ Strict(lists[x]) /\ Range(lists[x]) \subseteq full[x]
  /\ points \in Seq(Nat) /\ Ascending(points)
  /\ \A k \in DOMAIN points : \A x \in Series : \A t \in Range(lists[x]) :
       points[k] <= t
  /\ \A t \in Nat : Cardinality(PointsAt(t)) = Cardinality(Merged(full, t))

LEMMA FiniteMerged ==
  ASSUME NEW full, NEW t
  PROVE  IsFiniteSet(Merged(full, t)) /\ Cardinality(Merged(full, t)) \in Nat
<1>1. Merged(full, t) \in SUBSET Series /\ IsFiniteSet(Series)
  BY ObservationsAssumption DEF Merged
<1> QED BY <1>1, FS_Subset, FS_CardinalityType

LEMMA FinitePoints ==
  ASSUME points \in Seq(Nat), NEW t
  PROVE  IsFiniteSet(PointsAt(t)) /\ Cardinality(PointsAt(t)) \in Nat
<1>1. PointsAt(t) \in SUBSET (1 .. Len(points)) /\ Len(points) \in Nat
  BY DEF PointsAt
<1>2. IsFiniteSet(1 .. Len(points))
  BY <1>1, FS_Interval
<1> QED BY <1>1, <1>2, FS_Subset, FS_CardinalityType

(* The head of a list becomes a point.                                     *)
LEMMA MergeStep ==
  ASSUME lists \in [Series -> Seq(Nat)], NEW full, Merging(full),
         NEW x \in Series, Merge(x)
  PROVE  lists' \in [Series -> Seq(Nat)] /\ Merging(full)'
<1> DEFINE h == Head(lists[x])
           n == Len(points)
<1>0. /\ phase' = phase /\ request' = request /\ stored' = stored /\ before' = before
      /\ points' = Append(points, h)
      /\ lists' = [lists EXCEPT ![x] = Tail(lists[x])]
      /\ lists[x] # <<>>
      /\ \A y \in Series : lists[y] # <<>> => h <= Head(lists[y])
  BY DEF Merge, Lowest
<1>1. /\ points \in Seq(Nat) /\ Ascending(points)
      /\ \A y \in Series : /\ TimesOf(before, y) \subseteq full[y]
                           /\ full[y] \subseteq TimesOf(stored, y)
                           /\ Strict(lists[y]) /\ Range(lists[y]) \subseteq full[y]
                           /\ lists[y] \in Seq(Nat)
      /\ \A k \in DOMAIN points : \A y \in Series : \A t \in Range(lists[y]) :
           points[k] <= t
      /\ \A t \in Nat : Cardinality(PointsAt(t)) = Cardinality(Merged(full, t))
  BY DEF Merging
<1>2. /\ h \in Nat /\ h \in Range(lists[x])
      /\ Tail(lists[x]) \in Seq(Nat) /\ Strict(Tail(lists[x]))
      /\ Range(Tail(lists[x])) = Range(lists[x]) \ {h}
  BY <1>0, <1>1, HeadTail
<1>3. /\ n \in Nat /\ DOMAIN points = 1 .. n
      /\ points' \in Seq(Nat) /\ DOMAIN points' = 1 .. n + 1
      /\ points'[n + 1] = h
      /\ \A k \in 1 .. n : points'[k] = points[k] /\ points[k] \in Nat
  <2> HIDE DEF h
  <2> QED BY <1>0, <1>1, <1>2
<1> HIDE DEF h, n
<1>4. /\ lists' \in [Series -> Seq(Nat)]
      /\ lists'[x] = Tail(lists[x])
      /\ \A y \in Series : y # x => lists'[y] = lists[y]
  BY <1>0, <1>2
<1>5. \A y \in Series : Range(lists'[y]) \subseteq Range(lists[y])
  BY <1>2, <1>4
<1>6. \A y \in Series : \A t \in Range(lists[y]) : h <= t
  <2> SUFFICES ASSUME NEW y \in Series, NEW t \in Range(lists[y])
               PROVE  h <= t
    OBVIOUS
  <2>1. lists[y] # <<>>
    <3>1. DOMAIN lists[y] # {}
      BY DEF Range
    <3>2. CASE lists[y] = <<>>
      BY <3>1, <3>2
    <3> QED BY <3>2
  <2>2. h <= Head(lists[y])
    BY <1>0, <2>1
  <2>3. Head(lists[y]) <= t /\ Head(lists[y]) \in Nat
    BY <1>1, <2>1, HeadTail
  <2>4. t \in Nat
    <3>1. PICK i \in DOMAIN lists[y] : t = lists[y][i]
      BY DEF Range
    <3> QED BY <1>1, <3>1
  <2> QED BY <1>2, <2>2, <2>3, <2>4
<1>7. Ascending(points')
  <2> SUFFICES ASSUME NEW i \in 1 .. n + 1, NEW j \in 1 .. n + 1, i <= j
               PROVE  points'[i] <= points'[j]
    BY <1>3 DEF Ascending
  <2>1. CASE j <= n
    <3>1. i \in 1 .. n /\ j \in 1 .. n
      BY <1>3, <2>1
    <3> QED BY <1>1, <1>3, <3>1 DEF Ascending
  <2>2. CASE i <= n /\ j = n + 1
    <3>1. i \in 1 .. n
      BY <1>3, <2>2
    <3> QED BY <1>1, <1>2, <1>3, <2>2, <3>1
  <2>3. CASE i = n + 1 /\ j = n + 1
    BY <1>2, <1>3, <2>3
  <2> QED BY <1>3, <2>1, <2>2, <2>3
<1>8. \A k \in DOMAIN points' : \A y \in Series : \A t \in Range(lists'[y]) :
        points'[k] <= t
  <2> SUFFICES ASSUME NEW k \in 1 .. n + 1, NEW y \in Series,
                      NEW t \in Range(lists'[y])
               PROVE  points'[k] <= t
    BY <1>3
  <2>1. t \in Range(lists[y])
    BY <1>5
  <2>2. CASE k \in 1 .. n
    BY <1>1, <1>3, <2>1, <2>2
  <2>3. CASE k = n + 1
    BY <1>3, <1>6, <2>1, <2>3
  <2> QED BY <1>3, <2>2, <2>3
<1>9. ASSUME NEW y \in Series
      PROVE  /\ TimesOf(before, y)' \subseteq full[y]
             /\ full[y] \subseteq TimesOf(stored, y)'
             /\ Strict(lists'[y]) /\ Range(lists'[y]) \subseteq full[y]
  <2>1. TimesOf(before, y)' = TimesOf(before, y) /\ TimesOf(stored, y)' = TimesOf(stored, y)
    BY <1>0 DEF TimesOf, AskedOf, Asked, Of
  <2>2. Strict(lists'[y])
    BY <1>1, <1>2, <1>4
  <2> QED BY <1>1, <1>5, <2>1, <2>2
<1>10. ASSUME NEW t \in Nat
       PROVE  Cardinality(PointsAt(t)') = Cardinality(Merged(full, t)')
  <2>0. /\ IsFiniteSet(PointsAt(t)) /\ IsFiniteSet(Merged(full, t))
        /\ Cardinality(PointsAt(t)) = Cardinality(Merged(full, t))
    BY <1>1, FinitePoints, FiniteMerged
  <2>1. n + 1 \notin PointsAt(t)
    BY <1>3 DEF PointsAt
  <2>2. CASE t = h
    <3>1. PointsAt(t)' = PointsAt(t) \cup {n + 1}
      BY <1>3, <2>2 DEF PointsAt
    <3>2. Merged(full, t)' = Merged(full, t) \cup {x}
      <4>1. h \in full[x] /\ h \notin Range(lists'[x])
        BY <1>1, <1>2, <1>4
      <4> QED BY <1>4, <2>2, <4>1 DEF Merged
    <3>3. x \notin Merged(full, t)
      BY <1>2, <2>2 DEF Merged
    <3>4. Cardinality(PointsAt(t) \cup {n + 1}) = Cardinality(PointsAt(t)) + 1
      BY <2>0, <2>1, FS_AddElement
    <3>5. Cardinality(Merged(full, t) \cup {x}) = Cardinality(Merged(full, t)) + 1
      BY <2>0, <3>3, FS_AddElement
    <3> QED BY <2>0, <3>1, <3>2, <3>4, <3>5
  <2>3. CASE t # h
    <3>1. PointsAt(t)' = PointsAt(t)
      BY <1>3, <2>3 DEF PointsAt
    <3>2. \A y \in Series : t \in Range(lists'[y]) <=> t \in Range(lists[y])
      BY <1>2, <1>4, <2>3
    <3>3. Merged(full, t)' = Merged(full, t)
      BY <3>2 DEF Merged
    <3> QED BY <2>0, <3>1, <3>3
  <2> QED BY <2>2, <2>3
<1>11. Merging(full)'
  BY <1>3, <1>7, <1>8, <1>9, <1>10 DEF Merging
<1> QED BY <1>4, <1>11

(* What the request asks for is bounded by what was found.                 *)
LEMMA SeriesAtIs ==
  ASSUME NEW O, NEW t
  PROVE  SeriesAt(O, t) = Cardinality({x \in Series : t \in TimesOf(O, x)})
<1>1. ASSUME NEW x \in Series
      PROVE  Rows(O, x, t) # {} <=> t \in TimesOf(O, x)
  <2>1. ASSUME NEW o \in O, o[1] = x, Stored(o[2]) = t, Asked(t)
        PROVE  t \in TimesOf(O, x)
    <3>1. o[2] \in Of(x, O)
      BY <2>1 DEF Of
    <3> QED BY <2>1, <3>1 DEF TimesOf, AskedOf
  <2>2. ASSUME t \in TimesOf(O, x)
        PROVE  \E o \in O : o[1] = x /\ Stored(o[2]) = t /\ Asked(t)
    <3>1. PICK u \in Of(x, O) : Asked(Stored(u)) /\ t = Stored(u)
      BY <2>2 DEF TimesOf, AskedOf
    <3>2. PICK o \in O : o[1] = x /\ u = o[2]
      BY DEF Of
    <3> QED BY <3>1, <3>2
  <2> QED BY <2>1, <2>2 DEF Rows
<1>2. {x \in Series : Rows(O, x, t) # {}} = {x \in Series : t \in TimesOf(O, x)}
  BY <1>1
<1> QED BY <1>2 DEF SeriesAt

LEMMA AllMerged ==
  ASSUME NEW full, Merging(full), \A x \in Series : lists[x] = <<>>
  PROVE  /\ Ascending(points)
         /\ \A t \in Nat :
              Cardinality(PointsAt(t)) \in SeriesAt(before, t) .. SeriesAt(stored, t)
<1>1. ASSUME NEW t \in Nat
      PROVE  Cardinality(PointsAt(t)) \in SeriesAt(before, t) .. SeriesAt(stored, t)
  <2> DEFINE A == {x \in Series : t \in TimesOf(before, x)}
             B == {x \in Series : t \in full[x]}
             C == {x \in Series : t \in TimesOf(stored, x)}
  <2>1. Merged(full, t) = B
    <3>1. \A x \in Series : t \notin Range(lists[x])
      <4> SUFFICES ASSUME NEW x \in Series PROVE t \notin Range(lists[x])
        OBVIOUS
      <4>1. \A s : s = <<>> => DOMAIN s = {}
        OBVIOUS
      <4>2. DOMAIN lists[x] = {}
        BY <4>1
      <4> QED BY <4>2 DEF Range
    <3> QED BY <3>1 DEF Merged
  <2>2. Cardinality(PointsAt(t)) = Cardinality(B)
    BY <2>1 DEF Merging
  <2>3. A \subseteq B /\ B \subseteq C /\ C \subseteq Series
    BY DEF Merging
  <2>4. SeriesAt(before, t) = Cardinality(A) /\ SeriesAt(stored, t) = Cardinality(C)
    BY SeriesAtIs
  <2> HIDE DEF A, B, C
  <2>5. /\ IsFiniteSet(A) /\ IsFiniteSet(B) /\ IsFiniteSet(C)
    BY <2>3, FS_Subset, ObservationsAssumption
  <2>6. Cardinality(A) <= Cardinality(B) /\ Cardinality(B) <= Cardinality(C)
    BY <2>3, <2>5, FS_Subset
  <2>7. /\ Cardinality(A) \in Nat /\ Cardinality(B) \in Nat /\ Cardinality(C) \in Nat
    BY <2>5, FS_CardinalityType
  <2> QED BY <2>2, <2>4, <2>6, <2>7
<1> QED BY <1>1 DEF Merging

-----------------------------------------------------------------------------
(* The query.                                                              *)

(* A behaviour with queries is one of the calendar: what the aggregators   *)
(* and sharders guarantee does not depend on who asks (Calendar, as        *)
(* getDataFromTimeRange uses it).                                          *)
THEOREM CalendarIsKept == CalendarSpec => Spec
<1>1. CalendarInit => Init
  BY DEF CalendarInit
<1>2. [CalendarNext]_allVars => [Next]_vars
  BY DEF CalendarNext, allVars, vars
<1> QED BY <1>1, <1>2, PTL DEF CalendarSpec, Spec

LEMMA CalendarTypes == Spec => []TypeOK
<1>1. Init => TypeOK
  <2> SUFFICES ASSUME Init PROVE TypeOK
    OBVIOUS
  <2>1. InCalendar(dt) /\ dt \in Nat
    BY HorizonInCalendar DEF Init, InCalendar
  <2>2. Whole(0)
    <3>1. 0 = 0 * TicksPerMs
      BY TicksAssumption
    <3> QED BY <3>1 DEF Whole
  <2>3. Stored(dt) \in Nat
    BY <2>1, <2>2, StoredAbove
  <2> QED BY <2>1, <2>3, LengthType DEF Init, TypeOK
<1>2. OnItsWay /\ OnItsWay' /\ TypeOK /\ [Next]_vars => TypeOK'
  <2> SUFFICES ASSUME OnItsWay, OnItsWay', TypeOK, [Next]_vars PROVE TypeOK'
    OBVIOUS
  <2>1. CASE Aggregate
    <3>1. moment \in Nat /\ moment' \in Nat
      BY DEF OnItsWay, InCalendar
    <3>2. Whole(0)
      <4>1. 0 = 0 * TicksPerMs
        BY TicksAssumption
      <4> QED BY <4>1 DEF Whole
    <3>3. Stored(moment) \in Nat
      BY <3>1, <3>2, StoredAbove
    <3> QED BY <2>1, <3>1, <3>3, LengthType DEF Aggregate, TypeOK
  <2>2. CASE UNCHANGED vars
    BY <2>2 DEF vars, TypeOK
  <2> QED BY <2>1, <2>2 DEF Next
<1> QED BY <1>1, <1>2, AlwaysOnItsWay, PTL DEF Spec

-----------------------------------------------------------------------------
(* Before the reduction.                                                   *)
Unread == phase \in {"none", "waiting", "refused", "reading"}
Early == Unread \/ phase = "merging"

RowTimes == {Stored(o[2]) : o \in Observations}

(* The fields that the reduction uses are set when the query starts.       *)
Prepared ==
  /\ Fresh
  /\ interval \in (Nat \ {0}) \cup {Absent}
  /\ most \in (Nat \ {0}) \cup {Absent}
  /\ roundedUp \in BOOLEAN
  /\ points \in Seq(Nat) /\ Ascending(points)

QueryInv ==
  /\ phase \in {"none", "waiting", "refused", "reading", "merging", "interval",
                "max", "answered"}
  /\ request \in Requests
  /\ before \subseteq stored /\ stored \subseteq Observations
  /\ phase = "none" \/ lists \in [Series -> Seq(Nat)]
  /\ Early => Prepared
  /\ Unread => points = <<>>
  /\ phase = "merging" => \E full \in [Series -> SUBSET RowTimes] : Merging(full)
  /\ ~Early => Reduced
  /\ PointsComplete

LEMMA NothingIsPrepared ==
  ASSUME NothingToReduce
  PROVE  Prepared /\ points = <<>>
<1>1. <<>> \in Seq(Nat) /\ DOMAIN <<>> = {}
  OBVIOUS
<1>2. Ascending(points)
  BY <1>1 DEF Ascending, NothingToReduce
<1> QED BY <1>1, <1>2 DEF Prepared, Fresh, NothingToReduce

LEMMA QueryStart == CalendarInit => QueryInv
<1> SUFFICES ASSUME CalendarInit PROVE QueryInv
  OBVIOUS
<1>0. NothingToReduce
  BY DEF CalendarInit, NoQuery, QueryInit
<1>1. Prepared /\ points = <<>>
  BY <1>0, NothingIsPrepared
<1>2. CASE NoQuery
  <2>1. request \in Requests
    BY <1>2, RequestsAssumption DEF NoQuery
  <2> QED BY <1>1, <1>2, <2>1 DEF NoQuery, QueryInv, Unread, Early, PointsComplete
<1>3. CASE QueryInit
  <2>1. lists \in [Series -> Seq(Nat)]
    <3>1. <<>> \in Seq(Nat)
      OBVIOUS
    <3> QED BY <1>3, <3>1 DEF QueryInit
  <2> QED BY <1>1, <1>3, <2>1 DEF QueryInit, QueryInv, Unread, Early, PointsComplete
<1> QED BY <1>2, <1>3 DEF CalendarInit

(* The rows of an observation are in the calendar.                         *)
LEMMA ObservationsDated ==
  /\ \A o \in Observations : Dated(o[2])
  /\ \A O, x : O \subseteq Observations =>
       /\ IsFiniteSet(Of(x, O)) /\ \A t \in Of(x, O) : Dated(t)
       /\ TimesOf(O, x) \subseteq RowTimes
<1>1. ASSUME NEW o \in Observations PROVE Dated(o[2])
  <2>1. o[2] \in Horizon
    BY ObservationsAssumption
  <2>2. InCalendar(o[2])
    BY <2>1, HorizonInCalendar
  <2>3. /\ LastMonth - 1 \in 1 .. LastMonth + 1 /\ LastMonth + 1 \in 1 .. LastMonth + 1
        /\ LastMonth - 1 < LastMonth + 1
    BY DayAndMonths
  <2>4. /\ MonthStart[LastMonth - 1] + 28 * Day <= MonthStart[LastMonth + 1]
        /\ MonthStart[LastMonth - 1] \in Nat /\ MonthStart[LastMonth + 1] \in Nat
    BY <2>3, MonthsGrow, MonthStartNext
  <2>5. 28 * Day \in Nat \ {0}
    BY DayAndMonths
  <2> QED BY <2>2, <2>4, <2>5 DEF InCalendar, Dated
<1>2. ASSUME NEW O, NEW x, O \subseteq Observations
      PROVE  /\ IsFiniteSet(Of(x, O)) /\ \A t \in Of(x, O) : Dated(t)
             /\ TimesOf(O, x) \subseteq RowTimes
  <2> DEFINE A == {o \in O : o[1] = x}
             g == [o \in A |-> o[2]]
  <2>1. IsFiniteSet(A)
    <3>1. A \in SUBSET Observations
      BY <1>2
    <3> HIDE DEF A
    <3> QED BY <3>1, FS_Subset, ObservationsAssumption
  <2>2. g \in Surjection(A, Of(x, O))
    BY DEF Surjection, Of
  <2>3. IsFiniteSet(Of(x, O))
    <3> HIDE DEF A, g
    <3> QED BY <2>1, <2>2, FS_Surjection
  <2>4. \A t \in Of(x, O) : \E o \in Observations : t = o[2]
    BY <1>2 DEF Of
  <2>5. TimesOf(O, x) \subseteq RowTimes
    BY <2>4 DEF TimesOf, AskedOf, RowTimes
  <2> QED BY <1>1, <2>3, <2>4, <2>5
<1> QED BY <1>1, <1>2

(* What the statements find.                                               *)
LEMMA ReadStep ==
  ASSUME Sharding, QueryInv, ReadAll
  PROVE  /\ lists' \in [Series -> Seq(Nat)]
         /\ \E full \in [Series -> SUBSET RowTimes] : Merging(full)'
<1>0. /\ request \in Requests /\ before \subseteq stored /\ stored \subseteq Observations
      /\ points = <<>> /\ points' = <<>> /\ request' = request
      /\ stored' = stored /\ before' = before
  BY DEF QueryInv, Unread, ReadAll
<1>1. PICK seen \in [Series -> SUBSET (stored \ before)] :
        lists' = [x \in Series |-> AnswerOf(Of(x, before \cup seen[x]))]
  BY DEF ReadAll
<1> DEFINE O(x) == before \cup seen[x]
<1>2. PICK full : full = [x \in Series |-> TimesOf(O(x), x)]
  OBVIOUS
<1>3. ASSUME NEW x \in Series
      PROVE  /\ AnswerOf(Of(x, O(x))) \in Seq(Nat)
             /\ Strict(AnswerOf(Of(x, O(x))))
             /\ Range(AnswerOf(Of(x, O(x)))) = TimesOf(O(x), x)
             /\ TimesOf(O(x), x) \subseteq RowTimes
             /\ before \subseteq O(x) /\ O(x) \subseteq stored
  <2>1. before \subseteq O(x) /\ O(x) \subseteq stored /\ O(x) \subseteq Observations
    BY <1>0, <1>1
  <2> HIDE DEF O
  <2>2. /\ IsFiniteSet(Of(x, O(x))) /\ \A t \in Of(x, O(x)) : Dated(t)
        /\ TimesOf(O(x), x) \subseteq RowTimes
    BY <2>1, ObservationsDated
  <2> QED BY <1>0, <2>1, <2>2, AnswerIs DEF TimesOf
<1>4. /\ lists' \in [Series -> Seq(Nat)]
      /\ \A x \in Series : /\ lists'[x] = AnswerOf(Of(x, O(x)))
                           /\ full[x] = TimesOf(O(x), x)
  <2> HIDE DEF O
  <2>1. lists' = [x \in Series |-> AnswerOf(Of(x, O(x)))]
    BY <1>1 DEF O
  <2> QED BY <1>3, <1>2, <2>1
<1>5. full \in [Series -> SUBSET RowTimes]
  <2> HIDE DEF O
  <2> QED BY <1>3, <1>2
<1> HIDE DEF O
<1>6. \A x \in Series : /\ TimesOf(before, x)' \subseteq full[x]
                        /\ full[x] \subseteq TimesOf(stored, x)'
                        /\ Strict(lists'[x]) /\ Range(lists'[x]) \subseteq full[x]
  <2> SUFFICES ASSUME NEW x \in Series
               PROVE  /\ TimesOf(before, x)' \subseteq full[x]
                      /\ full[x] \subseteq TimesOf(stored, x)'
                      /\ Strict(lists'[x]) /\ Range(lists'[x]) \subseteq full[x]
    OBVIOUS
  <2>1. TimesOf(before, x)' = TimesOf(before, x) /\ TimesOf(stored, x)' = TimesOf(stored, x)
    BY <1>0 DEF TimesOf, AskedOf, Asked, Of
  <2>2. \A A, B : A \subseteq B => TimesOf(A, x) \subseteq TimesOf(B, x)
    BY DEF TimesOf, AskedOf, Of
  <2>3. TimesOf(before, x) \subseteq TimesOf(O(x), x)
    BY <1>3, <2>2
  <2>4. TimesOf(O(x), x) \subseteq TimesOf(stored, x)
    BY <1>3, <2>2
  <2> QED BY <1>3, <1>4, <2>1, <2>3, <2>4
<1>7. points' \in Seq(Nat) /\ DOMAIN points' = {} /\ Ascending(points')
  <2>1. points' \in Seq(Nat) /\ DOMAIN points' = {}
    BY <1>0
  <2> QED BY <2>1 DEF Ascending
<1>8. \A t \in Nat : PointsAt(t)' = {} /\ Merged(full, t)' = {}
  <2>1. \A x \in Series : Range(lists'[x]) = full[x]
    BY <1>3, <1>4
  <2>2. \A t \in Nat : PointsAt(t)' = {}
    BY <1>7 DEF PointsAt
  <2> QED BY <2>1, <2>2 DEF Merged
<1>9. Merging(full)'
  BY <1>6, <1>7, <1>8 DEF Merging
<1> QED BY <1>4, <1>5, <1>9

(* The end of the merge.                                                   *)
LEMMA EndMergeStep ==
  ASSUME Sharding, QueryInv, EndMerge
  PROVE  Reduced' /\ PointsComplete'
<1>0. /\ phase = "merging" /\ phase' = "interval" /\ roundedUp' \in BOOLEAN
      /\ \A x \in Series : lists[x] = <<>>
      /\ UNCHANGED <<request, stored, before, lists, interval, most, points, passVars>>
  BY DEF EndMerge
<1>1. Prepared
  BY <1>0 DEF QueryInv, Early
<1>2. PICK full \in [Series -> SUBSET RowTimes] : Merging(full)
  BY <1>0 DEF QueryInv
<1>3. /\ Ascending(points)
      /\ \A t \in Nat :
           Cardinality(PointsAt(t)) \in SeriesAt(before, t) .. SeriesAt(stored, t)
  BY <1>0, <1>2, AllMerged
<1>4. ReduceInit'
  BY <1>0, <1>1 DEF Prepared, Fresh, ReduceInit, passVars
<1>5. Reduced'
  <2>1. ReduceInit' => Reduced'
    BY InitReduced, PTL
  <2> QED BY <1>4, <2>1
<1>6. \A t : /\ SeriesAt(before, t)' = SeriesAt(before, t)
             /\ SeriesAt(stored, t)' = SeriesAt(stored, t)
             /\ PointsAt(t)' = PointsAt(t)
  BY <1>0 DEF SeriesAt, Rows, Asked, PointsAt
<1>7. points' = points /\ points \in Seq(Nat)
  BY <1>0, <1>1 DEF Prepared
<1>8. \A t \in RowTimes \cup {points'[k] : k \in DOMAIN points'} : t \in Nat
  <2>1. \A t \in RowTimes : t \in Nat
    BY ObservationsDated, ShardOfRow DEF RowTimes, Dated
  <2> QED BY <1>7, <2>1
<1>9. PointsComplete'
  BY <1>3, <1>6, <1>7, <1>8 DEF PointsComplete, RowTimes, PointsAt
<1> QED BY <1>5, <1>9

(* What the reduction does not see.                                        *)
LEMMA QuietStep ==
  ASSUME QueryInv, UNCHANGED queryVars
  PROVE  QueryInv'
<1>0. UNCHANGED <<request, stored, before, lists, phase, interval, most,
                  roundedUp, points, next, first, total, size, groups>>
  BY DEF queryVars, reductionVars, passVars
<1>1. Early' => Prepared'
  BY <1>0 DEF QueryInv, Early, Unread, Prepared, Fresh
<1>2. phase' = "merging" => \E full \in [Series -> SUBSET RowTimes] : Merging(full)'
  <2> SUFFICES ASSUME phase = "merging"
               PROVE  \E full \in [Series -> SUBSET RowTimes] : Merging(full)'
    BY <1>0
  <2>1. PICK full \in [Series -> SUBSET RowTimes] : Merging(full)
    BY DEF QueryInv
  <2>2. Merging(full)'
    BY <1>0, <2>1 DEF Merging, TimesOf, AskedOf, Asked, Of, PointsAt, Merged
  <2> QED BY <2>2
<1>3. ~Early' => Reduced'
  <2> SUFFICES ASSUME ~Early PROVE Reduced'
    BY <1>0 DEF Early, Unread
  <2>1. Reduced /\ UNCHANGED reductionVars
    BY DEF QueryInv, queryVars
  <2> QED BY <2>1, StepReduced
<1>4. PointsComplete'
  <2>1. PointsComplete
    BY DEF QueryInv
  <2>2. \A t : /\ SeriesAt(before, t)' = SeriesAt(before, t)
               /\ SeriesAt(stored, t)' = SeriesAt(stored, t)
    BY <1>0 DEF SeriesAt, Rows, Asked
  <2> QED BY <1>0, <2>1, <2>2 DEF PointsComplete
<1>5. RowTimes' = RowTimes
  BY DEF RowTimes
<1> QED BY <1>0, <1>1, <1>2, <1>3, <1>4, <1>5 DEF QueryInv, Unread

(* A step before the merge that leaves the points as they are.             *)
LEMMA UnreadStep ==
  ASSUME QueryInv, Unread, Unread', UNCHANGED points, Prepared',
         request' \in Requests, before' \subseteq stored', stored' \subseteq Observations,
         lists' \in [Series -> Seq(Nat)],
         phase' \in {"waiting", "refused", "reading"}
  PROVE  QueryInv'
<1>1. points' = <<>>
  BY DEF QueryInv
<1>2. Early' /\ phase' # "merging" /\ PointsComplete'
  BY DEF Early, PointsComplete
<1> QED BY <1>1, <1>2 DEF QueryInv

LEMMA QueryStep ==
  ASSUME Sharding, QueryInv, [CalendarNext]_allVars
  PROVE  QueryInv'
<1>1. CASE UNCHANGED queryVars
  BY <1>1, QuietStep
<1>2. ASSUME phase # "none", QueryNext PROVE QueryInv'
  <2>0. /\ request \in Requests /\ before \subseteq stored /\ stored \subseteq Observations
        /\ lists \in [Series -> Seq(Nat)]
        /\ Early => Prepared
        /\ Unread => points = <<>>
    BY <1>2 DEF QueryInv
  <2>1. ASSUME NEW o \in Observations, Store(o) PROVE QueryInv'
    <3>1. /\ Unread /\ Unread' /\ phase' \in {"waiting", "refused", "reading"}
          /\ stored' = stored \cup {o}
          /\ UNCHANGED <<request, before, lists, interval, most,
                         roundedUp, points, next, first, total, size, groups>>
      BY <2>1 DEF Store, Unread, reductionVars, passVars
    <3>2. Prepared'
      BY <2>0, <3>1 DEF Early, Prepared, Fresh
    <3> QED BY <2>0, <3>1, <3>2, UnreadStep
  <2>2. CASE Refuse
    <3>1. /\ Unread /\ Unread' /\ phase' \in {"waiting", "refused", "reading"}
          /\ UNCHANGED <<request, stored, before, lists, interval, most,
                         roundedUp, points, next, first, total, size, groups>>
      BY <2>2 DEF Refuse, Unread, reductionVars, passVars
    <3>2. Prepared'
      BY <2>0, <3>1 DEF Early, Prepared, Fresh
    <3> QED BY <2>0, <3>1, <3>2, UnreadStep
  <2>3. CASE Ask
    <3>1. /\ Unread /\ Unread' /\ phase' \in {"waiting", "refused", "reading"}
          /\ before' = stored /\ interval' = request.interval /\ most' = request.most
          /\ Acceptable(request.interval) /\ Acceptable(request.most)
          /\ UNCHANGED <<request, stored, lists,
                         roundedUp, points, next, first, total, size, groups>>
      BY <2>3 DEF Ask, Unread, reductionVars, passVars
    <3>2. /\ request.interval \in Int \cup {Absent} /\ request.most \in Int \cup {Absent}
      BY <2>0, RequestsAssumption
    <3>3. /\ interval' \in (Nat \ {0}) \cup {Absent}
          /\ most' \in (Nat \ {0}) \cup {Absent}
      BY <3>1, <3>2 DEF Acceptable
    <3>4. Prepared'
      BY <2>0, <3>1, <3>3 DEF Early, Prepared, Fresh
    <3> QED BY <2>0, <3>1, <3>4, UnreadStep
  <2>4. CASE ReadAll
    <3>1. /\ Unread /\ phase' = "merging"
          /\ UNCHANGED <<request, stored, before, interval, most,
                         roundedUp, points, next, first, total, size, groups>>
      BY <2>4 DEF ReadAll, Unread, passVars
    <3>2. Prepared'
      BY <2>0, <3>1 DEF Early, Prepared, Fresh
    <3>3. /\ lists' \in [Series -> Seq(Nat)]
          /\ \E full \in [Series -> SUBSET RowTimes] : Merging(full)'
      BY <2>4, ReadStep
    <3>4. ~Unread' /\ Early' /\ PointsComplete'
      BY <3>1 DEF Unread, Early, PointsComplete
    <3> QED BY <2>0, <3>1, <3>2, <3>3, <3>4 DEF QueryInv
  <2>5. ASSUME NEW x \in Series, Merge(x) PROVE QueryInv'
    <3>1. /\ Early /\ phase = "merging" /\ phase' = "merging"
          /\ UNCHANGED <<request, stored, before, interval, most,
                         roundedUp, next, first, total, size, groups>>
      BY <2>5 DEF Merge, Early, passVars
    <3>2. PICK full \in [Series -> SUBSET RowTimes] : Merging(full)
      BY <3>1 DEF QueryInv
    <3>3. lists' \in [Series -> Seq(Nat)] /\ Merging(full)'
      BY <2>0, <2>5, <3>2, MergeStep
    <3>4. Prepared'
      <4>1. points' \in Seq(Nat) /\ Ascending(points')
        BY <3>3 DEF Merging
      <4> QED BY <2>0, <3>1, <4>1 DEF Prepared, Fresh
    <3>5. ~Unread' /\ Early' /\ PointsComplete'
      BY <3>1 DEF Unread, Early, PointsComplete
    <3> QED BY <2>0, <3>1, <3>2, <3>3, <3>4, <3>5 DEF QueryInv
  <2>6. CASE EndMerge
    <3>1. /\ phase' = "interval"
          /\ UNCHANGED <<request, stored, before, lists>>
      BY <2>6 DEF EndMerge
    <3>2. Reduced' /\ PointsComplete'
      BY <2>6, EndMergeStep
    <3>3. ~Unread' /\ ~Early'
      BY <3>1 DEF Unread, Early
    <3> QED BY <2>0, <3>1, <3>2, <3>3 DEF QueryInv
  <2>7. CASE Reduce /\ UNCHANGED <<request, stored, before, lists>>
    <3>1. phase \in {"interval", "max"}
      BY <2>7 DEF Reduce, SkipInterval, TakeForInterval, EndInterval,
                  SkipMax, TakeForMax, EndMax
    <3>2. Reduced
      BY <3>1 DEF QueryInv, Early, Unread
    <3>3. Reduced'
      BY <2>7, <3>2, StepReduced
    <3>4. phase' \in {"interval", "max", "answered"}
      BY <3>3 DEF Reduced, Untouched
    <3>5. ~Unread' /\ ~Early'
      BY <3>4 DEF Unread, Early
    <3>6. ~(phase' = "interval" /\ next' = 1)
      <4>1. next \in Nat \ {0}
        <5>1. next \in 1 .. Len(points) + 1 /\ points \in Seq(Nat)
          BY <3>2 DEF Reduced, Ordered, ReductionTypeOK
        <5> QED BY <5>1
      <4>2. CASE TakeForInterval \/ TakeForMax
        <5>1. next' = next + 1
          BY <4>2 DEF TakeForInterval, TakeForMax, Take
        <5> QED BY <4>1, <5>1
      <4>3. CASE SkipInterval \/ EndInterval \/ SkipMax \/ EndMax
        <5>1. phase' # "interval"
          BY <4>3 DEF SkipInterval, EndInterval, SkipMax, EndMax, SkipTo, Replace
        <5> QED BY <5>1
      <4> QED BY <2>7, <4>2, <4>3 DEF Reduce
    <3>7. PointsComplete'
      BY <3>6 DEF PointsComplete
    <3> QED BY <2>0, <2>7, <3>3, <3>4, <3>5, <3>7 DEF QueryInv
  <2> QED BY <1>2, <2>1, <2>2, <2>3, <2>4, <2>5, <2>6, <2>7 DEF QueryNext
<1> QED BY <1>1, <1>2 DEF CalendarNext, allVars

LEMMA QueriesAreKept == CalendarSpec => []QueryInv
<1>1. OnItsWay => Sharding
  BY DEF OnItsWay
<1>2. QueryInv /\ OnItsWay /\ [CalendarNext]_allVars => QueryInv'
  BY <1>1, QueryStep
<1> QED BY <1>2, QueryStart, CalendarIsKept, AlwaysOnItsWay, PTL DEF CalendarSpec

-----------------------------------------------------------------------------
(* Types of an observation on its way and of a query, for any calendar,    *)
(* observations and requests: a request with a number that is not positive *)
(* is never reduced (CalendarTypeOK; GrafanaBackend.scala:348).            *)
THEOREM QueriesTypeCorrect == CalendarSpec => []CalendarTypeOK
<1>1. QueryInv => ReductionTypeOK
  <2> SUFFICES ASSUME QueryInv PROVE ReductionTypeOK
    OBVIOUS
  <2>1. CASE Early
    <3>1. Prepared
      BY <2>1 DEF QueryInv
    <3>2. groups \in Seq(Group) /\ Len(points) \in Nat
      BY <3>1 DEF Prepared, Fresh
    <3>3. next \in 1 .. Len(points) + 1 /\ first \in 1 .. next
      BY <3>1, <3>2 DEF Prepared, Fresh
    <3> QED BY <3>1, <3>2, <3>3 DEF Prepared, Fresh, ReductionTypeOK
  <2>2. CASE ~Early
    BY <2>2 DEF QueryInv, Reduced, Ordered
  <2> QED BY <2>1, <2>2
<1>2. TypeOK /\ QueryInv => CalendarTypeOK
  BY <1>1 DEF CalendarTypeOK, QueryInv
<1> QED BY <1>2, QueriesAreKept, CalendarIsKept, CalendarTypes, PTL

(* A query loses and invents no point, and its points are in ascending     *)
(* order, for any series, shards and order of reads and insertions         *)
(* (PointsComplete; getDataFromTimeRange, Cassandra.scala:121 and 191).    *)
THEOREM PointsAreComplete == CalendarSpec => []PointsComplete
<1>1. QueryInv => PointsComplete
  BY DEF QueryInv
<1> QED BY <1>1, QueriesAreKept, PTL

(* What the reduction promises holds of every query, since the points that *)
(* it gets are in ascending order (GroupsInOrder).                         *)
THEOREM QueriesKeepOrder == CalendarSpec => []GroupsInOrder
<1>1. QueryInv => GroupsInOrder
  <2> SUFFICES ASSUME QueryInv PROVE GroupsInOrder
    OBVIOUS
  <2>1. CASE Early
    <3>1. Prepared
      BY <2>1 DEF QueryInv
    <3>2. DOMAIN groups = {} /\ Len(groups) = 0 /\ first = 1 /\ next = 1
      BY <3>1 DEF Prepared, Fresh
    <3>3. Closed(Len(groups)) = 0
      BY <3>2 DEF Closed
    <3> QED BY <3>1, <3>2, <3>3 DEF Prepared, GroupsInOrder
  <2>2. CASE ~Early
    BY <2>2 DEF QueryInv, Reduced, Ordered
  <2> QED BY <2>1, <2>2
<1> QED BY <1>1, QueriesAreKept, PTL

(* Every answer is bounded (AnswerBounded).                                *)
THEOREM QueriesAreBounded == CalendarSpec => []AnswerBounded
<1>1. QueryInv => AnswerBounded
  <2> SUFFICES ASSUME QueryInv PROVE AnswerBounded
    OBVIOUS
  <2>1. CASE Early
    BY <2>1 DEF Early, Unread, AnswerBounded, IntervalsApart
  <2>2. CASE ~Early
    BY <2>2 DEF QueryInv, Reduced, Bounded, AnswerBounded
  <2> QED BY <2>1, <2>2
<1> QED BY <1>1, QueriesAreKept, PTL
=============================================================================
