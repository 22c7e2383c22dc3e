--------------------------- MODULE CalendarProofs ---------------------------
(* nextFireTime finds the next moment that a trigger promises, for every season,  *)
(* sun and trigger: fromLocal inverts the clock by day, the fourteen candidates   *)
(* walk through the days without a gap, and the first good one is the first       *)
(* promise.  And no two moments that it finds one after the other are on one day. *)
EXTENDS Calendar, FiniteSetTheorems, WellFoundedInduction, TLAPS

-----------------------------------------------------------------------------
(* The clock and the numbers of dates. *)

(* The clock is one or two hours ahead of UTC, and changes at one o'clock UTC; summer
   time does not come twice in a season. *)
LEMMA OffsetFacts ==
    ASSUME season \in Seasons
    PROVE  /\ \A t \in Int : Offset(t) \in {1, 2}
           /\ \A k \in Int, t \in Int : 24 * k < t /\ t <= 24 * k + 24 => Offset(t) = Offset(24 * k + 24)
           /\ \A a, b, c \in Int :
                 a <= b /\ b <= c /\ Offset(a) = 2 /\ Offset(c) = 2 => Offset(b) = 2
<1>1. IsSeason(season) BY CalendarAssumption
<1>2. /\ season.summer.first \in Int /\ season.summer.last \in Int
      /\ season.summer.first % 24 = 1 /\ season.summer.last % 24 = 0
      BY <1>1 DEF IsSeason
<1> QED BY <1>2 DEF Offset

(* A local day has 24 hours of the clock; what the clock shows names the instant, but
   for the change. *)
LEMMA LocalFacts ==
    ASSUME season \in Seasons
    PROVE  /\ \A t \in Int : /\ LocalDay(t) \in Int /\ LocalHour(t) \in 0..23
                             /\ t + Offset(t) = 24 * LocalDay(t) + LocalHour(t)
           /\ \A t, d \in Int, h \in 0..23 :
                 t + Offset(t) = 24 * d + h => LocalDay(t) = d /\ LocalHour(t) = h
<1>1. \A t \in Int : Offset(t) \in Int BY OffsetFacts
<1> QED BY <1>1 DEF LocalDay, LocalHour

(* Counting up to k. *)
LEMMA Counting ==
    ASSUME NEW k \in Nat, NEW S
    PROVE  /\ S \subseteq 1..k => IsFiniteSet(S) /\ Cardinality(S) \in Nat /\ Cardinality(S) <= k
           /\ IsFiniteSet(S) /\ 1..k \subseteq S => k <= Cardinality(S)
<1>1. IsFiniteSet(1..k) /\ Cardinality(1..k) = k
  <2>1. k \in Int /\ 1 \in Int /\ (1 > k => k = 0) /\ k - 1 + 1 = k OBVIOUS
  <2> QED BY <2>1, FS_Interval
<1>2. S \subseteq 1..k => IsFiniteSet(S) /\ Cardinality(S) <= k BY <1>1, FS_Subset
<1>3. IsFiniteSet(S) /\ 1..k \subseteq S => k <= Cardinality(S) BY <1>1, FS_Subset
<1> QED BY <1>2, <1>3, FS_CardinalityType

LEMMA Around ==
    ASSUME NEW n \in 1..13, NEW c \in 1..n
    PROVE  /\ c \in Nat /\ c - 1 \in Nat /\ c - 1 < c
           /\ c < n => c + 1 \in 1..n /\ c + 1 \in Nat /\ ~(c + 1 <= c)
           /\ \A m \in 1..n : m < c => m \in 1..(c - 1)
  OBVIOUS

(* The set of those that are at most d is 1..c. *)
LEMMA CountFacts ==
    ASSUME NEW n \in 1..13, NEW f \in [1..n -> Int],
           \A m, k \in 1..n : m < k => f[m] < f[k],
           NEW d \in Int, f[1] <= d, NEW X, X \subseteq 1..n,
           \A m \in 1..n : m \in X <=> f[m] <= d, NEW c, c = Cardinality(X)
    PROVE  c \in 1..n /\ f[c] <= d /\ (c < n => d < f[c + 1])
<1>1. n \in Nat OBVIOUS
<1>2. IsFiniteSet(X) /\ c \in Nat /\ c <= n BY <1>1, Counting
<1>3. 1 \in 1..n /\ 1 \in X OBVIOUS
<1>4. c # 0 BY <1>2, <1>3, FS_EmptySet
<1>5. c \in 1..n BY <1>2, <1>4
<1>6. \A m, k \in 1..n : m < k /\ k \in X => m \in X
  <2> SUFFICES ASSUME NEW m \in 1..n, NEW k \in 1..n, m < k, k \in X PROVE m \in X
      OBVIOUS
  <2>1. f[m] \in Int /\ f[k] \in Int /\ f[m] < f[k] /\ f[k] <= d OBVIOUS
  <2>2. f[m] <= d BY <2>1
  <2> QED BY <2>2
<1>7. c \in X
  <2> SUFFICES ASSUME c \notin X PROVE FALSE
      OBVIOUS
  <2>1. \A m \in X : m < c
    <3> SUFFICES ASSUME NEW m \in X, ~(m < c) PROVE FALSE
        OBVIOUS
    <3>1. m \in 1..n /\ m # c OBVIOUS
    <3>2. c < m BY <1>5, <3>1
    <3> QED BY <1>5, <1>6, <3>1, <3>2
  <2>2. X \subseteq 1..(c - 1) BY <1>5, <2>1, Around
  <2>3. c <= c - 1 BY <1>5, <2>2, Around, Counting
  <2> QED BY <1>2, <2>3
<1>8. ASSUME c < n PROVE d < f[c + 1]
  <2>1. c + 1 \in 1..n /\ c + 1 \in Nat /\ ~(c + 1 <= c) BY <1>5, <1>8, Around
  <2>2. c + 1 \notin X
    <3> SUFFICES ASSUME c + 1 \in X PROVE FALSE
        OBVIOUS
    <3>1. 1..(c + 1) \subseteq X BY <1>5, <1>6, <2>1
    <3>2. c + 1 <= c BY <1>2, <2>1, <3>1, Counting
    <3> QED BY <2>1, <3>2
  <2>3. f[c + 1] \in Int /\ ~(f[c + 1] <= d) BY <2>1, <2>2
  <2> QED BY <2>3
<1> QED BY <1>5, <1>7, <1>8

(* The number of a date grows with the day: by one, or at the end of a month that is
   short by c days by so many more, and in such a month the clocks do not change. *)
LEMMA StampFacts ==
    ASSUME season \in Seasons, NEW d \in Int, season.firsts[1] <= d
    PROVE  /\ Stamp(d) \in Int
           /\ \E c \in 0..3 :
                 /\ Stamp(d + 1) = Stamp(d) + 1 + c
                 /\ c > 0 => \A h \in 0..23 : Offset(24 * (d - c) + h) = Offset(24 * d + h)
<1> DEFINE f == season.firsts
<1>1. PICK n \in 1..13 :
          /\ f \in [1..n -> Int]
          /\ \A m, k \in 1..n : m < k => f[m] < f[k]
          /\ \A m \in 1..n - 1 :
                /\ f[m + 1] - f[m] \in 28..31
                /\ f[m + 1] - f[m] # 31 =>
                      \A t \in {season.summer.first, season.summer.last} :
                          t \notin (24 * f[m])..(24 * f[m + 1])
      BY CalendarAssumption DEF IsSeason
<1>2. DOMAIN f = 1..n BY <1>1
<1>3. PICK a : a = Month(d) OBVIOUS
<1>4. PICK b : b = Month(d + 1) OBVIOUS
<1>5. f[1] \in Int /\ f[1] <= d + 1 BY <1>1
<1>6. a = Cardinality({m \in 1..n : f[m] <= d}) BY <1>2, <1>3 DEF Month
<1>7. b = Cardinality({m \in 1..n : f[m] <= d + 1}) BY <1>2, <1>4 DEF Month
<1>8. /\ Stamp(d) = 31 * a + (d - f[a]) + 1
      /\ Stamp(d + 1) = 31 * b + ((d + 1) - f[b]) + 1
      BY <1>3, <1>4 DEF Stamp
<1> DEFINE X == {m \in 1..n : f[m] <= d}
           Y == {m \in 1..n : f[m] <= d + 1}
<1>18. X \subseteq 1..n /\ \A m \in 1..n : m \in X <=> f[m] <= d OBVIOUS
<1>19. Y \subseteq 1..n /\ \A m \in 1..n : m \in Y <=> f[m] <= d + 1 OBVIOUS
<1>20. a = Cardinality(X) /\ b = Cardinality(Y) BY <1>6, <1>7
<1> HIDE DEF f, X, Y
<1>9. a \in 1..n /\ f[a] <= d /\ (a < n => d < f[a + 1])
      BY <1>1, <1>5, <1>18, <1>20, CountFacts DEF f
<1>10. b \in 1..n /\ f[b] <= d + 1 /\ (b < n => d + 1 < f[b + 1])
  <2>1. PICK e \in Int : e = d + 1 OBVIOUS
  <2>2. f[1] <= e /\ \A m \in 1..n : m \in Y <=> f[m] <= e BY <1>5, <1>19, <2>1
  <2>3. b \in 1..n /\ f[b] <= e /\ (b < n => e < f[b + 1])
        BY <1>1, <1>19, <1>20, <2>2, CountFacts
  <2> QED BY <2>1, <2>3
<1>11. \A m \in 1..n : f[m] \in Int BY <1>1
<1>12. ~(b < a)
  <2> SUFFICES ASSUME b < a PROVE FALSE
      OBVIOUS
  <2>1. b + 1 \in 1..n /\ b < n /\ (b + 1 = a \/ b + 1 < a) BY <1>9, <1>10
  <2>2. f[b + 1] <= f[a] BY <1>1, <1>9, <1>11, <2>1
  <2> QED BY <1>9, <1>10, <1>11, <2>1, <2>2
<1>13. ASSUME a < b PROVE b = a + 1 /\ f[b] = d + 1
  <2>1. a + 1 \in 1..n /\ a < n BY <1>9, <1>10, <1>13
  <2>2. d + 1 <= f[a + 1] BY <1>9, <1>11, <2>1
  <2>3. ~(a + 1 < b)
    <3> SUFFICES ASSUME a + 1 < b PROVE FALSE
        OBVIOUS
    <3>1. f[a + 1] < f[b] BY <1>1, <1>10, <2>1
    <3> QED BY <1>10, <1>11, <2>1, <2>2, <3>1
  <2>4. b = a + 1 BY <1>9, <1>10, <1>13, <2>3
  <2> QED BY <1>10, <1>11, <2>2, <2>4
<1>14. f[a] \in Int /\ f[b] \in Int BY <1>9, <1>10, <1>11
<1>15. CASE a = b
  <2>1. Stamp(d + 1) = Stamp(d) + 1 + 0 BY <1>8, <1>9, <1>14, <1>15
  <2>2. 0 \in 0..3 /\ ~(0 > 0) OBVIOUS
  <2> QED BY <1>8, <1>9, <1>14, <2>1, <2>2
<1>16. CASE a < b
  <2>1. a \in 1..n - 1 /\ b = a + 1 /\ f[b] = d + 1 BY <1>9, <1>10, <1>13, <1>16
  <2>2. PICK x \in Int : x = f[a] BY <1>14
  <2>3. d + 1 - x \in 28..31 BY <1>1, <2>1, <2>2
  <2>4. PICK c \in 0..3 : c = 31 - (d + 1 - x) BY <2>3
  <2>5. Stamp(d + 1) = Stamp(d) + 1 + c /\ Stamp(d) \in Int BY <1>8, <1>9, <2>1, <2>2, <2>4
  <2>6. ASSUME c > 0, NEW h \in 0..23 PROVE Offset(24 * (d - c) + h) = Offset(24 * d + h)
    <3>1. PICK p, q : p = season.summer.first /\ q = season.summer.last OBVIOUS
    <3>2. p \in Int /\ q \in Int BY <3>1, CalendarAssumption DEF IsSeason
    <3>3. f[a] = x /\ f[a + 1] = d + 1 /\ f[a + 1] - f[a] # 31 BY <2>1, <2>2, <2>4, <2>6
    <3>4. p \notin (24 * x)..(24 * (d + 1)) /\ q \notin (24 * x)..(24 * (d + 1))
      <4>1. \A t \in {season.summer.first, season.summer.last} :
                t \notin (24 * f[a])..(24 * f[a + 1])
            BY <1>1, <2>1, <3>3
      <4> QED BY <3>1, <3>3, <4>1
    <3>5. 24 * x <= 24 * (d - c) + h /\ 24 * (d - c) + h <= 24 * d + h /\ 24 * d + h < 24 * (d + 1)
          BY <2>2, <2>4, <2>3
    <3>6. PICK u \in Int, v \in Int : u = 24 * (d - c) + h /\ v = 24 * d + h OBVIOUS
    <3>7. (p <= u /\ u <= q) <=> (p <= v /\ v <= q) BY <2>2, <3>2, <3>4, <3>5, <3>6
    <3> QED BY <3>1, <3>6, <3>7 DEF Offset
  <2> QED BY <2>4, <2>5, <2>6
<1> QED BY <1>9, <1>10, <1>12, <1>15, <1>16

-----------------------------------------------------------------------------
(* fromLocal inverts the clock by day; the candidates of nextFireTime. *)

(* What fromLocal gives: by the clock of the hour that it is read as in UTC, and late in
   the evening perhaps too early. *)
LEMMA FromLocalFacts ==
    ASSUME season \in Seasons, NEW d \in Int, season.firsts[1] <= d, NEW h \in 0..23
    PROVE  /\ FromLocal(d, h) \in Int
           /\ FromLocal(d, h) <= 24 * d + h - 1
           /\ h <= 21 => FromLocal(d, h) = 24 * d + h - Offset(24 * d + h)
<1>1. PICK g \in Int : g = 24 * d + h OBVIOUS
<1>2. PICK e : e = LocalDay(g) OBVIOUS
<1>3. PICK j : j = LocalHour(g) OBVIOUS
<1>4. Offset(g) \in {1, 2} BY OffsetFacts
<1>5. e \in Int /\ j \in 0..23 /\ g + Offset(g) = 24 * e + j BY <1>2, <1>3, LocalFacts
<1>6. e = d \/ (e = d + 1 /\ h >= 22) BY <1>1, <1>4, <1>5
<1>7. PICK S : S = Stamp(d) OBVIOUS
<1>8. PICK T : T = Stamp(e) OBVIOUS
<1>9. FromLocal(d, h) = g + 24 * (S - T) + h - j
      BY <1>1, <1>2, <1>3, <1>7, <1>8 DEF FromLocal
<1>10. S \in Int BY <1>7, StampFacts
<1>11. CASE e = d
  <2>1. T = S BY <1>7, <1>8, <1>11
  <2> QED BY <1>1, <1>4, <1>5, <1>9, <1>10, <1>11, <2>1
<1>12. CASE e = d + 1 /\ h >= 22
  <2>1. T \in Int /\ S < T BY <1>7, <1>8, <1>12, StampFacts
  <2> QED BY <1>1, <1>4, <1>5, <1>9, <1>10, <1>12, <2>1
<1> QED BY <1>6, <1>11, <1>12

(* By day the clock shows an hour once. *)
LEMMA Daytime ==
    ASSUME season \in Seasons, NEW d \in Int, NEW h \in 3..21
    PROVE  /\ Offset(24 * d + h) = Offset(24 * d + 24)
           /\ WallTimes(d, h) = {24 * d + h - Offset(24 * d + 24)}
<1>1. PICK o : o = Offset(24 * d + 24) OBVIOUS
<1>2. \A t \in Int : 24 * d < t /\ t <= 24 * d + 24 => Offset(t) = o BY <1>1, OffsetFacts
<1>3. o \in {1, 2} BY <1>1, OffsetFacts
<1>4. Offset(24 * d + h) = o BY <1>2
<1>5. PICK u \in Int : u = 24 * d + h - o BY <1>3
<1>6. LocalDay(u) = d /\ LocalHour(u) = h
  <2>1. Offset(u) = o BY <1>2, <1>3, <1>5
  <2>2. h \in 0..23 /\ u + Offset(u) = 24 * d + h BY <1>3, <1>5, <2>1
  <2> QED BY <2>2, LocalFacts
<1>7. u \in (24 * d + h - 2)..(24 * d + h) BY <1>3, <1>5
<1>8. ASSUME NEW t \in (24 * d + h - 2)..(24 * d + h), LocalDay(t) = d, LocalHour(t) = h
      PROVE  t = u
  <2>1. t \in Int /\ Offset(t) = o BY <1>2
  <2>2. t + o = 24 * d + h BY <1>8, <2>1, LocalFacts
  <2> QED BY <1>3, <1>5, <2>1, <2>2
<1>9. WallTimes(d, h) = {u} BY <1>6, <1>7, <1>8 DEF WallTimes
<1> QED BY <1>1, <1>4, <1>5, <1>9

(* The candidate days of nextFireTime are named by an instant, a day apart from the
   midnight before. *)
Cand(t, n) == AddDays(StartOfLocalDay(t), n)

LEMMA CandFacts ==
    ASSUME season \in Seasons, NEW t \in Int, season.firsts[1] <= LocalDay(t), NEW n \in 0..13
    PROVE  /\ Cand(t, n) = 24 * (LocalDay(t) + n) - Offset(24 * LocalDay(t))
           /\ Offset(Cand(t, n)) = Offset(24 * (LocalDay(t) + n))
           /\ LocalDay(Cand(t, n)) =
                IF Offset(24 * (LocalDay(t) + n)) < Offset(24 * LocalDay(t))
                THEN LocalDay(t) + n - 1 ELSE LocalDay(t) + n
<1>1. PICK d \in Int : d = LocalDay(t) BY LocalFacts
<1>2. FromLocal(d, 0) = 24 * d - Offset(24 * d)
  <2>1. PICK z \in 0..23 : z = 0 OBVIOUS
  <2>2. 24 * d + z = 24 * d BY <2>1
  <2>3. FromLocal(d, z) = 24 * d + z - Offset(24 * d + z) BY <1>1, <2>1, FromLocalFacts
  <2>4. FromLocal(d, z) = FromLocal(d, 0) BY <2>1
  <2>5. Offset(24 * d + z) = Offset(24 * d) BY <2>2
  <2>6. Offset(24 * d) \in {1, 2} BY OffsetFacts
  <2> QED BY <2>2, <2>3, <2>4, <2>5, <2>6
<1>3. PICK o : o = Offset(24 * d) OBVIOUS
<1>4. o \in {1, 2} BY <1>3, OffsetFacts
<1>5. Cand(t, n) = 24 * (d + n) - o
      BY <1>1, <1>2, <1>3, <1>4 DEF Cand, AddDays, StartOfLocalDay
<1>6. PICK c \in Int : c = 24 * (d + n) - o BY <1>4
<1>7. PICK k \in Int : k = d + n - 1 OBVIOUS
<1>8. 24 * k < c /\ c <= 24 * k + 24 /\ 24 * k + 24 = 24 * (d + n) BY <1>4, <1>6, <1>7
<1>9. Offset(c) = Offset(24 * (d + n)) BY <1>8, OffsetFacts
<1>10. Offset(c) \in {1, 2} BY OffsetFacts
<1>11. Offset(c) < o => LocalDay(c) = d + n - 1
  <2> SUFFICES ASSUME Offset(c) < o PROVE LocalDay(c) = d + n - 1
      OBVIOUS
  <2>1. c + Offset(c) = 24 * k + 23 BY <1>4, <1>6, <1>7, <1>10
  <2> QED BY <1>7, <2>1, LocalFacts
<1>12. ~(Offset(c) < o) => LocalDay(c) = d + n
  <2> SUFFICES ASSUME ~(Offset(c) < o) PROVE LocalDay(c) = d + n
      OBVIOUS
  <2>1. PICK j \in 0..23 : j = Offset(c) - o BY <1>4, <1>10
  <2>2. PICK e \in Int : e = d + n OBVIOUS
  <2>3. c + Offset(c) = 24 * e + j BY <1>4, <1>6, <1>10, <2>1, <2>2
  <2> QED BY <2>2, <2>3, LocalFacts
<1> QED BY <1>1, <1>3, <1>5, <1>6, <1>9, <1>11, <1>12

-----------------------------------------------------------------------------
(* The candidates walk through the days. *)

DayOf(t, n) == LocalDay(Cand(t, n))

(* The candidates walk through the days from today, and leave none out. *)
LEMMA Walk ==
    ASSUME season \in Seasons, NEW t \in Int, season.firsts[1] <= LocalDay(t)
    PROVE  /\ \A n \in 0..13 : /\ DayOf(t, n) \in Int /\ LocalDay(t) <= DayOf(t, n)
                               /\ DayOf(t, n) \in {LocalDay(t) + n - 1, LocalDay(t) + n}
           /\ \A n \in 0..13, d \in Int :
                 LocalDay(t) <= d /\ d <= DayOf(t, n) => \E j \in 0..n : DayOf(t, j) = d
<1>1. PICK l \in Int : l = LocalDay(t) BY LocalFacts
<1>2. PICK o \in [Int -> {1, 2}] : \A d \in Int : o[d] = Offset(24 * d)
  <2>1. \A d \in Int : Offset(24 * d) \in {1, 2} BY OffsetFacts
  <2>2. [d \in Int |-> Offset(24 * d)] \in [Int -> {1, 2}] BY <2>1
  <2> QED BY <2>2
<1>3. \A n \in 0..13 : DayOf(t, n) = IF o[l + n] < o[l] THEN l + n - 1 ELSE l + n
  <2> SUFFICES ASSUME NEW n \in 0..13
               PROVE  DayOf(t, n) = IF o[l + n] < o[l] THEN l + n - 1 ELSE l + n
      OBVIOUS
  <2>1. DayOf(t, n) = IF Offset(24 * (l + n)) < Offset(24 * l) THEN l + n - 1 ELSE l + n
        BY <1>1, CandFacts DEF DayOf
  <2>2. o[l + n] = Offset(24 * (l + n)) /\ o[l] = Offset(24 * l) BY <1>2
  <2> QED BY <2>1, <2>2
<1>4. \A a, b, c \in Int : a <= b /\ b <= c /\ o[a] = 2 /\ o[c] = 2 => o[b] = 2
  <2> SUFFICES ASSUME NEW a \in Int, NEW b \in Int, NEW c \in Int,
                      a <= b, b <= c, o[a] = 2, o[c] = 2
               PROVE  o[b] = 2
      OBVIOUS
  <2>1. PICK x \in Int : x = 24 * a OBVIOUS
  <2>2. PICK y \in Int : y = 24 * b OBVIOUS
  <2>3. PICK z \in Int : z = 24 * c OBVIOUS
  <2>4. x <= y /\ y <= z BY <2>1, <2>2, <2>3
  <2>5. o[a] = Offset(x) /\ o[b] = Offset(y) /\ o[c] = Offset(z) BY <1>2, <2>1, <2>2, <2>3
  <2> QED BY <2>4, <2>5, OffsetFacts
<1>5. \A d \in Int : o[d] \in {1, 2} BY <1>2
<1>6. \A n \in 0..13 : /\ DayOf(t, n) \in Int /\ l <= DayOf(t, n)
                       /\ DayOf(t, n) \in {l + n - 1, l + n}
  <2> SUFFICES ASSUME NEW n \in 0..13
               PROVE  /\ DayOf(t, n) \in Int /\ l <= DayOf(t, n)
                      /\ DayOf(t, n) \in {l + n - 1, l + n}
      OBVIOUS
  <2>1. n = 0 => l + n = l OBVIOUS
  <2>2. n = 0 => ~(o[l + n] < o[l]) BY <1>5, <2>1
  <2> QED BY <1>3, <2>2
<1>7. ASSUME NEW n \in 0..13, NEW d \in Int, l <= d, d <= DayOf(t, n)
      PROVE  \E j \in 0..n : DayOf(t, j) = d
  <2>1. PICK j \in Int : j = d - l OBVIOUS
  <2>2. j \in 0..n /\ j \in 0..13 /\ l + j = d BY <1>6, <1>7, <2>1
  <2>3. CASE ~(o[d] < o[l])
    <3>1. DayOf(t, j) = d BY <1>3, <2>2, <2>3
    <3> QED BY <2>2, <3>1
  <2>4. CASE o[d] < o[l]
    <3>1. o[l] = 2 /\ o[d] = 1 BY <1>5, <2>4
    <3>2. d < l + n
      <4> SUFFICES ASSUME d >= l + n PROVE FALSE
          OBVIOUS
      <4>1. d = l + n /\ DayOf(t, n) = l + n BY <1>6, <1>7
      <4>2. DayOf(t, n) = l + n - 1 BY <1>3, <2>4, <4>1
      <4> QED BY <4>1, <4>2
    <3>3. PICK i \in Int : i = j + 1 OBVIOUS
    <3>4. i \in 0..n /\ i \in 0..13 /\ l + i = d + 1 BY <2>2, <3>2, <3>3
    <3>5. o[l + i] = 1
      <4>1. l + i \in Int /\ l <= d /\ d <= l + i BY <1>7, <3>4
      <4>2. o[l + i] # 2 BY <1>4, <3>1, <4>1
      <4> QED BY <1>5, <4>1, <4>2
    <3>6. DayOf(t, i) = l + i - 1 BY <1>3, <3>1, <3>4, <3>5
    <3> QED BY <3>4, <3>6
  <2> QED BY <2>3, <2>4
<1> QED BY <1>1, <1>6, <1>7

(* One of the days is the first. *)
LEMMA LeastOf ==
    ASSUME NEW S \in SUBSET Nat, S # {}
    PROVE  \E k \in S : \A j \in S : k <= j
<1> DEFINE R == OpToRel(<, Nat)
<1>1. IsWellFoundedOn(R, Nat) BY NatLessThanWellFounded
<1>2. R = {ss \in Nat \X Nat : ss[1] < ss[2]} BY DEF OpToRel
<1> HIDE DEF R
<1>3. PICK k \in S : \A j \in S : ~(<<j, k>> \in R) BY <1>1, WFMin
<1>4. ASSUME NEW j \in S PROVE k <= j
  <2>1. ~(j < k) BY <1>2, <1>3
  <2> QED BY <2>1
<1> QED BY <1>4

Good(tr, t, n) == IsLater(Occurrence(tr, Cand(t, n)), t)

(* nextFireTime is the first of the candidates that are still to come. *)
LEMMA NextIs ==
    ASSUME season \in Seasons, NEW t \in Int, season.firsts[1] <= LocalDay(t), NEW tr,
           NEW k \in 0..13, Good(tr, t, k), \A j \in 0..13 : Good(tr, t, j) => k <= j
    PROVE  NextFireTime(tr, t) = Occurrence(tr, Cand(t, k))
<1>1. PICK b \in Int : \A n \in 0..13 : Cand(t, n) = b + 24 * n
  <2>1. PICK l \in Int : l = LocalDay(t) BY LocalFacts
  <2>2. PICK o \in Int : o = Offset(24 * l) BY OffsetFacts
  <2>3. \A n \in 0..13 : Cand(t, n) = 24 * (l + n) - o
    <3> SUFFICES ASSUME NEW n \in 0..13 PROVE Cand(t, n) = 24 * (l + n) - o
        OBVIOUS
    <3>1. Cand(t, n) = 24 * (l + n) - Offset(24 * l) BY <2>1, CandFacts
    <3> QED BY <2>2, <3>1
  <2>4. 24 * l - o \in Int OBVIOUS
  <2>5. \A n \in 0..13 : Cand(t, n) = (24 * l - o) + 24 * n BY <2>3
  <2> QED BY <2>4, <2>5
<1> DEFINE good == {day \in {Cand(t, n) : n \in 0..13} : IsLater(Occurrence(tr, day), t)}
<1>2. Cand(t, k) \in good BY DEF Good
<1>3. \A y \in good : y \in Int /\ Cand(t, k) <= y
  <2> SUFFICES ASSUME NEW n \in 0..13, Good(tr, t, n)
               PROVE  Cand(t, n) \in Int /\ Cand(t, k) <= Cand(t, n)
      BY DEF Good
  <2> QED BY <1>1
<1>4. NextFireTime(tr, t) = IF good = {} THEN None ELSE Occurrence(tr, Min(good))
      BY DEF NextFireTime, Cand
<1> HIDE DEF good
<1>5. Min(good) = Cand(t, k)
  <2>1. PICK c : c = Cand(t, k) OBVIOUS
  <2>2. c \in good /\ c \in Int /\ \A y \in good : y \in Int /\ c <= y BY <1>2, <1>3, <2>1
  <2>3. Min(good) \in good /\ \A y \in good : Min(good) <= y BY <2>2 DEF Min
  <2>4. Min(good) <= c /\ c <= Min(good) /\ Min(good) \in Int BY <2>2, <2>3
  <2> QED BY <2>1, <2>2, <2>4
<1> QED BY <1>2, <1>4, <1>5

LEMMA NextIsNone ==
    ASSUME NEW t, NEW tr, \A j \in 0..13 : ~Good(tr, t, j)
    PROVE  NextFireTime(tr, t) = None
  BY DEF NextFireTime, Cand, Good

(* And so is what was promised. *)
LEMMA PromisedIs ==
    ASSUME NEW t \in Int, NEW tr, NEW p \in Int, p > t,
           NEW d \in (LocalDay(t) - 1)..(LocalDay(t) + 13), p \in Promised(tr, d),
           \A e \in (LocalDay(t) - 1)..(LocalDay(t) + 13) : \A u \in Promised(tr, e) :
              u \in Int /\ (u > t => p <= u)
    PROVE  NextPromised(tr, t) = p
<1> DEFINE days == (LocalDay(t) - 1)..(LocalDay(t) + 13)
           later == {u \in UNION {Promised(tr, e) : e \in days} : u > t}
<1>1. p \in later OBVIOUS
<1>2. \A u \in later : u \in Int /\ p <= u OBVIOUS
<1>3. NextPromised(tr, t) = IF later = {} THEN None ELSE Min(later) BY DEF NextPromised
<1> HIDE DEF later, days
<1>4. Min(later) \in later /\ \A y \in later : Min(later) <= y BY <1>1, <1>2 DEF Min
<1>5. Min(later) <= p /\ p <= Min(later) /\ Min(later) \in Int BY <1>1, <1>2, <1>4
<1> QED BY <1>1, <1>3, <1>5

(* What comes next was promised for one of the days. *)
LEMMA PromisedThere ==
    ASSUME NEW t \in Int, NEW tr, NextPromised(tr, t) # None,
           \A e \in (LocalDay(t) - 1)..(LocalDay(t) + 13) : \A u \in Promised(tr, e) : u \in Int
    PROVE  \E d \in (LocalDay(t) - 1)..(LocalDay(t) + 13) : NextPromised(tr, t) \in Promised(tr, d)
<1> DEFINE days == (LocalDay(t) - 1)..(LocalDay(t) + 13)
           later == {u \in UNION {Promised(tr, e) : e \in days} : u > t}
           T == {u - t : u \in later}
<1>1. later # {} BY DEF NextPromised
<1>2. \A u \in later : u \in Int /\ u > t OBVIOUS
<1>3. \A u \in later : \E d \in days : u \in Promised(tr, d) OBVIOUS
<1>4. \A d \in days : \A u \in Promised(tr, d) : u \in Int /\ (u > t => u \in later) OBVIOUS
<1> HIDE DEF days, later
<1>5. T \in SUBSET Nat /\ T # {} BY <1>1, <1>2
<1>6. PICK k \in T : \A j \in T : k <= j BY <1>5, LeastOf
<1>7. PICK p \in later : k = p - t BY <1>6
<1>8. \A u \in later : p <= u
  <2> SUFFICES ASSUME NEW u \in later PROVE p <= u
      OBVIOUS
  <2>1. k <= u - t BY <1>6
  <2> QED BY <1>2, <1>7, <2>1
<1>9. PICK d \in days : p \in Promised(tr, d) BY <1>3
<1>10. p \in Int /\ p > t BY <1>2
<1>11. NextPromised(tr, t) = p
  <2>1. \A e \in days : \A u \in Promised(tr, e) : u \in Int /\ (u > t => p <= u)
        BY <1>4, <1>8
  <2> QED BY <1>9, <1>10, <2>1, PromisedIs DEF days
<1> QED BY <1>9, <1>11 DEF days

LEMMA PromisedNone ==
    ASSUME NEW t, NEW tr,
           \A e \in (LocalDay(t) - 1)..(LocalDay(t) + 13) : \A u \in Promised(tr, e) : ~(u > t)
    PROVE  NextPromised(tr, t) = None
  BY DEF NextPromised

-----------------------------------------------------------------------------
(* The first good candidate has the first promise. *)

(* A season's days have a month. *)
LEMMA SeasonFacts ==
    ASSUME season \in Seasons, NEW t \in Int, season.start <= t
    PROVE  /\ season.firsts[1] <= LocalDay(t) /\ LocalDay(t) \in Int
           /\ 24 * LocalDay(t) - 2 <= t /\ t <= 24 * LocalDay(t) + 22
<1>1. /\ season.firsts[1] \in Int /\ season.start \in Int
      /\ 24 * season.firsts[1] <= season.start
      BY CalendarAssumption DEF IsSeason
<1>2. PICK f \in Int : f = season.firsts[1] BY <1>1
<1>3. PICK l \in Int : l = LocalDay(t) BY LocalFacts
<1>4. PICK h \in 0..23 : t + Offset(t) = 24 * l + h BY <1>3, LocalFacts
<1>5. PICK o \in {1, 2} : o = Offset(t) BY OffsetFacts
<1>6. 24 * f <= t BY <1>1, <1>2
<1>7. t + o = 24 * l + h BY <1>4, <1>5
<1>8. f <= l /\ 24 * l - 2 <= t /\ t <= 24 * l + 22 BY <1>6, <1>7
<1> QED BY <1>2, <1>3, <1>8

LEMMA MaxTwo ==
    ASSUME NEW a \in Int, NEW b \in Int
    PROVE  Max({a, b}) = IF a >= b THEN a ELSE b
  BY DEF Max

(* A candidate day has the sun of its day. *)
LEMMA SunFacts ==
    ASSUME season \in Seasons, NEW t \in Int, season.firsts[1] <= LocalDay(t), NEW n \in 0..13,
           NEW e \in Events
    PROVE  /\ Sun[e] \in 0..23
           /\ SunEvent(Cand(t, n), e) = 24 * (LocalDay(t) + n) + Sun[e]
<1>1. PICK l \in Int : l = LocalDay(t) BY LocalFacts
<1>2. PICK o \in {1, 2} : o = Offset(24 * l) BY OffsetFacts
<1>3. PICK c \in Int : c = Cand(t, n) /\ c = 24 * (l + n) - o
  <2>1. Cand(t, n) = 24 * (l + n) - Offset(24 * l) BY <1>1, CandFacts
  <2>2. 24 * (l + n) - o \in Int OBVIOUS
  <2> QED BY <1>2, <2>1, <2>2
<1>4. Sun[e] \in 0..23 BY CalendarAssumption
<1>5. (c + 12) \div 24 = l + n BY <1>3
<1>6. SunEvent(c, e) = 24 * (l + n) + Sun[e] BY <1>4, <1>5 DEF SunEvent
<1> QED BY <1>1, <1>3, <1>4, <1>6

(* Where a bound lies. *)
LEMMA GuardFacts ==
    ASSUME season \in Seasons, NEW t \in Int, season.firsts[1] <= LocalDay(t), NEW n \in 0..13,
           NEW g, IsGuard(g)
    PROVE  /\ ResolveGuard(g, Cand(t, n)) \in Int
           /\ ResolveGuard(g, Cand(t, n)) <= 24 * (LocalDay(t) + n) + 35
<1>1. PICK l \in Int : l = LocalDay(t) BY LocalFacts
<1>2. PICK d : d = DayOf(t, n) OBVIOUS
<1>3. d \in Int /\ d <= l + n /\ season.firsts[1] <= d
  <2>1. DayOf(t, n) \in Int /\ l <= DayOf(t, n) /\ DayOf(t, n) \in {l + n - 1, l + n}
        BY <1>1, Walk
  <2>2. season.firsts[1] \in Int BY CalendarAssumption DEF IsSeason
  <2>3. d \in Int /\ l <= d /\ d \in {l + n - 1, l + n} BY <1>2, <2>1
  <2> QED BY <1>1, <2>2, <2>3
<1>4. CASE g.kind = "time" /\ g.hour \in 0..23
  <2>1. ResolveGuard(g, Cand(t, n)) = FromLocal(d, g.hour)
        BY <1>2, <1>4 DEF ResolveGuard, AtLocalTime, DayOf
  <2>2. PICK h \in 0..23 : h = g.hour BY <1>4
  <2>3. FromLocal(d, h) \in Int /\ FromLocal(d, h) <= 24 * d + h - 1 BY <1>3, FromLocalFacts
  <2>4. PICK x \in Int : x = FromLocal(d, h) BY <2>3
  <2>5. x <= 24 * (l + n) + 35 BY <1>3, <2>3, <2>4
  <2> QED BY <1>1, <2>1, <2>2, <2>4, <2>5
<1>5. CASE g.kind = "astro" /\ g.event \in Events /\ g.offset \in -12..12
  <2>1. ResolveGuard(g, Cand(t, n)) = SunEvent(Cand(t, n), g.event) + g.offset
        BY <1>5 DEF ResolveGuard
  <2>2. PICK s \in 0..23 : SunEvent(Cand(t, n), g.event) = 24 * (l + n) + s
        BY <1>1, <1>5, SunFacts
  <2>3. PICK v \in -12..12 : v = g.offset BY <1>5
  <2>4. ResolveGuard(g, Cand(t, n)) = 24 * (l + n) + s + v BY <2>1, <2>2, <2>3
  <2>5. 24 * (l + n) + s + v \in Int /\ 24 * (l + n) + s + v <= 24 * (l + n) + 35 OBVIOUS
  <2> QED BY <1>1, <2>4, <2>5
<1> QED BY <1>4, <1>5 DEF IsGuard

(* An occurrence is an instant, at most the 13 days and an offset away. *)
LEMMA OccurrenceFacts ==
    ASSUME season \in Seasons, NEW t \in Int, season.firsts[1] <= LocalDay(t), NEW n \in 0..13,
           NEW tr, IsTrigger(tr), Occurrence(tr, Cand(t, n)) # None
    PROVE  /\ Occurrence(tr, Cand(t, n)) \in Int
           /\ Occurrence(tr, Cand(t, n)) <= 24 * (LocalDay(t) + n) + 35
<1>1. PICK b \in Int : b = 24 * (LocalDay(t) + n) + 35
  <2>1. LocalDay(t) \in Int BY LocalFacts
  <2> QED BY <2>1
<1>2. PICK c : c = Cand(t, n) OBVIOUS
<1>3. \A g : IsGuard(g) => ResolveGuard(g, c) \in Int /\ ResolveGuard(g, c) <= b
      BY <1>1, <1>2, GuardFacts
<1>4. CASE tr.kind = "time" /\ tr.hour \in 0..23
  <2>1. Occurrence(tr, c) = AtLocalTime(c, tr.hour) BY <1>2, <1>4 DEF Occurrence
  <2>2. IsGuard(tr) /\ ResolveGuard(tr, c) = AtLocalTime(c, tr.hour)
        BY <1>4 DEF IsGuard, ResolveGuard
  <2> QED BY <1>1, <1>2, <1>3, <2>1, <2>2
<1>5. CASE /\ tr.kind = "astro" /\ tr.event \in Events /\ tr.offset \in -12..12
           /\ tr.notBefore = None \/ IsGuard(tr.notBefore)
           /\ tr.notAfter = None \/ IsGuard(tr.notAfter)
  <2>1. PICK x : x = SunEvent(c, tr.event) + tr.offset OBVIOUS
  <2>2. IsGuard(tr) /\ ResolveGuard(tr, c) = x BY <1>5, <2>1 DEF IsGuard, ResolveGuard
  <2>3. x \in Int /\ x <= b BY <1>3, <2>2
  <2>4. Raised(tr, x, c) \in Int /\ Raised(tr, x, c) <= b
    <3>1. CASE tr.notBefore = None BY <2>3, <3>1 DEF Raised
    <3>2. CASE tr.notBefore # None
      <4>1. PICK y : y = ResolveGuard(tr.notBefore, c) OBVIOUS
      <4>2. y \in Int /\ y <= b BY <1>3, <1>5, <3>2, <4>1
      <4>3. Raised(tr, x, c) = IF x >= y THEN x ELSE y
            BY <2>3, <3>2, <4>1, <4>2, MaxTwo DEF Raised
      <4> QED BY <2>3, <4>2, <4>3
    <3> QED BY <3>1, <3>2
  <2>5. Occurrence(tr, c) = Raised(tr, x, c) BY <1>2, <1>5, <2>1 DEF Occurrence
  <2> QED BY <1>1, <1>2, <2>4, <2>5
<1> QED BY <1>4, <1>5 DEF IsTrigger

(* The first of the good candidates, if there is one. *)
LEMMA FirstGood ==
    ASSUME NEW t, NEW tr, NEW n \in 0..13, Good(tr, t, n)
    PROVE  \E k \in 0..13 : Good(tr, t, k) /\ \A j \in 0..13 : Good(tr, t, j) => k <= j
<1>1. PICK S : S = {j \in 0..13 : Good(tr, t, j)} OBVIOUS
<1>2. S \in SUBSET Nat /\ S # {} BY <1>1
<1>3. PICK k \in S : \A j \in S : k <= j BY <1>2, LeastOf
<1> QED BY <1>1, <1>3

(* A timeout is armed for later, within 15 days. *)
LEMMA NextFacts ==
    ASSUME season \in Seasons, NEW t \in Int, season.start <= t, NEW tr, IsTrigger(tr)
    PROVE  NextFireTime(tr, t) = None \/ NextFireTime(tr, t) \in (t + 1)..(t + 15 * 24)
<1>1. CASE \A j \in 0..13 : ~Good(tr, t, j) BY <1>1, NextIsNone
<1>2. CASE ~\A j \in 0..13 : ~Good(tr, t, j)
  <2>1. PICK n \in 0..13 : Good(tr, t, n) BY <1>2
  <2>2. PICK k \in 0..13 : Good(tr, t, k) /\ \A j \in 0..13 : Good(tr, t, j) => k <= j
        BY <2>1, FirstGood
  <2>3. PICK l \in Int : l = LocalDay(t) /\ season.firsts[1] <= l /\ 24 * l - 2 <= t
        BY SeasonFacts
  <2>4. PICK x : x = Occurrence(tr, Cand(t, k)) OBVIOUS
  <2>5. NextFireTime(tr, t) = x BY <2>2, <2>3, <2>4, NextIs
  <2>6. x # None /\ x > t BY <2>2, <2>4 DEF Good, IsLater
  <2>7. x \in Int /\ x <= 24 * (l + k) + 35 BY <2>3, <2>4, <2>6, OccurrenceFacts
  <2>8. x \in (t + 1)..(t + 15 * 24) BY <2>3, <2>6, <2>7
  <2> QED BY <2>5, <2>8
<1> QED BY <1>1, <1>2

-----------------------------------------------------------------------------
(* Triggers by the clock. *)

Around14(t) == (LocalDay(t) - 1)..(LocalDay(t) + 13)

(* A time trigger of the day is armed for the first wall time promised. *)
LEMMA TimeNext ==
    ASSUME season \in Seasons, NEW t \in Int, season.start <= t, NEW tr,
           tr.kind = "time", tr.hour \in 3..21
    PROVE  NextFireTime(tr, t) = NextPromised(tr, t)
<1>1. PICK l \in Int : /\ l = LocalDay(t) /\ season.firsts[1] <= l
                       /\ 24 * l - 2 <= t /\ t <= 24 * l + 22
      BY SeasonFacts
<1>2. PICK h \in 3..21 : h = tr.hour OBVIOUS
<1>3. PICK T \in [Int -> Int] : \A d \in Int : T[d] = 24 * d + h - Offset(24 * d + 24)
  <2>1. \A d \in Int : Offset(24 * d + 24) \in {1, 2} BY OffsetFacts
  <2>2. \A d \in Int : 24 * d + h - Offset(24 * d + 24) \in Int BY <2>1
  <2>3. [d \in Int |-> 24 * d + h - Offset(24 * d + 24)] \in [Int -> Int] BY <2>2
  <2> QED BY <2>3
<1>4. \A d \in Int : 24 * d + h - 2 <= T[d] /\ T[d] <= 24 * d + h - 1
  <2> SUFFICES ASSUME NEW d \in Int PROVE 24 * d + h - 2 <= T[d] /\ T[d] <= 24 * d + h - 1
      OBVIOUS
  <2>1. PICK o \in {1, 2} : o = Offset(24 * d + 24) BY OffsetFacts
  <2>2. T[d] = 24 * d + h - o BY <1>3, <2>1
  <2> QED BY <2>2
<1>5. PICK W : W = {d \in Int : Weekday(d) \in tr.days} OBVIOUS
<1>6. \A d \in Int : d \in W => d - 7 \in W
  <2> SUFFICES ASSUME NEW d \in W, d \in Int PROVE d - 7 \in W
      OBVIOUS
  <2>1. PICK w \in Int : w = season.weekday BY CalendarAssumption DEF IsSeason
  <2>2. (w + (d - 7)) % 7 = (w + d) % 7 OBVIOUS
  <2>3. Weekday(d - 7) = Weekday(d) BY <2>1, <2>2 DEF Weekday
  <2> QED BY <1>5, <2>3
<1>7. \A d \in Int : Promised(tr, d) = IF d \in W THEN {T[d]} ELSE {}
  <2> SUFFICES ASSUME NEW d \in Int PROVE Promised(tr, d) = IF d \in W THEN {T[d]} ELSE {}
      OBVIOUS
  <2>1. WallTimes(d, h) = {24 * d + h - Offset(24 * d + 24)} BY Daytime
  <2>2. T[d] = 24 * d + h - Offset(24 * d + 24) BY <1>3
  <2>3. WallTimes(d, tr.hour) = {T[d]} BY <1>2, <2>1, <2>2
  <2> QED BY <1>5, <2>3 DEF Promised
<1>8. \A n \in 0..13 : /\ DayOf(t, n) \in Int /\ l <= DayOf(t, n)
                       /\ DayOf(t, n) \in {l + n - 1, l + n}
      BY <1>1, Walk
<1>9. ASSUME NEW n \in 0..13
      PROVE  Occurrence(tr, Cand(t, n)) = IF DayOf(t, n) \in W THEN T[DayOf(t, n)] ELSE None
  <2>1. PICK d \in Int : d = DayOf(t, n) /\ season.firsts[1] <= d
    <3>1. PICK f \in Int : f = season.firsts[1] BY CalendarAssumption DEF IsSeason
    <3>2. PICK d \in Int : d = DayOf(t, n) /\ l <= d BY <1>8
    <3> QED BY <1>1, <3>1, <3>2
  <2>2. FromLocal(d, h) = T[d]
    <3>1. h \in 0..23 /\ h <= 21 OBVIOUS
    <3>2. FromLocal(d, h) = 24 * d + h - Offset(24 * d + h) BY <2>1, <3>1, FromLocalFacts
    <3>3. Offset(24 * d + h) = Offset(24 * d + 24) BY Daytime
    <3>4. PICK o \in {1, 2} : o = Offset(24 * d + 24) BY OffsetFacts
    <3> QED BY <1>3, <3>2, <3>3, <3>4
  <2>3. AtLocalTime(Cand(t, n), tr.hour) = T[d] BY <1>2, <2>1, <2>2 DEF AtLocalTime, DayOf
  <2>4. AllowedOnWeekday(tr.days, Cand(t, n)) <=> d \in W
        BY <1>5, <2>1 DEF AllowedOnWeekday, DayOf
  <2> QED BY <2>1, <2>3, <2>4 DEF Occurrence
<1>10. \A n \in 0..13 : Good(tr, t, n) <=> DayOf(t, n) \in W /\ T[DayOf(t, n)] > t
  <2> SUFFICES ASSUME NEW n \in 0..13
               PROVE  Good(tr, t, n) <=> DayOf(t, n) \in W /\ T[DayOf(t, n)] > t
      OBVIOUS
  <2>1. None \notin Int BY CalendarAssumption
  <2>2. PICK d \in Int : d = DayOf(t, n) BY <1>8
  <2>3. T[d] \in Int BY <1>3
  <2>4. PICK x : x = Occurrence(tr, Cand(t, n)) OBVIOUS
  <2>5. Good(tr, t, n) <=> x # None /\ x > t BY <2>4 DEF Good, IsLater
  <2>6. x = IF d \in W THEN T[d] ELSE None BY <1>9, <2>2, <2>4
  <2> QED BY <2>1, <2>2, <2>3, <2>5, <2>6
<1>11. \A n \in 0..13, d \in Int :
          l <= d /\ d <= DayOf(t, n) => \E j \in 0..n : DayOf(t, j) = d
       BY <1>1, Walk
<1>12. \A e \in Int : e < l => T[e] <= t
  <2> SUFFICES ASSUME NEW e \in Int, e < l PROVE T[e] <= t
      OBVIOUS
  <2>1. T[e] \in Int /\ T[e] <= 24 * e + h - 1 BY <1>3, <1>4
  <2> QED BY <1>1, <2>1
<1>13. \A d, e \in Int : d < e => T[d] < T[e]
  <2> SUFFICES ASSUME NEW d \in Int, NEW e \in Int, d < e PROVE T[d] < T[e]
      OBVIOUS
  <2>1. T[d] \in Int /\ T[e] \in Int /\ T[d] <= 24 * d + h - 1 /\ 24 * e + h - 2 <= T[e]
        BY <1>3, <1>4
  <2> QED BY <2>1
<1>14. CASE \A j \in 0..13 : ~Good(tr, t, j)
  <2>1. ASSUME NEW e \in Int, l <= e, e <= l + 12, e \in W, T[e] > t PROVE FALSE
    <3>1. DayOf(t, 13) \in Int /\ e <= DayOf(t, 13)
      <4>1. 13 \in 0..13 OBVIOUS
      <4>2. DayOf(t, 13) \in Int /\ DayOf(t, 13) \in {l + 13 - 1, l + 13} BY <1>8, <4>1
      <4> QED BY <2>1, <4>2
    <3>2. PICK j \in 0..13 : DayOf(t, j) = e BY <1>11, <2>1, <3>1
    <3> QED BY <1>10, <1>14, <2>1, <3>2
  <2>2. ASSUME NEW e \in Around14(t), NEW u \in Promised(tr, e), u > t PROVE FALSE
    <3>1. e \in Int /\ l - 1 <= e /\ e <= l + 13 BY <1>1 DEF Around14
    <3>2. e \in W /\ T[e] > t BY <1>7, <2>2, <3>1
    <3>3. l <= e
      <4>1. T[e] \in Int BY <1>3, <3>1
      <4> QED BY <1>1, <1>12, <3>1, <3>2, <4>1
    <3>4. e = l + 13 BY <2>1, <3>1, <3>2, <3>3
    <3>5. PICK f \in Int : f = e - 7 BY <3>1
    <3>6. f \in W /\ l <= f /\ f <= l + 12 /\ l + 6 = f BY <1>6, <3>1, <3>2, <3>4, <3>5
    <3>7. T[f] \in Int /\ T[f] > t
      <4>1. T[f] \in Int /\ 24 * f + h - 2 <= T[f] BY <1>3, <1>4
      <4> QED BY <1>1, <3>6, <4>1
    <3> QED BY <2>1, <3>6, <3>7
  <2>3. NextPromised(tr, t) = None BY <2>2, PromisedNone DEF Around14
  <2> QED BY <1>14, <2>3, NextIsNone
<1>15. CASE ~\A j \in 0..13 : ~Good(tr, t, j)
  <2>1. PICK k \in 0..13 : Good(tr, t, k) /\ \A j \in 0..13 : Good(tr, t, j) => k <= j
    <3>1. PICK n \in 0..13 : Good(tr, t, n) BY <1>15
    <3> QED BY <3>1, FirstGood
  <2>2. PICK d \in Int : d = DayOf(t, k) /\ l <= d /\ d <= l + 13 BY <1>8
  <2>3. d \in W /\ T[d] > t BY <1>10, <2>1, <2>2
  <2>4. NextFireTime(tr, t) = T[d]
    <3>1. NextFireTime(tr, t) = Occurrence(tr, Cand(t, k)) BY <1>1, <2>1, NextIs
    <3> QED BY <1>9, <2>2, <2>3, <3>1
  <2>5. ASSUME NEW e \in Around14(t), NEW u \in Promised(tr, e)
        PROVE  u \in Int /\ (u > t => T[d] <= u)
    <3>1. e \in Int BY <1>1 DEF Around14
    <3>2. e \in W /\ u = T[e] /\ u \in Int BY <1>3, <1>7, <3>1
    <3>3. ASSUME u > t, e < d PROVE FALSE
      <4>1. l <= e
        <5>1. T[e] \in Int BY <1>3, <3>1
        <5> QED BY <1>1, <1>12, <3>1, <3>2, <3>3, <5>1
      <4>2. e <= DayOf(t, k) BY <2>2, <3>1, <3>3
      <4>3. PICK j \in 0..k : DayOf(t, j) = e BY <1>11, <3>1, <4>1, <4>2
      <4>4. j \in 0..13 /\ j # k /\ ~(k <= j) BY <2>2, <3>1, <3>3, <4>3
      <4>5. Good(tr, t, j) BY <1>10, <3>2, <3>3, <4>3, <4>4
      <4> QED BY <2>1, <4>4, <4>5
    <3>4. ASSUME u > t PROVE T[d] <= u
      <4>1. T[d] \in Int /\ T[e] \in Int BY <1>3, <3>1
      <4>2. e = d \/ d < e BY <3>1, <3>3, <3>4
      <4> QED BY <1>13, <3>1, <3>2, <4>1, <4>2
    <3> QED BY <3>2, <3>4
  <2>6. T[d] \in Int /\ T[d] \in Promised(tr, d) BY <1>3, <1>7, <2>3
  <2>7. d \in Around14(t) BY <1>1, <2>2 DEF Around14
  <2>8. NextPromised(tr, t) = T[d]
    <3>1. PICK p \in Int : p = T[d] BY <2>6
    <3>2. p > t /\ p \in Promised(tr, d) BY <2>3, <2>6, <3>1
    <3>3. \A e \in Around14(t) : \A u \in Promised(tr, e) : u \in Int /\ (u > t => p <= u)
          BY <2>5, <3>1
    <3>4. NextPromised(tr, t) = p BY <2>7, <3>2, <3>3, PromisedIs DEF Around14
    <3> QED BY <3>1, <3>4
  <2> QED BY <2>4, <2>8
<1> QED BY <1>14, <1>15

-----------------------------------------------------------------------------
(* Triggers by the sun: their moments and bounds. *)

(* A bound by day, as it is promised and as it is resolved on a candidate of that day. *)
LEMMA BoundFacts ==
    ASSUME season \in Seasons, NEW d \in Int, NEW g, IsGuard(g), g # None, BoundOnDay(g)
    PROVE  /\ GuardTime(g, d) \in 24 * d .. 24 * d + 21
           /\ \A t \in Int, n \in 0..13 :
                 season.firsts[1] <= LocalDay(t) /\ d = LocalDay(t) + n /\ d = DayOf(t, n) =>
                    ResolveGuard(g, Cand(t, n)) = GuardTime(g, d)
<1>1. CASE g.kind = "time" /\ g.hour \in 0..23
  <2>1. PICK h \in 3..21 : h = g.hour BY <1>1 DEF BoundOnDay
  <2>2. PICK o \in {1, 2} : o = Offset(24 * d + 24) BY OffsetFacts
  <2>3. PICK x \in Int : x = 24 * d + h - o BY <2>2
  <2>4. WallTimes(d, h) = {x} /\ Offset(24 * d + h) = o BY <2>2, <2>3, Daytime
  <2>5. Min({x}) = x BY DEF Min
  <2>6. GuardTime(g, d) = x BY <1>1, <2>1, <2>4, <2>5 DEF GuardTime
  <2>7. x \in 24 * d .. 24 * d + 21 BY <2>3
  <2>8. ASSUME NEW t \in Int, NEW n \in 0..13, season.firsts[1] <= LocalDay(t),
               d = LocalDay(t) + n, d = DayOf(t, n)
        PROVE  ResolveGuard(g, Cand(t, n)) = x
    <3>1. ResolveGuard(g, Cand(t, n)) = FromLocal(d, h)
          BY <1>1, <2>1, <2>8 DEF ResolveGuard, AtLocalTime, DayOf
    <3>2. season.firsts[1] <= d
      <4>1. PICK f \in Int : f = season.firsts[1] BY CalendarAssumption DEF IsSeason
      <4>2. PICK l \in Int : l = LocalDay(t) BY LocalFacts
      <4>3. f <= l + n BY <2>8, <4>1, <4>2
      <4> QED BY <2>8, <4>1, <4>2, <4>3
    <3>3. h \in 0..23 /\ h <= 21 OBVIOUS
    <3>4. FromLocal(d, h) = 24 * d + h - Offset(24 * d + h) BY <3>2, <3>3, FromLocalFacts
    <3> QED BY <2>3, <2>4, <3>1, <3>4
  <2> QED BY <2>6, <2>7, <2>8
<1>2. CASE g.kind = "astro" /\ g.event \in Events /\ g.offset \in -12..12
  <2>1. Sun[g.event] \in 0..23 BY <1>2, CalendarAssumption
  <2>2. PICK s \in Int : s = Sun[g.event] BY <2>1
  <2>3. PICK v \in Int : v = g.offset BY <1>2
  <2>4. s + v \in 0..21 BY <1>2, <2>2, <2>3 DEF BoundOnDay, OnDay
  <2>5. GuardTime(g, d) = 24 * d + s + v BY <1>2, <2>2, <2>3 DEF GuardTime
  <2>6. 24 * d + s + v \in 24 * d .. 24 * d + 21 BY <2>4
  <2>7. ASSUME NEW t \in Int, NEW n \in 0..13, season.firsts[1] <= LocalDay(t),
               d = LocalDay(t) + n, d = DayOf(t, n)
        PROVE  ResolveGuard(g, Cand(t, n)) = 24 * d + s + v
    <3>1. ResolveGuard(g, Cand(t, n)) = SunEvent(Cand(t, n), g.event) + v
          BY <1>2, <2>3 DEF ResolveGuard
    <3>2. SunEvent(Cand(t, n), g.event) = 24 * (LocalDay(t) + n) + Sun[g.event]
          BY <1>2, <2>7, SunFacts
    <3> QED BY <2>2, <2>7, <3>1, <3>2
  <2> QED BY <2>5, <2>6, <2>7
<1> QED BY <1>1, <1>2 DEF IsGuard

(* The moment of a day at which an astro trigger may fire, and when it does not. *)
Moment(tr, d) ==
    LET event == 24 * d + Sun[tr.event] + tr.offset
    IN  IF tr.notBefore = None THEN event ELSE Max({event, GuardTime(tr.notBefore, d)})
Skips(tr, d) ==
    \/ Weekday(d) \notin tr.days
    \/ tr.notAfter # None /\ Moment(tr, d) > GuardTime(tr.notAfter, d)

(* One that stays on its day is promised for that moment or not at all. *)
LEMMA AstroDay ==
    ASSUME season \in Seasons, NEW d \in Int, NEW tr, IsTrigger(tr), tr.kind = "astro", StaysOnDay(tr)
    PROVE  /\ Moment(tr, d) \in 24 * d .. 24 * d + 21
           /\ Promised(tr, d) = IF Skips(tr, d) THEN {} ELSE {Moment(tr, d)}
<1>1. /\ tr.event \in Events /\ tr.offset \in -12..12
      /\ tr.notBefore = None \/ (IsGuard(tr.notBefore) /\ BoundOnDay(tr.notBefore))
      /\ tr.notAfter = None \/ (IsGuard(tr.notAfter) /\ BoundOnDay(tr.notAfter))
      BY DEF IsTrigger, StaysOnDay
<1>2. PICK x \in 24 * d .. 24 * d + 21 : x = 24 * d + Sun[tr.event] + tr.offset
  <2>1. PICK s \in Int : s = Sun[tr.event] BY <1>1, CalendarAssumption
  <2>2. PICK v \in Int : v = tr.offset BY <1>1
  <2>3. s + v \in 0..21 BY <2>1, <2>2 DEF StaysOnDay, OnDay
  <2>4. 24 * d + s + v \in 24 * d .. 24 * d + 21 BY <2>3
  <2> QED BY <2>1, <2>2, <2>4
<1>3. PICK lo : lo = GuardTime(tr.notBefore, d) OBVIOUS
<1>4. PICK hi : hi = GuardTime(tr.notAfter, d) OBVIOUS
<1>5. tr.notBefore # None => lo \in 24 * d .. 24 * d + 21 BY <1>1, <1>3, BoundFacts
<1>6. tr.notAfter # None => hi \in 24 * d .. 24 * d + 21 BY <1>1, <1>4, BoundFacts
<1>7. PICK y : y = Moment(tr, d) OBVIOUS
<1>8. y = IF tr.notBefore = None THEN x ELSE Max({x, lo}) BY <1>2, <1>3, <1>7 DEF Moment
<1>9. y \in 24 * d .. 24 * d + 21
  <2>1. CASE tr.notBefore = None BY <1>8, <2>1
  <2>2. CASE tr.notBefore # None
    <3>1. x \in Int /\ lo \in Int /\ lo \in 24 * d .. 24 * d + 21 BY <1>5, <2>2
    <3>2. y = IF x >= lo THEN x ELSE lo BY <1>8, <2>2, <3>1, MaxTwo
    <3> QED BY <3>1, <3>2
  <2> QED BY <2>1, <2>2
<1>10. PICK B \in BOOLEAN : B <=> (tr.notAfter = None \/ y <= hi) OBVIOUS
<1>11. Promised(tr, d) = IF Weekday(d) \notin tr.days THEN {} ELSE {u \in {y} : B}
       BY <1>2, <1>3, <1>4, <1>8, <1>10 DEF Promised
<1>12. Skips(tr, d) <=> (Weekday(d) \notin tr.days \/ ~B)
  <2>1. tr.notAfter # None => y \in Int /\ hi \in Int BY <1>6, <1>9
  <2> QED BY <1>4, <1>7, <1>10, <2>1 DEF Skips
<1> QED BY <1>7, <1>9, <1>11, <1>12

(* On a candidate of that day, that is what the code computes. *)
LEMMA AstroCandidate ==
    ASSUME season \in Seasons, NEW tr, IsTrigger(tr), tr.kind = "astro", StaysOnDay(tr),
           NEW t \in Int, season.firsts[1] <= LocalDay(t), NEW n \in 0..13, NEW d \in Int,
           d = LocalDay(t) + n, d = DayOf(t, n)
    PROVE  Occurrence(tr, Cand(t, n)) = IF Skips(tr, d) THEN None ELSE Moment(tr, d)
<1>1. /\ tr.event \in Events /\ tr.offset \in -12..12
      /\ tr.notBefore = None \/ (IsGuard(tr.notBefore) /\ BoundOnDay(tr.notBefore))
      /\ tr.notAfter = None \/ (IsGuard(tr.notAfter) /\ BoundOnDay(tr.notAfter))
      BY DEF IsTrigger, StaysOnDay
<1>2. PICK c : c = Cand(t, n) OBVIOUS
<1>3. PICK x : x = 24 * d + Sun[tr.event] + tr.offset OBVIOUS
<1>4. PICK y : y = Moment(tr, d) OBVIOUS
<1>5. SunEvent(c, tr.event) + tr.offset = x BY <1>1, <1>2, <1>3, SunFacts
<1>6. tr.notBefore # None => ResolveGuard(tr.notBefore, c) = GuardTime(tr.notBefore, d)
      BY <1>1, <1>2, BoundFacts
<1>7. tr.notAfter # None => ResolveGuard(tr.notAfter, c) = GuardTime(tr.notAfter, d)
      BY <1>1, <1>2, BoundFacts
<1>8. Raised(tr, x, c) = y BY <1>3, <1>4, <1>6 DEF Raised, Moment
<1>9. AllowedOnWeekday(tr.days, c) <=> Weekday(d) \in tr.days
      BY <1>2 DEF AllowedOnWeekday, DayOf
<1>10. Skips(tr, d) <=> ~AllowedOnWeekday(tr.days, c) \/ TooLate(tr, y, c)
       BY <1>4, <1>7, <1>9 DEF Skips, TooLate
<1>11. Occurrence(tr, c) = IF ~AllowedOnWeekday(tr.days, c) THEN None
                           ELSE IF TooLate(tr, y, c) THEN None ELSE y
       BY <1>5, <1>8 DEF Occurrence
<1> QED BY <1>2, <1>4, <1>10, <1>11

-----------------------------------------------------------------------------
(* Triggers by the sun: the walk; the invariant and the theorems. *)

(* An astro trigger whose clocks do not go back first is armed for the first moment
   promised. *)
LEMMA AstroNext ==
    ASSUME season \in Seasons, from \in Int, season.start <= from, trigger \in Triggers,
           trigger.kind = "astro", StaysOnDay(trigger), ~ClockGoesBack
    PROVE  NextFireTime(trigger, from) = NextPromised(trigger, from)
<1>1. PICK l \in Int : /\ l = LocalDay(from) /\ season.firsts[1] <= l
                       /\ 24 * l - 2 <= from /\ from <= 24 * l + 22
      BY SeasonFacts
<1>2. IsTrigger(trigger) /\ None \notin Int BY CalendarAssumption
<1>3. \A d \in Int : \A u \in Promised(trigger, d) :
          u \in Int /\ 24 * d <= u /\ u <= 24 * d + 21 /\ Promised(trigger, d) = {u}
  <2> SUFFICES ASSUME NEW d \in Int, NEW u \in Promised(trigger, d)
               PROVE  u \in Int /\ 24 * d <= u /\ u <= 24 * d + 21 /\ Promised(trigger, d) = {u}
      OBVIOUS
  <2>1. PICK m \in 24 * d .. 24 * d + 21 : m = Moment(trigger, d) BY <1>2, AstroDay
  <2>2. Promised(trigger, d) = IF Skips(trigger, d) THEN {} ELSE {m} BY <1>2, <2>1, AstroDay
  <2>3. u = m /\ Promised(trigger, d) = {m} BY <2>2
  <2> QED BY <2>1, <2>3
<1>4. \A n \in 0..13 : DayOf(from, n) = l + n =>
          Promised(trigger, l + n) = IF Occurrence(trigger, Cand(from, n)) = None THEN {}
                                     ELSE {Occurrence(trigger, Cand(from, n))}
  <2> SUFFICES ASSUME NEW n \in 0..13, DayOf(from, n) = l + n
               PROVE  Promised(trigger, l + n) = IF Occurrence(trigger, Cand(from, n)) = None
                        THEN {} ELSE {Occurrence(trigger, Cand(from, n))}
      OBVIOUS
  <2>1. PICK d \in Int : d = l + n OBVIOUS
  <2>2. PICK t \in Int : t = from OBVIOUS
  <2>3. PICK tr : tr = trigger OBVIOUS
  <2>4. IsTrigger(tr) /\ tr.kind = "astro" /\ StaysOnDay(tr) BY <1>2, <2>3
  <2>5. season.firsts[1] <= LocalDay(t) /\ d = LocalDay(t) + n /\ d = DayOf(t, n)
        BY <1>1, <2>1, <2>2
  <2>6. Occurrence(tr, Cand(t, n)) = IF Skips(tr, d) THEN None ELSE Moment(tr, d)
        BY <2>4, <2>5, AstroCandidate
  <2>7. Moment(tr, d) # None
    <3>1. Moment(tr, d) \in 24 * d .. 24 * d + 21 BY <2>4, AstroDay
    <3> QED BY <1>2, <3>1
  <2>8. Promised(tr, d) = IF Skips(tr, d) THEN {} ELSE {Moment(tr, d)} BY <2>4, AstroDay
  <2>9. Promised(tr, d) = IF Occurrence(tr, Cand(t, n)) = None THEN {}
                          ELSE {Occurrence(tr, Cand(t, n))}
        BY <2>6, <2>7, <2>8
  <2> QED BY <2>1, <2>2, <2>3, <2>9
<1>5. PICK G : G = {n \in 0..13 : \E u \in Promised(trigger, l + n) : u > from} OBVIOUS
<1>6. \A n \in 0..13 : DayOf(from, n) = l + n => (Good(trigger, from, n) <=> n \in G)
  <2> SUFFICES ASSUME NEW n \in 0..13, DayOf(from, n) = l + n
               PROVE  Good(trigger, from, n) <=> n \in G
      OBVIOUS
  <2>1. PICK x : x = Occurrence(trigger, Cand(from, n)) OBVIOUS
  <2>2. Good(trigger, from, n) <=> x # None /\ x > from BY <2>1 DEF Good, IsLater
  <2>3. Promised(trigger, l + n) = IF x = None THEN {} ELSE {x} BY <1>4, <2>1
  <2>4. n \in G <=> \E u \in Promised(trigger, l + n) : u > from BY <1>5
  <2>5. CASE x = None BY <2>2, <2>3, <2>4, <2>5
  <2>6. CASE x # None
    <3>1. Promised(trigger, l + n) = {x} BY <2>3, <2>6
    <3> QED BY <2>2, <2>4, <2>6, <3>1
  <2> QED BY <2>5, <2>6
<1>7. \A e \in Around14(from) : \A u \in Promised(trigger, e) : u > from => e - l \in G
  <2> SUFFICES ASSUME NEW e \in Around14(from), NEW u \in Promised(trigger, e), u > from
               PROVE  e - l \in G
      OBVIOUS
  <2>1. e \in Int /\ l - 1 <= e /\ e <= l + 13 BY <1>1 DEF Around14
  <2>2. u \in Int /\ u <= 24 * e + 21 BY <1>3, <2>1
  <2>3. l <= e BY <1>1, <2>1, <2>2
  <2>4. PICK n \in 0..13 : n = e - l BY <2>1, <2>3
  <2>5. l + n = e BY <2>1, <2>4
  <2>6. n \in G BY <1>5, <2>5
  <2> QED BY <2>4, <2>6
<1>8. PICK o \in [Int -> {1, 2}] : \A n \in Int : o[n] = Offset(24 * (l + n))
  <2>1. \A n \in Int : Offset(24 * (l + n)) \in {1, 2}
    <3> SUFFICES ASSUME NEW n \in Int PROVE Offset(24 * (l + n)) \in {1, 2}
        OBVIOUS
    <3>1. 24 * (l + n) \in Int OBVIOUS
    <3> QED BY <3>1, OffsetFacts
  <2>2. [n \in Int |-> Offset(24 * (l + n))] \in [Int -> {1, 2}] BY <2>1
  <2> QED BY <2>2
<1>9. ASSUME NEW n \in 0..13
      PROVE  /\ Offset(Cand(from, n)) = o[n]
             /\ ~(o[n] < o[0]) => DayOf(from, n) = l + n
  <2>1. Offset(Cand(from, n)) = Offset(24 * (l + n)) BY <1>1, CandFacts
  <2>2. 24 * (l + 0) = 24 * l /\ 0 \in Int /\ n \in Int OBVIOUS
  <2>3. o[0] = Offset(24 * l) BY <1>8, <2>2
  <2>4. DayOf(from, n) = IF Offset(24 * (l + n)) < Offset(24 * l) THEN l + n - 1 ELSE l + n
        BY <1>1, CandFacts DEF DayOf
  <2> QED BY <1>8, <2>1, <2>2, <2>3, <2>4
<1>10. Offset(StartOfLocalDay(from)) = o[0]
  <2>1. 0 \in 0..13 OBVIOUS
  <2>2. StartOfLocalDay(from) \in Int
    <3>1. 0 \in 0..23 OBVIOUS
    <3> QED BY <1>1, <3>1, FromLocalFacts DEF StartOfLocalDay
  <2>3. Cand(from, 0) = StartOfLocalDay(from)
    <3>1. PICK m \in Int : m = StartOfLocalDay(from) BY <2>2
    <3>2. m + 24 * 0 = m OBVIOUS
    <3> QED BY <3>1, <3>2 DEF Cand, AddDays
  <2> QED BY <1>9, <2>1, <2>3
<1>11. ASSUME NEW n \in 0..13, NEW q \in Int, 24 * (l + n) <= q, ~(Offset(q) < o[0])
       PROVE  ~(o[n] < o[0])
  <2>1. PICK x \in Int : x = 24 * (l + 0) OBVIOUS
  <2>2. PICK y \in Int : y = 24 * (l + n) OBVIOUS
  <2>3. o[0] = Offset(x) /\ o[n] = Offset(y) BY <1>8, <2>1, <2>2
  <2>4. Offset(q) \in {1, 2} /\ Offset(x) \in {1, 2} /\ Offset(y) \in {1, 2} BY OffsetFacts
  <2>5. x <= y /\ y <= q BY <1>11, <2>1, <2>2
  <2>6. Offset(x) = 2 /\ Offset(q) = 2 => Offset(y) = 2 BY <2>5, OffsetFacts
  <2> QED BY <1>11, <2>3, <2>4, <2>6
<1>12. PICK until : until = IF NextPromised(trigger, from) = None
                            THEN AddDays(StartOfLocalDay(from), 13) ELSE NextPromised(trigger, from)
       OBVIOUS
<1>13. ~(o[0] > Offset(until)) BY <1>10, <1>12 DEF ClockGoesBack
<1>14. CASE G = {}
  <2>1. \A e \in Around14(from) : \A u \in Promised(trigger, e) : ~(u > from) BY <1>7, <1>14
  <2>2. NextPromised(trigger, from) = None BY <2>1, PromisedNone DEF Around14
  <2>3. until = Cand(from, 13) BY <1>12, <2>2 DEF Cand
  <2>4. 13 \in 0..13 OBVIOUS
  <2>5. ~(o[13] < o[0])
    <3>1. Offset(until) = o[13] BY <1>9, <2>3, <2>4
    <3>2. o[0] \in {1, 2} /\ o[13] \in {1, 2} BY <1>8
    <3> QED BY <1>13, <3>1, <3>2
  <2>6. ASSUME NEW n \in 0..13 PROVE ~Good(trigger, from, n)
    <3>1. PICK q \in Int : q = 24 * (l + 13) OBVIOUS
    <3>2. 24 * (l + n) <= q /\ Offset(q) = o[13] BY <1>8, <3>1
    <3>3. ~(o[n] < o[0]) BY <1>11, <2>5, <3>2
    <3>4. DayOf(from, n) = l + n BY <1>9, <3>3
    <3> QED BY <1>6, <1>14, <3>4
  <2> QED BY <2>2, <2>6, NextIsNone
<1>15. CASE G # {}
  <2>1. PICK k \in G : \A j \in G : k <= j
    <3>1. G \in SUBSET Nat BY <1>5
    <3> QED BY <1>15, <3>1, LeastOf
  <2>2. k \in 0..13 BY <1>5
  <2>3. PICK d \in Int : d = l + k BY <2>2
  <2>4. PICK p \in Promised(trigger, d) : p > from BY <1>5, <2>3
  <2>5. p \in Int /\ 24 * d <= p /\ p <= 24 * d + 21 /\ Promised(trigger, d) = {p}
        BY <1>3
  <2>6. ASSUME NEW e \in Around14(from), NEW u \in Promised(trigger, e)
        PROVE  u \in Int /\ (u > from => p <= u)
    <3>1. e \in Int BY <1>1 DEF Around14
    <3>2. u \in Int /\ 24 * e <= u BY <1>3, <3>1
    <3>3. ASSUME u > from PROVE p <= u
      <4>1. e - l \in G BY <1>7, <3>3
      <4>2. k <= e - l BY <2>1, <4>1
      <4>3. d <= e BY <2>2, <2>3, <3>1, <4>2
      <4>4. CASE d = e BY <2>5, <3>2, <4>4
      <4>5. CASE d < e BY <2>5, <3>1, <3>2, <4>5
      <4> QED BY <3>1, <4>3, <4>4, <4>5
    <3> QED BY <3>2, <3>3
  <2>7. d \in Around14(from) BY <1>1, <2>2, <2>3 DEF Around14
  <2>8. NextPromised(trigger, from) = p
        BY <2>4, <2>5, <2>6, <2>7, PromisedIs DEF Around14
  <2>9. ~(Offset(p) < o[0])
    <3>1. until = p BY <1>2, <1>12, <2>5, <2>8
    <3>2. Offset(p) \in {1, 2} /\ o[0] \in {1, 2} BY <1>8, <2>5, OffsetFacts
    <3> QED BY <1>13, <3>1, <3>2
  <2>10. \A n \in 0..13 : n <= k => DayOf(from, n) = l + n
    <3> SUFFICES ASSUME NEW n \in 0..13, n <= k PROVE DayOf(from, n) = l + n
        OBVIOUS
    <3>1. 24 * (l + n) <= p BY <2>2, <2>3, <2>5
    <3> QED BY <1>9, <1>11, <2>5, <2>9, <3>1
  <2>11. Good(trigger, from, k) BY <1>6, <2>2, <2>10
  <2>12. \A j \in 0..13 : Good(trigger, from, j) => k <= j
    <3> SUFFICES ASSUME NEW j \in 0..13, Good(trigger, from, j), ~(k <= j) PROVE FALSE
        OBVIOUS
    <3>1. j <= k BY <2>2
    <3>2. j \in G BY <1>6, <2>10, <3>1
    <3> QED BY <2>1, <3>2
  <2>13. NextFireTime(trigger, from) = Occurrence(trigger, Cand(from, k))
         BY <1>1, <2>2, <2>11, <2>12, NextIs
  <2>14. p = Occurrence(trigger, Cand(from, k))
    <3>1. DayOf(from, k) = l + k BY <2>2, <2>10
    <3> QED BY <1>4, <2>2, <2>3, <2>5, <3>1
  <2> QED BY <2>8, <2>13, <2>14
<1> QED BY <1>14, <1>15

(* A step stays in its season, and what is computed there is the same. *)
LEMMA SameSeason ==
    ASSUME season' = season, NEW CONSTANT tr, NEW CONSTANT t
    PROVE  NextFireTime(tr, t)' = NextFireTime(tr, t)
<1>1. ASSUME NEW CONSTANT d, NEW CONSTANT h PROVE FromLocal(d, h)' = FromLocal(d, h)
  BY DEF FromLocal, Stamp, Month, LocalDay, LocalHour, Offset
<1>2. ASSUME NEW CONSTANT u PROVE StartOfLocalDay(u)' = StartOfLocalDay(u)
  BY DEF StartOfLocalDay, FromLocal, Stamp, Month, LocalDay, LocalHour, Offset
<1>3. ASSUME NEW CONSTANT u, NEW CONSTANT h PROVE AtLocalTime(u, h)' = AtLocalTime(u, h)
  BY DEF AtLocalTime, FromLocal, Stamp, Month, LocalDay, LocalHour, Offset
<1>4. ASSUME NEW CONSTANT g, NEW CONSTANT c PROVE ResolveGuard(g, c)' = ResolveGuard(g, c)
  BY <1>3 DEF ResolveGuard, SunEvent
<1>5. ASSUME NEW CONSTANT ds, NEW CONSTANT c PROVE AllowedOnWeekday(ds, c)' = AllowedOnWeekday(ds, c)
  BY DEF AllowedOnWeekday, Weekday, LocalDay, Offset
<1>6. ASSUME NEW CONSTANT x, NEW CONSTANT c PROVE Raised(tr, x, c)' = Raised(tr, x, c)
  BY <1>4 DEF Raised
<1>7. ASSUME NEW CONSTANT x, NEW CONSTANT c PROVE TooLate(tr, x, c)' = TooLate(tr, x, c)
  BY <1>4 DEF TooLate
<1>8. ASSUME NEW CONSTANT c PROVE Occurrence(tr, c)' = Occurrence(tr, c)
  <2>1. PICK x : x = SunEvent(c, tr.event) + tr.offset OBVIOUS
  <2>2. PICK y : y = Raised(tr, x, c) OBVIOUS
  <2>3. Raised(tr, x, c)' = y /\ TooLate(tr, y, c)' = TooLate(tr, y, c) BY <1>6, <1>7, <2>2
  <2> QED BY <1>3, <1>5, <2>1, <2>2, <2>3 DEF Occurrence
<1> QED BY <1>2, <1>8 DEF NextFireTime, AddDays, IsLater

(* What is armed is what nextFireTime gave at the moment of arming. *)
Inv ==
    /\ season \in Seasons /\ trigger \in Triggers
    /\ from \in season.start..season.end
    /\ armed = NextFireTime(trigger, from)

LEMMA InvFacts ==
    ASSUME Inv
    PROVE  /\ season.start \in Int /\ season.end \in Int /\ from \in Int
           /\ season.start <= from /\ IsTrigger(trigger)
           /\ armed = None \/ armed \in (from + 1)..(from + 15 * 24)
<1>1. season.start \in Int /\ season.end \in Int BY CalendarAssumption DEF Inv, IsSeason
<1>2. from \in Int /\ season.start <= from BY <1>1 DEF Inv
<1>3. IsTrigger(trigger) BY CalendarAssumption DEF Inv
<1> QED BY <1>1, <1>2, <1>3, NextFacts DEF Inv

LEMMA InvInductive ==
    /\ Init => Inv
    /\ Inv /\ [Next]_vars => Inv'
<1>1. Init => Inv
  <2> SUFFICES ASSUME Init PROVE Inv
      OBVIOUS
  <2>1. season.start \in Int /\ season.end \in Int /\ season.start <= season.end
        BY CalendarAssumption DEF Init, IsSeason
  <2> QED BY <2>1 DEF Init, Inv
<1>2. ASSUME Inv, [Next]_vars PROVE Inv'
  <2>1. ASSUME NEW t \in Int, from <= t, Arm(t) PROVE Inv'
    <3>1. season' = season /\ trigger' = trigger /\ from' = t /\ t <= season.end BY <2>1 DEF Arm
    <3>2. PICK tr : tr = trigger OBVIOUS
    <3>3. armed' = NextFireTime(tr, t) BY <2>1, <3>2 DEF Arm
    <3>4. NextFireTime(tr, t)' = NextFireTime(tr, t) BY <3>1, SameSeason
    <3>5. armed' = NextFireTime(trigger, from)' BY <3>1, <3>2, <3>3, <3>4
    <3>6. t \in season.start..season.end BY <1>2, <2>1, <3>1, InvFacts
    <3> QED BY <1>2, <3>1, <3>5, <3>6 DEF Inv
  <2>2. CASE Fire
    <3>1. armed # None /\ Arm(armed) BY <2>2 DEF Fire
    <3>2. armed \in Int /\ from <= armed BY <1>2, <3>1, InvFacts
    <3> QED BY <2>1, <3>1, <3>2
  <2>3. CASE Reschedule
    <3>1. Arm(from + 1) /\ from + 1 \in Int /\ from <= from + 1 BY <1>2, <2>3, InvFacts DEF Reschedule
    <3> QED BY <2>1, <3>1
  <2>4. CASE UNCHANGED vars
    <3>1. season' = season /\ trigger' = trigger /\ from' = from /\ armed' = armed
          BY <2>4 DEF vars
    <3>2. PICK tr : tr = trigger OBVIOUS
    <3>3. PICK t : t = from OBVIOUS
    <3>4. armed = NextFireTime(tr, t) BY <1>2, <3>2, <3>3 DEF Inv
    <3>5. NextFireTime(tr, t)' = NextFireTime(tr, t) BY <3>1, SameSeason
    <3>6. armed' = NextFireTime(trigger, from)' BY <3>1, <3>2, <3>3, <3>4, <3>5
    <3> QED BY <1>2, <3>1, <3>6 DEF Inv
  <2> QED BY <1>2, <2>2, <2>3, <2>4 DEF Next
<1> QED BY <1>1, <1>2

(* The types; a timeout is armed for later, at most 15 days away (nextFireTime). *)
THEOREM CalendarTyped == Spec => []TypeOK
<1>1. Inv => TypeOK
  <2> SUFFICES ASSUME Inv PROVE TypeOK
      OBVIOUS
  <2> QED BY InvFacts DEF Inv, TypeOK
<1> QED BY <1>1, InvInductive, PTL DEF Spec

(* For any stretch of the calendar, zone of an hour with summer time and trigger: what
   is armed is the very next promised occurrence, from whatever moment it is armed
   (nextFireTime, fromLocal, resolveGuard). *)
THEOREM AlwaysOnSchedule == Spec => []OnSchedule
<1>1. Inv => OnSchedule
  <2> SUFFICES ASSUME Inv PROVE OnSchedule
      OBVIOUS
  <2>1. armed = NextFireTime(trigger, from) /\ season \in Seasons /\ trigger \in Triggers
        BY DEF Inv
  <2>2. from \in Int /\ season.start <= from BY InvFacts
  <2>3. TimeOnSchedule BY <2>1, <2>2, TimeNext DEF TimeOnSchedule
  <2>4. AstroOnSchedule BY <2>1, <2>2, AstroNext DEF AstroOnSchedule
  <2> QED BY <2>3, <2>4 DEF OnSchedule
<1> QED BY <1>1, InvInductive, PTL DEF Spec

-----------------------------------------------------------------------------
(* One occurrence a day. *)

(* What fromLocal gives is an hour of the local day that it lies on, by the clock of the
   hour read as UTC, even when that is not the day it was asked for. *)
LEMMA ReadOnItsDay ==
    ASSUME season \in Seasons, NEW d \in Int, season.firsts[1] <= d, NEW h \in 0..23
    PROVE  LET e == LocalDay(FromLocal(d, h))
           IN  e \in Int /\ FromLocal(d, h) = 24 * e + h - Offset(24 * e + h)
<1>1. ASSUME NEW e \in Int PROVE LocalDay(24 * e + h - Offset(24 * e + h)) = e
  <2>1. PICK g \in Int : g = 24 * e + h OBVIOUS
  <2>2. PICK o \in {1, 2} : o = Offset(g) BY OffsetFacts
  <2>3. PICK u \in Int : u = g - o BY <2>1
  <2>4. PICK p \in {1, 2} : p = Offset(u) BY OffsetFacts
  <2>5. h = 0 => p = o
    <3> SUFFICES ASSUME h = 0 PROVE p = o
        OBVIOUS
    <3>1. PICK k \in Int : k = e - 1 OBVIOUS
    <3>2. 24 * k < u /\ u <= 24 * k + 24 /\ 24 * k < g /\ g <= 24 * k + 24
          BY <2>1, <2>2, <2>3, <3>1
    <3>3. Offset(u) = Offset(24 * k + 24) /\ Offset(g) = Offset(24 * k + 24)
          BY <2>1, <2>3, <3>1, <3>2, OffsetFacts
    <3> QED BY <2>2, <2>4, <3>3
  <2>6. h = 23 => p = o
    <3> SUFFICES ASSUME h = 23 PROVE p = o
        OBVIOUS
    <3>1. 24 * e < u /\ u <= 24 * e + 24 /\ 24 * e < g /\ g <= 24 * e + 24
          BY <2>1, <2>2, <2>3
    <3>2. Offset(u) = Offset(24 * e + 24) /\ Offset(g) = Offset(24 * e + 24)
          BY <2>1, <2>3, <3>1, OffsetFacts
    <3> QED BY <2>2, <2>4, <3>2
  <2>7. PICK j \in 0..23 : j = h + p - o BY <2>5, <2>6
  <2>8. u + Offset(u) = 24 * e + j BY <2>1, <2>3, <2>4, <2>7
  <2>9. LocalDay(u) = e BY <2>3, <2>7, <2>8, LocalFacts
  <2> QED BY <2>1, <2>2, <2>3, <2>9
<1>2. \E e \in Int : FromLocal(d, h) = 24 * e + h - Offset(24 * e + h)
  <2>1. PICK g \in Int : g = 24 * d + h OBVIOUS
  <2>2. PICK o \in {1, 2} : o = Offset(g) BY OffsetFacts
  <2>3. PICK e \in Int, j \in 0..23 : e = LocalDay(g) /\ j = LocalHour(g) /\ g + o = 24 * e + j
        BY <2>1, <2>2, LocalFacts
  <2>4. PICK s \in Int, c \in 0..3 :
            /\ s = Stamp(d) /\ Stamp(d + 1) = s + 1 + c
            /\ c > 0 => Offset(24 * (d - c) + h) = Offset(24 * d + h)
        BY StampFacts
  <2>5. FromLocal(d, h) = g + 24 * (s - Stamp(e)) + h - j
        BY <2>1, <2>3, <2>4 DEF FromLocal
  <2>6. e = d \/ e = d + 1 BY <2>1, <2>2, <2>3
  <2>7. CASE e = d
    <3>1. Stamp(e) = s BY <2>4, <2>7
    <3>2. FromLocal(d, h) = 24 * d + h - o BY <2>1, <2>3, <2>5, <2>7, <3>1
    <3> QED BY <2>1, <2>2, <3>2
  <2>8. CASE e = d + 1
    <3>1. Stamp(e) = s + 1 + c BY <2>4, <2>8
    <3>2. FromLocal(d, h) = 24 * (d - c) + h - o BY <2>1, <2>2, <2>3, <2>4, <2>5, <2>8, <3>1
    <3>3. PICK w \in Int : w = d - c BY <2>4
    <3>4. Offset(24 * w + h) = o
      <4>1. CASE c = 0
        <5>1. 24 * w + h = g BY <2>1, <3>3, <4>1
        <5> QED BY <2>2, <5>1
      <4>2. CASE c > 0 BY <2>1, <2>2, <2>4, <3>3, <4>2
      <4> QED BY <2>4, <4>1, <4>2
    <3> QED BY <3>2, <3>3, <3>4
  <2> QED BY <2>6, <2>7, <2>8
<1> QED BY <1>1, <1>2

(* Later is on the same day or a later one. *)
LEMMA DaysGoOn ==
    ASSUME season \in Seasons, NEW a \in Int, NEW b \in Int, a < b
    PROVE  LocalDay(a) <= LocalDay(b)
<1>1. PICK o \in {1, 2} : o = Offset(a) BY OffsetFacts
<1>2. PICK p \in {1, 2} : p = Offset(b) BY OffsetFacts
<1>3. PICK d \in Int, j \in 0..23 : d = LocalDay(a) /\ a + o = 24 * d + j BY <1>1, LocalFacts
<1>4. PICK e \in Int, k \in 0..23 : e = LocalDay(b) /\ b + p = 24 * e + k BY <1>2, LocalFacts
<1>5. a + o <= b + p BY <1>1, <1>2
<1>6. d <= e BY <1>3, <1>4, <1>5
<1> QED BY <1>3, <1>4, <1>6

(* What is armed is the occurrence on a candidate. *)
LEMMA NextTaken ==
    ASSUME season \in Seasons, NEW t \in Int, season.start <= t, NEW tr, IsTrigger(tr),
           NextFireTime(tr, t) # None
    PROVE  /\ NextFireTime(tr, t) \in Int /\ t < NextFireTime(tr, t)
           /\ \E n \in 0..13 : NextFireTime(tr, t) = Occurrence(tr, Cand(t, n))
<1>1. NextFireTime(tr, t) \in (t + 1)..(t + 15 * 24) BY NextFacts
<1>2. ~\A j \in 0..13 : ~Good(tr, t, j) BY NextIsNone
<1>3. PICK n \in 0..13 : Good(tr, t, n) BY <1>2
<1>4. PICK k \in 0..13 : Good(tr, t, k) /\ \A j \in 0..13 : Good(tr, t, j) => k <= j
      BY <1>3, FirstGood
<1>5. season.firsts[1] <= LocalDay(t) BY SeasonFacts
<1>6. NextFireTime(tr, t) = Occurrence(tr, Cand(t, k)) BY <1>4, <1>5, NextIs
<1> QED BY <1>1, <1>6

(* By the clock: two occurrences on one day are the same. *)
LEMMA OneTimeADay ==
    ASSUME season \in Seasons, NEW tr, IsTrigger(tr), tr.kind = "time",
           NEW t \in Int, season.firsts[1] <= LocalDay(t), NEW n \in 0..13,
           Occurrence(tr, Cand(t, n)) # None
    PROVE  LET x == Occurrence(tr, Cand(t, n))
               e == LocalDay(x)
           IN  x = 24 * e + tr.hour - Offset(24 * e + tr.hour)
<1>0. PICK c : c = Cand(t, n) OBVIOUS
<1>1. PICK h \in 0..23 : h = tr.hour BY DEF IsTrigger
<1>2. PICK d \in Int : d = LocalDay(c) /\ season.firsts[1] <= d
  <2>1. PICK l \in Int : l = LocalDay(t) BY LocalFacts
  <2>2. DayOf(t, n) \in Int /\ l <= DayOf(t, n) BY <2>1, Walk
  <2>3. season.firsts[1] \in Int BY CalendarAssumption DEF IsSeason
  <2>4. season.firsts[1] <= DayOf(t, n) BY <2>1, <2>2, <2>3
  <2> QED BY <1>0, <2>2, <2>4 DEF DayOf
<1>3. Occurrence(tr, c) = FromLocal(d, h)
      BY <1>0, <1>1, <1>2 DEF Occurrence, AtLocalTime
<1>4. FromLocal(d, h) = 24 * LocalDay(FromLocal(d, h)) + h - Offset(24 * LocalDay(FromLocal(d, h)) + h)
      BY <1>2, ReadOnItsDay
<1> QED BY <1>0, <1>1, <1>3, <1>4

(* By the sun: on a later candidate the occurrence is on a later day. *)
LEMMA AstroOccurs ==
    ASSUME season \in Seasons, NEW tr, IsTrigger(tr), tr.kind = "astro", StaysOnDay(tr),
           NEW t \in Int, season.firsts[1] <= LocalDay(t), NEW n \in 0..13,
           Occurrence(tr, Cand(t, n)) # None
    PROVE  /\ Occurrence(tr, Cand(t, n)) \in Int
           /\ 24 * (LocalDay(t) + n) <= Occurrence(tr, Cand(t, n))
           /\ tr.notBefore = None \/ tr.notBefore.kind # "time" =>
                 Occurrence(tr, Cand(t, n)) = Moment(tr, LocalDay(t) + n)
<1>1. /\ tr.event \in Events /\ tr.offset \in -12..12
      /\ tr.notBefore = None \/ (IsGuard(tr.notBefore) /\ BoundOnDay(tr.notBefore))
      BY DEF IsTrigger, StaysOnDay
<1>2. PICK c : c = Cand(t, n) OBVIOUS
<1>3. PICK d \in Int : d = LocalDay(t) + n
  <2>1. PICK l \in Int : l = LocalDay(t) BY LocalFacts
  <2> QED BY <2>1
<1>4. PICK x \in Int : x = 24 * d + Sun[tr.event] + tr.offset /\ 24 * d <= x
  <2>1. PICK s \in Int : s = Sun[tr.event] BY <1>1, CalendarAssumption
  <2>2. PICK v \in Int : v = tr.offset BY <1>1
  <2>3. s + v \in 0..21 BY <2>1, <2>2 DEF StaysOnDay, OnDay
  <2> QED BY <2>1, <2>2, <2>3
<1>5. SunEvent(c, tr.event) + tr.offset = x BY <1>1, <1>2, <1>3, <1>4, SunFacts
<1>6. Occurrence(tr, c) = Raised(tr, x, c)
      BY <1>2, <1>5 DEF Occurrence
<1>7. CASE tr.notBefore = None
  <2>1. Raised(tr, x, c) = x /\ Moment(tr, d) = x BY <1>4, <1>7 DEF Raised, Moment
  <2> QED BY <1>2, <1>3, <1>4, <1>6, <2>1
<1>8. CASE tr.notBefore # None
  <2>1. PICK g : g = tr.notBefore OBVIOUS
  <2>2. IsGuard(g) BY <1>1, <1>8, <2>1
  <2>3. PICK y \in Int : y = ResolveGuard(g, c) BY <1>2, <2>2, GuardFacts
  <2>4. Raised(tr, x, c) = Max({x, y}) BY <1>8, <2>1, <2>3 DEF Raised
  <2>5. Max({x, y}) = IF x >= y THEN x ELSE y BY MaxTwo
  <2>6. PICK z \in Int : z = Max({x, y}) /\ 24 * d <= z BY <1>4, <2>5
  <2>7. ASSUME g.kind # "time" PROVE Moment(tr, d) = z
    <3>1. g.kind = "astro" /\ g.event \in Events BY <2>2, <2>7 DEF IsGuard
    <3>2. ResolveGuard(g, c) = SunEvent(c, g.event) + g.offset BY <3>1 DEF ResolveGuard
    <3>3. SunEvent(c, g.event) = 24 * d + Sun[g.event] BY <1>2, <1>3, <3>1, SunFacts
    <3>4. GuardTime(g, d) = 24 * d + Sun[g.event] + g.offset BY <3>1 DEF GuardTime
    <3>5. GuardTime(g, d) = y BY <2>3, <3>2, <3>3, <3>4
    <3> QED BY <1>4, <1>8, <2>1, <2>6, <3>5 DEF Moment
  <2> QED BY <1>2, <1>3, <1>6, <1>8, <2>1, <2>4, <2>6, <2>7
<1> QED BY <1>7, <1>8

(* By the sun: what is armed is the moment of the day it lies on, ... *)
LEMMA AstroOnItsDay ==
    ASSUME season \in Seasons, from \in Int, season.start <= from, trigger \in Triggers,
           trigger.kind = "astro", StaysOnDay(trigger), ~DraggedBack,
           NextFireTime(trigger, from) # None
    PROVE  NextFireTime(trigger, from) = Moment(trigger, LocalDay(NextFireTime(trigger, from)))
<1>1. PICK a : a = NextFireTime(trigger, from) OBVIOUS
<1>2. IsTrigger(trigger) BY CalendarAssumption
<1>3. \E d \in Int : a = Moment(trigger, d)
  <2>1. CASE trigger.notBefore = None \/ trigger.notBefore.kind # "time"
    <3>1. PICK n \in 0..13 : a = Occurrence(trigger, Cand(from, n)) BY <1>1, <1>2, NextTaken
    <3>2. season.firsts[1] <= LocalDay(from) /\ LocalDay(from) \in Int BY SeasonFacts
    <3>3. a = Moment(trigger, LocalDay(from) + n) BY <1>1, <1>2, <2>1, <3>1, <3>2, AstroOccurs
    <3>4. LocalDay(from) + n \in Int BY <3>2
    <3> QED BY <3>3, <3>4
  <2>2. CASE ~ClockGoesBack
    <3>1. a = NextPromised(trigger, from) /\ a # None BY <1>1, <2>2, AstroNext
    <3>2. PICK t \in Int, l \in Int : t = from /\ l = LocalDay(t) BY LocalFacts
    <3>3. ASSUME NEW d \in Int, NEW u \in Promised(trigger, d)
          PROVE  u \in Int /\ u = Moment(trigger, d)
      <4>1. PICK m \in 24 * d .. 24 * d + 21 : m = Moment(trigger, d) BY <1>2, AstroDay
      <4>2. Promised(trigger, d) = IF Skips(trigger, d) THEN {} ELSE {m} BY <1>2, <4>1, AstroDay
      <4> QED BY <4>1, <4>2
    <3>4. \A d \in (LocalDay(t) - 1)..(LocalDay(t) + 13) : \A u \in Promised(trigger, d) : u \in Int
          BY <3>2, <3>3
    <3>5. PICK d \in (LocalDay(t) - 1)..(LocalDay(t) + 13) : a \in Promised(trigger, d)
          BY <3>1, <3>2, <3>4, PromisedThere
    <3>6. d \in Int BY <3>2
    <3> QED BY <3>3, <3>5, <3>6
  <2> QED BY <2>1, <2>2 DEF DraggedBack
<1>4. PICK d \in Int : a = Moment(trigger, d) BY <1>3
<1>5. a \in 24 * d .. 24 * d + 21 BY <1>2, <1>4, AstroDay
<1>6. LocalDay(a) = d
  <2>1. PICK j \in 0..21 : a = 24 * d + j BY <1>5
  <2>2. PICK o \in {1, 2} : o = Offset(a) BY <2>1, OffsetFacts
  <2>3. PICK k \in 0..23 : k = j + o BY <2>1, <2>2
  <2>4. a \in Int /\ a + Offset(a) = 24 * d + k BY <2>1, <2>2, <2>3
  <2> QED BY <2>4, LocalFacts
<1> QED BY <1>1, <1>4, <1>6

(* ... and what is armed then is on another day. *)
LEMMA AstroNextDay ==
    ASSUME season \in Seasons, NEW a \in Int, season.start <= a, NEW tr, IsTrigger(tr),
           tr.kind = "astro", StaysOnDay(tr), a = Moment(tr, LocalDay(a)),
           NextFireTime(tr, a) # None
    PROVE  LocalDay(NextFireTime(tr, a)) > LocalDay(a)
<1>1. PICK b \in Int : b = NextFireTime(tr, a) /\ a < b BY NextTaken
<1>2. PICK n \in 0..13 : b = Occurrence(tr, Cand(a, n)) BY <1>1, NextTaken
<1>3. PICK l \in Int : l = LocalDay(a) /\ season.firsts[1] <= l BY SeasonFacts
<1>4. b # None BY <1>1
<1>5. n # 0
  <2> SUFFICES ASSUME n = 0 PROVE FALSE
      OBVIOUS
  <2>1. LocalDay(Cand(a, n)) = l
    <3>1. Offset(24 * (l + n)) = Offset(24 * l)
      <4>1. 24 * (l + n) = 24 * l BY <1>3
      <4> QED BY <4>1
    <3>2. Offset(24 * l) \in {1, 2} BY OffsetFacts
    <3>3. LocalDay(Cand(a, n)) = IF Offset(24 * (l + n)) < Offset(24 * l) THEN l + n - 1 ELSE l + n
          BY <1>3, CandFacts
    <3> QED BY <1>3, <3>1, <3>2, <3>3
  <2>2. l = LocalDay(a) + n /\ l = DayOf(a, n) BY <1>3, <2>1 DEF DayOf
  <2>3. b = IF Skips(tr, l) THEN None ELSE Moment(tr, l)
        BY <1>2, <1>3, <2>2, AstroCandidate
  <2>4. b = a BY <1>3, <1>4, <2>3
  <2> QED BY <1>1, <2>4
<1>6. 24 * (l + n) <= b BY <1>2, <1>3, <1>4, AstroOccurs
<1>7. 24 * l + 24 <= b BY <1>5, <1>6
<1>8. PICK e \in Int, j \in 0..23 : e = LocalDay(b) /\ b + Offset(b) = 24 * e + j BY LocalFacts
<1>9. PICK o \in {1, 2} : o = Offset(b) BY OffsetFacts
<1>10. e > l BY <1>7, <1>8, <1>9
<1> QED BY <1>1, <1>3, <1>8, <1>10

(* Between two fires of a trigger it gets another day, for any stretch of the calendar:
   for triggers by the clock at every hour, those of a clock change and those that
   fromLocal reads on another date included (scheduler.ts:3). *)
THEOREM OnceALocalDay == Spec => OncePerLocalDay
<1>1. ASSUME Inv, [Next]_vars
      PROVE  [Fire /\ armed' # None /\ (trigger.kind = "astro" => StaysOnDay(trigger) /\ ~DraggedBack) =>
                  LocalDay(armed') > LocalDay(armed)]_vars
  <2> SUFFICES ASSUME Fire, armed' # None,
                      trigger.kind = "astro" => StaysOnDay(trigger) /\ ~DraggedBack
               PROVE  LocalDay(armed') > LocalDay(armed)
      OBVIOUS
  <2>1. PICK tr : tr = trigger OBVIOUS
  <2>2. PICK t \in Int : t = from /\ season.start <= t BY <1>1, InvFacts
  <2>3. season \in Seasons /\ trigger \in Triggers /\ IsTrigger(tr)
        BY <1>1, <2>1, InvFacts DEF Inv
  <2>4. PICK a \in Int : a = armed /\ a = NextFireTime(tr, t) /\ t < a /\ a # None
        BY <1>1, <2>1, <2>2, <2>3, InvFacts, NextTaken DEF Fire, Inv
  <2>5. PICK b : b = armed' /\ b = NextFireTime(tr, a) /\ b # None
        BY <2>1, <2>4 DEF Fire, Arm
  <2>6. season.start <= a
    <3>1. season.start \in Int BY <1>1, InvFacts
    <3> QED BY <2>2, <2>4, <3>1
  <2>7. b \in Int /\ a < b BY <2>3, <2>5, <2>6, NextTaken
  <2>8. LocalDay(a) \in Int /\ LocalDay(b) \in Int /\ LocalDay(a) <= LocalDay(b)
        BY <2>3, <2>7, LocalFacts, DaysGoOn
  <2>9. CASE tr.kind = "time"
    <3>1. season.firsts[1] <= LocalDay(t) /\ season.firsts[1] <= LocalDay(a)
          BY <2>2, <2>3, <2>6, SeasonFacts
    <3>2. PICK n \in 0..13 : a = Occurrence(tr, Cand(t, n)) BY <2>2, <2>3, <2>4, NextTaken
    <3>3. PICK m \in 0..13 : b = Occurrence(tr, Cand(a, m)) BY <2>3, <2>5, <2>6, NextTaken
    <3>4. a = 24 * LocalDay(a) + tr.hour - Offset(24 * LocalDay(a) + tr.hour)
          BY <2>3, <2>4, <2>9, <3>1, <3>2, OneTimeADay
    <3>5. b = 24 * LocalDay(b) + tr.hour - Offset(24 * LocalDay(b) + tr.hour)
          BY <2>3, <2>5, <2>9, <3>1, <3>3, OneTimeADay
    <3>6. LocalDay(a) # LocalDay(b) BY <2>7, <3>4, <3>5
    <3> QED BY <2>4, <2>5, <2>8, <3>6
  <2>10. CASE tr.kind = "astro"
    <3>1. a = Moment(tr, LocalDay(a))
      <4>1. NextFireTime(trigger, from) # None /\ a = NextFireTime(trigger, from)
            BY <2>1, <2>2, <2>4
      <4>2. from \in Int /\ season.start <= from BY <2>2
      <4>3. NextFireTime(trigger, from) = Moment(trigger, LocalDay(NextFireTime(trigger, from)))
            BY <2>1, <2>3, <2>10, <4>1, <4>2, AstroOnItsDay
      <4> QED BY <2>1, <4>1, <4>3
    <3>2. LocalDay(NextFireTime(tr, a)) > LocalDay(a)
          BY <2>1, <2>3, <2>5, <2>6, <2>10, <3>1, AstroNextDay
    <3> QED BY <2>4, <2>5, <3>2
  <2> QED BY <2>3, <2>9, <2>10 DEF IsTrigger
<1> QED BY <1>1, InvInductive, PTL DEF Spec, OncePerLocalDay
=============================================================================
