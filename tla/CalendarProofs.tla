---------------------------- MODULE CalendarProofs ----------------------------
(***************************************************************************)
(* The date arithmetic of Calendar, for every instant: the fields of a day *)
(* are those of the month it lies in, and what the setters lead to.        *)
(***************************************************************************)
EXTENDS Calendar, TLAPS

(***************************************************************************)
(* Division with remainder, and the lengths of years.                      *)
(***************************************************************************)
LEMMA Euclid ==
  ASSUME NEW n \in Int, NEW k \in Int, k > 0
  PROVE  /\ n \div k \in Int /\ n % k \in Int
         /\ k * (n \div k) <= n /\ n < k * (n \div k) + k
         /\ n = (k * (n \div k)) + (n % k)
         /\ 0 <= n % k /\ n % k < k
OBVIOUS

\* The first of January, of March, and the leap day of a year.
NewYear(y) == 365 * (y - 1970) + (y - 1969) \div 4 - (y - 1901) \div 100 + (y - 1601) \div 400
LeapDay(y) == IF IsLeap(y) THEN 1 ELSE 0
March(y)   == 365 * y + y \div 4 - y \div 100 + y \div 400 - 719468

LEMMA NewYearType == ASSUME NEW y \in Int PROVE NewYear(y) \in Int /\ LeapDay(y) \in 0..1
BY DEF NewYear, LeapDay


LEMMA YearLength ==
  ASSUME NEW y \in Int
  PROVE  NewYear(y + 1) = NewYear(y) + 365 + LeapDay(y)
<1>1. (y - 1968) \div 4 = (y - 1969) \div 4 + (IF y % 4 = 0 THEN 1 ELSE 0) BY SMTT(10)
<1>2. (y - 1900) \div 100 = (y - 1901) \div 100 + (IF y % 100 = 0 THEN 1 ELSE 0) BY SMTT(10)
<1>3. (y - 1600) \div 400 = (y - 1601) \div 400 + (IF y % 400 = 0 THEN 1 ELSE 0) BY SMTT(10)
<1>4. (y % 400 = 0 => y % 100 = 0) /\ (y % 100 = 0 => y % 4 = 0) BY SMTT(10)
<1>5. QED BY <1>1, <1>2, <1>3, <1>4, SMTT(10) DEF NewYear, LeapDay, IsLeap

LEMMA MarchIs ==
  ASSUME NEW y \in Int
  PROVE  March(y) = NewYear(y) + 59 + LeapDay(y)
<1>1. (y - 1969) \div 4 + (IF y % 4 = 0 THEN 1 ELSE 0) = y \div 4 - 492 BY SMTT(10)
<1>2. (y - 1901) \div 100 + (IF y % 100 = 0 THEN 1 ELSE 0) = y \div 100 - 19 BY SMTT(10)
<1>3. (y - 1601) \div 400 + (IF y % 400 = 0 THEN 1 ELSE 0) = y \div 400 - 4 BY SMTT(10)
<1>4. (y % 400 = 0 => y % 100 = 0) /\ (y % 100 = 0 => y % 4 = 0) BY SMTT(10)
<1>5. QED BY <1>1, <1>2, <1>3, <1>4, SMTT(10) DEF NewYear, March, LeapDay, IsLeap

LEMMA YearsGrow ==
  ASSUME NEW y \in Int, NEW z \in Int, y < z
  PROVE  NewYear(y) + 365 + LeapDay(y) <= NewYear(z)
<1>1. NewYear(y + 1) <= NewYear(z)
  <2>1. (y - 1968) \div 4 <= (z - 1969) \div 4 BY SMTT(10)
  <2>2. (z - 1901) \div 100 - (y - 1900) \div 100 <= z - y - 1 BY SMTT(10)
  <2>3. (y - 1600) \div 400 <= (z - 1601) \div 400 BY SMTT(10)
  <2>4. QED BY <2>1, <2>2, <2>3, SMTT(10) DEF NewYear
<1>2. QED BY <1>1, YearLength

(***************************************************************************)
(* Months.                                                                 *)
(***************************************************************************)
Before(y, m)  == DaysBefore[m + 1] + (IF m > 1 /\ IsLeap(y) THEN 1 ELSE 0)
MonthStart(y, m) == NewYear(y) + Before(y, m)
NextMonth(y, m)  == IF m = 11 THEN NewYear(y + 1) ELSE MonthStart(y, m + 1)

LEMMA BeforeIs ==
  ASSUME NEW y \in Int
  PROVE  /\ Before(y, 0) = 0 /\ Before(y, 1) = 31 /\ Before(y, 2) = 59 + LeapDay(y)
         /\ Before(y, 3) = 90 + LeapDay(y) /\ Before(y, 4) = 120 + LeapDay(y)
         /\ Before(y, 5) = 151 + LeapDay(y) /\ Before(y, 6) = 181 + LeapDay(y)
         /\ Before(y, 7) = 212 + LeapDay(y) /\ Before(y, 8) = 243 + LeapDay(y)
         /\ Before(y, 9) = 273 + LeapDay(y) /\ Before(y, 10) = 304 + LeapDay(y)
         /\ Before(y, 11) = 334 + LeapDay(y)
BY DEF Before, DaysBefore, LeapDay

LEMMA MonthLength ==
  ASSUME NEW y \in Int, NEW m \in 0..11
  PROVE  /\ MonthStart(y, m) \in Int /\ NextMonth(y, m) \in Int
         /\ NextMonth(y, m) - MonthStart(y, m) \in 28..31
         /\ NewYear(y) <= MonthStart(y, m)
         /\ NextMonth(y, m) <= NewYear(y + 1)
<1>1. NewYear(y) \in Int /\ LeapDay(y) \in 0..1 BY NewYearType
<1>2. NewYear(y + 1) = NewYear(y) + 365 + LeapDay(y) BY YearLength
<1>3. m \in {0, 1, 2, 3, 4, 5, 6, 7, 8, 9, 10, 11} OBVIOUS
<1>4. QED BY <1>1, <1>2, <1>3, BeforeIs, SMTT(20) DEF MonthStart, NextMonth

LEMMA MonthsGrow ==
  ASSUME NEW y \in Int, NEW m \in 0..11, NEW z \in Int, NEW n \in 0..11,
         y < z \/ (y = z /\ m < n)
  PROVE  NextMonth(y, m) <= MonthStart(z, n)
<1>1. CASE y < z
  <2>1. NewYear(y) + 365 + LeapDay(y) <= NewYear(z) BY <1>1, YearsGrow
  <2>2. NewYear(y + 1) = NewYear(y) + 365 + LeapDay(y) BY YearLength
  <2>3. NextMonth(y, m) \in Int /\ NextMonth(y, m) <= NewYear(y + 1) BY MonthLength
  <2>4. MonthStart(z, n) \in Int /\ NewYear(z) <= MonthStart(z, n) BY MonthLength
  <2>5. NewYear(y) \in Int /\ LeapDay(y) \in Int /\ NewYear(z) \in Int BY NewYearType
  <2>6. QED BY <2>1, <2>2, <2>3, <2>4, <2>5
<1>2. CASE y = z /\ m < n
  <2>1. ASSUME NEW i \in 0..11, NEW j \in 0..11, i <= j
        PROVE  Before(y, i) <= Before(y, j)
    <3>1. /\ i \in {0, 1, 2, 3, 4, 5, 6, 7, 8, 9, 10, 11}
          /\ j \in {0, 1, 2, 3, 4, 5, 6, 7, 8, 9, 10, 11}
      OBVIOUS
    <3>2. LeapDay(y) \in {0, 1} BY NewYearType
    <3>3. QED BY <2>1, <3>1, <3>2, BeforeIs, SMTT(30)
  <2>2. m + 1 \in 0..11 /\ m + 1 <= n /\ m # 11 BY <1>2
  <2>3. Before(y, m + 1) <= Before(y, n) BY <2>1, <2>2
  <2>4. Before(y, m + 1) \in Int /\ Before(y, n) \in Int
    <3>1. ASSUME NEW i \in 0..11 PROVE Before(y, i) \in Int
      <4>1. i \in {0, 1, 2, 3, 4, 5, 6, 7, 8, 9, 10, 11} OBVIOUS
      <4>2. QED BY <4>1, BeforeIs, NewYearType
    <3>2. QED BY <2>2, <3>1
  <2>5. MonthStart(y, m + 1) <= MonthStart(y, n)
    BY <2>3, <2>4, NewYearType DEF MonthStart
  <2>6. QED BY <1>2, <2>2, <2>5 DEF NextMonth
<1>3. QED BY <1>1, <1>2

(***************************************************************************)
(* UTC, and the fields of a day.                                           *)
(***************************************************************************)
LEMMA UTCIs ==
  ASSUME NEW y \in Int, NEW m \in Int, NEW d \in Int
  PROVE  UTC(y, m, d) = MonthStart(y + (m \div 12), m % 12) + d - 1
<1> DEFINE year == y + (m \div 12)
           mon  == m % 12
<1>1. year \in Int /\ mon \in 0..11 BY SMTT(10)
<1>2. NewYear(year) \in Int BY <1>1, NewYearType
<1>3. mon \in {0, 1, 2, 3, 4, 5, 6, 7, 8, 9, 10, 11} BY <1>1
<1>4. DaysBefore[mon + 1] \in Int BY <1>3, SMTT(10) DEF DaysBefore
<1> DEFINE leap == IF mon > 1 /\ IsLeap(year) THEN 1 ELSE 0
<1>5. UTC(y, m, d) = NewYear(year) + DaysBefore[mon + 1] + leap + d - 1
  BY DEF UTC, NewYear
<1>6. MonthStart(year, mon) = NewYear(year) + (DaysBefore[mon + 1] + leap)
  BY DEF MonthStart, Before
<1>7. leap \in Int OBVIOUS
<1> HIDE DEF year, mon, leap
<1>8. UTC(y, m, d) = MonthStart(year, mon) + d - 1 BY <1>2, <1>4, <1>5, <1>6, <1>7
<1>9. QED BY <1>8 DEF year, mon

\* The months counted from March: where they begin.
FromMarch == <<0, 31, 61, 92, 122, 153, 184, 214, 245, 275, 306, 337>>

LEMMA MonthsFromMarch ==
  ASSUME NEW n \in Int, 0 <= n, n <= 365, NEW k \in Int, k = ((5 * n) + 2) \div 153
  PROVE  /\ k \in 0..11
         /\ ((153 * k) + 2) \div 5 = FromMarch[k + 1]
         /\ FromMarch[k + 1] <= n
         /\ k < 11 => n < FromMarch[k + 2]
<1>1. 153 * k <= (5 * n) + 2 /\ (5 * n) + 2 < (153 * k) + 153 BY SMTT(10)
<1>2. k \in 0..11 BY <1>1
<1>3. k \in {0, 1, 2, 3, 4, 5, 6, 7, 8, 9, 10, 11} BY <1>2
<1>4. QED BY <1>1, <1>2, <1>3, SMTT(20) DEF FromMarch

\* The k-th month counted from March of year y, as a month of a year.
LEMMA MonthFromMarch ==
  ASSUME NEW y \in Int, NEW k \in 0..11,
         NEW z \in Int, z = y + (IF k < 10 THEN 0 ELSE 1),
         NEW m \in Int, m = (k + 2) % 12
  PROVE  /\ m \in 0..11
         /\ MonthStart(z, m) = March(y) + FromMarch[k + 1]
         /\ NextMonth(z, m) = IF k = 11 THEN March(y + 1) ELSE March(y) + FromMarch[k + 2]
<1>1. March(y) = NewYear(y) + 59 + LeapDay(y) BY MarchIs
<1>2. March(y + 1) = NewYear(y + 1) + 59 + LeapDay(y + 1) BY MarchIs
<1>3. NewYear(y + 1) = NewYear(y) + 365 + LeapDay(y) BY YearLength
<1>4. NewYear(y) \in Int /\ LeapDay(y) \in Int /\ LeapDay(y + 1) \in Int BY NewYearType
<1>5. k \in {0, 1, 2, 3, 4, 5, 6, 7, 8, 9, 10, 11} OBVIOUS
<1>6. CASE k < 10
  <2>1. z = y /\ m = k + 2 BY <1>6
  <2>2. QED BY <1>1, <1>4, <1>5, <1>6, <2>1, <1>3, BeforeIs, SMTT(30)
        DEF MonthStart, NextMonth, FromMarch
<1>7. CASE k \in {10, 11}
  <2>1. z = y + 1 /\ m = k - 10 BY <1>7
  <2>2. /\ Before(y + 1, 0) = 0 /\ Before(y + 1, 1) = 31
        /\ Before(y + 1, 2) = 59 + LeapDay(y + 1)
    BY BeforeIs
  <2>3. QED BY <1>1, <1>2, <1>3, <1>4, <1>7, <2>1, <2>2, SMTT(30)
        DEF MonthStart, NextMonth, FromMarch
<1>8. QED BY <1>5, <1>6, <1>7

LEMMA YearInEra ==
  ASSUME NEW e \in Int, 0 <= e, e <= 146096,
         NEW y \in Int, y = (e - (e \div 1460) + (e \div 36524) - (e \div 146096)) \div 365
  PROVE  /\ 0 <= y /\ y <= 399
         /\ 0 <= e - ((365 * y) + (y \div 4) - (y \div 100))
         /\ e - ((365 * y) + (y \div 4) - (y \div 100)) <= 365
         /\ y < 399 => e < (365 * (y + 1)) + ((y + 1) \div 4) - ((y + 1) \div 100)
<1>1. PICK a \in Int, b \in Int, c \in Int :
        /\ a = e \div 1460 /\ b = e \div 36524 /\ c = e \div 146096
        /\ 1460 * a <= e /\ e < (1460 * a) + 1460
        /\ 36524 * b <= e /\ e < (36524 * b) + 36524
        /\ 146096 * c <= e /\ e < (146096 * c) + 146096
  BY SMTT(10)
<1>2. 365 * y <= e - a + b - c /\ e - a + b - c < (365 * y) + 365 BY <1>1, SMTT(10)
<1>3. PICK q \in Int, h \in Int :
        /\ q = y \div 4 /\ h = y \div 100
        /\ 4 * q <= y /\ y < (4 * q) + 4 /\ 100 * h <= y /\ y < (100 * h) + 100
  BY SMTT(10)
<1>4. PICK r \in Int, i \in Int :
        /\ r = (y + 1) \div 4 /\ i = (y + 1) \div 100
        /\ 4 * r <= y + 1 /\ y + 1 < (4 * r) + 4 /\ 100 * i <= y + 1 /\ y + 1 < (100 * i) + 100
  BY SMTT(10)
<1>5. /\ 0 <= y /\ y <= 399 /\ 0 <= e - ((365 * y) + q - h)
      /\ e - ((365 * y) + q - h) <= 365
  BY <1>1, <1>2, <1>3, SMTT(30)
<1>6. y < 399 => e < (365 * (y + 1)) + r - i
  BY <1>1, <1>2, <1>3, <1>4, SMTT(30)
<1>7. QED BY <1>3, <1>4, <1>5, <1>6

LEMMA MarchOfEra ==
  ASSUME NEW era \in Int, NEW y \in Int, 0 <= y, y <= 400,
         NEW z \in Int, z = y + (400 * era)
  PROVE  March(z) = (146097 * era) + (365 * y) + (y \div 4) - (y \div 100)
                      + (IF y = 400 THEN 1 ELSE 0) - 719468
<1>1. (y + (400 * era)) \div 4 = (y \div 4) + (100 * era) BY SMTT(10)
<1>2. (y + (400 * era)) \div 100 = (y \div 100) + (4 * era) BY SMTT(10)
<1>3. (y + (400 * era)) \div 400 = era + (IF y = 400 THEN 1 ELSE 0) BY SMTT(10)
<1>4. QED BY <1>1, <1>2, <1>3, SMTT(10) DEF March

LEMMA MarchOfNext ==
  ASSUME NEW era \in Int, NEW y \in Int, 0 <= y, y <= 399,
         NEW z \in Int, z = y + (400 * era)
  PROVE  March(z + 1) = (146097 * era) + (365 * (y + 1)) + ((y + 1) \div 4) - ((y + 1) \div 100)
                          + (IF y = 399 THEN 1 ELSE 0) - 719468
<1>1. (z + 1) \div 4 = ((y + 1) \div 4) + (100 * era) BY SMTT(10)
<1>2. (z + 1) \div 100 = ((y + 1) \div 100) + (4 * era) BY SMTT(10)
<1>3. (z + 1) \div 400 = era + (IF y = 399 THEN 1 ELSE 0) BY SMTT(10)
<1>4. QED BY <1>1, <1>2, <1>3, SMTT(10) DEF March

\* The fields of an instant: the month its day lies in, and the day of the month.
LEMMA FieldsOf ==
  ASSUME NEW t \in Int
  PROVE  /\ Day(t) \in Int
         /\ Fields(t) = [year |-> Year(t), month |-> Month(t), date |-> Date(t)]
         /\ Year(t) \in Int /\ Month(t) \in 0..11 /\ Date(t) \in Int
         /\ MonthStart(Year(t), Month(t)) + Date(t) - 1 = Day(t)
         /\ MonthStart(Year(t), Month(t)) <= Day(t)
         /\ Day(t) < NextMonth(Year(t), Month(t))
<1> DEFINE since == Day(t) + 719468
           era   == since \div 146097
           e     == since % 146097
           y     == (e - (e \div 1460) + (e \div 36524) - (e \div 146096)) \div 365
           n     == e - ((365 * y) + (y \div 4) - (y \div 100))
           k     == ((5 * n) + 2) \div 153
           z     == (y + (400 * era)) + (IF k < 10 THEN 0 ELSE 1)
           m     == (k + 2) % 12
           d     == n - (((153 * k) + 2) \div 5) + 1
<1>1. Day(t) \in Int BY DEF Day
<1>2. Fields(t) = [year |-> z, month |-> m, date |-> d]
  <2>1. Fields(t).year = z BY DEF Fields
  <2>2. Fields(t).month = m BY DEF Fields
  <2>3. Fields(t).date = d BY DEF Fields
  <2>4. QED BY <2>1, <2>2, <2>3 DEF Fields
<1>3. Year(t) = z /\ Month(t) = m /\ Date(t) = d BY <1>2 DEF Year, Month, Date
<1>4. /\ era \in Int /\ e \in Int /\ 0 <= e /\ e <= 146096
      /\ Day(t) = (146097 * era) + e - 719468
  BY <1>1, SMTT(10)
<1>5. y \in Int BY <1>4, SMTT(10)
<1> HIDE DEF era, e
<1>6. /\ 0 <= y /\ y <= 399 /\ 0 <= n /\ n <= 365
      /\ y < 399 => e < (365 * (y + 1)) + ((y + 1) \div 4) - ((y + 1) \div 100)
  BY <1>4, <1>5, YearInEra
<1>7. n \in Int BY <1>4, <1>5, SMTT(10)
<1> HIDE DEF y
<1>8. March(y + (400 * era)) = (146097 * era) + (365 * y) + (y \div 4) - (y \div 100) - 719468
  <2>1. PICK v \in Int : v = y + (400 * era) BY <1>4, <1>5
  <2>2. March(v) = (146097 * era) + (365 * y) + (y \div 4) - (y \div 100)
                     + (IF y = 400 THEN 1 ELSE 0) - 719468
    BY <1>4, <1>5, <1>6, <2>1, MarchOfEra
  <2>3. y # 400 BY <1>5, <1>6
  <2>4. QED BY <1>4, <1>5, <2>1, <2>2, <2>3
<1>9. Day(t) = March(y + (400 * era)) + n BY <1>4, <1>5, <1>8, SMTT(10)
<1>10. Day(t) < March(y + (400 * era) + 1)
  <2>1. PICK v \in Int : v = y + (400 * era) BY <1>4, <1>5
  <2>2. March(v + 1) = (146097 * era) + (365 * (y + 1)) + ((y + 1) \div 4) - ((y + 1) \div 100)
                         + (IF y = 399 THEN 1 ELSE 0) - 719468
    BY <1>4, <1>5, <1>6, <2>1, MarchOfNext
  <2>3. CASE y < 399 BY <1>4, <1>5, <1>6, <2>1, <2>2, <2>3, SMTT(10)
  <2>4. CASE y = 399 BY <1>4, <1>5, <1>6, <2>1, <2>2, <2>4, SMTT(10)
  <2>5. QED BY <1>5, <1>6, <2>3, <2>4
<1> HIDE DEF n
<1>11. /\ k \in 0..11 /\ ((153 * k) + 2) \div 5 = FromMarch[k + 1]
       /\ FromMarch[k + 1] <= n
       /\ k < 11 => n < FromMarch[k + 2]
  <2>1. k \in Int BY <1>7, SMTT(10)
  <2>2. QED BY <1>6, <1>7, <2>1, MonthsFromMarch
<1> DEFINE w == y + (400 * era)
<1>12. w \in Int BY <1>4, <1>5
<1> HIDE DEF k, w
<1>13. /\ m \in 0..11 /\ z \in Int
       /\ MonthStart(z, m) = March(w) + FromMarch[k + 1]
       /\ NextMonth(z, m) = IF k = 11 THEN March(w + 1) ELSE March(w) + FromMarch[k + 2]
  <2>1. z \in Int /\ z = w + (IF k < 10 THEN 0 ELSE 1) BY <1>11, <1>12 DEF w
  <2>2. m \in Int /\ m = (k + 2) % 12 BY <1>11, SMTT(10)
  <2> HIDE DEF z, m
  <2>3. QED BY <1>11, <1>12, <2>1, <2>2, MonthFromMarch
<1>14. March(w) \in Int /\ March(w + 1) \in Int BY <1>12, SMTT(10) DEF March
<1>15. FromMarch[k + 1] \in Int
  <2>1. k \in {0, 1, 2, 3, 4, 5, 6, 7, 8, 9, 10, 11} BY <1>11
  <2>2. QED BY <2>1 DEF FromMarch
<1>16. k < 11 => FromMarch[k + 2] \in Int
  <2>1. k < 11 => k \in {0, 1, 2, 3, 4, 5, 6, 7, 8, 9, 10} BY <1>11
  <2>2. QED BY <2>1 DEF FromMarch
<1>17. Day(t) = March(w) + n /\ Day(t) < March(w + 1) BY <1>9, <1>10 DEF w
<1>18. d \in Int /\ MonthStart(z, m) + d - 1 = Day(t) /\ MonthStart(z, m) <= Day(t)
  BY <1>7, <1>11, <1>13, <1>14, <1>15, <1>17
<1>19. Day(t) < NextMonth(z, m)
  BY <1>7, <1>11, <1>13, <1>14, <1>15, <1>16, <1>17
<1> HIDE DEF z, m, d
<1>20. QED BY <1>1, <1>2, <1>3, <1>13, <1>18, <1>19

(***************************************************************************)
(* Months counted through the years: where the k-th one begins, and the    *)
(* one an instant lies in.                                                 *)
(***************************************************************************)
MStart(k) == MonthStart(k \div 12, k % 12)
MonthOf(t) == (12 * Year(t)) + Month(t)

LEMMA NextIsNext ==
  ASSUME NEW k \in Int
  PROVE  MStart(k + 1) = NextMonth(k \div 12, k % 12)
<1>1. PICK y \in Int, m \in 0..11 : y = k \div 12 /\ m = k % 12 /\ k = (12 * y) + m
  BY SMTT(10)
<1>2. CASE m = 11
  <2>1. (k + 1) \div 12 = y + 1 /\ (k + 1) % 12 = 0 BY <1>1, <1>2, SMTT(10)
  <2>2. y + 1 \in Int BY <1>1
  <2>3. NewYear(y + 1) \in Int BY <2>2, NewYearType
  <2>4. Before(y + 1, 0) = 0 BY <2>2, BeforeIs
  <2>5. QED BY <1>1, <1>2, <2>1, <2>3, <2>4 DEF MStart, NextMonth, MonthStart
<1>3. CASE m # 11
  <2>1. (k + 1) \div 12 = y /\ (k + 1) % 12 = m + 1 BY <1>1, <1>3, SMTT(10)
  <2>2. QED BY <1>1, <1>3, <2>1 DEF MStart, NextMonth
<1>4. QED BY <1>2, <1>3

LEMMA MonthsRise ==
  ASSUME NEW k \in Int
  PROVE  /\ MStart(k) \in Int /\ MStart(k + 1) \in Int
         /\ MStart(k) + 28 <= MStart(k + 1) /\ MStart(k + 1) <= MStart(k) + 31
         /\ \A j \in Int : k < j => MStart(j) \in Int /\ MStart(k + 1) <= MStart(j)
<1>1. PICK y \in Int, m \in 0..11 : y = k \div 12 /\ m = k % 12 /\ k = (12 * y) + m
  BY SMTT(10)
<1>2. /\ MonthStart(y, m) \in Int /\ NextMonth(y, m) \in Int
      /\ NextMonth(y, m) - MonthStart(y, m) \in 28..31
  BY MonthLength
<1>3. MStart(k) = MonthStart(y, m) /\ MStart(k + 1) = NextMonth(y, m)
  BY <1>1, NextIsNext DEF MStart
<1>4. ASSUME NEW j \in Int, k < j PROVE MStart(j) \in Int /\ MStart(k + 1) <= MStart(j)
  <2>1. PICK z \in Int, n \in 0..11 : z = j \div 12 /\ n = j % 12 /\ j = (12 * z) + n
    BY SMTT(10)
  <2>2. y < z \/ (y = z /\ m < n) BY <1>1, <1>4, <2>1
  <2>3. NextMonth(y, m) <= MonthStart(z, n) BY <2>2, MonthsGrow
  <2>4. MonthStart(z, n) \in Int BY MonthLength
  <2>5. QED BY <1>3, <2>1, <2>3, <2>4 DEF MStart
<1>5. QED BY <1>2, <1>3, <1>4

LEMMA MonthOfInstant ==
  ASSUME NEW t \in Int
  PROVE  /\ MonthOf(t) \in Int /\ Day(t) \in Int /\ Date(t) \in Int /\ Year(t) \in Int
         /\ Month(t) \in 0..11
         /\ Year(t) = MonthOf(t) \div 12 /\ Month(t) = MonthOf(t) % 12
         /\ MStart(MonthOf(t)) \in Int /\ MStart(MonthOf(t) + 1) \in Int
         /\ Date(t) = Day(t) - MStart(MonthOf(t)) + 1
         /\ MStart(MonthOf(t)) <= Day(t) /\ Day(t) < MStart(MonthOf(t) + 1)
<1>1. /\ Day(t) \in Int /\ Year(t) \in Int /\ Month(t) \in 0..11 /\ Date(t) \in Int
      /\ MonthStart(Year(t), Month(t)) + Date(t) - 1 = Day(t)
      /\ MonthStart(Year(t), Month(t)) <= Day(t) /\ Day(t) < NextMonth(Year(t), Month(t))
  BY FieldsOf
<1>2. MonthOf(t) \in Int BY <1>1 DEF MonthOf
<1>3. MonthOf(t) \div 12 = Year(t) /\ MonthOf(t) % 12 = Month(t) BY <1>1, SMTT(10) DEF MonthOf
<1>4. MStart(MonthOf(t)) = MonthStart(Year(t), Month(t)) BY <1>3 DEF MStart
<1>5. MStart(MonthOf(t) + 1) = NextMonth(Year(t), Month(t)) BY <1>2, <1>3, NextIsNext
<1>6. MStart(MonthOf(t)) \in Int /\ MStart(MonthOf(t) + 1) \in Int BY <1>2, MonthsRise
<1>7. QED BY <1>1, <1>2, <1>3, <1>4, <1>5, <1>6

LEMMA MonthIsTheOne ==
  ASSUME NEW t \in Int, NEW k \in Int, MStart(k) <= Day(t), Day(t) < MStart(k + 1)
  PROVE  MonthOf(t) = k /\ Date(t) = Day(t) - MStart(k) + 1
<1> DEFINE i == MonthOf(t)
<1>1. /\ i \in Int /\ MStart(i) \in Int /\ MStart(i + 1) \in Int /\ Day(t) \in Int
      /\ MStart(i) <= Day(t) /\ Day(t) < MStart(i + 1)
      /\ Date(t) = Day(t) - MStart(i) + 1
  BY MonthOfInstant
<1> HIDE DEF i
<1>2. MStart(k) \in Int /\ MStart(k + 1) \in Int BY MonthsRise
<1>3. ~(i < k)
  <2>1. i < k => MStart(i + 1) <= MStart(k) BY <1>1, MonthsRise
  <2>2. QED BY <1>1, <1>2, <2>1
<1>4. ~(k < i)
  <2>1. k < i => MStart(k + 1) <= MStart(i) BY <1>1, MonthsRise
  <2>2. QED BY <1>1, <1>2, <2>1
<1>5. i = k BY <1>1, <1>3, <1>4
<1>6. QED BY <1>1, <1>5 DEF i

LEMMA UTCOfMonth ==
  ASSUME NEW y \in Int, NEW m \in Int, NEW d \in Int,
         NEW k \in Int, k = (12 * y) + m
  PROVE  UTC(y, m, d) = MStart(k) + d - 1
<1>1. k \div 12 = y + (m \div 12) /\ k % 12 = m % 12 BY SMTT(10)
<1>2. UTC(y, m, d) = MonthStart(y + (m \div 12), m % 12) + d - 1 BY UTCIs
<1>3. MonthStart(y + (m \div 12), m % 12) = MStart(k) BY <1>1 DEF MStart
<1>4. QED BY <1>2, <1>3

(***************************************************************************)
(* The setters.                                                            *)
(***************************************************************************)
LEMMA DayAndHours ==
  ASSUME NEW t \in Int
  PROVE  /\ Day(t) \in Int /\ Hours(t) \in 0..23 /\ t = (24 * Day(t)) + Hours(t)
         /\ Weekday(t) \in 0..6
         /\ \A d \in Int, h \in 0..23 : t = (24 * d) + h => Day(t) = d /\ Hours(t) = h
<1>1. Day(t) \in Int /\ Hours(t) \in 0..23 /\ t = (24 * Day(t)) + Hours(t)
  BY SMTT(10) DEF Day, Hours
<1>2. Weekday(t) \in 0..6 BY <1>1, SMTT(10) DEF Weekday
<1>3. ASSUME NEW d \in Int, NEW h \in 0..23, t = (24 * d) + h PROVE Day(t) = d /\ Hours(t) = h
  BY <1>3, SMTT(10) DEF Day, Hours
<1>4. QED BY <1>1, <1>2, <1>3

LEMMA Midnights ==
  ASSUME NEW t \in Int
  PROVE  /\ Midnight(t) \in Int /\ Midnight(t) = 24 * Day(t)
         /\ Day(Midnight(t)) = Day(t) /\ Hours(Midnight(t)) = 0
<1>1. Day(t) \in Int BY DayAndHours
<1>2. Midnight(t) = (24 * Day(t)) + 0 BY DEF Midnight, SetHours
<1>3. Midnight(t) \in Int BY <1>1, <1>2
<1>4. QED BY <1>1, <1>2, <1>3, DayAndHours

LEMMA SetDateShifts ==
  ASSUME NEW t \in Int, NEW n \in Int
  PROVE  SetDate(t, Date(t) + n) = t + (24 * n)
<1>1. /\ Fields(t) = [year |-> Year(t), month |-> Month(t), date |-> Date(t)]
      /\ Year(t) \in Int /\ Month(t) \in 0..11 /\ Date(t) \in Int /\ Day(t) \in Int
  BY FieldsOf
<1>2. UTC(Year(t), Month(t), Date(t) + n) = MStart(MonthOf(t)) + (Date(t) + n) - 1
  <2>1. PICK y \in Int, m \in Int, d \in Int, k \in Int :
          /\ y = Year(t) /\ m = Month(t) /\ d = Date(t) + n
          /\ k = MonthOf(t) /\ k = (12 * y) + m
    BY <1>1 DEF MonthOf
  <2>2. k = (12 * y) + m BY <2>1
  <2>3. UTC(y, m, d) = MStart(k) + d - 1 BY <2>2, UTCOfMonth
  <2>4. QED BY <2>1, <2>3
<1>3. Date(t) = Day(t) - MStart(MonthOf(t)) + 1 /\ MStart(MonthOf(t)) \in Int BY MonthOfInstant
<1>4. SetDate(t, Date(t) + n) = (24 * UTC(Year(t), Month(t), Date(t) + n)) + Hours(t)
  BY <1>1 DEF SetDate
<1>5. Day(t) \in Int /\ Hours(t) \in 0..23 /\ t = (24 * Day(t)) + Hours(t) BY DayAndHours
<1>6. QED BY <1>1, <1>2, <1>3, <1>4, <1>5

LEMMA SetMonthMoves ==
  ASSUME NEW t \in Int, NEW n \in Int
  PROVE  SetMonth(t, Month(t) + n)
           = (24 * (MStart(MonthOf(t) + n) + Date(t) - 1)) + Hours(t)
<1>1. /\ Fields(t) = [year |-> Year(t), month |-> Month(t), date |-> Date(t)]
      /\ Year(t) \in Int /\ Month(t) \in 0..11 /\ Date(t) \in Int
  BY FieldsOf
<1>2. PICK y \in Int, m \in Int, d \in Int, k \in Int :
        /\ y = Year(t) /\ m = Month(t) + n /\ d = Date(t)
        /\ k = MonthOf(t) + n /\ k = (12 * y) + m
  BY <1>1 DEF MonthOf
<1>3. UTC(y, m, d) = MStart(k) + d - 1
  <2>1. k = (12 * y) + m BY <1>2
  <2>2. QED BY <2>1, UTCOfMonth
<1>4. QED BY <1>1, <1>2, <1>3 DEF SetMonth

LEMMA Firsts ==
  ASSUME NEW t \in Int
  PROVE  First(t) = (24 * MStart(MonthOf(t))) + Hours(t)
<1>1. /\ Fields(t) = [year |-> Year(t), month |-> Month(t), date |-> Date(t)]
      /\ Year(t) \in Int /\ Month(t) \in 0..11
  BY FieldsOf
<1>2. UTC(Year(t), Month(t), 1) = MStart(MonthOf(t)) + 1 - 1
  <2>1. PICK y \in Int, m \in Int, k \in Int :
          y = Year(t) /\ m = Month(t) /\ k = MonthOf(t) /\ k = (12 * y) + m
    BY <1>1 DEF MonthOf
  <2>2. UTC(y, m, 1) = MStart(k) + 1 - 1 BY <2>1, UTCOfMonth
  <2>3. QED BY <2>1, <2>2
<1>3. MStart(MonthOf(t)) \in Int BY MonthOfInstant
<1>4. QED BY <1>1, <1>2, <1>3 DEF First, SetDate

(***************************************************************************)
(* The days on which a period begins.                                      *)
(***************************************************************************)
Begins(d, g) == Boundary(24 * d, g)

LEMMA MidnightOf ==
  ASSUME NEW d \in Int
  PROVE  24 * d \in Int /\ Day(24 * d) = d /\ Hours(24 * d) = 0
<1>1. 24 * d \in Int /\ 24 * d = (24 * d) + 0 OBVIOUS
<1>2. QED BY <1>1, DayAndHours

LEMMA BeginsIs ==
  ASSUME NEW d \in Int
  PROVE  /\ Begins(d, "day")
         /\ Begins(d, "week") <=> (d + 4) % 7 = 1
         /\ Begins(d, "month") <=> Date(24 * d) = 1
         /\ Begins(d, "quarter") <=> Date(24 * d) = 1 /\ Month(24 * d) \in {0, 3, 6, 9}
<1>1. Hours(24 * d) = 0 /\ Weekday(24 * d) = (d + 4) % 7 BY MidnightOf DEF Weekday
<1>2. QED BY <1>1 DEF Begins, Boundary

LEMMA MonthBegins ==
  ASSUME NEW k \in Int
  PROVE  /\ MStart(k) \in Int /\ MonthOf(24 * MStart(k)) = k
         /\ Date(24 * MStart(k)) = 1 /\ Month(24 * MStart(k)) = k % 12
         /\ Begins(MStart(k), "month")
         /\ Begins(MStart(k), "quarter") <=> k % 3 = 0
<1>1. PICK d \in Int : d = MStart(k) BY MonthsRise
<1>2. d < MStart(k + 1) /\ MStart(k + 1) \in Int BY <1>1, MonthsRise
<1>3. 24 * d \in Int /\ Day(24 * d) = d BY MidnightOf
<1>4. MonthOf(24 * d) = k /\ Date(24 * d) = d - MStart(k) + 1
  BY <1>1, <1>2, <1>3, MonthIsTheOne
<1>5. Month(24 * d) = k % 12 BY <1>3, <1>4, MonthOfInstant
<1>6. k % 12 \in {0, 3, 6, 9} <=> k % 3 = 0 BY SMTT(10)
<1>7. Date(24 * d) = 1 BY <1>1, <1>4
<1>8. QED BY <1>1, <1>4, <1>5, <1>6, <1>7, BeginsIs

\* No month begins inside a month, and no quarter inside three months of one.
LEMMA InsideMonth ==
  ASSUME NEW k \in Int, NEW d \in Int, MStart(k) < d, d < MStart(k + 1)
  PROVE  ~Begins(d, "month")
<1>1. MStart(k) \in Int BY MonthsRise
<1>2. 24 * d \in Int /\ Day(24 * d) = d BY MidnightOf
<1>3. Date(24 * d) = d - MStart(k) + 1 BY <1>1, <1>2, MonthIsTheOne
<1>4. QED BY <1>1, <1>3, BeginsIs

LEMMA InsideQuarter ==
  ASSUME NEW k \in Int, k % 3 = 0, NEW d \in Int, MStart(k) < d, d < MStart(k + 3)
  PROVE  ~Begins(d, "quarter")
<1> SUFFICES ASSUME Begins(d, "quarter") PROVE FALSE OBVIOUS
<1>1. 24 * d \in Int /\ Day(24 * d) = d BY MidnightOf
<1>2. Date(24 * d) = 1 /\ Month(24 * d) \in {0, 3, 6, 9} BY BeginsIs
<1>3. PICK i \in Int : i = MonthOf(24 * d) BY <1>1, MonthOfInstant
<1>4. i % 12 \in {0, 3, 6, 9} /\ MStart(i) = d
  <2>1. /\ Month(24 * d) = i % 12 /\ MStart(i) \in Int
        /\ Date(24 * d) = d - MStart(i) + 1
    BY <1>1, <1>3, MonthOfInstant
  <2>2. QED BY <1>2, <2>1
<1>5. i % 3 = 0 BY <1>4, SMTT(10)
<1>6. ~(i < k)
  <2>1. i < k => MStart(i + 1) <= MStart(k) /\ MStart(i) + 28 <= MStart(i + 1) BY MonthsRise
  <2>2. MStart(k) \in Int /\ MStart(i + 1) \in Int BY MonthsRise
  <2>3. QED BY <1>4, <2>1, <2>2
<1>7. ~(k + 3 <= i)
  <2>1. PICK j \in Int : j = k + 3 OBVIOUS
  <2>2. d < MStart(j) BY <2>1
  <2>3. MStart(j) \in Int /\ MStart(j + 1) \in Int /\ MStart(j) + 28 <= MStart(j + 1)
    BY MonthsRise
  <2>4. j < i => MStart(j + 1) <= MStart(i) BY MonthsRise
  <2>5. j # i /\ ~(j < i) BY <1>4, <2>2, <2>3, <2>4
  <2>6. QED BY <2>1, <2>5
<1>8. i # k BY <1>4
<1>9. QED BY <1>5, <1>6, <1>7, <1>8, SMTT(10)

(***************************************************************************)
(* Buckets.                                                                *)
(***************************************************************************)
LEMMA BucketBegins ==
  ASSUME NEW t \in Int, NEW g \in RollupGranularity
  PROVE  \E b \in Int : /\ BucketStart(t, g) = 24 * b
                        /\ b <= Day(t) /\ Begins(b, g)
                        /\ \A d \in (b + 1) .. Day(t) : ~Begins(d, g)
<1>1. PICK n \in Int : n = Day(t) BY DayAndHours
<1>2. /\ Midnight(t) \in Int /\ Midnight(t) = 24 * n
      /\ Day(Midnight(t)) = n /\ Hours(Midnight(t)) = 0
  BY <1>1, Midnights
<1>3. CASE g = "day"
  <2>1. BucketStart(t, g) = 24 * n /\ Begins(n, g) BY <1>2, <1>3, BeginsIs DEF BucketStart
  <2>2. QED BY <1>1, <2>1
<1>4. CASE g = "week"
  <2>1. PICK r \in Int : r = (n + 3) % 7 /\ 0 <= r /\ r <= 6 BY SMTT(10)
  <2>2. (Weekday(Midnight(t)) + 6) % 7 = r BY <1>2, <2>1, SMTT(10) DEF Weekday
  <2>3. Monday(Midnight(t)) = 24 * (n - r)
    <3>1. SetDate(Midnight(t), Date(Midnight(t)) + (-r)) = Midnight(t) + (24 * (-r))
      BY <1>2, <2>1, SetDateShifts
    <3>2. Date(Midnight(t)) \in Int BY <1>2, MonthOfInstant
    <3>3. Date(Midnight(t)) + (-r) = Date(Midnight(t)) - r BY <2>1, <3>2
    <3>4. QED BY <1>2, <2>2, <3>1, <3>3 DEF Monday
  <2>4. Begins(n - r, "week")
    <3>1. ((n - r) + 4) % 7 = 1 BY <2>1, SMTT(10)
    <3>2. n - r \in Int BY <2>1
    <3>3. QED BY <3>1, <3>2, BeginsIs
  <2>5. ASSUME NEW d \in ((n - r) + 1) .. n PROVE ~Begins(d, "week")
    <3>1. d \in Int /\ (d + 4) % 7 # 1 BY <2>1, SMTT(10)
    <3>2. QED BY <3>1, BeginsIs
  <2>6. BucketStart(t, g) = 24 * (n - r) BY <1>4, <2>3 DEF BucketStart
  <2>7. QED BY <1>1, <1>4, <2>1, <2>4, <2>5, <2>6
<1>5. PICK i \in Int : i = MonthOf(Midnight(t)) BY <1>2, MonthOfInstant
<1>6. /\ MStart(i) \in Int /\ MStart(i + 1) \in Int /\ MStart(i) <= n /\ n < MStart(i + 1)
  BY <1>2, <1>5, MonthOfInstant
<1>7. First(Midnight(t)) = 24 * MStart(i) BY <1>2, <1>5, <1>6, Firsts
<1>8. CASE g = "month"
  <2>1. BucketStart(t, g) = 24 * MStart(i) BY <1>7, <1>8 DEF BucketStart
  <2>2. Begins(MStart(i), g) BY <1>8, MonthBegins
  <2>3. ASSUME NEW d \in (MStart(i) + 1) .. n PROVE ~Begins(d, g)
    BY <1>6, <1>8, InsideMonth
  <2>4. QED BY <1>1, <1>6, <2>1, <2>2, <2>3
<1>9. CASE g = "quarter"
  <2>1. PICK r \in Int, k \in Int : r = i % 3 /\ k = i - r /\ 0 <= r /\ r <= 2 /\ k % 3 = 0
    BY SMTT(10)
  <2>2. PICK f \in Int : f = 24 * MStart(i) BY <1>6
  <2>3. MonthOf(f) = i /\ Date(f) = 1 /\ Month(f) = i % 12 /\ Hours(f) = 0
    BY <1>6, <2>2, MonthBegins, MidnightOf
  <2>4. Month(f) \in Int /\ Month(f) % 3 = r BY <2>1, <2>3, SMTT(10)
  <2>5. MStart(k) \in Int /\ Begins(MStart(k), g) BY <1>9, <2>1, MonthBegins
  <2>6. BucketStart(t, g) = 24 * MStart(k)
    <3>1. PICK m \in Int : m = -r /\ i + m = k BY <2>1
    <3>2. SetMonth(f, Month(f) + m) = (24 * (MStart(MonthOf(f) + m) + Date(f) - 1)) + Hours(f)
      BY SetMonthMoves
    <3>3. Month(f) + m = Month(f) - (Month(f) % 3) BY <2>1, <2>4, <3>1
    <3>4. MonthOf(f) + m = k BY <2>3, <3>1
    <3>5. SetMonth(f, Month(f) - (Month(f) % 3)) = 24 * MStart(k)
      BY <2>3, <2>5, <3>2, <3>3, <3>4
    <3>6. QED BY <1>7, <1>9, <2>2, <3>5 DEF BucketStart
  <2>7. MStart(k) <= n /\ n < MStart(k + 3)
    <3>1. k = i \/ k < i BY <2>1
    <3>2. k < i => MStart(k + 1) <= MStart(i) /\ MStart(k) + 28 <= MStart(k + 1)
          /\ MStart(k + 1) \in Int
      BY <2>1, MonthsRise
    <3>3. PICK j \in Int, l \in Int : j = k + 3 /\ l = i + 1 /\ (l = j \/ l < j) BY <2>1
    <3>4. l < j => MStart(l + 1) <= MStart(j) /\ MStart(l) + 28 <= MStart(l + 1)
      BY MonthsRise
    <3>5. MStart(l + 1) \in Int /\ MStart(j) \in Int /\ MStart(l) \in Int BY MonthsRise
    <3>6. MStart(k) <= n BY <1>6, <2>5, <3>1, <3>2
    <3>7. QED BY <1>6, <3>3, <3>4, <3>5, <3>6
  <2>8. ASSUME NEW d \in (MStart(k) + 1) .. n PROVE ~Begins(d, g)
    <3>1. PICK j \in Int : j = k + 3 /\ MStart(j) \in Int BY <2>1, MonthsRise
    <3>2. d \in Int /\ MStart(k) < d /\ d < MStart(k + 3) BY <2>5, <2>7, <3>1
    <3>3. QED BY <1>9, <2>1, <3>2, InsideQuarter
  <2>9. QED BY <1>1, <2>5, <2>6, <2>7, <2>8
<1>10. QED BY <1>3, <1>4, <1>8, <1>9 DEF RollupGranularity, Granularity

LEMMA DatesBack ==
  ASSUME NEW t \in Int, NEW n \in Int
  PROVE  SetDate(t, Date(t) - n) = t - (24 * n)
<1>1. PICK m \in Int : m = -n OBVIOUS
<1>2. Date(t) \in Int BY MonthOfInstant
<1>3. Date(t) - n = Date(t) + m BY <1>1, <1>2
<1>4. SetDate(t, Date(t) + m) = t + (24 * m) BY SetDateShifts
<1>5. QED BY <1>1, <1>3, <1>4

\* From the first of a month, setUTCMonth leads to the first of another.
LEMMA MonthsShift ==
  ASSUME NEW k \in Int, NEW n \in Int, NEW t \in Int, t = 24 * MStart(k)
  PROVE  /\ SetMonth(t, Month(t) + n) = 24 * MStart(k + n)
         /\ SetMonth(t, Month(t) - n) = 24 * MStart(k - n)
<1>1. PICK b \in Int : b = MStart(k) BY MonthsRise
<1>2. MonthOf(t) = k /\ Date(t) = 1 /\ Hours(t) = 0 /\ Month(t) \in Int
  <2>1. MonthOf(t) = k /\ Date(t) = 1 BY MonthBegins
  <2>2. Hours(t) = 0 BY <1>1, MidnightOf
  <2>3. QED BY <2>1, <2>2, MonthOfInstant
<1>3. ASSUME NEW m \in Int PROVE SetMonth(t, Month(t) + m) = 24 * MStart(k + m)
  <2>1. SetMonth(t, Month(t) + m) = (24 * (MStart(MonthOf(t) + m) + Date(t) - 1)) + Hours(t)
    BY SetMonthMoves
  <2>2. PICK j \in Int : j = k + m /\ MStart(j) \in Int BY MonthsRise
  <2>3. SetMonth(t, Month(t) + m) = (24 * (MStart(j) + 1 - 1)) + 0 BY <1>2, <2>1, <2>2
  <2>4. QED BY <2>2, <2>3
<1>4. PICK m \in Int : m = -n OBVIOUS
<1>5. Month(t) - n = Month(t) + m /\ k - n = k + m BY <1>2, <1>4
<1>6. QED BY <1>3, <1>5

\* A day on which a month or a quarter begins is the first of that month.
LEMMA BeginsMonth ==
  ASSUME NEW b \in Int, NEW g \in {"month", "quarter"}, Begins(b, g)
  PROVE  \E k \in Int : b = MStart(k) /\ (g = "quarter" => k % 3 = 0)
<1>1. 24 * b \in Int /\ Day(24 * b) = b BY MidnightOf
<1>2. Date(24 * b) = 1 /\ (g = "quarter" => Month(24 * b) \in {0, 3, 6, 9}) BY BeginsIs
<1>3. PICK k \in Int : k = MonthOf(24 * b) BY <1>1, MonthOfInstant
<1>4. Month(24 * b) = k % 12 /\ MStart(k) \in Int /\ Date(24 * b) = b - MStart(k) + 1
  BY <1>1, <1>3, MonthOfInstant
<1>5. b = MStart(k) BY <1>2, <1>4
<1>6. g = "quarter" => k % 3 = 0
  <2>1. k % 12 \in {0, 3, 6, 9} => k % 3 = 0 BY SMTT(10)
  <2>2. QED BY <1>2, <1>4, <2>1
<1>7. QED BY <1>5, <1>6

LEMMA ThreeMonths ==
  ASSUME NEW k \in Int
  PROVE  MStart(k) \in Int /\ MStart(k + 3) \in Int /\ MStart(k) < MStart(k + 3)
<1>1. PICK i \in Int, j \in Int : i = k + 1 /\ j = k + 3 /\ i < j OBVIOUS
<1>2. /\ MStart(k) \in Int /\ MStart(i) \in Int /\ MStart(j) \in Int
      /\ MStart(k) + 28 <= MStart(i)
  BY <1>1, MonthsRise
<1>3. MStart(i + 1) <= MStart(j) /\ MStart(i) + 28 <= MStart(i + 1) /\ MStart(i + 1) \in Int
  BY <1>1, MonthsRise
<1>4. QED BY <1>1, <1>2, <1>3

(***************************************************************************)
(* Two days on which a period begins, and none between them.               *)
(***************************************************************************)
Adjacent(b, e, g) ==
  b < e /\ Begins(b, g) /\ Begins(e, g) /\ \A d \in (b + 1) .. (e - 1) : ~Begins(d, g)

LEMMA AdjacentIsPeriod ==
  ASSUME NEW b \in Int, NEW e \in Int, NEW g \in RollupGranularity, Adjacent(b, e, g)
  PROVE  IsPeriod(24 * b, 24 * e, g)
<1>1. Day(24 * b) = b /\ Day(24 * e) = e /\ 24 * b < 24 * e /\ g # "hour"
  BY MidnightOf DEF Adjacent, RollupGranularity
<1>2. QED BY <1>1 DEF IsPeriod, Adjacent, Begins

LEMMA WeeksAdjacent ==
  ASSUME NEW b \in Int, NEW e \in Int, e = b + 7,
         Begins(b, "week") \/ Begins(e, "week")
  PROVE  Adjacent(b, e, "week")
<1>1. (b + 4) % 7 = 1 /\ (e + 4) % 7 = 1
  <2>1. (e + 4) % 7 = (b + 4) % 7 BY SMTT(10)
  <2>2. QED BY <2>1, BeginsIs
<1>2. ASSUME NEW d \in (b + 1) .. (e - 1) PROVE ~Begins(d, "week")
  <2>1. d \in Int /\ (d + 4) % 7 # 1 BY <1>1, SMTT(10)
  <2>2. QED BY <2>1, BeginsIs
<1>3. Begins(b, "week") /\ Begins(e, "week") BY <1>1, BeginsIs
<1>4. QED BY <1>2, <1>3 DEF Adjacent

LEMMA MonthsAdjacent ==
  ASSUME NEW k \in Int
  PROVE  /\ Adjacent(MStart(k), MStart(k + 1), "month")
         /\ k % 3 = 0 => Adjacent(MStart(k), MStart(k + 3), "quarter")
<1>1. PICK b \in Int, e \in Int, f \in Int :
        /\ b = MStart(k) /\ e = MStart(k + 1) /\ f = MStart(k + 3) /\ b < e /\ b < f
  <2>1. MStart(k) \in Int /\ MStart(k + 1) \in Int /\ MStart(k) + 28 <= MStart(k + 1)
    BY MonthsRise
  <2>2. MStart(k + 3) \in Int /\ MStart(k) < MStart(k + 3) BY ThreeMonths
  <2>3. QED BY <2>1, <2>2
<1>2. Begins(b, "month") /\ (Begins(b, "quarter") <=> k % 3 = 0) BY <1>1, MonthBegins
<1>3. Begins(e, "month")
  <2>1. PICK i \in Int : i = k + 1 OBVIOUS
  <2>2. Begins(MStart(i), "month") BY MonthBegins
  <2>3. QED BY <1>1, <2>1, <2>2
<1>4. k % 3 = 0 => Begins(f, "quarter")
  <2>1. PICK i \in Int : i = k + 3 /\ (k % 3 = 0 => i % 3 = 0) BY SMTT(10)
  <2>2. Begins(MStart(i), "quarter") <=> i % 3 = 0 BY MonthBegins
  <2>3. QED BY <1>1, <2>1, <2>2
<1>5. ASSUME NEW d \in (b + 1) .. (e - 1) PROVE ~Begins(d, "month")
  <2>1. d \in Int /\ MStart(k) < d /\ d < MStart(k + 1) BY <1>1
  <2>2. QED BY <2>1, InsideMonth
<1>6. ASSUME k % 3 = 0, NEW d \in (b + 1) .. (f - 1) PROVE ~Begins(d, "quarter")
  <2>1. d \in Int /\ MStart(k) < d /\ d < MStart(k + 3) BY <1>1
  <2>2. QED BY <1>6, <2>1, InsideQuarter
<1>7. Adjacent(b, e, "month") BY <1>1, <1>2, <1>3, <1>5 DEF Adjacent
<1>8. k % 3 = 0 => Adjacent(b, f, "quarter") BY <1>1, <1>2, <1>4, <1>6 DEF Adjacent
<1>9. QED BY <1>1, <1>7, <1>8

LEMMA DaysAdjacent ==
  ASSUME NEW b \in Int, NEW e \in Int, e = b + 1
  PROVE  Adjacent(b, e, "day")
<1>1. ~\E d \in (b + 1) .. (e - 1) : TRUE OBVIOUS
<1>2. QED BY <1>1, BeginsIs DEF Adjacent

\* Where a bucket ends: the next day on which one begins.
LEMMA BucketEnds ==
  ASSUME NEW b \in Int, NEW g \in RollupGranularity, Begins(b, g)
  PROVE  \E e \in Int : BucketEnd(24 * b, g) = 24 * e /\ Adjacent(b, e, g)
<1>1. PICK t \in Int : t = 24 * b OBVIOUS
<1>2. CASE g = "day"
  <2>1. PICK e \in Int : e = b + 1 OBVIOUS
  <2>2. SetDate(t, Date(t) + 1) = t + (24 * 1) BY SetDateShifts
  <2>3. BucketEnd(t, g) = 24 * e BY <1>1, <1>2, <2>1, <2>2 DEF BucketEnd
  <2>4. QED BY <1>1, <1>2, <2>1, <2>3, DaysAdjacent
<1>3. CASE g = "week"
  <2>1. PICK e \in Int : e = b + 7 OBVIOUS
  <2>2. SetDate(t, Date(t) + 7) = t + (24 * 7) BY SetDateShifts
  <2>3. BucketEnd(t, g) = 24 * e BY <1>1, <1>3, <2>1, <2>2 DEF BucketEnd
  <2>4. QED BY <1>1, <1>3, <2>1, <2>3, WeeksAdjacent
<1>4. CASE g = "month"
  <2>1. PICK k \in Int : b = MStart(k) BY <1>4, BeginsMonth
  <2>2. PICK e \in Int : e = MStart(k + 1) BY MonthsRise
  <2>3. t = 24 * MStart(k) BY <1>1, <2>1
  <2>4. SetMonth(t, Month(t) + 1) = 24 * MStart(k + 1) BY <2>3, MonthsShift
  <2>5. BucketEnd(t, g) = 24 * e BY <1>4, <2>2, <2>4 DEF BucketEnd
  <2>6. Adjacent(b, e, g) BY <1>4, <2>1, <2>2, MonthsAdjacent
  <2>7. QED BY <1>1, <2>5, <2>6
<1>5. CASE g = "quarter"
  <2>1. PICK k \in Int : b = MStart(k) /\ k % 3 = 0 BY <1>5, BeginsMonth
  <2>2. PICK e \in Int : e = MStart(k + 3) BY ThreeMonths
  <2>3. t = 24 * MStart(k) BY <1>1, <2>1
  <2>4. SetMonth(t, Month(t) + 3) = 24 * MStart(k + 3) BY <2>3, MonthsShift
  <2>5. BucketEnd(t, g) = 24 * e BY <1>5, <2>2, <2>4 DEF BucketEnd
  <2>6. Adjacent(b, e, g) BY <1>5, <2>1, <2>2, MonthsAdjacent
  <2>7. QED BY <1>1, <2>5, <2>6
<1>6. QED BY <1>2, <1>3, <1>4, <1>5 DEF RollupGranularity, Granularity

\* A window's end is the start of the bucket of now, and its start the day before
\* it on which a period began.
LEMMA WindowStarts ==
  ASSUME NEW now \in Int, NEW g \in RollupGranularity, NEW e \in Int,
         WindowEnd(now, g) = 24 * e, Begins(e, g)
  PROVE  \E b \in Int : Window(now, g).start = 24 * b /\ Adjacent(b, e, g)
<1>1. PICK t \in Int : t = 24 * e OBVIOUS
<1>2. CASE g = "day"
  <2>1. PICK b \in Int : b = e - 1 /\ e = b + 1 OBVIOUS
  <2>2. SetDate(t, Date(t) - 1) = t - (24 * 1) BY DatesBack
  <2>3. Window(now, g).start = 24 * b BY <1>1, <1>2, <2>1, <2>2 DEF Window
  <2>4. QED BY <1>2, <2>1, <2>3, DaysAdjacent
<1>3. CASE g = "week"
  <2>1. PICK b \in Int : b = e - 7 /\ e = b + 7 OBVIOUS
  <2>2. SetDate(t, Date(t) - 7) = t - (24 * 7) BY DatesBack
  <2>3. Window(now, g).start = 24 * b BY <1>1, <1>3, <2>1, <2>2 DEF Window
  <2>4. QED BY <1>3, <2>1, <2>3, WeeksAdjacent
<1>4. CASE g = "month"
  <2>1. PICK k \in Int : e = MStart(k) BY <1>4, BeginsMonth
  <2>2. PICK i \in Int : i = k - 1 /\ k = i + 1 OBVIOUS
  <2>3. PICK b \in Int : b = MStart(i) BY MonthsRise
  <2>4. t = 24 * MStart(k) BY <1>1, <2>1
  <2>5. SetMonth(t, Month(t) - 1) = 24 * MStart(k - 1) BY <2>4, MonthsShift
  <2>6. Window(now, g).start = 24 * b BY <1>1, <1>4, <2>2, <2>3, <2>5 DEF Window
  <2>7. Adjacent(b, e, g) BY <1>4, <2>1, <2>2, <2>3, MonthsAdjacent
  <2>8. QED BY <2>6, <2>7
<1>5. CASE g = "quarter"
  <2>1. PICK k \in Int : e = MStart(k) /\ k % 3 = 0 BY <1>5, BeginsMonth
  <2>2. PICK i \in Int : i = k - 3 /\ k = i + 3 /\ i % 3 = 0 BY <2>1, SMTT(10)
  <2>3. PICK b \in Int : b = MStart(i) BY <2>2, MonthsRise
  <2>4. t = 24 * MStart(k) BY <1>1, <2>1
  <2>5. SetMonth(t, Month(t) - 3) = 24 * MStart(k - 3)
    <3>1. ASSUME NEW n \in Int PROVE SetMonth(t, Month(t) - n) = 24 * MStart(k - n)
      BY <2>4, MonthsShift
    <3>2. QED BY <3>1
  <2>6. Window(now, g).start = 24 * b BY <1>1, <1>5, <2>2, <2>3, <2>5 DEF Window
  <2>7. Adjacent(b, e, g) BY <1>5, <2>1, <2>2, <2>3, MonthsAdjacent
  <2>8. QED BY <2>6, <2>7
<1>6. QED BY <1>2, <1>3, <1>4, <1>5 DEF RollupGranularity, Granularity

\* resolvePeriodWindow, at any moment and for any granularity, names the last
\* hour, day, week, month or quarter that is over (pull.ts 298-358).
THEOREM WindowsAreLastPeriods ==
  ASSUME NEW now \in Int, NEW g \in Granularity
  PROVE  IsLastPeriod(Window(now, g), now, g)
<1>1. CASE g = "hour"
  <2>1. Window(now, g) = [start |-> now - 1, end |-> now] BY <1>1 DEF Window, WindowEnd
  <2>2. QED BY <1>1, <2>1 DEF IsLastPeriod, IsPeriod, Boundary
<1>2. CASE g # "hour"
  <2>1. g \in RollupGranularity BY <1>2 DEF RollupGranularity
  <2>2. PICK e \in Int : /\ BucketStart(now, g) = 24 * e /\ e <= Day(now) /\ Begins(e, g)
                         /\ \A d \in (e + 1) .. Day(now) : ~Begins(d, g)
    BY <2>1, BucketBegins
  <2>3. WindowEnd(now, g) = 24 * e
    BY <2>1, <2>2 DEF WindowEnd, BucketStart, RollupGranularity, Granularity
  <2>4. PICK b \in Int : Window(now, g).start = 24 * b /\ Adjacent(b, e, g)
    BY <2>1, <2>2, <2>3, WindowStarts
  <2>5. Window(now, g).end = 24 * e BY <2>3 DEF Window
  <2>6. IsPeriod(24 * b, 24 * e, g) BY <2>1, <2>4, AdjacentIsPeriod
  <2>7. 24 * e <= now
    <3>1. Day(now) \in Int /\ Hours(now) \in 0..23 /\ now = (24 * Day(now)) + Hours(now)
      BY DayAndHours
    <3>2. QED BY <2>2, <3>1
  <2>8. Day(24 * e) = e BY MidnightOf
  <2>9. QED BY <1>2, <2>2, <2>4, <2>5, <2>6, <2>7, <2>8 DEF IsLastPeriod, Begins
<1>3. QED BY <1>1, <1>2


\* A record's bucket is a period that contains it, and the API, which computes
\* bucket ends and starts of its own, names the same one
\* (rollup-debounce.ts 3-47, entries.ts 168-231).
THEOREM BucketsContain ==
  ASSUME NEW t \in Int, NEW g \in RollupGranularity
  PROVE  LET start == BucketStart(t, g)
             end   == BucketEnd(start, g)
         IN  /\ IsPeriod(start, end, g) /\ start <= t /\ t < end
             /\ EntryBucketStart(t, g) = start
             /\ EntryBucketEnd(start, g) = end
<1>1. PICK b \in Int : /\ BucketStart(t, g) = 24 * b /\ b <= Day(t) /\ Begins(b, g)
                       /\ \A d \in (b + 1) .. Day(t) : ~Begins(d, g)
  BY BucketBegins
<1>2. PICK e \in Int : BucketEnd(24 * b, g) = 24 * e /\ Adjacent(b, e, g)
  BY <1>1, BucketEnds
<1>3. IsPeriod(24 * b, 24 * e, g) BY <1>2, AdjacentIsPeriod
<1>4. Day(t) \in Int /\ Hours(t) \in 0..23 /\ t = (24 * Day(t)) + Hours(t) BY DayAndHours
<1>5. ~(e <= Day(t))
  <2>1. e \in (b + 1) .. Day(t) => ~Begins(e, g) BY <1>1
  <2>2. b < e /\ Begins(e, g) BY <1>2 DEF Adjacent
  <2>3. QED BY <1>4, <2>1, <2>2
<1>6. 24 * b <= t /\ t < 24 * e BY <1>1, <1>4, <1>5
<1>7. EntryBucketStart(t, g) = BucketStart(t, g)
  BY DEF EntryBucketStart, BucketStart, Monday, First, RollupGranularity, Granularity
<1>8. EntryBucketEnd(24 * b, g) = BucketEnd(24 * b, g)
  BY DEF EntryBucketEnd, BucketEnd, RollupGranularity, Granularity
<1>9. QED BY <1>1, <1>2, <1>3, <1>6, <1>7, <1>8

LEMMA MidnightFields ==
  ASSUME NEW b \in Int, NEW t \in Int, t = 24 * b
  PROVE  /\ Midnight(t) = t /\ 24 * UTC(Year(t), Month(t), Date(t)) = t
         /\ \A n \in Int : UTC(Year(t), Month(t), Date(t) + n) = b + n
<1>1. Day(t) = b /\ Hours(t) = 0 BY MidnightOf
<1>2. Midnight(t) = t BY <1>1, Midnights
<1>3. ASSUME NEW n \in Int PROVE UTC(Year(t), Month(t), Date(t) + n) = b + n
  <2>1. SetDate(t, Date(t) + n) = t + (24 * n) BY SetDateShifts
  <2>2. SetDate(t, Date(t) + n) = (24 * UTC(Year(t), Month(t), Date(t) + n)) + 0
    BY <1>1 DEF SetDate, Year, Month
  <2>3. PICK u \in Int : u = UTC(Year(t), Month(t), Date(t) + n)
    <3>1. Year(t) \in Int /\ Month(t) \in Int /\ Date(t) \in Int BY MonthOfInstant
    <3>2. PICK y \in Int, m \in Int, d \in Int : y = Year(t) /\ m = Month(t) /\ d = Date(t) + n
      BY <3>1
    <3>3. PICK k \in Int : k = (12 * y) + m OBVIOUS
    <3>4. UTC(y, m, d) = MStart(k) + d - 1 BY <3>3, UTCOfMonth
    <3>5. MStart(k) \in Int BY MonthsRise
    <3>6. QED BY <3>2, <3>4, <3>5
  <2>4. t + (24 * n) = (24 * u) + 0 BY <2>1, <2>2, <2>3
  <2>5. u = b + n BY <2>4
  <2>6. QED BY <2>3, <2>5
<1>4. UTC(Year(t), Month(t), Date(t)) = b
  <2>1. UTC(Year(t), Month(t), Date(t) + 0) = b + 0 BY <1>3
  <2>2. Date(t) + 0 = Date(t) BY MonthOfInstant
  <2>3. QED BY <2>1, <2>2
<1>5. QED BY <1>2, <1>3, <1>4

\* A manual entry that begins and ends at midnight is taken for a week or a month
\* exactly if it is the bucket it will be added to (period.ts 66-71).
THEOREM InferredIsBucket ==
  ASSUME NEW b \in Int, NEW n \in Int, NEW g \in {"week", "month"},
         NEW start \in Int, start = 24 * b, NEW end \in Int, end = start + (24 * n)
  PROVE  InferGranularity(start, end) = g
           <=> start = BucketStart(start, g) /\ end = BucketEnd(start, g)
<1> DEFINE week  == WeekBucketStart(start)
           aWeek == start = week /\ end = SetDate(week, Date(week) + 7)
           aMonth == /\ Date(start) = 1 /\ Date(end) = 1
                     /\ end = 24 * UTC(Year(start), Month(start) + 1, 1)
<1>1. PICK e \in Int : e = b + n /\ end = 24 * e OBVIOUS
<1>2. Hours(start) = 0 /\ Hours(end) = 0 /\ Day(start) = b /\ Day(end) = e
  BY <1>1, MidnightOf
<1>3. Midnight(start) = start /\ 24 * UTC(Year(start), Month(start), Date(start)) = start
  BY MidnightFields
<1>4. week = BucketStart(start, "week") BY <1>3 DEF WeekBucketStart, BucketStart, Monday
<1>5. aWeek <=> start = BucketStart(start, "week") /\ end = BucketEnd(start, "week")
  BY <1>4 DEF BucketEnd
<1>6. PICK i \in Int : i = MonthOf(start) BY MonthOfInstant
<1>7. /\ MStart(i) \in Int /\ MStart(i + 1) \in Int
      /\ Date(start) = b - MStart(i) + 1 /\ b < MStart(i + 1)
      /\ Year(start) \in Int /\ Month(start) \in 0..11
  BY <1>2, <1>6, MonthOfInstant
<1>8. BucketStart(start, "month") = 24 * MStart(i)
  <2>1. First(start) = (24 * MStart(i)) + 0 BY <1>2, <1>6, Firsts
  <2>2. QED BY <1>3, <1>7, <2>1 DEF BucketStart
<1>9. UTC(Year(start), Month(start) + 1, 1) = MStart(i + 1)
  <2>1. PICK y \in Int, m \in Int, j \in Int :
          y = Year(start) /\ m = Month(start) + 1 /\ j = i + 1 /\ j = (12 * y) + m
    BY <1>6, <1>7 DEF MonthOf
  <2>2. j = (12 * y) + m BY <2>1
  <2>3. UTC(y, m, 1) = MStart(j) + 1 - 1 BY <2>2, UTCOfMonth
  <2>4. MStart(j) \in Int BY MonthsRise
  <2>5. QED BY <2>1, <2>3, <2>4
<1>10. aMonth <=> start = BucketStart(start, "month") /\ end = BucketEnd(start, "month")
  <2>1. Date(start) = 1 <=> start = 24 * MStart(i) BY <1>7
  <2>2. start = 24 * MStart(i) => BucketEnd(start, "month") = 24 * MStart(i + 1)
    <3>1. start = 24 * MStart(i) => SetMonth(start, Month(start) + 1) = 24 * MStart(i + 1)
      BY MonthsShift
    <3>2. QED BY <3>1 DEF BucketEnd
  <2>3. end = 24 * MStart(i + 1) => Date(end) = 1
    <3>1. PICK j \in Int : j = i + 1 OBVIOUS
    <3>2. Date(24 * MStart(j)) = 1 BY MonthBegins
    <3>3. QED BY <3>1, <3>2
  <2>4. QED BY <1>8, <1>9, <2>1, <2>2, <2>3
<1>11. ~(aWeek /\ aMonth)
  <2>1. SUFFICES ASSUME aWeek, aMonth PROVE FALSE OBVIOUS
  <2>2. end = start + (24 * 7)
    <3>1. SetDate(start, Date(start) + 7) = start + (24 * 7) BY SetDateShifts
    <3>2. QED BY <2>1, <3>1
  <2>3. end = 24 * MStart(i + 1) BY <1>9, <2>1
  <2>4. start = 24 * MStart(i) BY <1>7, <2>1
  <2>5. MStart(i) + 28 <= MStart(i + 1) BY MonthsRise
  <2>6. QED BY <1>7, <2>2, <2>3, <2>4, <2>5
<1>12. InferGranularity(start, end)
         = CASE aWeek -> "week" [] aMonth -> "month" [] OTHER -> "none"
  BY <1>2 DEF InferGranularity
<1> HIDE DEF aWeek, aMonth, week
<1>13. InferGranularity(start, end) = "week" <=> aWeek BY <1>11, <1>12
<1>14. InferGranularity(start, end) = "month" <=> aMonth BY <1>11, <1>12
<1>15. QED BY <1>5, <1>10, <1>13, <1>14

LEMMA NextBoundaryUnique ==
  ASSUME NEW b \in Int, NEW d \in Int, NEW e \in Int, NEW g, Adjacent(b, d, g), Adjacent(b, e, g)
  PROVE  d = e
<1>1. ~(d < e)
  <2>1. d < e => d \in (b + 1) .. (e - 1) BY DEF Adjacent
  <2>2. QED BY <2>1 DEF Adjacent
<1>2. ~(e < d)
  <2>1. e < d => e \in (b + 1) .. (d - 1) BY DEF Adjacent
  <2>2. QED BY <2>1 DEF Adjacent
<1>3. QED BY <1>1, <1>2

\* What the API takes for a week or a month is one, at whatever hours it begins and
\* ends, and every week and every month is taken for one (entries.ts 97-100, 212-231).
THEOREM InferredIsPeriod ==
  ASSUME NEW start \in Int, NEW end \in Int
  PROVE  InferGranularity(start, end) # "none"
           <=> \E g \in {"week", "month"} : IsPeriod(start, end, g)
<1>1. PICK b \in Int, e \in Int : b = Day(start) /\ e = Day(end) BY DayAndHours
<1>2. /\ start = (24 * b) + Hours(start) /\ Hours(start) \in 0 .. 23
      /\ end = (24 * e) + Hours(end) /\ Hours(end) \in 0 .. 23
  BY <1>1, DayAndHours
<1>3. ASSUME ~(Hours(start) = 0 /\ Hours(end) = 0)
      PROVE  /\ InferGranularity(start, end) = "none"
             /\ \A g \in {"week", "month"} : ~IsPeriod(start, end, g)
  <2>1. InferGranularity(start, end) = "none" BY <1>3 DEF InferGranularity
  <2>2. QED BY <1>3, <2>1 DEF IsPeriod, Boundary
<1>4. ASSUME Hours(start) = 0, Hours(end) = 0
      PROVE  InferGranularity(start, end) # "none"
               <=> \E g \in {"week", "month"} : IsPeriod(start, end, g)
  <2>1. start = 24 * b /\ end = 24 * e BY <1>2, <1>4
  <2>2. PICK n \in Int : n = e - b /\ end = start + (24 * n) BY <2>1
  <2>3. ASSUME NEW g \in {"week", "month"}
        PROVE  InferGranularity(start, end) = g
                 <=> start = BucketStart(start, g) /\ end = BucketEnd(start, g)
    <3>1. start = 24 * b BY <2>1
    <3>2. end = start + (24 * n) BY <2>2
    <3>3. QED BY <3>1, <3>2, InferredIsBucket
  <2>4. InferGranularity(start, end) \in {"week", "month", "none"} BY DEF InferGranularity
  <2>5. ASSUME NEW g \in {"week", "month"},
               start = BucketStart(start, g), end = BucketEnd(start, g)
        PROVE  IsPeriod(start, end, g)
    BY <2>5, BucketsContain DEF RollupGranularity, Granularity
  <2>6. ASSUME NEW g \in {"week", "month"}, IsPeriod(start, end, g)
        PROVE  start = BucketStart(start, g) /\ end = BucketEnd(start, g)
    <3>1. g \in RollupGranularity /\ g # "hour" BY DEF RollupGranularity, Granularity
    <3>2. Adjacent(b, e, g)
      BY <1>1, <2>1, <2>6, <3>1 DEF IsPeriod, Adjacent, Begins
    <3>3. PICK c \in Int : /\ BucketStart(start, g) = 24 * c /\ c <= Day(start) /\ Begins(c, g)
                           /\ \A d \in (c + 1) .. Day(start) : ~Begins(d, g)
      BY <3>1, BucketBegins
    <3>4. c = b
      <4>1. c < b => b \in (c + 1) .. Day(start) BY <1>1
      <4>2. QED BY <1>1, <3>2, <3>3, <4>1 DEF Adjacent
    <3>5. PICK d \in Int : BucketEnd(24 * b, g) = 24 * d /\ Adjacent(b, d, g)
      BY <3>1, <3>2, BucketEnds DEF Adjacent
    <3>6. d = e BY <3>2, <3>5, NextBoundaryUnique
    <3>7. QED BY <2>1, <3>3, <3>4, <3>5, <3>6
  <2>7. QED BY <2>3, <2>4, <2>5, <2>6
<1>5. QED BY <1>3, <1>4


(***************************************************************************)
(* The days that are asked for.                                            *)
(***************************************************************************)
Source == {"ga4", "cloudflare_analytics"}

\* Both connectors ask for the days from the first to the one before the last,
\* or for the one day the period lies in.
LEMMA AskedIs ==
  ASSUME NEW s \in Int, NEW e \in Int, s < e, NEW source \in Source
  PROVE  /\ Day(s) \in Int /\ Day(e) \in Int /\ Day(s) <= Day(e)
         /\ AskedDays(source, s, e)
              = Day(s) .. (IF Day(s) = Day(e) THEN Day(s) ELSE Day(e) - 1)
<1>1. /\ Day(s) \in Int /\ Hours(s) \in 0..23 /\ s = (24 * Day(s)) + Hours(s)
      /\ Day(e) \in Int /\ Hours(e) \in 0..23 /\ e = (24 * Day(e)) + Hours(e)
  BY DayAndHours
<1>2. Day(s) <= Day(e) BY <1>1
<1>3. Ga4Days(s, e) = Day(s) .. (IF Day(s) = Day(e) THEN Day(s) ELSE Day(e) - 1)
  <2>1. SetDate(e, Date(e) - 1) = e - (24 * 1)
    <3>1. ASSUME NEW n \in Int PROVE SetDate(e, Date(e) - n) = e - (24 * n) BY DatesBack
    <3>2. QED BY <3>1
  <2>2. PICK x \in Int : x = e - 24 OBVIOUS
  <2>3. PICK d \in Int : d = Day(e) - 1 BY <1>1
  <2>4. x = (24 * d) + Hours(e) BY <1>1, <2>2, <2>3
  <2>5. Day(x) = d BY <1>1, <2>4, DayAndHours
  <2>6. Day(SetDate(e, Date(e) - 1)) = d BY <2>1, <2>2, <2>5
  <2>7. CASE Day(s) = Day(e)
    <3>1. Ga4Days(s, e) = {Day(s)} BY <2>7 DEF Ga4Days
    <3>2. Day(s) .. Day(s) = {Day(s)} BY <1>1
    <3>3. QED BY <2>7, <3>1, <3>2
  <2>8. CASE Day(s) # Day(e)
    <3>1. ~(e <= s) /\ ~(d < Day(s)) BY <1>1, <1>2, <2>3, <2>8
    <3>2. Ga4Days(s, e) = Day(s) .. d BY <2>6, <2>8, <3>1 DEF Ga4Days
    <3>3. QED BY <2>3, <2>8, <3>2
  <2>9. QED BY <2>7, <2>8
<1>4. CloudflareDays(s, e) = Day(s) .. (IF Day(s) = Day(e) THEN Day(s) ELSE Day(e) - 1)
  <2>1. UTC(Year(s), Month(s), Date(s) + 1) = Day(s) + 1
    <3>1. PICK n \in Int : n = 1 OBVIOUS
    <3>2. SetDate(s, Date(s) + n) = s + (24 * n) BY SetDateShifts
    <3>3. SetDate(s, Date(s) + n) = (24 * UTC(Year(s), Month(s), Date(s) + n)) + Hours(s)
      BY DEF SetDate, Year, Month
    <3>4. PICK u \in Int : u = UTC(Year(s), Month(s), Date(s) + n)
      <4>1. Year(s) \in Int /\ Month(s) \in Int /\ Date(s) \in Int BY MonthOfInstant
      <4>2. PICK y \in Int, m \in Int, d \in Int :
              y = Year(s) /\ m = Month(s) /\ d = Date(s) + n
        BY <4>1
      <4>3. PICK k \in Int : k = (12 * y) + m OBVIOUS
      <4>4. UTC(y, m, d) = MStart(k) + d - 1 BY <4>3, UTCOfMonth
      <4>5. MStart(k) \in Int BY MonthsRise
      <4>6. QED BY <4>2, <4>4, <4>5
    <3>5. s + (24 * n) = (24 * u) + Hours(s) BY <3>2, <3>3, <3>4
    <3>6. u = Day(s) + 1
      <4>1. PICK d \in Int, h \in Int : d = Day(s) /\ h = Hours(s) /\ s = (24 * d) + h BY <1>1
      <4>2. s + 24 = (24 * u) + h BY <3>1, <3>5, <4>1
      <4>3. s = (24 * d) + h BY <4>1
      <4>4. u = d + 1 BY <4>2, <4>3
      <4>5. QED BY <4>1, <4>4
    <3>7. QED BY <3>1, <3>4, <3>6
  <2>2. CASE Day(s) = Day(e)
    <3>1. CloudflareDays(s, e) = Day(s) .. ((Day(s) + 1) - 1) BY <2>1, <2>2 DEF CloudflareDays
    <3>2. (Day(s) + 1) - 1 = Day(s) BY <1>1
    <3>3. QED BY <2>2, <3>1, <3>2
  <2>3. CASE Day(s) # Day(e)
    <3>1. CloudflareDays(s, e) = Day(s) .. (Day(e) - 1) BY <2>3 DEF CloudflareDays
    <3>2. QED BY <2>3, <3>1
  <2>4. QED BY <2>2, <2>3
<1>5. QED BY <1>1, <1>2, <1>3, <1>4 DEF AskedDays, Source

\* The days that lie wholly in a period are asked for, and no day outside it.
LEMMA AskedCover ==
  ASSUME NEW s \in Int, NEW e \in Int, NEW source \in Source
  PROVE  /\ WholeDays(s, e) \subseteq AskedDays(source, s, e)
         /\ s < e => AskedDays(source, s, e) \subseteq TouchedDays(s, e)
<1>1. /\ Day(s) \in Int /\ Hours(s) \in 0..23 /\ s = (24 * Day(s)) + Hours(s)
      /\ Day(e) \in Int /\ Hours(e) \in 0..23 /\ e = (24 * Day(e)) + Hours(e)
  BY DayAndHours
<1>2. CASE ~(s < e)
  <2>1. ASSUME NEW d \in WholeDays(s, e) PROVE FALSE BY <1>1, <1>2 DEF WholeDays
  <2>2. QED BY <1>2, <2>1
<1>3. CASE s < e
  <2>1. /\ Day(s) <= Day(e)
        /\ AskedDays(source, s, e)
             = Day(s) .. (IF Day(s) = Day(e) THEN Day(s) ELSE Day(e) - 1)
    BY <1>3, AskedIs
  <2>2. ASSUME NEW d \in WholeDays(s, e) PROVE d \in AskedDays(source, s, e)
    <3>1. d \in Int /\ Day(s) <= d /\ d <= Day(e) - 1 BY <1>1 DEF WholeDays
    <3>2. QED BY <1>1, <2>1, <3>1
  <2>3. ASSUME NEW d \in AskedDays(source, s, e) PROVE d \in TouchedDays(s, e)
    <3>1. /\ d \in Int /\ Day(s) <= d
          /\ d <= (IF Day(s) = Day(e) THEN Day(s) ELSE Day(e) - 1)
      BY <1>1, <2>1
    <3>2. PICK a \in Int, b \in Int, h \in 0..23, k \in 0..23 :
            /\ a = Day(s) /\ h = Hours(s) /\ s = (24 * a) + h
            /\ b = Day(e) /\ k = Hours(e) /\ e = (24 * b) + k
      BY <1>1
    <3>3. a <= d /\ a <= b /\ (IF a = b THEN d <= a ELSE d <= b - 1) BY <2>1, <3>1, <3>2
    <3>4. d <= b /\ 24 * d < e /\ (24 * d) + 24 > s BY <1>3, <3>1, <3>2, <3>3
    <3>5. QED BY <3>1, <3>2, <3>3, <3>4 DEF TouchedDays
  <2>4. QED BY <2>2, <2>3
<1>4. QED BY <1>2, <1>3

\* Where the chunks of a backfill begin and end.
LEMMA ChunkIs ==
  ASSUME NEW start \in Int, NEW end \in Int, start < end,
         NEW size \in Nat \ {0}, NEW i \in DOMAIN Chunks(start, end, size)
  PROVE  \E p \in Nat : /\ p = (i - 1) * size /\ p < Begun(start, end)
                        /\ Chunks(start, end, size)[i].start = start + (24 * p)
                        /\ Chunks(start, end, size)[i].end
                             = IF start + (24 * (p + size)) > end THEN end
                               ELSE start + (24 * (p + size))
                        /\ start + (24 * p) < end
<1> DEFINE N == (Begun(start, end) + size - 1) \div size
<1>1. i \in 1..N BY DEF Chunks
<1>2. PICK b \in Int : b = Begun(start, end) /\ b >= 1 /\ 24 * (b - 1) < end - start
  BY SMTT(10) DEF Begun
<1>3. N \in Int /\ size * N <= b + size - 1
  <2>1. PICK x \in Int : x = b + size - 1 OBVIOUS
  <2>2. x \div size \in Int /\ size * (x \div size) <= x BY Euclid
  <2>3. QED BY <1>2, <2>1, <2>2
<1> HIDE DEF N
<1>4. PICK p \in Nat : p = (i - 1) * size BY <1>1, <1>3
<1>5. p < b
  <2>1. i \in Int /\ 1 <= i /\ i <= N BY <1>1, <1>3
  <2>2. (i - 1) * size <= (N - 1) * size BY <1>3, <2>1
  <2>3. (N - 1) * size = (size * N) - size BY <1>3
  <2>4. QED BY <1>2, <1>3, <1>4, <2>1, <2>2, <2>3
<1>6. start + (24 * p) < end BY <1>2, <1>5
<1>7. PICK c \in Int : c = start + (24 * p) OBVIOUS
<1>8. SetDate(start, Date(start) + p) = c BY <1>7, SetDateShifts
<1>9. SetDate(c, Date(c) + size) = c + (24 * size) BY SetDateShifts
<1>10. c + (24 * size) = start + (24 * (p + size)) BY <1>7
<1>11. Chunks(start, end, size)[i]
         = [start |-> c, end |-> IF c + (24 * size) > end THEN end ELSE c + (24 * size)]
  BY <1>4, <1>8, <1>9 DEF Chunks
<1>12. QED BY <1>2, <1>4, <1>5, <1>6, <1>7, <1>10, <1>11


LEMMA DayIs ==
  ASSUME NEW t \in Int
  PROVE  \E a \in Int, h \in Int : a = Day(t) /\ t = (24 * a) + h /\ 0 <= h /\ h <= 23
<1>1. PICK a \in Int, h \in Int :
        a = t \div 24 /\ h = t % 24 /\ t = (24 * a) + h /\ 0 <= h /\ h <= 23
  BY SMTT(10)
<1>2. QED BY <1>1 DEF Day

\* Days and hours compared.
LEMMA DaysCompare ==
  ASSUME NEW a \in Int, NEW b \in Int, NEW h \in Int, NEW k \in Int,
         0 <= h, h <= 23, 0 <= k, k <= 23
  PROVE  /\ (24 * a) + h <= (24 * b) + k => a <= b
         /\ (24 * a) + h <= 24 * b => a <= b
         /\ (24 * a) + h < 24 * b => a + 1 <= b
         /\ 24 * a < (24 * b) + k => a <= b
         /\ (24 * a) + 24 <= (24 * b) + k => a + 1 <= b
         /\ 24 * b <= (24 * a) + h => b <= a
         /\ (24 * b) + k < (24 * a) + 24 => b <= a
BY SMTT(10)

\* [s, e) is the part of a range that begins p days into it and lasts size days,
\* or ends with the range.
IsPart(start, end, size, p, s, e) ==
  /\ 0 <= p /\ 1 <= size
  /\ s = start + (24 * p) /\ s < e /\ e <= end /\ e <= start + (24 * (p + size))
  /\ e = end \/ e = start + (24 * (p + size))

\* Of the days of the range, exactly those of the part are asked for.
DaysFit(start, end, size, p, asked) ==
  /\ asked \subseteq TouchedDays(start, end)
  /\ \A d \in asked : d \in Int /\ Day(start) + p <= d /\ d < Day(start) + p + size
  /\ \A d \in WholeDays(start, end) :
       Day(start) + p <= d /\ d < Day(start) + p + size => d \in asked

\* What the days of a part of a range are: p days into it, and size of them or fewer.
LEMMA PartDays ==
  ASSUME NEW start \in Int, NEW end \in Int, NEW size \in Int,
         NEW p \in Int, NEW s \in Int, NEW e \in Int,
         IsPart(start, end, size, p, s, e), NEW source \in Source
  PROVE  DaysFit(start, end, size, p, AskedDays(source, s, e))
<1>1. PICK a \in Int, h \in Int : /\ a = Day(start)
                                  /\ start = (24 * a) + h /\ 0 <= h /\ h <= 23
  BY DayIs
<1>2. PICK b \in Int, k \in Int : b = Day(end) /\ end = (24 * b) + k /\ 0 <= k /\ k <= 23
  BY DayIs
<1>3. PICK f \in Int, l \in Int : f = Day(e) /\ e = (24 * f) + l /\ 0 <= l /\ l <= 23
  BY DayIs
<1>4. PICK c \in Int : c = a + p OBVIOUS
<1>0. /\ 0 <= p /\ 1 <= size
      /\ s = start + (24 * p) /\ s < e /\ e <= end /\ e <= start + (24 * (p + size))
      /\ e = end \/ e = start + (24 * (p + size))
  BY DEF IsPart
<1>5. start = (24 * a) + h /\ 0 <= h /\ h <= 23 BY <1>1
<1>6. end = (24 * b) + k /\ 0 <= k /\ k <= 23 BY <1>2
<1>7. e = (24 * f) + l /\ 0 <= l /\ l <= 23 BY <1>3
<1>8. s = (24 * c) + h BY <1>0, <1>4, <1>5
<1>9. Day(s) = c
  <2>1. h \in 0..23 BY <1>5
  <2>2. QED BY <1>8, <2>1, DayAndHours
<1>10. c <= f /\ a <= b /\ f <= b /\ f <= c + size
  <2>1. (24 * c) + h <= (24 * f) + l BY <1>0, <1>7, <1>8
  <2>2. (24 * f) + l <= (24 * b) + k BY <1>0, <1>6, <1>7
  <2>3. (24 * a) + h <= (24 * b) + k BY <1>0, <1>5, <1>6
  <2>4. PICK g \in Int : g = c + size OBVIOUS
  <2>5. (24 * f) + l <= (24 * g) + h BY <1>0, <1>4, <1>5, <1>7, <2>4
  <2>6. QED BY <1>5, <1>6, <1>7, <2>1, <2>2, <2>3, <2>4, <2>5, DaysCompare
<1>11. AskedDays(source, s, e) = c .. (IF c = f THEN c ELSE f - 1)
  <2>1. s < e BY <1>0
  <2>2. f = Day(e) BY <1>3
  <2>3. AskedDays(source, s, e)
          = Day(s) .. (IF Day(s) = Day(e) THEN Day(s) ELSE Day(e) - 1)
    BY <2>1, AskedIs
  <2>4. QED BY <1>9, <2>2, <2>3
<1>12. ASSUME NEW d \in Int, d \in AskedDays(source, s, e)
       PROVE  d \in Int /\ a + p <= d /\ d < a + p + size /\ d \in TouchedDays(start, end)
  <2>1. d \in Int /\ c <= d /\ (d <= c \/ d + 1 <= f) /\ (c = f => d <= c)
    BY <1>10, <1>11, <1>12
  <2>2. d < a + p + size BY <1>0, <1>4, <1>10, <2>1
  <2>3. (24 * d) + 24 > s /\ 24 * d < e
    <3>1. (24 * d) + 24 > s BY <1>5, <1>8, <2>1
    <3>2. d + 1 <= f => 24 * d < e BY <1>7
    <3>3. d <= c => 24 * d < e BY <1>0, <1>5, <1>8
    <3>4. QED BY <2>1, <3>1, <3>2, <3>3
  <2>4. 24 * d < end /\ (24 * d) + 24 > start BY <1>0, <2>1, <2>3
  <2>5. a <= d /\ d <= b
    <3>1. 24 * d < (24 * b) + k BY <1>6, <2>4
    <3>2. d <= b BY <1>6, <2>1, <3>1, DaysCompare
    <3>3. QED BY <1>0, <1>4, <2>1, <3>2
  <2>6. d \in TouchedDays(start, end)
    <3>1. d \in Day(start) .. Day(end) BY <1>1, <1>2, <2>1, <2>5
    <3>2. QED BY <2>4, <3>1 DEF TouchedDays
  <2>7. QED BY <1>4, <2>1, <2>2, <2>6
<1>13. ASSUME NEW d \in Int, d \in WholeDays(start, end), a + p <= d, d < a + p + size
       PROVE  d \in AskedDays(source, s, e)
  <2>1. d \in Int /\ start <= 24 * d /\ (24 * d) + 24 <= end BY <1>13, <1>2 DEF WholeDays
  <2>2. c <= d BY <1>4, <1>13, <2>1
  <2>3. d + 1 <= f
    <3>1. CASE e = end
      <4>1. (24 * d) + 24 <= (24 * f) + l BY <1>7, <2>1, <3>1
      <4>2. QED BY <1>7, <2>1, <4>1, DaysCompare
    <3>2. CASE e = start + (24 * (p + size))
      <4>1. PICK g \in Int : g = c + size OBVIOUS
      <4>2. (24 * f) + l = (24 * g) + h BY <1>4, <1>5, <1>7, <3>2, <4>1
      <4>3. g <= f
        <5>1. (24 * g) + h <= (24 * f) + l BY <4>2, <1>5, <1>7
        <5>2. QED BY <1>5, <1>7, <4>1, <5>1, DaysCompare
      <4>4. QED BY <1>4, <1>13, <2>1, <4>1, <4>3
    <3>3. QED BY <1>0, <3>1, <3>2
  <2>4. QED BY <1>11, <2>1, <2>2, <2>3
<1>14. AskedDays(source, s, e) \subseteq Int BY <1>10, <1>11
<1>15. WholeDays(start, end) \subseteq Int BY <1>1, <1>2 DEF WholeDays
<1>16. QED BY <1>1, <1>12, <1>13, <1>14, <1>15 DEF DaysFit

LEMMA ChunkDays ==
  ASSUME NEW start \in Int, NEW end \in Int, start < end, NEW source \in Source,
         NEW size \in Nat \ {0}, NEW i \in DOMAIN Chunks(start, end, size)
  PROVE  LET chunk == Chunks(start, end, size)[i]
         IN  \E p \in Nat :
               /\ p = (i - 1) * size
               /\ DaysFit(start, end, size, p, AskedDays(source, chunk.start, chunk.end))
<1> DEFINE chunk == Chunks(start, end, size)[i]
<1>1. PICK p \in Nat :
        /\ p = (i - 1) * size /\ p < Begun(start, end)
        /\ chunk.start = start + (24 * p)
        /\ chunk.end = IF start + (24 * (p + size)) > end THEN end
                       ELSE start + (24 * (p + size))
        /\ start + (24 * p) < end
  BY ChunkIs
<1>2. PICK s \in Int, e \in Int :
        /\ s = start + (24 * p) /\ chunk.start = s /\ chunk.end = e
        /\ e = IF start + (24 * (p + size)) > end THEN end ELSE start + (24 * (p + size))
  BY <1>1
<1>3. /\ s = start + (24 * p) /\ s < e /\ e <= end /\ e <= start + (24 * (p + size))
      /\ e = end \/ e = start + (24 * (p + size))
  <2>1. start + (24 * p) < end BY <1>1
  <2>2. QED BY <1>2, <2>1
<1> HIDE DEF chunk
<1>4. PICK q \in Int, n \in Int : q = p /\ n = size /\ 0 <= q /\ 1 <= n OBVIOUS
<1>5. IsPart(start, end, n, q, s, e) BY <1>3, <1>4 DEF IsPart
<1>6. DaysFit(start, end, n, q, AskedDays(source, s, e)) BY <1>5, PartDays
<1>7. QED BY <1>1, <1>2, <1>4, <1>6 DEF chunk

LEMMA ChunksApart ==
  ASSUME NEW i \in Int, NEW j \in Int, i < j, NEW size \in Nat
  PROVE  ((i - 1) * size) + size <= (j - 1) * size
<1>1. PICK n \in Nat : j = i + 1 + n BY j - i - 1 \in Nat
<1>2. (j - 1) * size = (i * size) + (n * size) BY <1>1
<1>3. n * size >= 0 BY SMTT(10)
<1>4. ((i - 1) * size) + size = i * size OBVIOUS
<1>5. i * size \in Int /\ n * size \in Int OBVIOUS
<1>6. QED BY <1>2, <1>3, <1>4, <1>5

AskedOnce(source, start, end, size) ==
  LET cut      == Chunks(start, end, size)
      asked(i) == AskedDays(source, cut[i].start, cut[i].end)
      all      == UNION {asked(i) : i \in DOMAIN cut}
  IN  /\ \A i, j \in DOMAIN cut : i # j => asked(i) \cap asked(j) = {}
      /\ WholeDays(start, end) \subseteq all
      /\ all \subseteq TouchedDays(start, end)

\* No day is asked for twice, every whole day is, and no day outside the range.
LEMMA AskedOnceHolds ==
  ASSUME NEW start \in Int, NEW end \in Int, start < end,
         NEW size \in Nat \ {0}, NEW source \in Source
  PROVE  AskedOnce(source, start, end, size)
<1> DEFINE cut      == Chunks(start, end, size)
           asked(i) == AskedDays(source, cut[i].start, cut[i].end)
           all      == UNION {asked(i) : i \in DOMAIN cut}
           N        == (Begun(start, end) + size - 1) \div size
<1> SUFFICES /\ \A i, j \in DOMAIN cut : i # j => asked(i) \cap asked(j) = {}
             /\ WholeDays(start, end) \subseteq all
             /\ all \subseteq TouchedDays(start, end)
  BY Zenon DEF AskedOnce
<1>1. PICK a \in Int, h \in 0..23 : a = Day(start) /\ h = Hours(start) /\ start = (24 * a) + h
  BY DayAndHours
<1>2. PICK b \in Int : b = Begun(start, end) /\ 24 * b >= end - start
  BY SMTT(10) DEF Begun
<1>3. N \in Int /\ b <= size * N
  <2>1. PICK x \in Int : x = b + size - 1 OBVIOUS
  <2>2. x \div size \in Int /\ x < (size * (x \div size)) + size BY Euclid
  <2>3. PICK n \in Int : n = x \div size BY <2>2
  <2>4. size * n \in Int /\ x < (size * n) + size BY <2>2, <2>3
  <2>5. b <= size * n BY <2>1, <2>4
  <2>6. QED BY <1>2, <2>1, <2>3, <2>5
<1>4. DOMAIN cut = 1..N BY DEF Chunks
<1>5. ASSUME NEW i \in 1..N
      PROVE  \E p \in Nat : p = (i - 1) * size /\ DaysFit(start, end, size, p, asked(i))
  <2>1. i \in DOMAIN cut BY <1>4
  <2>2. QED BY <2>1, ChunkDays
<1> HIDE DEF cut, asked, N
<1>7. ASSUME NEW i \in 1..N, NEW j \in 1..N, i < j PROVE asked(i) \cap asked(j) = {}
  <2>1. PICK p \in Nat : p = (i - 1) * size /\ \A d \in asked(i) : d \in Int /\ d < a + p + size
    BY <1>1, <1>5 DEF DaysFit
  <2>2. PICK q \in Nat : q = (j - 1) * size /\ \A d \in asked(j) : d \in Int /\ a + q <= d
    BY <1>1, <1>5 DEF DaysFit
  <2>3. i \in Int /\ j \in Int /\ size \in Nat BY <1>3
  <2>4. p + size <= q BY <1>7, <2>1, <2>2, <2>3, ChunksApart
  <2>5. SUFFICES ASSUME NEW d \in asked(i) \cap asked(j) PROVE FALSE OBVIOUS
  <2>6. d \in Int /\ d < a + p + size /\ a + q <= d BY <2>1, <2>2
  <2>7. QED BY <2>4, <2>6
<1>8. \A i, j \in DOMAIN cut : i # j => asked(i) \cap asked(j) = {}
  <2>1. SUFFICES ASSUME NEW i \in 1..N, NEW j \in 1..N, i # j
                 PROVE  asked(i) \cap asked(j) = {}
    BY <1>4
  <2>2. i < j \/ j < i BY <1>3, <2>1
  <2>3. QED BY <1>7, <2>2
<1>9. ASSUME NEW d \in WholeDays(start, end) PROVE d \in all
  <2>1. PICK c \in Int : c = Day(end) BY DayAndHours
  <2>2. d \in Int /\ a <= d /\ start <= 24 * d /\ (24 * d) + 24 <= end
    BY <1>1, <2>1 DEF WholeDays
  <2>3. PICK r \in Nat : r = d - a BY <2>2
  <2>4. r < b
    <3>1. start = (24 * a) + h /\ 0 <= h /\ 24 * b >= end - start BY <1>1, <1>2
    <3>2. 24 * b >= 24 + (24 * (d - a)) - h BY <2>2, <3>1
    <3>3. start <= 24 * d /\ h <= 23 BY <1>1, <2>2
    <3>4. QED BY <2>2, <2>3, <3>2, <3>3
  <2>5. PICK n \in Int : n = r \div size /\ size * n <= r /\ r < (size * n) + size
    BY Euclid
  <2>6. size * n <= r /\ r < (size * n) + size BY <2>5
  <2>7. n >= 0
    <3>1. SUFFICES ASSUME n + 1 <= 0 PROVE FALSE OBVIOUS
    <3>2. PICK m \in Nat : n = -(m + 1) BY <3>1, -(n + 1) \in Nat
    <3>3. (size * n) + size = -(size * m) /\ size * m >= 0 /\ size * m \in Int
      BY <3>2, SMTT(10)
    <3>4. QED BY <2>6, <3>3
  <2>8. n + 1 <= N
    <3>1. SUFFICES ASSUME N <= n PROVE FALSE BY <1>3
    <3>2. PICK m \in Nat : n = N + m BY <1>3, <3>1, n - N \in Nat
    <3>3. size * n = (size * N) + (size * m) /\ size * m >= 0
      BY <1>3, <3>2, SMTT(10)
    <3>4. size * n \in Int /\ size * N \in Int /\ size * m \in Int BY <1>3
    <3>5. QED BY <1>3, <2>4, <2>6, <3>3, <3>4
  <2>9. PICK i \in 1..N : i = n + 1 BY <1>3, <2>7, <2>8
  <2>10. PICK p \in Nat : /\ p = (i - 1) * size
                          /\ a + p <= d /\ d < a + p + size => d \in asked(i)
    BY <1>1, <1>5 DEF DaysFit
  <2>11. p = size * n
    <3>1. i - 1 = n BY <2>9
    <3>2. QED BY <2>10, <3>1
  <2>12. a + p <= d /\ d < a + p + size BY <2>2, <2>3, <2>6, <2>11
  <2>13. QED BY <1>4, <2>10, <2>12
<1>10. all \subseteq TouchedDays(start, end)
  <2>1. ASSUME NEW i \in 1..N PROVE asked(i) \subseteq TouchedDays(start, end)
    BY <1>1, <1>5 DEF DaysFit
  <2>2. QED BY <1>4, <2>1
<1>11. QED BY <1>8, <1>9, <1>10 DEF cut, asked

\* chunkByDays with the connectors: no day is asked for twice, every whole day of
\* the range is, and no day outside it (backfill.ts 159-172, ga4.ts 215-235,
\* cloudflare-analytics.ts 214-227).
THEOREM ChunksAskOnce ==
  ASSUME NEW start \in Int, NEW end \in Int, start < end,
         NEW size \in Nat \ {0}, NEW source \in Source
  PROVE  LET cut      == Chunks(start, end, size)
             asked(i) == AskedDays(source, cut[i].start, cut[i].end)
             all      == UNION {asked(i) : i \in DOMAIN cut}
         IN  /\ \A i, j \in DOMAIN cut : i # j => asked(i) \cap asked(j) = {}
             /\ WholeDays(start, end) \subseteq all
             /\ all \subseteq TouchedDays(start, end)
<1>1. AskedOnce(source, start, end, size) BY AskedOnceHolds
<1>2. QED BY <1>1, Zenon DEF AskedOnce


(***************************************************************************)
(* The windows of the board.                                               *)
(***************************************************************************)
LEMMA QuarterLength ==
  ASSUME NEW k \in Int, NEW j \in Int, j = k - 3
  PROVE  MStart(k) \in Int /\ MStart(j) \in Int /\ MStart(k) - MStart(j) \in 89..92
<1>1. PICK y \in Int, m \in 0..11 : y = k \div 12 /\ m = k % 12 /\ k = (12 * y) + m
  BY SMTT(10)
<1>2. MStart(k) \in Int /\ MStart(j) \in Int BY MonthsRise
<1>3. MStart(k) = NewYear(y) + Before(y, m) BY <1>1 DEF MStart, MonthStart
<1>4. m \in {0, 1, 2, 3, 4, 5, 6, 7, 8, 9, 10, 11} BY <1>1
<1>5. NewYear(y) \in Int /\ LeapDay(y) \in 0..1 BY NewYearType
<1>6. CASE m >= 3
  <2>1. j \div 12 = y /\ j % 12 = m - 3 BY <1>1, <1>6, SMTT(10)
  <2>2. MStart(j) = NewYear(y) + Before(y, m - 3) BY <2>1 DEF MStart, MonthStart
  <2>3. QED BY <1>2, <1>3, <1>4, <1>5, <1>6, <2>2, BeforeIs, SMTT(20)
<1>7. CASE m < 3
  <2>1. PICK z \in Int : z = y - 1 /\ y = z + 1 BY <1>1
  <2>2. j \div 12 = z /\ j % 12 = m + 9 BY <1>1, <1>7, <2>1, SMTT(10)
  <2>3. MStart(j) = NewYear(z) + Before(z, m + 9) BY <2>2 DEF MStart, MonthStart
  <2>4. NewYear(z) \in Int /\ LeapDay(z) \in 0..1 BY NewYearType
  <2>5. NewYear(y) = NewYear(z) + 365 + LeapDay(z) BY <2>1, YearLength
  <2>6. /\ Before(z, 9) = 273 + LeapDay(z) /\ Before(z, 10) = 304 + LeapDay(z)
        /\ Before(z, 11) = 334 + LeapDay(z)
    BY BeforeIs
  <2>7. Before(y, 0) = 0 /\ Before(y, 1) = 31 /\ Before(y, 2) = 59 + LeapDay(y) BY BeforeIs
  <2>8. m \in {0, 1, 2} BY <1>4, <1>7
  <2>9. QED BY <1>2, <1>3, <1>5, <2>3, <2>4, <2>5, <2>6, <2>7, <2>8, SMTT(20)
<1>8. QED BY <1>1, <1>6, <1>7

LEMMA TwelveMonths ==
  ASSUME NEW k \in Int, NEW j \in Int, j = k - 12
  PROVE  MStart(k) \in Int /\ MStart(j) \in Int /\ MStart(k) - MStart(j) \in 365..366
<1>1. PICK y \in Int, z \in Int, m \in 0..11 :
        y = k \div 12 /\ z = y - 1 /\ y = z + 1 /\ m = k % 12 /\ k = (12 * y) + m
  BY SMTT(10)
<1>2. MStart(k) \in Int /\ MStart(j) \in Int BY MonthsRise
<1>3. j \div 12 = z /\ j % 12 = m BY <1>1, SMTT(10)
<1>4. MStart(k) = NewYear(y) + Before(y, m) BY <1>1 DEF MStart, MonthStart
<1>5. MStart(j) = NewYear(z) + Before(z, m) BY <1>3 DEF MStart, MonthStart
<1>6. NewYear(y) = NewYear(z) + 365 + LeapDay(z) BY <1>1, YearLength
<1>7. NewYear(z) \in Int /\ LeapDay(z) \in 0..1 /\ LeapDay(y) \in 0..1 BY NewYearType
<1>8. PICK n \in Int : n = DaysBefore[m + 1]
  <2>1. m \in {0, 1, 2, 3, 4, 5, 6, 7, 8, 9, 10, 11} BY <1>1
  <2>2. QED BY <2>1, SMTT(10) DEF DaysBefore
<1>9. /\ Before(y, m) = n + (IF m > 1 THEN LeapDay(y) ELSE 0)
      /\ Before(z, m) = n + (IF m > 1 THEN LeapDay(z) ELSE 0)
  BY <1>8 DEF Before, LeapDay
<1>10. QED BY <1>2, <1>4, <1>5, <1>6, <1>7, <1>9

MonthsBack(comparison) == CASE comparison = "yoy" -> 12 [] comparison = "qoq" -> 3
                            [] comparison = "mom" -> 1
LeastBack(comparison)  == CASE comparison = "yoy" -> 365 [] comparison = "qoq" -> 89
                            [] comparison = "mom" -> 28

\* Whole months later, or earlier, by the setter.
LEMMA MonthBack ==
  ASSUME NEW x \in Int, NEW t \in Int, t = 24 * x, NEW n \in Int,
         NEW k \in Int, k = MonthOf(t), NEW j \in Int, j = k - n
  PROVE  SetMonth(t, Month(t) - n) = 24 * (x - (MStart(k) - MStart(j)))
<1>1. Day(t) = x /\ Hours(t) = 0 BY MidnightOf
<1>2. Date(t) = x - MStart(k) + 1 /\ MStart(k) \in Int /\ Month(t) \in Int
  BY <1>1, MonthOfInstant
<1>3. PICK m \in Int : m = -n OBVIOUS
<1>4. SetMonth(t, Month(t) + m) = (24 * (MStart(MonthOf(t) + m) + Date(t) - 1)) + Hours(t)
  BY SetMonthMoves
<1>5. MonthOf(t) + m = j /\ Month(t) + m = Month(t) - n BY <1>2, <1>3
<1>6. MStart(j) \in Int BY MonthsRise
<1>7. SetMonth(t, Month(t) - n) = (24 * (MStart(j) + Date(t) - 1)) + 0
  BY <1>1, <1>4, <1>5
<1>8. QED BY <1>2, <1>6, <1>7

LEMMA YearBack ==
  ASSUME NEW x \in Int, NEW t \in Int, t = 24 * x,
         NEW k \in Int, k = MonthOf(t), NEW j \in Int, j = k - 12
  PROVE  SetYear(t, Year(t) - 1) = 24 * (x - (MStart(k) - MStart(j)))
<1>1. Day(t) = x /\ Hours(t) = 0 BY MidnightOf
<1>2. /\ Date(t) = x - MStart(k) + 1 /\ MStart(k) \in Int /\ Month(t) \in Int
      /\ Year(t) \in Int /\ Date(t) \in Int
  BY <1>1, MonthOfInstant
<1>3. PICK y \in Int, m \in Int, d \in Int : y = Year(t) - 1 /\ m = Month(t) /\ d = Date(t)
  BY <1>2
<1>4. j = (12 * y) + m BY <1>2, <1>3 DEF MonthOf
<1>5. UTC(y, m, d) = MStart(j) + d - 1
  <2>1. PICK i \in Int : i = (12 * y) + m OBVIOUS
  <2>2. UTC(y, m, d) = MStart(i) + d - 1 BY <2>1, UTCOfMonth
  <2>3. QED BY <1>4, <2>1, <2>2
<1>6. MStart(j) \in Int BY MonthsRise
<1>7. SetYear(t, Year(t) - 1) = (24 * (MStart(j) + d - 1)) + 0
  BY <1>1, <1>3, <1>5 DEF SetYear, Year, Month, Date
<1>8. QED BY <1>2, <1>3, <1>6, <1>7

\* A comparison goes back by the days of as many months: the same number for all
\* days of a month, and never more than three days more than the least.
LEMMA EarlierIs ==
  ASSUME NEW x \in Int, NEW t \in Int, t = 24 * x, NEW c \in {"yoy", "qoq", "mom"},
         NEW k \in Int, k = MonthOf(t)
  PROVE  \E back \in Int : /\ back = MStart(k) - MStart(k - MonthsBack(c))
                           /\ LeastBack(c) <= back /\ back <= LeastBack(c) + 3
                           /\ Earlier(t, c) = 24 * (x - back)
<1>1. CASE c = "yoy"
  <2>1. PICK j \in Int : j = k - 12 OBVIOUS
  <2>2. PICK back \in Int : back = MStart(k) - MStart(j) /\ back \in 365..366
    BY <2>1, TwelveMonths
  <2>3. SetYear(t, Year(t) - 1) = 24 * (x - back) BY <2>1, <2>2, YearBack
  <2>4. QED BY <1>1, <2>1, <2>2, <2>3 DEF Earlier, MonthsBack, LeastBack
<1>2. CASE c = "qoq"
  <2>1. PICK j \in Int, n \in Int : n = 3 /\ j = k - n /\ j = k - 3 OBVIOUS
  <2>2. PICK back \in Int : back = MStart(k) - MStart(j) /\ back \in 89..92
    BY <2>1, QuarterLength
  <2>3. SetMonth(t, Month(t) - n) = 24 * (x - back) BY <2>1, <2>2, MonthBack
  <2>4. QED BY <1>2, <2>1, <2>2, <2>3 DEF Earlier, MonthsBack, LeastBack
<1>3. CASE c = "mom"
  <2>1. PICK j \in Int, n \in Int : n = 1 /\ j = k - n /\ k = j + 1 OBVIOUS
  <2>2. PICK back \in Int : back = MStart(k) - MStart(j) /\ 28 <= back /\ back <= 31
    <3>1. /\ MStart(j) \in Int /\ MStart(j + 1) \in Int
          /\ MStart(j) + 28 <= MStart(j + 1) /\ MStart(j + 1) <= MStart(j) + 31
      BY MonthsRise
    <3>2. QED BY <2>1, <3>1
  <2>3. SetMonth(t, Month(t) - n) = 24 * (x - back) BY <2>1, <2>2, MonthBack
  <2>4. QED BY <1>3, <2>1, <2>2, <2>3 DEF Earlier, MonthsBack, LeastBack
<1>4. QED BY <1>1, <1>2, <1>3


\* What the board compares: a window of so many days with one as long, up to three
\* days more or less, that begins and ends earlier (metrics.ts 107-139).
LEMMA ComparedWindow ==
  ASSUME NEW a \in Int, NEW b \in Int, a <= b, NEW s \in Int, NEW e \in Int,
         s = 24 * a, e = 24 * b, NEW c \in {"yoy", "qoq", "mom"},
         a + 3 <= b \/ MonthOf(s) = MonthOf(e)
  PROVE  \E f \in Int, g \in Int :
           /\ Earlier(s, c) = 24 * f /\ Earlier(e, c) = 24 * g
           /\ f <= g /\ f < a /\ g < b /\ (g - f) - (b - a) \in -3..3
<1>1. PICK k \in Int, l \in Int : k = MonthOf(s) /\ l = MonthOf(e) BY MonthOfInstant
<1>2. PICK x \in Int : /\ x = MStart(k) - MStart(k - MonthsBack(c))
                       /\ LeastBack(c) <= x /\ x <= LeastBack(c) + 3
                       /\ Earlier(s, c) = 24 * (a - x)
  BY <1>1, EarlierIs
<1>3. PICK y \in Int : /\ y = MStart(l) - MStart(l - MonthsBack(c))
                       /\ LeastBack(c) <= y /\ y <= LeastBack(c) + 3
                       /\ Earlier(e, c) = 24 * (b - y)
  BY <1>1, EarlierIs
<1>4. PICK n \in Int : n = LeastBack(c) /\ 28 <= n BY DEF LeastBack
<1>5. n <= x /\ x <= n + 3 /\ n <= y /\ y <= n + 3 BY <1>2, <1>3, <1>4
<1>6. MonthOf(s) = MonthOf(e) => x = y BY <1>1, <1>2, <1>3
<1>7. PICK f \in Int, g \in Int : f = a - x /\ g = b - y OBVIOUS
<1>8. f < a /\ g < b /\ (g - f) - (b - a) \in -3..3 BY <1>4, <1>5, <1>7
<1>9. f <= g
  <2>1. CASE a + 3 <= b BY <1>5, <1>7, <2>1
  <2>2. CASE MonthOf(s) = MonthOf(e) BY <1>6, <1>7, <2>2
  <2>3. QED BY <2>1, <2>2
<1>10. Earlier(s, c) = 24 * f /\ Earlier(e, c) = 24 * g BY <1>2, <1>3, <1>7
<1>11. QED BY <1>8, <1>9, <1>10

LEMMA BoardStartIs ==
  ASSUME NEW b \in Int, NEW e \in Int, e = 24 * b, NEW period \in Period
  PROVE  \E a \in Int : /\ BoardStart(e, period) = 24 * a /\ a <= b
                        /\ a + 3 <= b \/ MonthOf(24 * a) = MonthOf(e)
<1>1. PICK k \in Int : k = MonthOf(e) BY MonthOfInstant
<1>2. Day(e) = b /\ Hours(e) = 0 BY MidnightOf
<1>3. /\ MStart(k) \in Int /\ MStart(k + 1) \in Int
      /\ Date(e) = b - MStart(k) + 1 /\ MStart(k) <= b /\ b < MStart(k + 1)
      /\ Year(e) = k \div 12 /\ Month(e) = k % 12 /\ Year(e) \in Int /\ Month(e) \in 0..11
      /\ Date(e) \in Int
  BY <1>1, <1>2, MonthOfInstant
<1>4. CASE period = "week"
  <2>1. PICK n \in Int : n = 7 OBVIOUS
  <2>2. SetDate(e, Date(e) - n) = e - (24 * n) BY DatesBack
  <2>3. PICK a \in Int : a = b - 7 OBVIOUS
  <2>4. BoardStart(e, period) = 24 * a BY <1>4, <2>1, <2>2, <2>3 DEF BoardStart
  <2>5. a + 3 <= b /\ a <= b BY <2>3
  <2>6. QED BY <2>4, <2>5
<1>5. CASE period = "month"
  <2>1. PICK j \in Int, n \in Int : n = 1 /\ j = k - n /\ k = j + 1 OBVIOUS
  <2>2. SetMonth(e, Month(e) - n) = 24 * (b - (MStart(k) - MStart(j)))
    BY <1>1, <2>1, MonthBack
  <2>3. MStart(j) \in Int /\ MStart(j) + 28 <= MStart(k) BY <2>1, MonthsRise
  <2>4. PICK a \in Int : a = b - (MStart(k) - MStart(j)) BY <1>3, <2>3
  <2>5. BoardStart(e, period) = 24 * a BY <1>5, <2>1, <2>2, <2>4 DEF BoardStart
  <2>6. a + 3 <= b /\ a <= b BY <1>3, <2>3, <2>4
  <2>7. QED BY <2>5, <2>6
<1>6. CASE period = "quarter"
  <2>1. PICK j \in Int, n \in Int : n = 3 /\ j = k - n /\ j = k - 3 OBVIOUS
  <2>2. SetMonth(e, Month(e) - n) = 24 * (b - (MStart(k) - MStart(j)))
    BY <1>1, <2>1, MonthBack
  <2>3. MStart(j) \in Int /\ MStart(k) - MStart(j) \in 89..92 BY <2>1, QuarterLength
  <2>4. PICK a \in Int : a = b - (MStart(k) - MStart(j)) BY <1>3, <2>3
  <2>5. BoardStart(e, period) = 24 * a BY <1>6, <2>1, <2>2, <2>4 DEF BoardStart
  <2>6. a + 3 <= b /\ a <= b BY <1>3, <2>3, <2>4
  <2>7. QED BY <2>5, <2>6
<1>7. CASE period = "ytd"
  <2>1. PICK y \in Int, m \in 0..11, d \in Int :
          y = Year(e) /\ m = Month(e) /\ d = Date(e)
    BY <1>3
  <2>2. PICK j \in Int : j = 12 * y OBVIOUS
  <2>3. k = j + m
    <3>1. k = (12 * Year(e)) + Month(e) BY <1>1 DEF MonthOf
    <3>2. QED BY <2>1, <2>2, <3>1
  <2>4. SetMonth(e, 0) = 24 * (MStart(j) + d - 1)
    <3>1. PICK z \in Int, i \in Int : z = 0 /\ i = (12 * y) + z OBVIOUS
    <3>2. UTC(y, z, d) = MStart(i) + d - 1 BY <3>1, UTCOfMonth
    <3>3. i = j BY <2>2, <3>1
    <3>4. SetMonth(e, 0) = (24 * UTC(y, z, d)) + 0
      BY <1>2, <2>1, <3>1 DEF SetMonth, Year, Date
    <3>5. MStart(j) \in Int BY MonthsRise
    <3>6. QED BY <3>2, <3>3, <3>4, <3>5
  <2>5. MStart(j) \in Int /\ MStart(j + 1) \in Int /\ MStart(j + 1) = MStart(j) + 31
    <3>1. PICK i \in Int : i = j + 1 /\ j \div 12 = y /\ j % 12 = 0
                           /\ i \div 12 = y /\ i % 12 = 1
      BY <2>2, SMTT(10)
    <3>2. MStart(j) = NewYear(y) + Before(y, 0) /\ MStart(i) = NewYear(y) + Before(y, 1)
      BY <3>1 DEF MStart, MonthStart
    <3>3. Before(y, 0) = 0 /\ Before(y, 1) = 31 BY BeforeIs
    <3>4. NewYear(y) \in Int BY NewYearType
    <3>5. QED BY <3>1, <3>2, <3>3, <3>4
  <2>6. 1 <= d /\ d <= 31
    <3>1. MStart(k + 1) <= MStart(k) + 31 BY MonthsRise
    <3>2. QED BY <1>3, <2>1, <3>1
  <2>7. PICK x \in Int, t \in Int : x = MStart(j) + d - 1 /\ t = 24 * x BY <2>5
  <2>8. MonthOf(t) = j
    <3>1. Day(t) = x BY <2>7, MidnightOf
    <3>2. MStart(j) <= Day(t) /\ Day(t) < MStart(j + 1) BY <2>5, <2>6, <2>7, <3>1
    <3>3. QED BY <3>2, MonthIsTheOne
  <2>9. Hours(t) = 0 BY <2>7, MidnightOf
  <2>10. PICK a \in Int : a = MStart(j) BY <2>5
  <2>11. First(t) = (24 * MStart(j)) + 0 BY <2>8, <2>9, Firsts
  <2>12. BoardStart(e, period) = 24 * a
    BY <1>7, <2>4, <2>7, <2>10, <2>11 DEF BoardStart
  <2>13. MonthOf(24 * a) = j BY <2>10, MonthBegins
  <2>14. CASE m = 0
    <3>1. k = j BY <2>3, <2>14
    <3>2. a <= b BY <1>3, <2>10, <3>1
    <3>3. QED BY <1>1, <2>12, <2>13, <3>1, <3>2
  <2>15. CASE m # 0
    <3>1. j < k BY <2>3, <2>15
    <3>2. MStart(j + 1) <= MStart(k) BY <3>1, MonthsRise
    <3>3. a + 3 <= b /\ a <= b BY <1>3, <2>5, <2>10, <3>2
    <3>4. QED BY <2>12, <3>3
  <2>16. QED BY <2>14, <2>15
<1>8. QED BY <1>4, <1>5, <1>6, <1>7 DEF Period

\* computeComparisonWindows at any moment (metrics.ts 107-139).
THEOREM BoardCompares ==
  ASSUME NEW now \in Int, NEW period \in Period, NEW comparison \in Comparison
  PROVE  LET w == BoardWindows(now, period, comparison)
         IN  /\ w.cur.start <= w.cur.end /\ w.prev.start <= w.prev.end
             /\ comparison # "none" => w.prev.start < w.cur.start /\ w.prev.end < w.cur.end
             /\ DaysIn(w.prev) - DaysIn(w.cur) \in -3..3
<1> DEFINE w == BoardWindows(now, period, comparison)
<1> SUFFICES
      /\ w.cur.start <= w.cur.end /\ w.prev.start <= w.prev.end
      /\ comparison # "none" => w.prev.start < w.cur.start /\ w.prev.end < w.cur.end
      /\ DaysIn(w.prev) - DaysIn(w.cur) \in -3..3
    OBVIOUS
<1>1. PICK b \in Int, e \in Int : /\ e = 24 * UTC(Year(now), Month(now), Date(now))
                                  /\ e = 24 * b
  <2>1. PICK y \in Int, m \in Int, d \in Int :
          y = Year(now) /\ m = Month(now) /\ d = Date(now)
    <3>1. Year(now) \in Int /\ Month(now) \in Int /\ Date(now) \in Int BY MonthOfInstant
    <3>2. QED BY <3>1
  <2>2. PICK k \in Int : k = (12 * y) + m OBVIOUS
  <2>3. UTC(y, m, d) = MStart(k) + d - 1 BY <2>2, UTCOfMonth
  <2>4. MStart(k) \in Int BY MonthsRise
  <2>5. PICK b \in Int, e \in Int : b = MStart(k) + d - 1 /\ e = 24 * b BY <2>4
  <2>6. QED BY <2>1, <2>3, <2>5
<1>2. PICK a \in Int : /\ BoardStart(e, period) = 24 * a /\ a <= b
                       /\ a + 3 <= b \/ MonthOf(24 * a) = MonthOf(e)
  BY <1>1, BoardStartIs
<1>3. PICK s \in Int : s = 24 * a /\ s <= e BY <1>1, <1>2
<1>4. w.cur.start = s /\ w.cur.end = e BY <1>1, <1>2, <1>3 DEF BoardWindows
<1>5. w.prev.start = Earlier(s, comparison) /\ w.prev.end = Earlier(e, comparison)
  BY <1>1, <1>2, <1>3 DEF BoardWindows
<1> HIDE DEF w
<1>6. ASSUME NEW x \in Int, NEW y \in Int, NEW v, v.start = 24 * x, v.end = 24 * y
      PROVE  DaysIn(v) = y - x
  <2>1. PICK n \in Int : n = y - x OBVIOUS
  <2>2. v.end - v.start = 24 * n BY <1>6, <2>1
  <2>3. (24 * n) \div 24 = n BY SMTT(10)
  <2>4. QED BY <2>1, <2>2, <2>3 DEF DaysIn
<1>7. DaysIn(w.cur) = b - a BY <1>1, <1>3, <1>4, <1>6
<1>8. CASE comparison = "none"
  <2>1. w.prev.start = s /\ w.prev.end = e BY <1>5, <1>8 DEF Earlier
  <2>2. DaysIn(w.prev) = b - a BY <1>1, <1>3, <1>6, <2>1
  <2>3. (b - a) - (b - a) \in -3..3 OBVIOUS
  <2>4. QED BY <1>3, <1>4, <1>7, <1>8, <2>1, <2>2, <2>3
<1>9. CASE comparison # "none"
  <2>1. comparison \in {"yoy", "qoq", "mom"} BY <1>9 DEF Comparison
  <2>2. a <= b /\ s = 24 * a /\ e = 24 * b /\ (a + 3 <= b \/ MonthOf(s) = MonthOf(e))
    BY <1>1, <1>2, <1>3
  <2>3. PICK f \in Int, g \in Int :
          /\ Earlier(s, comparison) = 24 * f /\ Earlier(e, comparison) = 24 * g
          /\ f <= g /\ f < a /\ g < b /\ (g - f) - (b - a) \in -3..3
    BY <2>1, <2>2, ComparedWindow
  <2>4. w.prev.start = 24 * f /\ w.prev.end = 24 * g BY <1>5, <2>3
  <2>5. DaysIn(w.prev) = g - f BY <1>6, <2>4
  <2>6. 24 * f <= 24 * g /\ 24 * f < s /\ 24 * g < e BY <2>2, <2>3
  <2>7. QED BY <1>3, <1>4, <1>7, <2>3, <2>4, <2>5, <2>6
<1>10. QED BY <1>8, <1>9

(***************************************************************************)
(* What kind of value each of these is.                                    *)
(***************************************************************************)
LEMMA WindowType ==
  ASSUME NEW now \in Int, NEW g \in Granularity
  PROVE  Window(now, g) \in [start: Int, end: Int]
<1>1. Window(now, g) = [start |-> Window(now, g).start, end |-> WindowEnd(now, g)]
  <2> DEFINE end == WindowEnd(now, g)
             start == CASE g = "hour"    -> end - 1
                        [] g = "day"     -> SetDate(end, Date(end) - 1)
                        [] g = "week"    -> SetDate(end, Date(end) - 7)
                        [] g = "month"   -> SetMonth(end, Month(end) - 1)
                        [] g = "quarter" -> SetMonth(end, Month(end) - 3)
  <2>1. Window(now, g) = [start |-> start, end |-> end] BY Zenon DEF Window
  <2> HIDE DEF start, end
  <2>2. Window(now, g).start = start BY <2>1
  <2>3. QED BY <2>1, <2>2, Zenon DEF end
<1>2. CASE g = "hour"
  <2>1. WindowEnd(now, g) = now /\ Window(now, g).start = now - 1
    BY <1>2 DEF Window, WindowEnd
  <2>2. QED BY <1>1, <2>1
<1>3. CASE g # "hour"
  <2>1. g \in RollupGranularity BY <1>3 DEF RollupGranularity
  <2>2. PICK e \in Int : BucketStart(now, g) = 24 * e /\ Begins(e, g)
    BY <2>1, BucketBegins
  <2>3. WindowEnd(now, g) = 24 * e
    BY <2>1, <2>2 DEF WindowEnd, BucketStart, RollupGranularity, Granularity
  <2>4. PICK b \in Int : Window(now, g).start = 24 * b
    BY <2>1, <2>2, <2>3, WindowStarts
  <2>5. 24 * b \in Int /\ 24 * e \in Int OBVIOUS
  <2>6. QED BY <1>1, <2>3, <2>4, <2>5
<1>4. QED BY <1>2, <1>3

LEMMA AskedType ==
  ASSUME NEW s \in Int, NEW e \in Int, NEW source \in Source
  PROVE  AskedDays(source, s, e) \subseteq Int
<1>1. Day(s) \in Int /\ Day(e) \in Int BY DayAndHours
<1>2. CASE s < e
  <2>1. AskedDays(source, s, e) = Day(s) .. (IF Day(s) = Day(e) THEN Day(s) ELSE Day(e) - 1)
    BY <1>2, AskedIs
  <2>2. QED BY <1>1, <2>1
<1>3. CASE ~(s < e)
  <2>1. Ga4Days(s, e) = {Day(s)} BY <1>3 DEF Ga4Days
  <2>2. CloudflareDays(s, e) = Day(s) .. (Day(e) - 1) BY <1>3 DEF CloudflareDays
  <2>3. QED BY <1>1, <2>1, <2>2 DEF AskedDays, Source
<1>4. QED BY <1>2, <1>3

\* The bucket of a day is the day.
LEMMA DayBucket ==
  ASSUME NEW d \in Int
  PROVE  BucketStart(24 * d, "day") \in Int
<1>1. 24 * d \in Int /\ Day(24 * d) = d BY MidnightOf
<1>2. BucketStart(24 * d, "day") = (24 * Day(24 * d)) + 0
  BY DEF BucketStart, Midnight, SetHours
<1>3. QED BY <1>1, <1>2
===============================================================================
