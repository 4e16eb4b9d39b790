--------------------------- MODULE Settings_proofs ---------------------------
(***************************************************************************)
(* Proofs about Settings: the stamp stays a stamp and is timely, the       *)
(* version is not behind while numbers grow, what boots is whole, the      *)
(* download implements Upgrades, the task survives.                        *)
(***************************************************************************)
EXTENDS Settings, TLAPS

-----------------------------------------------------------------------------
(* The calendar.                                                           *)

\* The length of a month is between 28 and 31 days.
LEMMA LengthType ==
  ASSUME NEW y \in Nat, NEW m \in 1 .. 12
  PROVE  Length(y, m) \in 28 .. 31
BY DEF Length

\* One day past the end of a month makes a stamp of the next.
LEMMA NextMonthType ==
  ASSUME NEW s \in [Y : 0 .. 255, M : 1 .. 12, D : 1 .. 32, H : 0 .. 23,
                    Min : 0 .. 59, S : 0 .. 59]
  PROVE  NextMonth(s) \in Stamp
<1> DEFINE l == Length(s.Y, s.M)
<1>1. l \in 28 .. 31
  BY LengthType
<1>2. CASE s.D <= l
  <2>1. s.D \in 1 .. 31 /\ NextMonth(s) = s
    BY <1>1, <1>2 DEF NextMonth
  <2> QED
    BY <2>1 DEF Stamp
<1>3. CASE s.D > l
  <2> DEFINE D == s.D - l
             M == IF s.M = 12 THEN 1 ELSE s.M + 1
             Y == IF s.M = 12 THEN (s.Y + 1) % 256 ELSE s.Y
  <2>1. NextMonth(s) = At(Y, M, D, s.H, s.Min, s.S)
    BY <1>1, <1>3 DEF NextMonth
  <2>2. D \in 1 .. 31 /\ M \in 1 .. 12 /\ Y \in 0 .. 255
    BY <1>1, <1>3
  <2> HIDE DEF D, M, Y
  <2> QED
    BY <2>1, <2>2 DEF Stamp, At
<1> QED
  BY <1>1, <1>2, <1>3

\* What Advance carries from the seconds into the minutes and the hours.
Sec(s, e)  == (s.S + e) % 256
Min(s, e)  == s.Min + Sec(s, e) \div 60
Hour(s, e) == s.H + Min(s, e) \div 60
Moved(s, e) ==
  At(s.Y, s.M, s.D + Hour(s, e) \div 24, Hour(s, e) % 24, Min(s, e) % 60, Sec(s, e) % 60)

LEMMA Carry ==
  ASSUME NEW s \in Stamp, NEW e \in Nat
  PROVE  /\ Sec(s, e) \in 0 .. 255 /\ Min(s, e) \in 0 .. 63 /\ Hour(s, e) \in 0 .. 24
         /\ Sec(s, e) % 60 \in 0 .. 59 /\ Min(s, e) % 60 \in 0 .. 59
         /\ Hour(s, e) % 24 \in 0 .. 23
         /\ Hour(s, e) <= 23 => Hour(s, e) % 24 = Hour(s, e) /\ Hour(s, e) \div 24 = 0
         /\ Hour(s, e) > 23 => Hour(s, e) % 24 = 0 /\ Hour(s, e) \div 24 = 1
<1>1. s.S \in 0 .. 59 /\ s.Min \in 0 .. 59 /\ s.H \in 0 .. 23
  BY DEF Stamp
<1>2. Sec(s, e) \in 0 .. 255
  <2> DEFINE n == s.S + e
  <2>1. n \in Nat
    BY <1>1
  <2> HIDE DEF n
  <2>2. n % 256 \in 0 .. 255
    BY <2>1
  <2> QED
    BY <2>2 DEF Sec, n
<1>3. Sec(s, e) \div 60 \in 0 .. 4 /\ Sec(s, e) % 60 \in 0 .. 59
  BY <1>2
<1>4. Min(s, e) \in 0 .. 63
  BY <1>1, <1>3 DEF Min
<1>5. Min(s, e) \div 60 \in 0 .. 1 /\ Min(s, e) % 60 \in 0 .. 59
  BY <1>4
<1>6. Hour(s, e) \in 0 .. 24
  BY <1>1, <1>5 DEF Hour
<1>7. /\ Hour(s, e) % 24 \in 0 .. 23
      /\ Hour(s, e) <= 23 => Hour(s, e) % 24 = Hour(s, e) /\ Hour(s, e) \div 24 = 0
      /\ Hour(s, e) > 23 => Hour(s, e) % 24 = 0 /\ Hour(s, e) \div 24 = 1
  BY <1>6
<1> QED
  BY <1>2, <1>3, <1>4, <1>5, <1>6, <1>7

LEMMA AdvanceIs ==
  ASSUME NEW s, NEW e
  PROVE  Advance(s, e) = IF Hour(s, e) > 23 THEN NextMonth(Moved(s, e)) ELSE Moved(s, e)
BY DEF Advance, Sec, Min, Hour, Moved

\* update_timestamp leaves a stamp, whatever the time that has passed.
LEMMA AdvanceType ==
  ASSUME NEW s \in Stamp, NEW e \in Nat
  PROVE  Advance(s, e) \in Stamp
<1> DEFINE D == s.D + Hour(s, e) \div 24
<1>1. s.D \in 1 .. 31 /\ s.M \in 1 .. 12 /\ s.Y \in 0 .. 255
  BY DEF Stamp
<1>2. CASE Hour(s, e) > 23
  <2>1. D \in 1 .. 32
    BY <1>1, <1>2, Carry
  <2> HIDE DEF D
  <2>2. Moved(s, e) \in [Y : 0 .. 255, M : 1 .. 12, D : 1 .. 32, H : 0 .. 23,
                         Min : 0 .. 59, S : 0 .. 59]
    BY <2>1, <1>1, Carry DEF At, Moved, D
  <2> QED
    BY <2>2, <1>2, AdvanceIs, NextMonthType
<1>3. CASE Hour(s, e) <= 23
  <2>1. D \in 1 .. 31
    BY <1>1, <1>3, Carry
  <2> HIDE DEF D
  <2>2. Moved(s, e) \in Stamp
    BY <2>1, <1>1, Carry DEF At, Moved, D, Stamp
  <2> QED
    BY <2>2, <1>3, Carry, AdvanceIs
<1> QED
  BY <1>2, <1>3, Carry

\* A leap year of this century.
LEMMA Leap ==
  ASSUME NEW y \in 0 .. 98
  PROVE  LeapYear(y) <=> y % 4 = 0
BY DEF LeapYear

\* A day past the end of a month counts as the first of the next.
LEMMA NextMonthCounts ==
  ASSUME NEW s \in [Y : 0 .. 98, M : 1 .. 12, D : 1 .. 32, H : 0 .. 23,
                    Min : 0 .. 59, S : 0 .. 59],
         s.D <= Length(s.Y, s.M) + 1
  PROVE  /\ DayNumber(NextMonth(s)) = DayNumber(s)
         /\ NextMonth(s).H = s.H /\ NextMonth(s).Min = s.Min /\ NextMonth(s).S = s.S
<1> DEFINE y == s.Y  m == s.M  l == Length(y, m)
<1>1. l \in 28 .. 31
  BY LengthType
<1>2. CASE s.D <= l
  BY <1>2 DEF NextMonth
<1>3. CASE s.D > l
  <2>1. s.D = l + 1
    BY <1>1, <1>3
  <2> DEFINE n == NextMonth(s)
  <2>2. n = At(IF m = 12 THEN (y + 1) % 256 ELSE y, IF m = 12 THEN 1 ELSE m + 1,
               s.D - l, s.H, s.Min, s.S)
    BY <1>1, <1>3 DEF NextMonth
  <2>3. /\ n.D = 1 /\ n.M = IF m = 12 THEN 1 ELSE m + 1
        /\ n.Y = IF m = 12 THEN y + 1 ELSE y
        /\ n.H = s.H /\ n.Min = s.Min /\ n.S = s.S
    BY <1>1, <2>1, <2>2 DEF At
  <2> HIDE DEF n
  <2>4. l = IF m = 2 THEN IF y % 4 = 0 THEN 29 ELSE 28
            ELSE IF m \in {4, 6, 9, 11} THEN 30 ELSE 31
    BY Leap DEF Length
  <2>5. DayNumber(n) = DayNumber(s)
    <3>1. CASE m = 12
      BY <2>1, <2>3, <2>4, <3>1 DEF DayNumber, DaysBefore
    <3>2. CASE m \in 1 .. 11
      <4>1. DaysBefore[m + 1] - DaysBefore[m] = IF m = 2 THEN 28
              ELSE IF m \in {4, 6, 9, 11} THEN 30 ELSE 31
        BY <3>2 DEF DaysBefore
      <4>2. DaysBefore[m] \in Nat /\ DaysBefore[m + 1] \in Nat
        BY <3>2 DEF DaysBefore
      <4> QED
        BY <2>1, <2>3, <2>4, <3>2, <4>1, <4>2 DEF DayNumber
    <3> QED
      BY <3>1, <3>2
  <2> QED
    BY <2>3, <2>5 DEF n
<1> QED
  BY <1>1, <1>2, <1>3

\* update_timestamp is exact, as long as the seconds to add fit in a uint8.
LEMMA AdvanceExact ==
  ASSUME NEW s \in Stamp, Countable(s), NEW e \in Nat, s.S + e < 256
  PROVE  Seconds(Advance(s, e)) = Seconds(s) + e
<1> DEFINE sec == Sec(s, e)  min == Min(s, e)  hour == Hour(s, e)  t == Moved(s, e)
<1>1. /\ s.S \in 0 .. 59 /\ s.Min \in 0 .. 59 /\ s.H \in 0 .. 23
      /\ s.D \in 1 .. 31 /\ s.M \in 1 .. 12 /\ s.Y \in 0 .. 98
      /\ s.D <= Length(s.Y, s.M)
  BY DEF Stamp, Countable
<1>2. sec = s.S + e /\ min = s.Min + sec \div 60 /\ hour = s.H + min \div 60
  BY <1>1 DEF Sec, Min, Hour
<1>3. /\ sec \in 0 .. 255 /\ min \in 0 .. 63 /\ hour \in 0 .. 24
      /\ hour <= 23 => hour % 24 = hour /\ hour \div 24 = 0
      /\ hour > 23 => hour % 24 = 0 /\ hour \div 24 = 1
  BY Carry
<1>4. /\ t.Y = s.Y /\ t.M = s.M /\ t.D = s.D + hour \div 24
      /\ t.H = hour % 24 /\ t.Min = min % 60 /\ t.S = sec % 60
  BY DEF Moved, At
<1> HIDE DEF sec, min, hour, t
<1>5. DayNumber(s) \in Int /\ DayNumber(t) = DayNumber(s) + hour \div 24
  <2> DEFINE rest == 365 * s.Y + (s.Y + 3) \div 4 + DaysBefore[s.M]
                       + (IF s.M > 2 /\ s.Y % 4 = 0 THEN 1 ELSE 0)
  <2>1. DaysBefore[s.M] \in Int
    BY <1>1 DEF DaysBefore
  <2>2. rest \in Int
    BY <2>1, <1>1
  <2>3. DayNumber(s) = rest + s.D - 1 /\ DayNumber(t) = rest + t.D - 1
    BY <1>4 DEF DayNumber
  <2>4. hour \div 24 \in Int
    BY <1>3
  <2> HIDE DEF rest
  <2> QED
    BY <2>2, <2>3, <2>4, <1>1, <1>4
<1>7. Seconds(t) = Seconds(s) + e
  <2> DEFINE a == sec \div 60  b == min \div 60  c == hour \div 24
  <2>1. /\ sec % 60 = sec - 60 * a /\ min % 60 = min - 60 * b /\ hour % 24 = hour - 24 * c
        /\ a \in Int /\ b \in Int /\ c \in Int
    BY <1>3
  <2>2. min = s.Min + a /\ hour = s.H + b /\ DayNumber(t) = DayNumber(s) + c
    BY <1>2, <1>5
  <2> HIDE DEF a, b, c
  <2>3. /\ t.S = (s.S + e) - 60 * a /\ t.Min = (s.Min + a) - 60 * b
        /\ t.H = (s.H + b) - 24 * c
    BY <2>1, <2>2, <1>2, <1>4
  <2> DEFINE day == DayNumber(s)
  <2>4. day \in Int
    BY <1>5
  <2>5. Seconds(s) = 86400 * day + 3600 * s.H + 60 * s.Min + s.S
    BY DEF Seconds
  <2>6. Seconds(t) = 86400 * (day + c) + 3600 * t.H + 60 * t.Min + t.S
    BY <2>2 DEF Seconds
  <2> HIDE DEF day
  <2>7. s.S \in Int /\ s.Min \in Int /\ s.H \in Int
    BY <1>1
  <2>8. 86400 * (day + c) + 3600 * ((s.H + b) - 24 * c) + 60 * ((s.Min + a) - 60 * b)
          + ((s.S + e) - 60 * a)
        = 86400 * day + 3600 * s.H + 60 * s.Min + s.S + e
    BY <2>1, <2>4, <2>7
  <2> QED
    BY <2>3, <2>5, <2>6, <2>8
<1>6. CASE hour <= 23
  BY <1>3, <1>6, <1>7, AdvanceIs DEF hour, t
<1>8. CASE hour > 23
  <2>1. t \in [Y : 0 .. 98, M : 1 .. 12, D : 1 .. 32, H : 0 .. 23, Min : 0 .. 59, S : 0 .. 59]
    <3>1. s.D + 1 \in 1 .. 32
      BY <1>1
    <3>2. /\ Hour(s, e) % 24 \in 0 .. 23 /\ Min(s, e) % 60 \in 0 .. 59
          /\ Sec(s, e) % 60 \in 0 .. 59
      BY Carry
    <3> QED
      BY <3>1, <3>2, <1>1, <1>3, <1>8 DEF Moved, At, t, hour
  <2>2. t.D <= Length(t.Y, t.M) + 1
    <3>1. Length(s.Y, s.M) \in 28 .. 31
      BY <1>1, LengthType
    <3> QED
      BY <3>1, <1>1, <1>3, <1>4, <1>8
  <2>3. /\ DayNumber(NextMonth(t)) = DayNumber(t)
        /\ NextMonth(t).H = t.H /\ NextMonth(t).Min = t.Min /\ NextMonth(t).S = t.S
    BY <2>1, <2>2, NextMonthCounts
  <2> QED
    BY <2>3, <1>7, <1>8, AdvanceIs DEF Seconds, hour, t
<1> QED
  BY <1>3, <1>6, <1>8
-----------------------------------------------------------------------------
(* The type invariant.                                                     *)

\* The seconds of a stamp are a number.
LEMMA SecondsType ==
  ASSUME NEW s \in Stamp
  PROVE  Seconds(s) \in Int
<1>1. /\ s.S \in 0 .. 59 /\ s.Min \in 0 .. 59 /\ s.H \in 0 .. 23
      /\ s.D \in 1 .. 31 /\ s.M \in 1 .. 12 /\ s.Y \in 0 .. 255
  BY DEF Stamp
<1>2. DaysBefore[s.M] \in Int
  BY <1>1 DEF DaysBefore
<1>3. DayNumber(s) \in Int
  <2> DEFINE before == DaysBefore[s.M]
             leap   == IF s.M > 2 /\ s.Y % 4 = 0 THEN 1 ELSE 0
             years  == (s.Y + 3) \div 4
  <2>1. before \in Int /\ leap \in Int /\ years \in Int
    BY <1>1, <1>2
  <2>2. DayNumber(s) = 365 * s.Y + years + before + leap + s.D - 1
    BY DEF DayNumber
  <2> DEFINE Y == s.Y
             D == s.D
  <2>3. Y \in Int /\ D \in Int
    BY <1>1
  <2>4. DayNumber(s) = 365 * Y + years + before + leap + D - 1
    BY <2>2
  <2> HIDE DEF before, leap, years, Y, D
  <2>5. 365 * Y + years + before + leap + D - 1 \in Int
    BY <2>1, <2>3
  <2> QED
    BY <2>4, <2>5, Zenon
<1> DEFINE day == DayNumber(s)
<1>4. Seconds(s) = 86400 * day + 3600 * s.H + 60 * s.Min + s.S
  BY DEF Seconds
<1>5. day \in Int
  BY <1>3
<1> HIDE DEF day
<1>6. 86400 * day + 3600 * s.H + 60 * s.Min + s.S \in Int
  <2>1. s.S \in Int /\ s.Min \in Int /\ s.H \in Int
    BY <1>1
  <2>2. 86400 * day \in Int
    BY <1>5
  <2>3. 3600 * s.H \in Int /\ 60 * s.Min \in Int
    BY <2>1
  <2> QED
    BY <2>1, <2>2, <2>3
<1> QED
  BY <1>4, <1>6

\* resolution_times writes a month, whatever the header names.
LEMMA MonthFoundType ==
  ASSUME TypeOK, NEW a \in 1 .. 12, NEW b \in 1 .. 12
  PROVE  MonthFound({a, b}) \in 1 .. 12
<1> DEFINE found == {a, b} \ {9}
<1>1. CASE found = {}
  <2>1. stamp.M \in 1 .. 12
    BY DEF TypeOK, Stamp
  <2> QED
    BY <1>1, <2>1 DEF MonthFound
<1>2. CASE found # {}
  <2>1. \E m \in found : \A n \in found : n <= m
    <3>1. CASE a = 9
      BY <1>2, <3>1
    <3>2. CASE b = 9
      BY <1>2, <3>2
    <3>3. CASE a # 9 /\ b # 9 /\ a <= b
      BY <3>3
    <3>4. CASE a # 9 /\ b # 9 /\ b <= a
      BY <3>4
    <3> QED
      BY <3>1, <3>2, <3>3, <3>4
  <2>2. (CHOOSE m \in found : \A n \in found : n <= m) \in found
    BY <2>1
  <2>3. MonthFound({a, b}) = CHOOSE m \in found : \A n \in found : n <= m
    BY <1>2 DEF MonthFound
  <2> QED
    BY <2>2, <2>3
<1> QED
  BY <1>1, <1>2

\* The stamp that resolution_times writes.
LEMMA SyncType ==
  ASSUME TypeOK, NEW d \in Date, NEW names,
         names \in {{d.M}} \cup {{d.M, m} : m \in Other}
  PROVE  /\ d \in Stamp
         /\ [d EXCEPT !.M = MonthFound(names)] \in Stamp
<1>1. d \in Stamp /\ Other \subseteq 1 .. 12
  BY ConstantsAssumption DEF ConstantsAssumption
<1>2. d.M \in 1 .. 12
  BY <1>1 DEF Stamp
<1>3. \E m \in 1 .. 12 : names = {d.M, m}
  BY <1>1, <1>2
<1>4. MonthFound(names) \in 1 .. 12
  BY <1>2, <1>3, MonthFoundType
<1> DEFINE M == MonthFound(names)
<1> HIDE DEF M
<1>5. [d EXCEPT !.M = M] \in Stamp
  BY <1>1, <1>4 DEF Stamp, M
<1> QED
  BY <1>1, <1>5 DEF M

LEMMA NoneType == None \in Versions
BY DEF None, Versions

LEMMA InitTypeOK == Init => TypeOK
<1> SUFFICES ASSUME Init PROVE TypeOK
  OBVIOUS
<1>1. NewStamp \in Stamp
  BY DEF NewStamp, At, Stamp
<1>2. NewDevice \in [num : 0 .. 999, task : Task \cup {NoTask}, times : Stamp]
  BY <1>1 DEF NewDevice
<1>3. file \in Image /\ slots \in [Slot -> Image] /\ offered \in Versions
  BY NoneType DEF Init, NoFile, Broken, Image, Slot
<1>4. post_ota \in BOOLEAN /\ grew \in BOOLEAN /\ source \in {"load", "date", "other"}
  BY Zenon DEF Init
<1>5. /\ tag \in Task \cup {NoTask} /\ uptime \in 0 .. MaxUptime /\ base \in 0 .. uptime
      /\ answered \in 0 .. 999
      /\ update_reboot \in {0, 1} /\ running \in Slot
      /\ boots \in 0 .. MaxBoots /\ updates \in 0 .. MaxUpdates /\ truth \in Int
  BY ConstantsAssumption DEF ConstantsAssumption, Init, Slot
<1>6. ram = NewDevice /\ flash = NewDevice /\ stamp = NewStamp
  BY DEF Init
<1> QED
  BY <1>1, <1>2, <1>3, <1>4, <1>5, <1>6 DEF TypeOK

\* A restart takes the status from the flash.
LEMMA LoadTypeOK ==
  ASSUME TypeOK, devicexx_app_load, running' \in Slot, uptime' \in 0 .. MaxUptime
  PROVE  TypeOK'
<1>1. flash.task \in Task \cup {NoTask} /\ flash.times \in Stamp
  BY DEF TypeOK
<1>2. ram' = flash /\ flash' = flash
  BY DEF devicexx_app_load, Save
<1>3. boots' \in 0 .. MaxBoots /\ updates' \in 0 .. MaxUpdates
  BY ConstantsAssumption DEF ConstantsAssumption, TypeOK, devicexx_app_load
<1>4. uptime' \in 0 .. MaxUptime /\ base' \in 0 .. uptime'
  BY ConstantsAssumption DEF ConstantsAssumption, devicexx_app_load
<1>5. file' \in Image /\ offered' \in Versions
  BY NoneType DEF devicexx_app_load, NoFile, Broken, Image, Slot
<1>6. post_ota' \in BOOLEAN /\ source' \in {"load", "date", "other"}
  BY Zenon DEF devicexx_app_load
<1>7. /\ tag' \in Task \cup {NoTask} /\ stamp' \in Stamp /\ grew' \in BOOLEAN
      /\ answered' \in 0 .. 999 /\ slots' \in [Slot -> Image] /\ update_reboot' \in {0, 1}
      /\ truth' \in Int
  BY <1>1 DEF TypeOK, devicexx_app_load
<1>8. /\ ram'   \in [num : 0 .. 999, task : Task \cup {NoTask}, times : Stamp]
      /\ flash' \in [num : 0 .. 999, task : Task \cup {NoTask}, times : Stamp]
  BY <1>2 DEF TypeOK
<1> QED
  BY <1>3, <1>4, <1>5, <1>6, <1>7, <1>8 DEF TypeOK

\* An answer leaves a version.
LEMMA OfferType ==
  ASSUME TypeOK, NEW v \in Versions, Offer(v)
  PROVE  offered' \in Versions /\ answered' \in 0 .. 999 /\ grew' \in BOOLEAN
<1>1. v.num \in 0 .. 999
  BY DEF Versions
<1>2. grew' \in BOOLEAN
  BY DEF Offer, TypeOK
<1> QED
  BY <1>1, <1>2 DEF Offer

LEMMA NextTypeOK ==
  ASSUME TypeOK, [Next]_vars
  PROVE  TypeOK'
<1> USE ConstantsAssumption DEF ConstantsAssumption
<1>1. ASSUME NEW g \in Gap, Tick(g) PROVE TypeOK'
  <2>1. g \in Nat
    OBVIOUS
  <2> QED
    BY <1>1, <2>1 DEF Tick, TypeOK, kept, download
<1>2. ASSUME NEW d \in Date, NEW names \in {{d.M}} \cup {{d.M, m} : m \in Other},
             resolution_times(d, names)
      PROVE  TypeOK'
  <2> DEFINE s == [d EXCEPT !.M = MonthFound(names)]
  <2>1. s \in Stamp /\ Seconds(d) \in Int
    BY SyncType, SecondsType
  <2>2. stamp' = s /\ ram' = [ram EXCEPT !.times = s] /\ flash' = ram'
    BY <1>2 DEF resolution_times, Save
  <2>3. source' \in {"load", "date", "other"} /\ truth' = Seconds(d)
    BY <1>2 DEF resolution_times
  <2> HIDE DEF s
  <2>4. ram' \in [num : 0 .. 999, task : Task \cup {NoTask}, times : Stamp]
    BY <2>1, <2>2 DEF TypeOK
  <2> QED
    BY <1>2, <2>1, <2>2, <2>3, <2>4 DEF resolution_times, TypeOK, download
<1>3. ASSUME NEW d \in Date, GnrmcStamp(d) PROVE TypeOK'
  <2>1. d \in Stamp /\ Seconds(d) \in Int
    BY SecondsType
  <2> QED
    BY <1>3, <2>1 DEF GnrmcStamp, TypeOK, kept, download
<1>4. CASE update_timestamp
  <2>1. uptime - base \in Nat
    BY DEF TypeOK
  <2>2. Advance(stamp, uptime - base) \in Stamp
    BY <2>1, AdvanceType DEF TypeOK
  <2>3. stamp' \in Stamp /\ ram' = [ram EXCEPT !.times = stamp'] /\ flash' = ram'
    BY <1>4, <2>2 DEF update_timestamp, Save
  <2>4. source' \in {"load", "date", "other"}
    BY <1>4 DEF update_timestamp, TypeOK
  <2>5. ram' \in [num : 0 .. 999, task : Task \cup {NoTask}, times : Stamp]
    BY <2>3 DEF TypeOK
  <2> QED
    BY <1>4, <2>3, <2>4, <2>5 DEF update_timestamp, TypeOK, download
<1>5. ASSUME NEW t \in Task, NEW v \in Version, NEW idle \in BOOLEAN, post_callback(t, v, idle)
      PROVE  TypeOK'
  <2>1. offered' \in Versions /\ answered' \in 0 .. 999 /\ grew' \in BOOLEAN
    BY <1>5, OfferType DEF post_callback
  <2>2. post_ota' \in BOOLEAN
    BY <1>5 DEF post_callback, check_update_firmware, TypeOK
  <2> QED
    BY <1>5, <2>1, <2>2 DEF post_callback, save_stakid, Save, TypeOK, clock
<1>14. ASSUME NEW v \in Version, PostUnbound(v) PROVE TypeOK'
  <2> DEFINE w == [v EXCEPT !.type = 0]
  <2>1. w \in Versions
    BY DEF Versions
  <2>2. Offer(w)
    BY <1>14 DEF PostUnbound
  <2>3. offered' \in Versions /\ answered' \in 0 .. 999 /\ grew' \in BOOLEAN
    BY <2>1, <2>2, OfferType
  <2>4. post_ota' \in BOOLEAN
    BY <1>14 DEF PostUnbound, check_update_firmware, TypeOK
  <2> QED
    BY <1>14, <2>3, <2>4 DEF PostUnbound, TypeOK, clock, kept
<1>6. ASSUME NEW t \in Task, NEW v \in Version, NEW idle \in BOOLEAN, NbCollectId(t, v, idle)
      PROVE  TypeOK'
  <2>1. offered' \in Versions /\ answered' \in 0 .. 999 /\ grew' \in BOOLEAN
    <3>1. CASE idle
      BY <1>6, <3>1, OfferType DEF NbCollectId
    <3>2. CASE ~idle
      BY <1>6, <3>2 DEF NbCollectId, TypeOK
    <3> QED
      BY <3>1, <3>2
  <2> QED
    BY <1>6, <2>1 DEF NbCollectId, save_stakid, Save, TypeOK, clock
<1>7. CASE NotFound
  <2>1. post_ota' \in BOOLEAN
    BY <1>7, Zenon DEF NotFound
  <2> QED
    BY <1>7, <2>1 DEF NotFound, TypeOK, kept, clock, Answers
<1>8. CASE ota_start_upgrade
  <2>1. post_ota' \in BOOLEAN
    BY <1>8, Zenon DEF ota_start_upgrade
  <2>2. Spare \in Slot /\ [version |-> offered, bin |-> Spare] \in Image /\ Broken \in Image
    BY NoneType DEF TypeOK, Spare, Slot, Image, Broken
  <2>3. file' \in Image /\ slots' \in [Slot -> Image]
    BY <1>8, <2>2 DEF ota_start_upgrade, TypeOK
  <2> QED
    BY <1>8, <2>1, <2>3 DEF ota_start_upgrade, TypeOK, kept, clock, Answers
<1>9. ASSUME NEW ok \in BOOLEAN, ota_finished_callback(ok) PROVE TypeOK'
  <2>1. offered.num \in 0 .. 999
    BY DEF TypeOK, Versions
  <2>2. /\ ram'   \in [num : 0 .. 999, task : Task \cup {NoTask}, times : Stamp]
        /\ flash' \in [num : 0 .. 999, task : Task \cup {NoTask}, times : Stamp]
    BY <1>9, <2>1 DEF ota_finished_callback, Save, TypeOK
  <2>3. file' \in Image /\ slots' \in [Slot -> Image]
    BY <1>9, NoneType DEF ota_finished_callback, TypeOK, NoFile, Broken, Image
  <2> QED
    BY <1>9, <2>2, <2>3 DEF ota_finished_callback, TypeOK, clock, Answers
<1>10. CASE power_on
  BY <1>10, LoadTypeOK DEF power_on, TypeOK, Spare, Slot
<1>11. CASE Crash
  <2>1. uptime' \in 0 .. MaxUptime
    BY <1>11 DEF Crash, TypeOK
  <2> QED
    BY <1>11, <2>1, LoadTypeOK DEF Crash, TypeOK
<1>12. CASE UNCHANGED vars
  BY <1>12 DEF TypeOK, vars, kept, clock, download
<1> QED
  BY <1>1, <1>2, <1>3, <1>4, <1>5, <1>6, <1>7, <1>8, <1>9, <1>10, <1>11, <1>12, <1>14
     DEF Next, SetStamp, Answer

\* Every variable of the settings keeps its type: stamps stay dates and times,
\* whatever headers name and however long the device has been up.
THEOREM TypeCorrect == Spec => []TypeOK
<1>1. Init => TypeOK
  BY InitTypeOK
<1>2. TypeOK /\ [Next]_vars => TypeOK'
  BY NextTypeOK
<1> QED
  BY <1>1, <1>2, PTL DEF Spec
-----------------------------------------------------------------------------
(* Versions, images and tasks.                                             *)

\* What is in memory is in flash.
Kept == ram = flash /\ tag = flash.task

\* What is fetched goes to the slot it is linked for, and that slot has no image
\* until it is whole.  A download or the wish for one lasts no longer than the
\* answer it came with is remembered; as long as numbers only grow, none is above
\* the last.
Offered ==
  /\ file # NoFile \/ post_ota => offered.num = answered
  /\ file # NoFile => file.bin = Spare /\ slots[Spare] = Broken
  /\ grew =>
       /\ flash.num <= answered
       /\ file # NoFile => file.version.num <= answered

Inv == TypeOK /\ Kept /\ Offered /\ NeverBehind /\ Bootable

\* The number of a version, and of an image, is a number.
LEMMA VersionNum ==
  ASSUME NEW v \in Versions
  PROVE  v.num \in Nat
BY DEF Versions

LEMMA ImageNum ==
  ASSUME NEW i \in Image
  PROVE  i.version.num \in Nat
<1>1. i.version \in Versions
  BY DEF Image
<1> QED
  BY <1>1, VersionNum, Zenon

LEMMA Numbers ==
  ASSUME TypeOK
  PROVE  /\ flash.num \in Nat /\ offered.num \in Nat /\ answered \in Nat
         /\ file.version.num \in Nat /\ \A b \in Slot : slots[b].version.num \in Nat
         /\ running \in Slot /\ Spare \in Slot /\ Spare # running
         /\ \A b \in Slot : b = running \/ b = Spare
<1>1. /\ running \in Slot /\ Spare \in Slot /\ Spare # running
      /\ \A b \in Slot : b = running \/ b = Spare
  BY DEF TypeOK, Spare, Slot
<1>2. flash.num \in Nat
  <2>1. flash \in [num : 0 .. 999, task : Task \cup {NoTask}, times : Stamp]
    BY DEF TypeOK
  <2>2. flash.num \in 0 .. 999
    BY <2>1
  <2> QED
    BY <2>2
<1>3. offered.num \in Nat
  <2>1. offered \in Versions
    BY DEF TypeOK
  <2> QED
    BY <2>1, VersionNum
<1>4. answered \in Nat
  BY DEF TypeOK
<1>5. file.version.num \in Nat /\ \A b \in Slot : slots[b].version.num \in Nat
  <2>1. file \in Image /\ \A b \in Slot : slots[b] \in Image
    BY DEF TypeOK
  <2> QED
    BY <2>1, ImageNum, Zenon
<1> QED
  BY <1>1, <1>2, <1>3, <1>4, <1>5, Zenon

LEMMA InitInv == Init => Inv
<1> SUFFICES ASSUME Init PROVE Inv
  OBVIOUS
<1>1. TypeOK
  BY InitTypeOK
<1>2. Kept
  BY DEF Init, Kept, NewDevice
<1>3. flash.num = 0 /\ offered.num = 0 /\ answered = 0
  BY DEF Init, NewDevice, None
<1>4. Offered
  BY <1>3 DEF Init, Offered, NoFile
<1>5. running = 1 /\ slots[1] = [version |-> None, bin |-> 1] /\ slots[2] = Broken
  BY DEF Init, Slot
<1>6. NeverBehind
  <2>1. slots[running].version.num = 0 /\ update_reboot = 0
    BY <1>5 DEF None, Init
  <2> QED
    BY <1>3, <2>1 DEF NeverBehind
<1>7. Bootable
  BY <1>5 DEF Bootable, Broken, Slot
<1> QED
  BY <1>1, <1>2, <1>4, <1>6, <1>7 DEF Inv

\* A step that leaves the images and what the server has named alone.
LEMMA ElsewhereInv ==
  ASSUME Inv, TypeOK', Kept', flash'.num = flash.num,
         UNCHANGED <<offered, answered, grew, post_ota, file, update_reboot, slots, running>>
  PROVE  Inv'
<1>1. Spare' = Spare
  BY DEF Spare
<1>2. NeverBehind'
  BY <1>1 DEF Inv, NeverBehind
<1>3. Bootable'
  BY DEF Inv, Bootable
<1>4. Offered'
  BY <1>1 DEF Inv, Offered
<1> QED
  BY <1>2, <1>3, <1>4 DEF Inv

\* An answer of the server names a version, or leaves things as they are.
LEMMA AnswerInv ==
  ASSUME Inv, TypeOK', Kept', flash'.num = flash.num,
         \/ UNCHANGED <<offered, answered, grew, post_ota>>
         \/ offered'.num = answered' /\ (grew' => grew /\ answered' >= answered),
         UNCHANGED <<file, update_reboot, slots, running>>
  PROVE  Inv'
<1>1. Spare' = Spare
  BY DEF Spare
<1>2. grew' => grew /\ answered' >= answered
  <2>1. answered \in Nat
    BY DEF Inv, TypeOK
  <2>2. CASE UNCHANGED <<offered, answered, grew, post_ota>>
    BY <2>1, <2>2
  <2> QED
    BY <2>2
<1>3. NeverBehind'
  BY <1>1, <1>2 DEF Inv, NeverBehind
<1>4. Bootable'
  BY DEF Inv, Bootable
<1>5. Offered'
  <2>1. file' # NoFile \/ post_ota' => offered'.num = answered'
    BY DEF Inv, Offered
  <2>2. file' # NoFile => file'.bin = Spare' /\ slots'[Spare'] = Broken
    BY <1>1 DEF Inv, Offered
  <2>3. ASSUME grew'
        PROVE  /\ flash'.num <= answered'
               /\ file' # NoFile => file'.version.num <= answered'
    <3>1. answered' \in Nat
      BY DEF TypeOK
    <3>2. /\ flash.num <= answered /\ answered' >= answered
          /\ file # NoFile => file.version.num <= answered
      BY <1>2, <2>3 DEF Inv, Offered
    <3>3. flash.num \in Nat /\ answered \in Nat /\ file.version.num \in Nat
      BY Numbers DEF Inv
    <3> QED
      BY <3>1, <3>2, <3>3
  <2> QED
    BY <2>1, <2>2, <2>3 DEF Offered
<1> QED
  BY <1>3, <1>4, <1>5 DEF Inv

\* What an answer does to the saved status: save_stakid.
LEMMA StakidKept ==
  ASSUME TypeOK, Kept, NEW t, save_stakid(t)
  PROVE  Kept' /\ flash'.num = flash.num
<1>1. CASE ram.task = t
  BY <1>1 DEF save_stakid, Kept
<1>2. CASE ram.task # t
  BY <1>2 DEF save_stakid, Save, Kept, TypeOK
<1> QED
  BY <1>1, <1>2

\* ota_start_upgrade gives the spare slot up for what it fetches.
LEMMA StartInv ==
  ASSUME Inv, TypeOK', ota_start_upgrade
  PROVE  Inv'
<1>1. /\ UNCHANGED <<offered, answered, grew, update_reboot, running>>
      /\ Kept' /\ flash' = flash /\ Spare' = Spare /\ post_ota /\ ~post_ota'
  BY DEF ota_start_upgrade, Answers, kept, Inv, Kept, Spare
<1>2. TypeOK
  BY DEF Inv
<1>3. CASE file # NoFile
  <2>1. UNCHANGED <<file, slots>>
    BY <1>3 DEF ota_start_upgrade
  <2> QED
    BY <1>1, <2>1 DEF Inv, Offered, NeverBehind, Bootable
<1>4. CASE file = NoFile
  <2>1. /\ file' = [version |-> offered, bin |-> Spare]
        /\ slots' = [slots EXCEPT ![Spare] = Broken]
    BY <1>4 DEF ota_start_upgrade
  <2>2. /\ slots'[Spare] = Broken /\ slots'[running] = slots[running]
        /\ \A b \in Slot : b # Spare => slots'[b] = slots[b]
    BY <1>2, <2>1, Numbers DEF TypeOK
  <2>3. Offered'
    <3>1. offered.num = answered /\ answered \in Nat
      BY <1>1, <1>2, Numbers DEF Inv, Offered
    <3>2. file'.version.num <= answered' /\ file'.bin = Spare'
      BY <1>1, <2>1, <3>1
    <3> QED
      BY <1>1, <2>2, <3>1, <3>2 DEF Inv, Offered
  <2>4. NeverBehind' /\ Bootable'
    BY <1>1, <2>2 DEF Inv, NeverBehind, Bootable
  <2> QED
    BY <1>1, <2>3, <2>4 DEF Inv
<1> QED
  BY <1>3, <1>4

\* ota_finished_callback saves the number of the last answer.
LEMMA FinishedInv ==
  ASSUME Inv, TypeOK', NEW ok \in BOOLEAN, ota_finished_callback(ok)
  PROVE  Inv'
<1>1. /\ UNCHANGED <<offered, answered, grew, running, post_ota, tag>>
      /\ file # NoFile /\ file' = NoFile /\ Spare' = Spare
  BY DEF ota_finished_callback, Answers, Spare
<1>2. /\ TypeOK /\ offered.num = answered /\ file.bin = Spare /\ slots[Spare] = Broken
      /\ grew => flash.num <= answered /\ file.version.num <= answered
  BY <1>1 DEF Inv, Offered
<1>3. CASE ok
  <2>1. /\ slots' = [slots EXCEPT ![Spare] = file]
        /\ ram' = [ram EXCEPT !.num = offered.num] /\ flash' = ram'
    BY <1>3 DEF ota_finished_callback, Save
  <2>2. Kept' /\ flash'.num = answered
    BY <1>1, <1>2, <2>1 DEF Inv, Kept, TypeOK
  <2>3. /\ slots'[Spare] = file /\ slots'[running] = slots[running]
        /\ \A b \in Slot : b # Spare => slots'[b] = slots[b]
    BY <1>2, <2>1, Numbers DEF TypeOK
  <2>4. Bootable'
    BY <1>1, <1>2, <2>3 DEF Inv, Bootable
  <2>5. NeverBehind'
    <3>1. /\ flash.num \in Nat /\ answered \in Nat /\ file.version.num \in Nat
          /\ slots[running].version.num \in Nat
      BY <1>2, Numbers
    <3>2. grew => /\ answered >= slots[running].version.num
                  /\ answered >= file.version.num
      BY <1>2, <3>1 DEF Inv, NeverBehind
    <3> QED
      BY <1>1, <2>2, <2>3, <3>2 DEF NeverBehind
  <2>6. Offered'
    BY <1>1, <1>2, <2>2, Numbers DEF Offered
  <2> QED
    BY <2>2, <2>4, <2>5, <2>6 DEF Inv
<1>4. CASE ~ok
  <2>1. UNCHANGED <<slots, ram, flash>> /\ update_reboot' = 0
    BY <1>4 DEF ota_finished_callback
  <2> QED
    BY <1>1, <1>2, <2>1 DEF Inv, Kept, Offered, NeverBehind, Bootable
<1> QED
  BY <1>3, <1>4

\* A restart forgets what was named and takes the status from the flash.
LEMMA LoadInv ==
  ASSUME Inv, TypeOK', devicexx_app_load, running' \in Slot,
         slots[running'] # Broken, grew => flash.num >= slots[running'].version.num
  PROVE  Inv'
<1>1. /\ flash' = flash /\ ram' = flash /\ tag' = flash.task /\ slots' = slots
      /\ file' = NoFile /\ ~post_ota' /\ update_reboot' = 0 /\ UNCHANGED <<answered, grew>>
  BY DEF devicexx_app_load, Save
<1>2. Kept' /\ Bootable' /\ NeverBehind'
  BY <1>1 DEF Kept, Bootable, NeverBehind, Inv
<1>3. Offered'
  BY <1>1 DEF Inv, Offered
<1> QED
  BY <1>2, <1>3 DEF Inv

LEMMA NextInv ==
  ASSUME Inv, [Next]_vars
  PROVE  Inv'
<1>1. TypeOK /\ TypeOK' /\ Kept
  BY NextTypeOK DEF Inv
<1>2. ASSUME NEW g \in Gap, Tick(g) PROVE Inv'
  BY <1>1, <1>2, ElsewhereInv DEF Tick, Kept, kept, download
<1>3. ASSUME NEW d \in Date, NEW names, resolution_times(d, names) PROVE Inv'
  <2> DEFINE status == [num : 0 .. 999, task : Task \cup {NoTask}, times : Stamp]
             time   == [d EXCEPT !.M = MonthFound(names)]
  <2>1. ram \in status /\ ram = flash /\ tag = flash.task
    BY <1>1 DEF Kept, TypeOK
  <2>2. ram' = [ram EXCEPT !.times = time] /\ flash' = ram' /\ tag' = tag
    BY <1>3 DEF resolution_times, Save
  <2> HIDE DEF time
  <2>3. Kept' /\ flash'.num = flash.num
    BY <2>1, <2>2 DEF Kept
  <2>4. UNCHANGED <<offered, answered, grew, post_ota, file, update_reboot, slots, running>>
    BY <1>3 DEF resolution_times, download
  <2> QED
    BY <1>1, <2>3, <2>4, ElsewhereInv, Zenon
<1>4. ASSUME NEW d \in Date, GnrmcStamp(d) PROVE Inv'
  BY <1>1, <1>4, ElsewhereInv DEF GnrmcStamp, Kept, kept, download
<1>5. CASE update_timestamp
  <2> DEFINE status == [num : 0 .. 999, task : Task \cup {NoTask}, times : Stamp]
  <2>1. ram \in status /\ ram = flash /\ tag = flash.task
    BY <1>1 DEF Kept, TypeOK
  <2>2. ram' = [ram EXCEPT !.times = stamp'] /\ flash' = ram' /\ tag' = tag
    BY <1>5 DEF update_timestamp, Save
  <2>3. Kept' /\ flash'.num = flash.num
    BY <2>1, <2>2 DEF Kept
  <2>4. UNCHANGED <<offered, answered, grew, post_ota, file, update_reboot, slots, running>>
    BY <1>5 DEF update_timestamp, download
  <2> QED
    BY <1>1, <2>3, <2>4, ElsewhereInv, Zenon
<1>6. ASSUME NEW t \in Task, NEW v \in Version, NEW idle \in BOOLEAN,
             post_callback(t, v, idle) \/ NbCollectId(t, v, idle)
      PROVE  Inv'
  <2>1. save_stakid(t) /\ UNCHANGED <<file, update_reboot, slots, running>>
    BY <1>6 DEF post_callback, NbCollectId
  <2>2. Kept' /\ flash'.num = flash.num
    BY <1>1, <2>1, StakidKept
  <2>3. \/ UNCHANGED <<offered, answered, grew, post_ota>>
        \/ offered'.num = answered' /\ (grew' => grew /\ answered' >= answered)
    <3>1. CASE Offer(v)
      BY <3>1 DEF Offer
    <3>2. CASE ~Offer(v)
      <4>1. UNCHANGED <<offered, answered, grew>> /\ post_ota' = post_ota
        BY <1>6, <3>2 DEF post_callback, NbCollectId
      <4> QED
        BY <4>1
    <3> QED
      BY <3>1, <3>2
  <2> QED
    BY <1>1, <2>1, <2>2, <2>3, AnswerInv
<1>7. ASSUME NEW v \in Version, PostUnbound(v) PROVE Inv'
  <2> DEFINE w == [v EXCEPT !.type = 0]
  <2>1. Offer(w) /\ UNCHANGED <<kept, file, update_reboot, slots, running>>
    BY <1>7 DEF PostUnbound
  <2>2. offered'.num = answered' /\ (grew' => grew /\ answered' >= answered)
    BY <2>1 DEF Offer
  <2>3. Kept' /\ flash' = flash
    BY <1>1, <2>1 DEF Kept, kept
  <2> QED
    BY <1>1, <2>1, <2>2, <2>3, AnswerInv
<1>8. CASE NotFound
  <2>1. UNCHANGED <<ram, flash, tag, file, update_reboot, slots, running, offered, answered, grew>>
        /\ post_ota /\ ~post_ota'
    BY <1>8 DEF NotFound, kept, Answers
  <2>2. Kept' /\ NeverBehind' /\ Bootable' /\ Offered'
    BY <2>1 DEF Inv, Kept, NeverBehind, Bootable, Offered, Spare
  <2> QED
    BY <1>1, <2>2 DEF Inv
<1>9. CASE ota_start_upgrade
  BY <1>1, <1>9, StartInv
<1>10. ASSUME NEW ok \in BOOLEAN, ota_finished_callback(ok) PROVE Inv'
  BY <1>1, <1>10, FinishedInv
<1>11. CASE power_on
  <2>1. devicexx_app_load /\ running' \in Slot
    BY <1>1, <1>11, Numbers DEF power_on
  <2>2. slots[running'] # Broken /\ (grew => flash.num >= slots[running'].version.num)
    BY <1>11 DEF power_on, Inv, Bootable, NeverBehind
  <2> QED
    BY <1>1, <2>1, <2>2, LoadInv
<1>12. CASE Crash
  <2>1. devicexx_app_load /\ running' = running /\ running' \in Slot
    BY <1>1, <1>12, Numbers DEF Crash
  <2>2. slots[running'] # Broken /\ (grew => flash.num >= slots[running'].version.num)
    BY <2>1 DEF Inv, Bootable, NeverBehind
  <2> QED
    BY <1>1, <2>1, <2>2, LoadInv
<1>13. CASE UNCHANGED vars
  BY <1>1, <1>13, ElsewhereInv DEF vars, kept, download, Kept
<1> QED
  BY <1>2, <1>3, <1>4, <1>5, <1>6, <1>7, <1>8, <1>9, <1>10, <1>11, <1>12, <1>13
     DEF Next, SetStamp, Answer

\* The invariant that the next theorems rest on.
THEOREM Invariant == Spec => []Inv
<1>1. Inv /\ [Next]_vars => Inv'
  BY NextInv
<1> QED
  BY <1>1, InitInv, PTL DEF Spec

\* As long as no answer names a lower number than one before, the saved number
\* never falls behind the image the device runs or would start, whatever overlaps,
\* fails and is interrupted (check_update_firmware, ota_finished_callback).
THEOREM NeverBehindAlways == Spec => []NeverBehind
<1>1. Inv => NeverBehind
  BY DEF Inv
<1> QED
  BY <1>1, Invariant, PTL

\* The slot in use always holds a whole image that is linked for it
\* (ota_start_upgrade, power_on).
THEOREM BootableAlways == Spec => []Bootable
<1>1. Inv => Bootable
  BY DEF Inv
<1> QED
  BY <1>1, Invariant, PTL

\* The task is the same after a restart (save_stakid, devicexx_app_load).
THEOREM TaskSurvivesAlways == Spec => TaskSurvives
<1>1. Inv /\ [Next]_vars => (boots' # boots => tag' = tag)
  <2> SUFFICES ASSUME Inv, [Next]_vars, boots' # boots PROVE tag' = tag
    OBVIOUS
  <2>1. tag = flash.task
    BY DEF Inv, Kept
  <2>2. devicexx_app_load
    <3>1. CASE UNCHANGED vars
      BY <3>1 DEF vars
    <3>2. CASE Next
      BY <3>2 DEF Next, Tick, SetStamp, resolution_times, GnrmcStamp, update_timestamp, Answer,
           post_callback, PostUnbound, NbCollectId, NotFound, ota_start_upgrade,
           ota_finished_callback, power_on, Crash
    <3> QED
      BY <3>1, <3>2
  <2> QED
    BY <2>1, <2>2 DEF devicexx_app_load
<1>2. Inv /\ [Next]_vars => [boots' # boots => tag' = tag]_vars
  BY <1>1
<1> QED
  BY <1>2, Invariant, PTL DEF Spec, TaskSurvives

-----------------------------------------------------------------------------
(* The promise of the download.                                            *)

\* What Upgrades sees of a step.
Seen == <<flash.num, offered, current, fetching, ready>>
Kind == Promise!Next \/ UNCHANGED Seen

\* The versions offered keep to the type Upgrades has for them.
LEMMA UnseenKind ==
  ASSUME TypeOK', flash'.num = flash.num, UNCHANGED <<file, update_reboot, slots, running>>
  PROVE  Kind
<1>1. Spare' = Spare
  BY DEF Spare
<1>2. current' = current /\ fetching' = fetching /\ ready' = ready
  BY <1>1 DEF current, fetching, ready
<1>3. offered' \in Versions
  BY DEF TypeOK
<1>4. Promise!Offer
  BY <1>2, <1>3 DEF Promise!Offer
<1> QED
  BY <1>4 DEF Kind, Promise!Next

\* ota_start_upgrade begins to fetch what has been offered last, or is refused by
\* the SDK.
LEMMA StartKind ==
  ASSUME Inv, TypeOK', ota_start_upgrade
  PROVE  Kind
<1>1. /\ flash' = flash /\ offered' = offered /\ running' = running
      /\ update_reboot' = update_reboot /\ Spare' = Spare
  BY DEF ota_start_upgrade, kept, Answers, Spare
<1>2. TypeOK
  BY DEF Inv
<1>3. CASE file # NoFile
  <2>1. UNCHANGED <<file, slots>>
    BY <1>3 DEF ota_start_upgrade
  <2> QED
    BY <1>1, <2>1, UnseenKind
<1>4. CASE file = NoFile
  <2>1. /\ file' = [version |-> offered, bin |-> Spare]
        /\ slots' = [slots EXCEPT ![Spare] = Broken]
    BY <1>4 DEF ota_start_upgrade
  <2>2. slots'[Spare] = Broken /\ slots'[running] = slots[running]
    BY <1>2, <2>1, Numbers DEF TypeOK
  <2>3. file' # NoFile /\ file'.version = offered
    BY <1>2, <2>1, Numbers DEF NoFile, Broken, Slot
  <2>4. fetching = {} /\ fetching' = {offered} /\ ready' = {} /\ current' = current
    BY <1>1, <1>4, <2>2, <2>3 DEF fetching, ready, current
  <2>5. Promise!Begin
    BY <1>1, <2>4 DEF Promise!Begin
  <2> QED
    BY <2>5 DEF Kind, Promise!Next
<1> QED
  BY <1>3, <1>4

\* ota_finished_callback completes the download and saves the number offered last,
\* or gives it up.
LEMMA FinishedKind ==
  ASSUME Inv, NEW ok \in BOOLEAN, ota_finished_callback(ok)
  PROVE  Kind
<1>1. /\ file # NoFile /\ file' = NoFile /\ offered' = offered
      /\ running' = running /\ Spare' = Spare
  BY DEF ota_finished_callback, Answers, Spare
<1>2. TypeOK /\ slots[Spare] = Broken
  BY <1>1 DEF Inv, Offered
<1>3. fetching = {file.version} /\ fetching' = {}
  BY <1>1 DEF fetching
<1>4. CASE ok
  <2>1. /\ slots' = [slots EXCEPT ![Spare] = file] /\ update_reboot' = 1
        /\ ram' = [ram EXCEPT !.num = offered.num] /\ flash' = ram'
    BY <1>4 DEF ota_finished_callback, Save
  <2>2. slots'[Spare] = file /\ slots'[running] = slots[running]
    BY <1>2, <2>1, Numbers DEF TypeOK
  <2>3. flash'.num = offered.num
    BY <1>2, <2>1 DEF TypeOK
  <2>4. ready' = {file.version} /\ current' = current
    BY <1>1, <2>1, <2>2 DEF ready, current, NoFile
  <2>5. Promise!Complete
    BY <1>1, <1>3, <2>3, <2>4 DEF Promise!Complete
  <2> QED
    BY <2>5 DEF Kind, Promise!Next
<1>5. CASE ~ok
  <2>1. UNCHANGED <<slots, flash>>
    BY <1>5 DEF ota_finished_callback
  <2>2. ready' = ready /\ current' = current
    BY <1>1, <1>2, <2>1 DEF ready, current
  <2>3. Promise!Fail
    BY <1>1, <1>3, <2>1, <2>2 DEF Promise!Fail
  <2> QED
    BY <2>3 DEF Kind, Promise!Next
<1> QED
  BY <1>4, <1>5

\* A restart takes the image in use or the one that is ready.
LEMMA LoadKind ==
  ASSUME devicexx_app_load,
         \/ running' = running
         \/ update_reboot = 1 /\ slots[Spare] # Broken /\ running' = Spare
  PROVE  Kind
<1>1. /\ flash' = flash /\ slots' = slots /\ file' = NoFile /\ offered' = None
      /\ update_reboot' = 0
  BY DEF devicexx_app_load, Save
<1>2. fetching' = {} /\ ready' = {}
  BY <1>1 DEF fetching, ready
<1>3. current' \in {current} \cup ready
  BY <1>1 DEF current, ready
<1>4. Promise!Restart
  BY <1>1, <1>2, <1>3 DEF Promise!Restart, Promise!None, None
<1> QED
  BY <1>4 DEF Kind, Promise!Next

LEMMA NextKind ==
  ASSUME Inv, [Next]_vars
  PROVE  Kind
<1> DEFINE status == [num : 0 .. 999, task : Task \cup {NoTask}, times : Stamp]
<1>0. ram \in status /\ ram = flash /\ TypeOK /\ TypeOK' /\ Kept
  BY NextTypeOK DEF Inv, Kept, TypeOK
<1>1. CASE (\E g \in Gap : Tick(g)) \/ UNCHANGED vars \/ NotFound
      \/ (\E d \in Date : GnrmcStamp(d)) \/ (\E v \in Version : PostUnbound(v))
  BY <1>0, <1>1, UnseenKind DEF Tick, GnrmcStamp, NotFound, PostUnbound, vars, kept, download
<1>2. ASSUME NEW d \in Date, NEW names, resolution_times(d, names)
      PROVE  Kind
  <2>1. flash'.num = flash.num
    <3> DEFINE time == [d EXCEPT !.M = MonthFound(names)]
    <3>1. flash' = [ram EXCEPT !.times = time]
      BY <1>2 DEF resolution_times, Save
    <3> HIDE DEF time
    <3> QED
      BY <1>0, <3>1
  <2> QED
    BY <1>0, <1>2, <2>1, UnseenKind DEF resolution_times, download
<1>3. CASE update_timestamp
  <2>1. flash'.num = flash.num
    BY <1>0, <1>3 DEF update_timestamp, Save
  <2> QED
    BY <1>0, <1>3, <2>1, UnseenKind DEF update_timestamp, download
<1>4. ASSUME NEW t \in Task, NEW v \in Version, NEW idle \in BOOLEAN,
             post_callback(t, v, idle) \/ NbCollectId(t, v, idle)
      PROVE  Kind
  <2>1. save_stakid(t) /\ UNCHANGED <<file, update_reboot, slots, running>>
    BY <1>4 DEF post_callback, NbCollectId
  <2>2. flash'.num = flash.num
    BY <1>0, <2>1, StakidKept
  <2> QED
    BY <1>0, <2>1, <2>2, UnseenKind
<1>5. CASE ota_start_upgrade
  BY <1>0, <1>5, StartKind
<1>6. ASSUME NEW ok \in BOOLEAN, ota_finished_callback(ok)
      PROVE  Kind
  BY <1>6, FinishedKind
<1>7. CASE power_on \/ Crash
  BY <1>7, LoadKind DEF power_on, Crash
<1> QED
  BY <1>1, <1>2, <1>3, <1>4, <1>5, <1>6, <1>7 DEF Next, SetStamp, Answer

\* The download implements Upgrades, whatever the server names and whenever the
\* device is restarted (ota_start_upgrade, ota_finished_callback, power_on).
THEOREM PromiseKept == Spec => ImplementsUpgrades
<1>1. Init => Promise!Init
  <2> SUFFICES ASSUME Init PROVE Promise!Init
    OBVIOUS
  <2>1. running = 1 /\ slots[1] = [version |-> None, bin |-> 1] /\ flash.num = 0
    BY DEF Init, Slot, NewDevice
  <2>2. file = NoFile /\ update_reboot = 0 /\ offered = None
    BY DEF Init
  <2>3. current = None /\ fetching = {} /\ ready = {}
    BY <2>1, <2>2 DEF current, fetching, ready
  <2> QED
    BY <2>1, <2>2, <2>3 DEF Promise!Init, Promise!None, None
<1>2. Inv /\ [Next]_vars => [Promise!Next]_<<flash.num, offered, current, fetching, ready>>
  BY NextKind DEF Kind, Seen
<1> QED
  BY <1>1, <1>2, Invariant, PTL DEF Spec, ImplementsUpgrades, Promise!Spec

-----------------------------------------------------------------------------
(* The time.                                                               *)

\* From a Date header on, the stamp and what has passed since its base are not
\* before the true time, and they are the true time until the first update.
Timely ==
  source = "date" =>
    /\ Seconds(stamp) + (uptime - base) >= truth
    /\ updates = 0 => Seconds(stamp) + (uptime - base) = truth

\* The update that the action property speaks of.
Update ==
  source = "date" /\ source' = "date" /\ updates' = updates + 1 =>
    /\ Seconds(stamp') >= truth
    /\ updates = 0 => Seconds(stamp') = truth

LEMMA UpdateTimely ==
  ASSUME TypeOK, Timely, update_timestamp, source' = "date"
  PROVE  Timely' /\ Update
<1> DEFINE e == uptime - base
<1>1. source = "date" /\ Countable(stamp) /\ stamp.S + e < 256
  <2>1. IF Countable(stamp) /\ stamp.S + uptime - base < 256
          THEN source' = source ELSE source' = "other"
    BY DEF update_timestamp
  <2>2. source = "date" /\ Countable(stamp) /\ stamp.S + uptime - base < 256
    BY <2>1
  <2>3. stamp.S \in Int /\ uptime \in Int /\ base \in Int
    BY DEF TypeOK, Stamp
  <2> QED
    BY <2>2, <2>3
<1>2. e \in Nat /\ truth \in Int /\ stamp \in Stamp /\ updates \in Nat
  <2>1. uptime \in 0 .. MaxUptime /\ base \in 0 .. uptime /\ updates \in 0 .. MaxUpdates
    BY DEF TypeOK
  <2>2. e \in Nat /\ updates \in Nat
    BY <2>1
  <2> QED
    BY <2>2 DEF TypeOK
<1>3. stamp' = Advance(stamp, e) /\ updates' = updates + 1
  BY DEF update_timestamp
<1>4. uptime' - base' = e /\ truth' = truth
  BY DEF update_timestamp
<1> HIDE DEF e
<1>5. Seconds(stamp') = Seconds(stamp) + e
  BY <1>1, <1>2, <1>3, AdvanceExact
<1>6. Seconds(stamp) \in Int
  BY <1>2, SecondsType
<1>7. /\ Seconds(stamp) + e >= truth
      /\ updates = 0 => Seconds(stamp) + e = truth
  BY <1>1 DEF Timely, e
<1>8. Update
  BY <1>5, <1>7 DEF Update
<1>9. Timely'
  <2>1. Seconds(stamp') + e >= truth' /\ updates' # 0
    BY <1>2, <1>3, <1>4, <1>5, <1>6, <1>7
  <2> QED
    BY <2>1, <1>4 DEF Timely
<1> QED
  BY <1>8, <1>9

LEMMA NextTimely ==
  ASSUME TypeOK, Timely, [Next]_vars
  PROVE  Timely' /\ Update
<1>1. updates \in Nat /\ uptime \in Nat /\ base \in Nat /\ truth \in Int /\ stamp \in Stamp
  BY ConstantsAssumption DEF ConstantsAssumption, TypeOK
<1>2. ASSUME UNCHANGED clock PROVE Timely' /\ Update
  <2>1. updates' # updates + 1
    BY <1>1, <1>2 DEF clock
  <2> QED
    BY <1>2, <2>1 DEF clock, Timely, Update
<1>3. ASSUME source' # "date" PROVE Timely' /\ Update
  BY <1>3 DEF Timely, Update
<1>4. ASSUME NEW g \in Gap, Tick(g) PROVE Timely' /\ Update
  <2>1. /\ g \in Nat /\ uptime' = uptime + g /\ truth' = truth + g
        /\ UNCHANGED <<stamp, base, source, updates>>
    BY <1>4, ConstantsAssumption DEF ConstantsAssumption, Tick
  <2>2. Seconds(stamp) \in Int
    BY <1>1, SecondsType
  <2>3. Timely'
    <3> DEFINE n == Seconds(stamp)
    <3>1. Seconds(stamp') = n /\ n \in Int
      BY <2>1, <2>2
    <3> HIDE DEF n
    <3> DEFINE m == n + (uptime - base)
    <3>2. n + (uptime' - base') = m + g
      BY <2>1, <3>1, <1>1
    <3>3. m \in Int
      BY <3>1, <1>1
    <3>4. source = "date" => m >= truth /\ (updates = 0 => m = truth)
      BY DEF Timely, n
    <3> HIDE DEF m
    <3>5. source' = "date" => /\ n + (uptime' - base') >= truth'
                              /\ updates' = 0 => n + (uptime' - base') = truth'
      BY <1>1, <2>1, <3>2, <3>3, <3>4
    <3> QED
      BY <3>1, <3>5 DEF Timely
  <2>4. Update
    BY <1>1, <2>1 DEF Update
  <2> QED
    BY <2>3, <2>4
<1>5. ASSUME NEW d \in Date, NEW names, resolution_times(d, names) PROVE Timely' /\ Update
  <2>1. updates' = 0 /\ updates' # updates + 1
    BY <1>1, <1>5 DEF resolution_times
  <2>2. CASE source' = "date"
    <3>1. stamp' = d /\ truth' = Seconds(d) /\ uptime' = uptime /\ base' = uptime
      BY <1>5, <2>2 DEF resolution_times
    <3>2. Seconds(d) \in Int
      BY SecondsType, ConstantsAssumption DEF ConstantsAssumption
    <3>3. Seconds(stamp') + (uptime' - base') = truth' /\ truth' \in Int
      BY <1>1, <3>1, <3>2
    <3> QED
      BY <2>1, <3>3 DEF Timely, Update
  <2> QED
    BY <2>2, <1>3
<1>6. ASSUME NEW d \in Date, GnrmcStamp(d) PROVE Timely' /\ Update
  BY <1>3, <1>6 DEF GnrmcStamp
<1>7. CASE update_timestamp
  BY <1>3, <1>7, UpdateTimely
<1>8. CASE Answer
  BY <1>2, <1>8 DEF Answer, post_callback, PostUnbound, NbCollectId
<1>9. CASE NotFound \/ ota_start_upgrade \/ \E ok \in BOOLEAN : ota_finished_callback(ok)
  BY <1>2, <1>9 DEF NotFound, ota_start_upgrade, ota_finished_callback
<1>10. CASE power_on \/ Crash
  BY <1>3, <1>10 DEF power_on, Crash, devicexx_app_load
<1>11. CASE UNCHANGED vars
  BY <1>2, <1>11 DEF vars
<1> QED
  BY <1>4, <1>5, <1>6, <1>7, <1>8, <1>9, <1>10, <1>11 DEF Next, SetStamp

\* Between two restarts, update_timestamp brings a stamp that a Date header has
\* set to the true time, and a later update never to an earlier one.
THEOREM StampTimelyAlways == Spec => StampTimely
<1>1. Init => Timely
  BY DEF Init, Timely
<1>2. TypeOK /\ Timely /\ [Next]_vars => Timely' /\ [Update]_vars
  BY NextTimely
<1>3. [Update]_vars <=> [source = "date" /\ source' = "date" /\ updates' = updates + 1 =>
                           /\ Seconds(stamp') >= truth
                           /\ updates = 0 => Seconds(stamp') = truth]_vars
  BY DEF Update
<1> QED
  BY <1>1, <1>2, <1>3, TypeCorrect, PTL DEF Spec, StampTimely
=============================================================================
