------------------------- MODULE AccessPoints_proofs -------------------------
(***************************************************************************)
(* Proofs about AccessPoints: an address comes back from the server as it  *)
(* has been written; a scan loses no access point on the way to the report  *)
(* and leaves the anchors in their places; failures keep the device off    *)
(* the network, and scans bring it back in time.                           *)
(***************************************************************************)
EXTENDS AccessPoints, Recursion, FiniteSetTheorems, TLAPS

-----------------------------------------------------------------------------
(* The text.                                                               *)

\* A digit is a character, and says what it stands for.
LEMMA DigitSays ==
  ASSUME NEW d \in 0 .. 15
  PROVE  /\ Digit(d) \in Character
         /\ d < 10 => Digit(d) = d + 48
         /\ (IF Digit(d) < 58 THEN (Digit(d) - 48) % 256 ELSE (Digit(d) - 55) % 256) = d
BY DEF Digit, Character

\* The nibbles of a byte.
LEMMA Nibbles ==
  ASSUME NEW b \in Byte
  PROVE  /\ b \div 16 \in 0 .. 15 /\ b % 16 \in 0 .. 15
         /\ ((b \div 16) * 16 + (b % 16)) % 256 = b
         /\ b \in Character => b \div 16 \in 0 .. 9 /\ b % 16 \in 0 .. 9
BY DEF Byte, Character

\* What HexText writes.
LEMMA HexTextIs ==
  ASSUME NEW s \in Seq(Byte)
  PROVE  /\ HexText(s) \in Seq(Byte) /\ Len(HexText(s)) = 2 * Len(s)
         /\ \A k \in 1 .. Len(s) :
              /\ HexText(s)[2 * k - 1] = Digit(s[k] \div 16)
              /\ HexText(s)[2 * k] = Digit(s[k] % 16)
         /\ \A k \in 1 .. 2 * Len(s) : HexText(s)[k] \in Character
<1> DEFINE n == Len(s)
           t == HexText(s)
           d(k) == LET b == s[(k + 1) \div 2] IN IF k % 2 = 1 THEN b \div 16 ELSE b % 16
<1>1. n \in Nat /\ \A k \in 1 .. n : s[k] \in Byte
  OBVIOUS
<1>2. t = [k \in 1 .. 2 * n |-> Digit(d(k))]
  BY DEF HexText
<1>3. ASSUME NEW k \in 1 .. 2 * n PROVE d(k) \in 0 .. 15
  <2>1. (k + 1) \div 2 \in 1 .. n
    BY <1>1
  <2>2. s[(k + 1) \div 2] \in Byte
    BY <1>1, <2>1
  <2> QED
    BY <2>2, Nibbles
<1>4. ASSUME NEW k \in 1 .. n
      PROVE  /\ 2 * k - 1 \in 1 .. 2 * n /\ 2 * k \in 1 .. 2 * n
             /\ d(2 * k - 1) = s[k] \div 16 /\ d(2 * k) = s[k] % 16
  <2>1. (2 * k - 1 + 1) \div 2 = k /\ (2 * k + 1) \div 2 = k
    BY <1>1
  <2>2. (2 * k - 1) % 2 = 1 /\ (2 * k) % 2 = 0
    BY <1>1
  <2>3. 2 * k - 1 \in 1 .. 2 * n /\ 2 * k \in 1 .. 2 * n
    BY <1>1
  <2> QED
    BY <2>1, <2>2, <2>3
<1> HIDE DEF n, t, d
<1>5. \A k \in 1 .. 2 * n : t[k] \in Character
  BY <1>2, <1>3, DigitSays
<1>6. t \in Seq(Byte) /\ Len(t) = 2 * n
  <2>1. 2 * n \in Nat
    BY <1>1
  <2>2. \A c \in Character : c \in Byte
    BY DEF Character, Byte
  <2>3. t \in [1 .. 2 * n -> Byte]
    BY <1>2, <1>5, <2>2
  <2> QED
    BY <2>1, <2>3
<1>7. \A k \in 1 .. n : t[2 * k - 1] = Digit(s[k] \div 16) /\ t[2 * k] = Digit(s[k] % 16)
  BY <1>2, <1>4
<1> QED
  BY <1>5, <1>6, <1>7 DEF n, t

\* What is decoded from a byte is a number.
LEMMA Remainder ==
  ASSUME NEW b \in Byte
  PROVE  (b - 48) % 256 \in Int /\ (b - 55) % 256 \in Int
BY DEF Byte

\* Pairs of digits are the bytes they have been written for.
LEMMA PairIs ==
  ASSUME NEW s \in Seq(Byte), NEW t \in Seq(Int), Len(t) = 2 * Len(s),
         \A k \in 1 .. Len(s) : t[2 * k - 1] = s[k] \div 16 /\ t[2 * k] = s[k] % 16
  PROVE  Pair(t) = s
<1> DEFINE n == Len(s)
<1>1. n \in Nat /\ (2 * n) \div 2 = n
  OBVIOUS
<1>2. Pair(t) = [k \in 1 .. n |-> (t[2 * k - 1] * 16 + t[2 * k]) % 256]
  BY <1>1 DEF Pair
<1>3. ASSUME NEW k \in 1 .. n PROVE (t[2 * k - 1] * 16 + t[2 * k]) % 256 = s[k]
  <2>1. s[k] \in Byte
    BY <1>1
  <2> QED
    BY <2>1, Nibbles
<1>4. s = [k \in 1 .. n |-> s[k]]
  OBVIOUS
<1> QED
  BY <1>2, <1>3, <1>4

\* The address of an access point comes back from the server as it has been
\* written: get_indoor_position undoes what scan_done and ap_str_ascii_str do,
\* for addresses of every length.
THEOREM RoundTrip ==
  ASSUME NEW mac \in Seq(Byte)
  PROVE  Decode(HexText(HexText(mac))) = mac
<1> DEFINE t == HexText(mac)
           u == HexText(t)
           n == Len(mac)
<1>1. /\ n \in Nat
      /\ t \in Seq(Byte) /\ Len(t) = 2 * n
      /\ \A k \in 1 .. n : t[2 * k - 1] = Digit(mac[k] \div 16) /\ t[2 * k] = Digit(mac[k] % 16)
      /\ \A k \in 1 .. 2 * n : t[k] \in Character
  BY HexTextIs
<1>2. /\ u \in Seq(Byte) /\ Len(u) = 2 * Len(t)
      /\ \A k \in 1 .. Len(t) : u[2 * k - 1] = Digit(t[k] \div 16) /\ u[2 * k] = Digit(t[k] % 16)
  BY <1>1, HexTextIs
<1> HIDE DEF t, u, n
<1>3. Pair(Figures(u)) = t
  <2>1. Figures(u) = [k \in 1 .. Len(u) |-> (u[k] - 48) % 256] /\ Len(u) \in Nat
    BY <1>2 DEF Figures
  <2>2. ASSUME NEW k \in 1 .. Len(u) PROVE (u[k] - 48) % 256 \in Int
    <3>1. u[k] \in Byte
      BY <1>2
    <3> QED
      BY <3>1, Remainder
  <2>3. Figures(u) \in Seq(Int) /\ Len(Figures(u)) = 2 * Len(t)
    <3>1. Figures(u) \in [1 .. Len(u) -> Int]
      BY <2>1, <2>2
    <3>2. Figures(u) \in Seq(Int) /\ Len(Figures(u)) = Len(u)
      BY <2>1, <3>1
    <3> QED
      BY <3>2, <1>2
  <2>4. ASSUME NEW k \in 1 .. Len(t)
        PROVE  Figures(u)[2 * k - 1] = t[k] \div 16 /\ Figures(u)[2 * k] = t[k] % 16
    <3>1. 2 * k - 1 \in 1 .. Len(u) /\ 2 * k \in 1 .. Len(u)
      BY <1>1, <1>2
    <3>2. t[k] \in Byte /\ t[k] \in Character
      BY <1>1
    <3>3. t[k] \div 16 \in 0 .. 9 /\ t[k] % 16 \in 0 .. 9
      BY <3>2, Nibbles
    <3>4. u[2 * k - 1] = (t[k] \div 16) + 48 /\ u[2 * k] = (t[k] % 16) + 48
      BY <1>2, <3>3 DEF Digit
    <3>5. ASSUME NEW d \in 0 .. 9 PROVE ((d + 48) - 48) % 256 = d
      OBVIOUS
    <3>6. /\ Figures(u)[2 * k - 1] = (u[2 * k - 1] - 48) % 256
          /\ Figures(u)[2 * k] = (u[2 * k] - 48) % 256
      BY <2>1, <3>1
    <3>7. /\ (((t[k] \div 16) + 48) - 48) % 256 = t[k] \div 16
          /\ (((t[k] % 16) + 48) - 48) % 256 = t[k] % 16
      BY <3>3, <3>5
    <3>8. /\ Figures(u)[2 * k - 1] = (((t[k] \div 16) + 48) - 48) % 256
          /\ Figures(u)[2 * k] = (((t[k] % 16) + 48) - 48) % 256
      BY <3>4, <3>6, Zenon
    <3> QED
      BY <3>7, <3>8, Zenon
  <2> QED
    BY <1>1, <2>3, <2>4, PairIs
<1>4. Pair(Digits(t)) = mac
  <2> DEFINE v(c) == IF c < 58 THEN (c - 48) % 256 ELSE (c - 55) % 256
  <2>1. Digits(t) = [k \in 1 .. 2 * n |-> v(t[k])] /\ 2 * n \in Nat
    BY <1>1 DEF Digits
  <2>2. ASSUME NEW k \in 1 .. 2 * n PROVE v(t[k]) \in Int
    <3>1. t[k] \in Byte
      BY <1>1
    <3> QED
      BY <3>1, Remainder
  <2>3. \A d \in 0 .. 15 : v(Digit(d)) = d
    BY DigitSays
  <2> HIDE DEF v
  <2>4. Digits(t) \in Seq(Int) /\ Len(Digits(t)) = 2 * n
    <3>1. Digits(t) \in [1 .. 2 * n -> Int]
      BY <2>1, <2>2
    <3> QED
      BY <2>1, <3>1
  <2>5. ASSUME NEW k \in 1 .. n
        PROVE  Digits(t)[2 * k - 1] = mac[k] \div 16 /\ Digits(t)[2 * k] = mac[k] % 16
    <3>1. 2 * k - 1 \in 1 .. 2 * n /\ 2 * k \in 1 .. 2 * n
      BY <1>1
    <3>2. mac[k] \in Byte
      BY DEF n
    <3>3. mac[k] \div 16 \in 0 .. 15 /\ mac[k] % 16 \in 0 .. 15
      BY <3>2, Nibbles
    <3> QED
      BY <1>1, <2>1, <2>3, <3>1, <3>3
  <2> QED
    BY <2>4, <2>5, PairIs DEF n
<1> QED
  BY <1>3, <1>4 DEF Decode, t, u

\* Figures stand for characters.
LEMMA HexTextOfText ==
  ASSUME NEW s \in Seq(Byte), \A k \in 1 .. Len(s) : s[k] \in Character
  PROVE  \A k \in 1 .. 2 * Len(s) : HexText(s)[k] \in 48 .. 57
<1> SUFFICES ASSUME NEW k \in 1 .. 2 * Len(s) PROVE HexText(s)[k] \in 48 .. 57
  OBVIOUS
<1> DEFINE b == s[(k + 1) \div 2]
           d == IF k % 2 = 1 THEN b \div 16 ELSE b % 16
<1>1. (k + 1) \div 2 \in 1 .. Len(s)
  OBVIOUS
<1>2. b \in Byte /\ b \in Character
  BY <1>1
<1>3. HexText(s)[k] = Digit(d)
  BY DEF HexText
<1> HIDE DEF b
<1>4. d \in 0 .. 9
  BY <1>2, Nibbles
<1> HIDE DEF d
<1>5. Digit(d) = d + 48
  BY <1>4 DEF Digit
<1> QED
  BY <1>3, <1>4, <1>5

\* A server that reads the text by the usual rules reads what has been written.
LEMMA ReadHexIs ==
  ASSUME NEW s \in Seq(Byte)
  PROVE  ReadHex(HexText(s)) = s
<1> DEFINE n == Len(s)
           t == HexText(s)
           value(c) == IF c < 58 THEN c - 48 ELSE c - 55
<1>1. /\ n \in Nat /\ Len(t) = 2 * n /\ (2 * n) \div 2 = n
      /\ \A k \in 1 .. n : t[2 * k - 1] = Digit(s[k] \div 16) /\ t[2 * k] = Digit(s[k] % 16)
  BY HexTextIs
<1>2. ReadHex(t) = [k \in 1 .. n |-> value(t[2 * k - 1]) * 16 + value(t[2 * k])]
  BY <1>1 DEF ReadHex
<1>3. \A d \in 0 .. 15 : value(Digit(d)) = d
  BY DEF Digit
<1> HIDE DEF value, t
<1>4. ASSUME NEW k \in 1 .. n PROVE value(t[2 * k - 1]) * 16 + value(t[2 * k]) = s[k]
  <2>1. ASSUME NEW b \in Byte
        PROVE  b \div 16 \in 0 .. 15 /\ b % 16 \in 0 .. 15 /\ (b \div 16) * 16 + (b % 16) = b
    BY DEF Byte
  <2>2. s[k] \div 16 \in 0 .. 15 /\ s[k] % 16 \in 0 .. 15 /\ (s[k] \div 16) * 16 + (s[k] % 16) = s[k]
    <3>1. s[k] \in Byte
      OBVIOUS
    <3> QED
      BY <2>1, <3>1, Zenon
  <2>3. value(t[2 * k - 1]) = s[k] \div 16 /\ value(t[2 * k]) = s[k] % 16
    BY <1>1, <1>3, <2>2
  <2> QED
    BY <2>2, <2>3
<1>5. s = [k \in 1 .. n |-> s[k]]
  OBVIOUS
<1> QED
  BY <1>2, <1>4, <1>5 DEF t

\* The addresses are sequences of bytes.
LEMMA Addresses ==
  ASSUME NEW m \in Bssid \cup {Zero}
  PROVE  m \in Seq(Byte) /\ Len(m) = Len(Zero) /\ Len(Zero) \in Nat
BY ConstantsAssumption

\* What scan_done writes of a row says what the row holds.
LEMMA TextReads ==
  ASSUME NEW row \in Row
  PROVE  Reads(row, Text(row))
<1>1. row.mac \in Bssid \cup {Zero} /\ row.rssi \in 0 .. 127 /\ row.channel \in 0 .. 14
  BY DEF Row
<1>2. ReadHex(Text(row).mac) = row.mac
  <2>1. row.mac \in Seq(Byte)
    BY <1>1, Addresses
  <2>2. Text(row).mac = HexText(row.mac)
    BY DEF Text
  <2> QED
    BY <2>1, <2>2, ReadHexIs
<1>3. ASSUME row.rssi < 100
      PROVE  (Text(row).rssi[1] - 48) * 10 + (Text(row).rssi[2] - 48) = row.rssi
  <2>1. /\ row.rssi \div 10 \in 0 .. 9 /\ row.rssi % 10 \in 0 .. 9
        /\ (row.rssi \div 10) * 10 + (row.rssi % 10) = row.rssi
    BY <1>1, <1>3
  <2>2. Text(row).rssi[1] = Digit(row.rssi \div 10) /\ Text(row).rssi[2] = Digit(row.rssi % 10)
    BY DEF Text
  <2>3. \A d \in 0 .. 9 : Digit(d) - 48 = d
    BY DEF Digit
  <2> QED
    BY <2>1, <2>2, <2>3
<1>4. ASSUME row.channel \in 1 .. 13
      PROVE  Text(row).freq = [k \in 1 .. 4 |->
               48 + (((2407 + 5 * row.channel) \div <<1000, 100, 10, 1>>[k]) % 10)]
  <2> DEFINE c == row.channel
             f == Text(row).freq
             g == [k \in 1 .. 4 |-> 48 + (((2407 + 5 * c) \div <<1000, 100, 10, 1>>[k]) % 10)]
  <2>1. f = <<Digit(2), Digit(4), Digit((c + 1) \div 2), Digit(((c + 1) % 2) * 5 + 2)>>
    BY DEF Text
  <2>2. g = <<48 + (((2407 + 5 * c) \div 1000) % 10), 48 + (((2407 + 5 * c) \div 100) % 10),
              48 + (((2407 + 5 * c) \div 10) % 10), 48 + (((2407 + 5 * c) \div 1) % 10)>>
    OBVIOUS
  <2> HIDE DEF f, g
  <2>3. PICK n : n = c
    OBVIOUS
  <2>4. n \in 1 .. 13
    BY <1>4, <2>3
  <2>5. /\ ((2407 + 5 * n) \div 1000) % 10 = 2
        /\ ((2407 + 5 * n) \div 100) % 10 = 4
        /\ ((2407 + 5 * n) \div 10) % 10 = (n + 1) \div 2
        /\ ((2407 + 5 * n) \div 1) % 10 = ((n + 1) % 2) * 5 + 2
    BY <2>4
  <2>6. /\ Digit(2) = 48 + 2 /\ Digit(4) = 48 + 4
        /\ Digit((n + 1) \div 2) = 48 + ((n + 1) \div 2)
        /\ Digit(((n + 1) % 2) * 5 + 2) = 48 + (((n + 1) % 2) * 5 + 2)
    BY <2>4 DEF Digit
  <2>7. f = g
    BY <2>1, <2>2, <2>3, <2>5, <2>6
  <2> QED
    BY <2>7 DEF f, g
<1> QED
  BY <1>2, <1>3, <1>4 DEF Reads

-----------------------------------------------------------------------------
(* The table.                                                              *)

Table == [0 .. Rows - 1 -> Row]

\* The bounds that the constants set.
LEMMA Bounds ==
  /\ Rows \in Nat /\ Reported \in 1 .. Rows /\ Anchored \in 1 .. Reported
  /\ Slot \subseteq 0 .. Rows - 1 /\ Anchor \subseteq Slot
BY ConstantsAssumption DEF Slot, Anchor

\* An exchange moves two rows.
LEMMA ExchangeIs ==
  ASSUME NEW t \in Table, NEW i \in 0 .. Rows - 1, NEW j \in 0 .. Rows - 1
  PROVE  /\ Exchange(t, i, j) \in Table
         /\ \A r \in 0 .. Rows - 1 :
              Exchange(t, i, j)[r] = IF r = j THEN t[i] ELSE IF r = i THEN t[j] ELSE t[r]
BY DEF Exchange, Table

\* What is done for one anchor: nothing if no row found has its address, and
\* otherwise an exchange with a row that has.
LEMMA PlaceIs ==
  ASSUME NEW q \in Table, NEW i \in Anchor, NEW sum \in 0 .. Rows
  PROVE  /\ Place(q, i, sum) \in Table
         /\ \/ Place(q, i, sum) = q /\ \A j \in 0 .. sum - 1 : q[j].mac # apmac_rssi[i].mac
            \/ \E j \in 0 .. sum - 1 :
                 q[j].mac = apmac_rssi[i].mac /\ Place(q, i, sum) = Exchange(q, i, j)
<1> DEFINE js == {j \in 0 .. sum - 1 : q[j].mac = apmac_rssi[i].mac}
           j == CHOOSE j \in js : \A l \in js : j <= l
<1>1. CASE js = {}
  BY <1>1 DEF Place
<1>2. CASE js # {}
  <2>1. js \subseteq Nat
    BY Bounds
  <2>2. j \in js
    <3> HIDE DEF js
    <3> QED
      BY <1>2, <2>1, LeastNatural
  <2>3. Place(q, i, sum) = Exchange(q, i, j)
    BY <1>2 DEF Place
  <2> HIDE DEF j
  <2>4. j \in 0 .. Rows - 1 /\ i \in 0 .. Rows - 1
    BY <2>2, Bounds
  <2>5. Exchange(q, i, j) \in Table
    BY <2>4, ExchangeIs
  <2> QED
    BY <2>2, <2>3, <2>5
<1> QED
  BY <1>1, <1>2

\* The table after each of the anchors.
LEMMA PlacedIs ==
  ASSUME NEW t \in Table, NEW sum \in 0 .. Rows
  PROVE  \E p \in [0 .. Anchored -> Table] :
           /\ p[0] = t /\ p[Anchored] = Placed(t, sum)
           /\ \A k \in 1 .. Anchored : p[k] = Place(p[k - 1], k - 1, sum)
<1> DEFINE Is(p) == p = [k \in 0 .. Anchored |-> IF k = 0 THEN t ELSE Place(p[k - 1], k - 1, sum)]
<1>0. PICK F : F = [k \in 1 .. Anchored |-> [q \in Table |-> Place(q, k - 1, sum)]]
  OBVIOUS
<1>1. F \in [1 .. Anchored -> [Table -> Table]]
  <2>1. ASSUME NEW k \in 1 .. Anchored, NEW q \in Table PROVE Place(q, k - 1, sum) \in Table
    <3>1. k - 1 \in Anchor
      BY Bounds DEF Anchor
    <3> QED
      BY <3>1, PlaceIs
  <2> QED
    BY <1>0, <2>1
<1>2. PICK g \in [0 .. Anchored -> Table] : Follows(g, Anchored, t, F)
  <2>1. Anchored \in Nat
    BY Bounds
  <2> QED
    BY <1>1, <2>1, RecursiveFunction
<1>3. ASSUME NEW k \in 1 .. Anchored, NEW q \in Table PROVE F[k][q] = Place(q, k - 1, sum)
  BY <1>0
<1>4. Anchored \in 1 .. Reported /\ Reported \in Nat
  BY Bounds
<1>5. Is(g)
  <2>1. g = [k \in 0 .. Anchored |-> g[k]]
    OBVIOUS
  <2>2. ASSUME NEW k \in 0 .. Anchored
        PROVE  g[k] = IF k = 0 THEN t ELSE Place(g[k - 1], k - 1, sum)
    <3>1. g[k] = IF k = 0 THEN t ELSE F[k][g[k - 1]]
      BY <1>2 DEF Follows
    <3>2. k # 0 => k \in 1 .. Anchored /\ k - 1 \in 0 .. Anchored
      BY <1>4
    <3>3. k # 0 => g[k - 1] \in Table
      BY <3>2
    <3> QED
      BY <1>3, <3>1, <3>2, <3>3
  <2> QED
    BY <2>1, <2>2
<1>6. PICK c : c = CHOOSE p : Is(p)
  OBVIOUS
<1>7. Placed(t, sum) = c[Anchored] /\ Is(c)
  <2>1. Placed(t, sum) = c[Anchored]
    BY <1>6 DEF Placed
  <2> HIDE DEF Is
  <2> QED
    BY <1>5, <1>6, <2>1
<1>8. c = g
  <2> DEFINE S == {k \in Nat : k <= Anchored => c[k] = g[k]}
  <2>1. 0 \in S
    BY <1>5, <1>7
  <2>2. ASSUME NEW k \in 1 .. Anchored, k - 1 \in S PROVE k \in S
    <3>1. c[k - 1] = g[k - 1] /\ k # 0 /\ k \in 0 .. Anchored /\ k \in Nat
      BY <1>4, <2>2
    <3>2. c[k] = Place(c[k - 1], k - 1, sum) /\ g[k] = Place(g[k - 1], k - 1, sum)
      BY <1>5, <1>7, <3>1
    <3> QED
      BY <3>1, <3>2
  <2> HIDE DEF S
  <2>3. Anchored \in Nat
    BY <1>4
  <2>4. 0 .. Anchored \subseteq S
    BY <2>3, <2>1, <2>2, InductionTo, Zenon
  <2>5. \A k \in 0 .. Anchored : c[k] = g[k]
    BY <1>4, <2>4 DEF S
  <2>6. c = [k \in 0 .. Anchored |-> c[k]] /\ g = [k \in 0 .. Anchored |-> g[k]]
    BY <1>7
  <2> QED
    BY <2>5, <2>6
<1>9. \A k \in 1 .. Anchored : g[k] = Place(g[k - 1], k - 1, sum)
  BY <1>4, <1>5
<1>10. g[0] = t
  BY <1>4, <1>5
<1> QED
  BY <1>7, <1>8, <1>9, <1>10

\* Every row found is in the report as long as the report is not full.
LEMMA PlacedFew ==
  ASSUME NEW t \in Table, NEW sum \in 0 .. Reported
  PROVE  \A k \in 0 .. sum - 1 : \E r \in Slot : Placed(t, sum)[r] = t[k]
<1>1. sum \in 0 .. Rows /\ Anchored \in Nat
  BY Bounds
<1>2. PICK p \in [0 .. Anchored -> Table] :
        /\ p[0] = t /\ p[Anchored] = Placed(t, sum)
        /\ \A k \in 1 .. Anchored : p[k] = Place(p[k - 1], k - 1, sum)
  BY <1>1, PlacedIs
<1> DEFINE S == {l \in Nat : \A k \in 0 .. sum - 1 : \E r \in Slot : p[l][r] = t[k]}
<1>3. 0 \in S
  BY <1>2, Bounds DEF Slot
<1>4. ASSUME NEW l \in 1 .. Anchored, l - 1 \in S PROVE l \in S
  <2> DEFINE q == p[l - 1]
             i == l - 1
  <2>1. q \in Table /\ i \in Anchor /\ i \in Slot /\ i \in 0 .. Rows - 1 /\ l \in Nat
    BY Bounds DEF Anchor, Slot
  <2>2. p[l] = Place(q, i, sum)
    BY <1>2
  <2> SUFFICES ASSUME NEW k \in 0 .. sum - 1 PROVE \E r \in Slot : p[l][r] = t[k]
    BY <2>1
  <2>3. PICK r \in Slot : q[r] = t[k]
    BY <1>4
  <2> HIDE DEF q, i
  <2>4. CASE p[l] = q
    BY <2>3, <2>4
  <2>5. ASSUME NEW j \in 0 .. sum - 1, p[l] = Exchange(q, i, j)
        PROVE  \E s \in Slot : p[l][s] = t[k]
    <3>1. j \in Slot /\ j \in 0 .. Rows - 1 /\ r \in 0 .. Rows - 1
      BY Bounds DEF Slot
    <3>2. \A s \in 0 .. Rows - 1 :
            p[l][s] = IF s = j THEN q[i] ELSE IF s = i THEN q[j] ELSE q[s]
      <4>1. \A s \in 0 .. Rows - 1 :
              Exchange(q, i, j)[s] = IF s = j THEN q[i] ELSE IF s = i THEN q[j] ELSE q[s]
        BY <2>1, <3>1, ExchangeIs
      <4> QED
        BY <2>5, <4>1, Zenon
    <3>3. CASE r = i
      BY <2>3, <3>1, <3>2, <3>3
    <3>4. CASE r = j /\ r # i
      BY <2>1, <2>3, <3>2, <3>4
    <3>5. CASE r # i /\ r # j
      BY <2>3, <3>1, <3>2, <3>5
    <3> QED
      BY <3>3, <3>4, <3>5
  <2> QED
    BY <1>1, <2>1, <2>2, <2>4, <2>5, PlaceIs
<1> HIDE DEF S
<1>5. Anchored \in S
  <2>1. 0 .. Anchored \subseteq S
    BY <1>1, <1>3, <1>4, InductionTo, Zenon
  <2> QED
    BY <1>1, <2>1
<1> QED
  BY <1>2, <1>5 DEF S

\* Of more rows than the report holds none comes from another scan, and none
\* comes twice.
LEMMA PlacedMany ==
  ASSUME NEW t \in Table, NEW sum \in Reported .. Rows,
         \A k, l \in 0 .. sum - 1 : t[k].mac = t[l].mac => k = l
  PROVE  /\ \A r \in 0 .. sum - 1 : \E k \in 0 .. sum - 1 : Placed(t, sum)[r] = t[k]
         /\ \A r, s \in 0 .. sum - 1 : Placed(t, sum)[r].mac = Placed(t, sum)[s].mac => r = s
<1>1. sum \in 0 .. Rows /\ Anchored \in Nat
  BY Bounds
<1>2. PICK p \in [0 .. Anchored -> Table] :
        /\ p[0] = t /\ p[Anchored] = Placed(t, sum)
        /\ \A k \in 1 .. Anchored : p[k] = Place(p[k - 1], k - 1, sum)
  BY <1>1, PlacedIs
<1> DEFINE Good(q) ==
             /\ \A r \in 0 .. sum - 1 : \E k \in 0 .. sum - 1 : q[r] = t[k]
             /\ \A r, s \in 0 .. sum - 1 : q[r].mac = q[s].mac => r = s
           S == {l \in Nat : Good(p[l])}
<1>3. 0 \in S
  <2>1. Good(t)
    OBVIOUS
  <2> HIDE DEF Good
  <2> QED
    BY <1>2, <2>1
<1>4. ASSUME NEW l \in 1 .. Anchored, l - 1 \in S PROVE l \in S
  <2> DEFINE q == p[l - 1]
             i == l - 1
  <2>1. /\ q \in Table /\ i \in Anchor /\ i \in 0 .. sum - 1 /\ i \in 0 .. Rows - 1
        /\ l \in Nat
    BY Bounds DEF Anchor
  <2>2. p[l] = Place(q, i, sum)
    BY <1>2
  <2>3. Good(q)
    BY <1>4
  <2> HIDE DEF q, i
  <2>4. CASE p[l] = q
    BY <2>1, <2>3, <2>4
  <2>5. ASSUME NEW j \in 0 .. sum - 1, p[l] = Exchange(q, i, j) PROVE Good(p[l])
    <3>1. j \in 0 .. Rows - 1 /\ \A r \in 0 .. sum - 1 : r \in 0 .. Rows - 1
      BY Bounds
    <3>2. \A s \in 0 .. sum - 1 :
            p[l][s] = IF s = j THEN q[i] ELSE IF s = i THEN q[j] ELSE q[s]
      <4>1. \A s \in 0 .. Rows - 1 :
              Exchange(q, i, j)[s] = IF s = j THEN q[i] ELSE IF s = i THEN q[j] ELSE q[s]
        BY <2>1, <3>1, ExchangeIs
      <4> QED
        BY <2>5, <3>1, <4>1, Zenon
    <3>3. \A r \in 0 .. sum - 1 : \E k \in 0 .. sum - 1 : p[l][r] = t[k]
      BY <2>1, <2>3, <3>2
    <3>4. ASSUME NEW r \in 0 .. sum - 1, NEW s \in 0 .. sum - 1, p[l][r].mac = p[l][s].mac
          PROVE  r = s
      <4> DEFINE at(x) == IF x = j THEN i ELSE IF x = i THEN j ELSE x
      <4>1. at(r) \in 0 .. sum - 1 /\ at(s) \in 0 .. sum - 1 /\ (at(r) = at(s) => r = s)
        BY <2>1
      <4>2. p[l][r] = q[at(r)] /\ p[l][s] = q[at(s)]
        BY <3>2
      <4> HIDE DEF at
      <4>3. q[at(r)].mac = q[at(s)].mac
        BY <3>4, <4>2
      <4>4. \A x, y \in 0 .. sum - 1 : q[x].mac = q[y].mac => x = y
        BY <2>3
      <4> QED
        BY <4>1, <4>3, <4>4, Zenon
    <3> HIDE DEF S
    <3> QED
      BY <3>3, <3>4
  <2> HIDE DEF Good
  <2>6. Good(p[l])
    BY <1>1, <2>1, <2>2, <2>3, <2>4, <2>5, PlaceIs
  <2> QED
    BY <2>1, <2>6
<1> HIDE DEF S
<1>5. Anchored \in S
  <2>1. 0 .. Anchored \subseteq S
    BY <1>1, <1>3, <1>4, InductionTo, Zenon
  <2> QED
    BY <1>1, <2>1
<1> QED
  BY <1>2, <1>5 DEF S

\* An anchor that is among the rows found gets its place and keeps it, unless a
\* later one has the same address, or an earlier one has moved it behind them.
LEMMA PlacedAnchor ==
  ASSUME NEW t \in Table, NEW sum \in 0 .. Rows, NEW i \in Anchor,
         \E j \in 0 .. sum - 1 : t[j].mac = apmac_rssi[i].mac,
         \A l \in Anchor : l > i => apmac_rssi[l].mac # apmac_rssi[i].mac,
         \A l \in Anchor : l < i /\ l >= sum =>
           apmac_rssi[l].mac # apmac_rssi[i].mac \/ t[l].mac = apmac_rssi[i].mac
  PROVE  Placed(t, sum)[i].mac = apmac_rssi[i].mac
<1>0. PICK a : a = apmac_rssi[i].mac
  OBVIOUS
<1>1. Anchored \in Nat /\ i \in 0 .. Anchored - 1
  BY Bounds DEF Anchor
<1>2. PICK p \in [0 .. Anchored -> Table] :
        /\ p[0] = t /\ p[Anchored] = Placed(t, sum)
        /\ \A k \in 1 .. Anchored : p[k] = Place(p[k - 1], k - 1, sum)
  BY PlacedIs
<1> DEFINE Ahead(k, q) == /\ \E j \in 0 .. sum - 1 : q[j].mac = a
                          /\ \A l \in Anchor : l >= k /\ l >= sum => q[l] = t[l]
           S == {k \in Nat : IF k <= i THEN Ahead(k, p[k]) ELSE p[k][i].mac = a}
<1>3. 0 \in S
  BY <1>0, <1>1, <1>2
<1>4. ASSUME NEW k \in 1 .. Anchored, k - 1 \in S PROVE k \in S
  <2> DEFINE q == p[k - 1]
             n == k - 1
  <2>1. q \in Table /\ n \in Anchor /\ n \in 0 .. Rows - 1 /\ k \in Nat /\ k = n + 1
    BY Bounds DEF Anchor
  <2>2. p[k] = Place(q, n, sum)
    BY <1>2
  <2>3. IF n <= i THEN Ahead(n, q) ELSE q[i].mac = a
    BY <1>4
  <2>4. i \in Int /\ i \in 0 .. Rows - 1 /\ \A l \in Anchor : l \in Int /\ l \in 0 .. Rows - 1
    BY Bounds DEF Anchor
  <2> HIDE DEF q, n, S
  <2>5. ASSUME NEW j \in 0 .. sum - 1, p[k] = Exchange(q, n, j)
        PROVE  \A s \in 0 .. Rows - 1 :
                 p[k][s] = IF s = j THEN q[n] ELSE IF s = n THEN q[j] ELSE q[s]
    <3>1. j \in 0 .. Rows - 1
      BY Bounds
    <3>2. \A s \in 0 .. Rows - 1 :
            Exchange(q, n, j)[s] = IF s = j THEN q[n] ELSE IF s = n THEN q[j] ELSE q[s]
      BY <2>1, <3>1, ExchangeIs
    <3> QED
      BY <2>5, <3>2, Zenon
  <2>6. CASE n < i
    <3>1. Ahead(n, q)
      BY <2>1, <2>3, <2>4, <2>6
    <3>2. CASE p[k] = q
      <4>1. Ahead(k, q)
        BY <2>1, <2>4, <3>1
      <4> QED
        BY <2>1, <2>4, <2>6, <3>2, <4>1 DEF S
    <3>3. ASSUME NEW j \in 0 .. sum - 1, q[j].mac = apmac_rssi[n].mac, p[k] = Exchange(q, n, j)
          PROVE  k \in S
      <4>1. \A s \in 0 .. Rows - 1 :
              p[k][s] = IF s = j THEN q[n] ELSE IF s = n THEN q[j] ELSE q[s]
        BY <2>5, <3>3
      <4>2. \A l \in Anchor : l >= k /\ l >= sum => p[k][l] = t[l]
        BY <2>1, <2>4, <3>1, <4>1
      <4>3. PICK h \in 0 .. sum - 1 : q[h].mac = a
        BY <3>1
      <4>4. h \in 0 .. Rows - 1 /\ j \in 0 .. Rows - 1
        BY Bounds
      <4>5. CASE h = n
        <5>1. p[k][j].mac = a
          BY <4>1, <4>3, <4>4, <4>5
        <5> QED
          BY <2>1, <2>4, <2>6, <4>2, <5>1 DEF S
      <4>6. CASE h # n /\ h # j
        <5>1. p[k][h].mac = a
          BY <4>1, <4>3, <4>4, <4>6
        <5> QED
          BY <2>1, <2>4, <2>6, <4>2, <5>1 DEF S
      <4>7. CASE h = j /\ h # n /\ n < sum
        <5>1. p[k][n].mac = a /\ n \in 0 .. sum - 1
          BY <2>1, <4>1, <4>3, <4>4, <4>7
        <5> QED
          BY <2>1, <2>4, <2>6, <4>2, <5>1 DEF S
      <4>8. CASE h = j /\ h # n /\ ~(n < sum)
        <5>1. apmac_rssi[n].mac = a /\ n >= sum
          BY <2>1, <3>3, <4>3, <4>8
        <5>2. t[n].mac = a /\ q[n] = t[n]
          BY <1>0, <2>1, <2>4, <2>6, <3>1, <5>1
        <5>3. p[k][j].mac = a
          BY <4>1, <4>4, <5>2
        <5> QED
          BY <2>1, <2>4, <2>6, <4>2, <5>3 DEF S
      <4> QED
        BY <4>5, <4>6, <4>7, <4>8
    <3> QED
      BY <2>1, <2>2, <3>2, <3>3, PlaceIs
  <2>7. CASE n = i
    <3>1. \E j \in 0 .. sum - 1 : q[j].mac = a
      BY <2>3, <2>4, <2>7
    <3>2. PICK j \in 0 .. sum - 1 : q[j].mac = a /\ p[k] = Exchange(q, n, j)
      BY <1>0, <2>1, <2>2, <2>7, <3>1, PlaceIs
    <3>3. p[k][i] = q[j]
      BY <2>4, <2>5, <2>7, <3>2
    <3> QED
      BY <2>1, <2>4, <2>7, <3>2, <3>3 DEF S
  <2>8. CASE n > i
    <3>1. q[i].mac = a /\ apmac_rssi[n].mac # a
      BY <1>0, <2>1, <2>3, <2>4, <2>8
    <3>2. p[k][i].mac = a
      <4>1. CASE p[k] = q
        BY <3>1, <4>1
      <4>2. ASSUME NEW j \in 0 .. sum - 1, q[j].mac = apmac_rssi[n].mac, p[k] = Exchange(q, n, j)
            PROVE  p[k][i].mac = a
        <5>1. j # i /\ n # i
          BY <2>4, <2>8, <3>1, <4>2
        <5> QED
          BY <2>4, <2>5, <3>1, <4>2, <5>1
      <4> QED
        BY <2>1, <2>2, <4>1, <4>2, PlaceIs
    <3> QED
      BY <2>1, <2>4, <2>8, <3>2 DEF S
  <2> QED
    BY <2>1, <2>4, <2>6, <2>7, <2>8
<1> HIDE DEF S
<1>5. Anchored \in S
  <2>1. 0 .. Anchored \subseteq S
    BY <1>1, <1>3, <1>4, InductionTo, Zenon
  <2> QED
    BY <1>1, <2>1
<1>6. ~(Anchored <= i)
  BY <1>1
<1> QED
  BY <1>0, <1>2, <1>5, <1>6 DEF S

-----------------------------------------------------------------------------
(* The scan.                                                               *)

\* What the SDK hands over: rows of points heard, none of them twice.
LEMMA FoundIs ==
  ASSUME NEW found \in Found
  PROVE  /\ Len(found) \in 0 .. Rows /\ found \in [1 .. Len(found) -> Row]
         /\ \A k \in 1 .. Len(found) : found[k].mac \in Bssid
         /\ \A k, l \in 1 .. Len(found) : found[k].mac = found[l].mac => k = l
<1>0. PICK n \in 0 .. Rows : \E order \in [1 .. n -> Bssid], sky \in Sky :
        /\ \A a, b \in 1 .. n : order[a] = order[b] => a = b
        /\ found = [k \in 1 .. n |-> [mac |-> order[k], rssi |-> -sky[order[k]].level,
                                      channel |-> sky[order[k]].channel]]
  BY DEF Found
<1>1. PICK order \in [1 .. n -> Bssid], sky \in Sky :
        /\ \A a, b \in 1 .. n : order[a] = order[b] => a = b
        /\ found = [k \in 1 .. n |-> [mac |-> order[k], rssi |-> -sky[order[k]].level,
                                      channel |-> sky[order[k]].channel]]
  BY <1>0
<1>2. n \in Nat
  BY ConstantsAssumption
<1>3. ASSUME NEW k \in 1 .. n PROVE found[k] \in Row /\ found[k].mac = order[k]
  <2>1. sky[order[k]] \in [level : -127 .. -1, channel : 1 .. 14]
    BY ConstantsAssumption
  <2>2. PICK l \in -127 .. -1 : l = sky[order[k]].level
    BY <2>1
  <2>3. -l \in 0 .. 127
    OBVIOUS
  <2>4. sky[order[k]].channel \in 0 .. 14
    <3>1. sky[order[k]].channel \in 1 .. 14
      BY <2>1
    <3> QED
      BY <3>1
  <2>5. found[k] = [mac |-> order[k], rssi |-> -l, channel |-> sky[order[k]].channel]
    BY <1>1, <2>2
  <2>6. order[k] \in Bssid
    OBVIOUS
  <2> QED
    BY <2>3, <2>4, <2>5, <2>6 DEF Row
<1>4. found \in [1 .. n -> Row]
  BY <1>1, <1>3
<1>5. Len(found) = n
  BY <1>2, <1>4
<1>6. \A k, l \in 1 .. n : found[k].mac = found[l].mac => k = l
  BY <1>1, <1>3
<1> QED
  BY <1>3, <1>4, <1>5, <1>6

\* The list fills the table from its top.
LEMMA FilledIs ==
  ASSUME NEW found \in Found, scan_inf \in Table
  PROVE  /\ Filled(found) \in Table
         /\ \A r \in 0 .. Len(found) - 1 : Filled(found)[r] = found[r + 1]
         /\ \A r \in 0 .. Rows - 1 : r >= Len(found) => Filled(found)[r] = scan_inf[r]
<1>1. Len(found) \in 0 .. Rows /\ found \in [1 .. Len(found) -> Row] /\ Rows \in Nat
  BY FoundIs, Bounds
<1>2. ASSUME NEW r \in 0 .. Rows - 1, r < Len(found) PROVE r + 1 \in 1 .. Len(found)
  BY <1>1, <1>2
<1>3. \A r \in 0 .. Rows - 1 : r < Len(found) => found[r + 1] \in Row
  BY <1>1, <1>2
<1>4. \A r \in 0 .. Rows - 1 : scan_inf[r] \in Row
  BY DEF Table
<1>5. Filled(found) \in [0 .. Rows - 1 -> Row]
  BY <1>3, <1>4 DEF Filled
<1>6. \A r \in 0 .. Len(found) - 1 : r \in 0 .. Rows - 1 /\ r < Len(found)
  BY <1>1
<1>7. \A r \in 0 .. Rows - 1 : r >= Len(found) => ~(r < Len(found))
  BY <1>1
<1> QED
  BY <1>5, <1>6, <1>7 DEF Filled, Table

\* The table that a scan leaves.
LEMMA ScanTable ==
  ASSUME NEW found \in Found, scan_inf \in Table
  PROVE  Placed(Filled(found), Len(found)) \in Table
<1>1. Filled(found) \in Table /\ Len(found) \in 0 .. Rows /\ Anchored \in 0 .. Anchored
  BY FilledIs, FoundIs, Bounds
<1> QED
  BY <1>1, PlacedIs

\* As many points are heard as the list has rows.
LEMMA HeardCount ==
  ASSUME NEW found \in Found
  PROVE  Cardinality({found[k] : k \in DOMAIN found}) = Len(found)
<1> DEFINE h == {found[k] : k \in DOMAIN found}
<1>1. /\ Len(found) \in Nat /\ found \in [1 .. Len(found) -> Row]
      /\ \A k, l \in 1 .. Len(found) : found[k].mac = found[l].mac => k = l
  BY FoundIs, Bounds
<1>2. found \in Bijection(1 .. Len(found), h)
  <2>1. DOMAIN found = 1 .. Len(found)
    BY <1>1
  <2>2. found \in [1 .. Len(found) -> h]
    BY <1>1, <2>1
  <2> QED
    BY <1>1, <2>1, <2>2 DEF Bijection, Injection, Surjection, IsInjective
<1>3. ExistsBijection(1 .. Len(found), h)
  BY <1>2 DEF ExistsBijection
<1> QED
  BY <1>1, <1>3, FS_CountingElements

-----------------------------------------------------------------------------
(* Types.                                                                  *)

\* Behind the types: the rows' texts are those of addresses, and so are, coded
\* twice, those of the question; the count has what the failures have added.
TypeInv ==
  /\ TypeOK
  /\ \A r \in Slot : \E m \in Bssid \cup {Zero} : ap_str[r].mac = HexText(m)
  /\ \A r \in DOMAIN question : \E m \in Bssid \cup {Zero} : question[r] = HexText(HexText(m))
  /\ wifi_bad <= Shut + 2 * failures

\* A text of characters.
LEMMA MacText ==
  ASSUME NEW m \in Bssid \cup {Zero}
  PROVE  /\ Len(HexText(m)) = 2 * Len(Zero)
         /\ \A k \in DOMAIN HexText(m) : HexText(m)[k] \in Character
         /\ \A k \in 1 .. 4 * Len(Zero) : HexText(HexText(m))[k] \in 48 .. 57
<1>1. m \in Seq(Byte) /\ Len(m) = Len(Zero) /\ Len(Zero) \in Nat
  BY Addresses
<1>2. /\ HexText(m) \in Seq(Byte) /\ Len(HexText(m)) = 2 * Len(Zero)
      /\ \A k \in 1 .. 2 * Len(Zero) : HexText(m)[k] \in Character
  BY <1>1, HexTextIs
<1>3. DOMAIN HexText(m) = 1 .. 2 * Len(Zero)
  BY <1>2
<1>4. 2 * (2 * Len(Zero)) = 4 * Len(Zero)
  BY <1>1
<1>5. \A k \in 1 .. 2 * Len(HexText(m)) : HexText(HexText(m))[k] \in 48 .. 57
  BY <1>2, HexTextOfText
<1> QED
  BY <1>2, <1>3, <1>4, <1>5

\* The gate's own part of a step.
LEMMA GateTypes ==
  ASSUME TypeInv, Next
  PROVE  /\ scan_qz' \in {0, 1} /\ wifi_bad' \in Nat /\ wifi_bad' <= Shut + 2 * failures'
         /\ joined' \in BOOLEAN /\ missed' \in 0 .. Shut + 1 /\ failures' \in 0 .. MaxFailures
<1>1. /\ scan_qz \in {0, 1} /\ wifi_bad \in Nat /\ wifi_bad <= Shut + 2 * failures
      /\ joined \in BOOLEAN /\ missed \in 0 .. Shut + 1 /\ failures \in 0 .. MaxFailures
      /\ Shut \in Nat \ {0} /\ MaxFailures \in Nat
  BY ConstantsAssumption DEF TypeInv, TypeOK
<1>2. ASSUME NEW found, scan_done(found)
      PROVE  /\ scan_qz' \in {0, 1} /\ wifi_bad' \in Nat /\ wifi_bad' <= Shut + 2 * failures'
             /\ joined' \in BOOLEAN /\ missed' \in 0 .. Shut + 1 /\ failures' \in 0 .. MaxFailures
  <2>1. PICK qz :
          /\ joined' = (qz = 1 /\ wifi_bad = 0)
          /\ wifi_bad' = IF joined' THEN wifi_bad ELSE IF wifi_bad + 1 > Shut THEN 0 ELSE wifi_bad + 1
          /\ failures' = 0 /\ scan_qz' = 0
          /\ missed' = IF qz = 0 \/ wifi_bad = 0 THEN 0
                       ELSE IF missed > Shut THEN missed ELSE missed + 1
    BY <1>2 DEF scan_done, Join
  <2>2. joined' \in BOOLEAN
    BY <2>1, Zenon
  <2>3. joined' => wifi_bad = 0
    BY <2>1, Zenon
  <2>4. wifi_bad' = 0 \/ (wifi_bad' = wifi_bad + 1 /\ ~(wifi_bad + 1 > Shut))
    <3>1. CASE joined'
      <4>1. wifi_bad' = wifi_bad /\ wifi_bad = 0
        BY <2>1, <2>3, <3>1, Zenon
      <4> QED
        BY <4>1
    <3>2. CASE ~joined'
      <4>1. wifi_bad' = IF wifi_bad + 1 > Shut THEN 0 ELSE wifi_bad + 1
        BY <2>1, <3>2, Zenon
      <4> QED
        BY <4>1
    <3> QED
      BY <3>1, <3>2
  <2>5. wifi_bad' \in Nat /\ wifi_bad' <= Shut + 2 * 0
    BY <1>1, <2>4
  <2>6. missed' \in 0 .. Shut + 1
    BY <1>1, <2>1
  <2>7. wifi_bad' <= Shut + 2 * failures' /\ failures' \in 0 .. MaxFailures
    BY <1>1, <2>1, <2>5
  <2> QED
    BY <2>1, <2>2, <2>5, <2>6, <2>7
<1>3. CASE get_indoor_position
  BY <1>1, <1>3 DEF get_indoor_position, gate
<1>4. ASSUME NEW connected, ap_str_ascii_str(connected) \/ Look(connected)
      PROVE  /\ scan_qz' \in {0, 1} /\ UNCHANGED <<wifi_bad, joined, missed, failures>>
  BY <1>4 DEF ap_str_ascii_str, Look
<1>5. ASSUME NEW again, Fails(again)
      PROVE  /\ scan_qz' = 0 /\ wifi_bad' \in Nat /\ wifi_bad' <= Shut + 2 * failures'
             /\ joined' = FALSE /\ missed' = 0 /\ failures' \in 0 .. MaxFailures
  BY <1>1, <1>5 DEF Fails
<1>6. CASE Succeeds
  BY <1>1, <1>6 DEF Succeeds
<1>7. ASSUME scan_qz' \in {0, 1}, UNCHANGED <<wifi_bad, joined, missed, failures>>
      PROVE  /\ scan_qz' \in {0, 1} /\ wifi_bad' \in Nat /\ wifi_bad' <= Shut + 2 * failures'
             /\ joined' \in BOOLEAN /\ missed' \in 0 .. Shut + 1 /\ failures' \in 0 .. MaxFailures
  BY <1>1, <1>7
<1>8. CASE Scan
  BY <1>2, <1>8 DEF Scan
<1>9. CASE \E connected \in BOOLEAN : ap_str_ascii_str(connected) \/ Look(connected)
  <2>1. PICK connected \in BOOLEAN : ap_str_ascii_str(connected) \/ Look(connected)
    BY <1>9
  <2> QED
    BY <1>4, <1>7, <2>1
<1>10. CASE \E again \in BOOLEAN : Fails(again)
  <2>1. PICK again \in BOOLEAN : Fails(again)
    BY <1>10
  <2>2. /\ scan_qz' = 0 /\ wifi_bad' \in Nat /\ wifi_bad' <= Shut + 2 * failures'
        /\ joined' = FALSE /\ missed' = 0 /\ failures' \in 0 .. MaxFailures
    BY <1>5, <2>1
  <2>3. 0 \in 0 .. Shut + 1
    BY <1>1
  <2>4. joined' \in BOOLEAN /\ missed' \in 0 .. Shut + 1
    BY <2>2, <2>3, Zenon
  <2>5. scan_qz' \in {0, 1}
    BY <2>2
  <2> QED
    BY <2>2, <2>4, <2>5, Zenon
<1> QED
  BY <1>3, <1>6, <1>8, <1>9, <1>10 DEF Next

\* A scan writes rows of the table and nothing else.
LEMMA ScanTypes ==
  ASSUME TypeInv, NEW found \in Found, scan_done(found)
  PROVE  /\ scan_inf' \in Table /\ apmac_rssi' \in [Slot -> Row] /\ heard' \subseteq Row
         /\ ap_str' = [r \in Slot |-> Text(scan_inf'[r])]
         /\ \A r \in Slot : scan_inf'[r] \in Row /\ apmac_rssi'[r] = scan_inf'[r]
<1>1. scan_inf \in Table
  BY DEF TypeInv, TypeOK, Table
<1>2. scan_inf' = Placed(Filled(found), Len(found))
  BY DEF scan_done
<1>3. scan_inf' \in Table
  BY <1>1, <1>2, ScanTable
<1>4. /\ apmac_rssi' = [r \in Slot |-> scan_inf'[r]] /\ ap_str' = [r \in Slot |-> Text(scan_inf'[r])]
      /\ heard' = {found[k] : k \in DOMAIN found}
  BY DEF scan_done
<1>5. \A r \in Slot : scan_inf'[r] \in Row
  BY <1>3, Bounds DEF Table
<1>6. heard' \subseteq Row
  BY <1>4, FoundIs
<1> QED
  BY <1>3, <1>4, <1>5, <1>6

\* What get_indoor_position makes of an answer: each anchor takes an address of
\* the question.
LEMMA AnswerIs ==
  ASSUME TypeInv, get_indoor_position
  PROVE  \E pick \in [Anchor -> DOMAIN question] :
           /\ \A a, b \in Anchor : question[pick[a]] = question[pick[b]] => a = b
           /\ \A a \in Anchor : \E m \in Bssid \cup {Zero} :
                /\ question[pick[a]] = HexText(HexText(m))
                /\ apmac_rssi'[a] = [apmac_rssi[a] EXCEPT !.mac = m]
           /\ \A r \in Slot \ Anchor : apmac_rssi'[r] = apmac_rssi[r]
           /\ DOMAIN apmac_rssi' = Slot /\ apmac_rssi' = [r \in Slot |-> apmac_rssi'[r]]
<1>1. PICK pick \in [Anchor -> DOMAIN question] :
        /\ \A a, b \in Anchor : question[pick[a]] = question[pick[b]] => a = b
        /\ apmac_rssi' = [r \in Slot |-> IF r \in Anchor
                            THEN [apmac_rssi[r] EXCEPT !.mac = Decode(question[pick[r]])]
                            ELSE apmac_rssi[r]]
  BY DEF get_indoor_position
<1>2. ASSUME NEW a \in Anchor
      PROVE  \E m \in Bssid \cup {Zero} :
               /\ question[pick[a]] = HexText(HexText(m))
               /\ apmac_rssi'[a] = [apmac_rssi[a] EXCEPT !.mac = m]
  <2>1. PICK m \in Bssid \cup {Zero} : question[pick[a]] = HexText(HexText(m))
    BY DEF TypeInv
  <2>2. Decode(question[pick[a]]) = m
    BY <2>1, Addresses, RoundTrip
  <2>3. apmac_rssi'[a] = [apmac_rssi[a] EXCEPT !.mac = Decode(question[pick[a]])]
    BY <1>1, Bounds
  <2> QED
    BY <2>1, <2>2, <2>3
<1> QED
  BY <1>1, <1>2

\* Types, for every number of rows, anchors and points.
LEMMA TypeInvHolds == Spec => []TypeInv
<1>1. Init => TypeInv
  <2> SUFFICES ASSUME Init PROVE TypeInv
    OBVIOUS
  <2>1. Blank \in Row /\ Text(Blank).mac = HexText(Zero) /\ Zero \in Bssid \cup {Zero}
    BY DEF Blank, Row, Text
  <2>2. \A r \in Slot : ap_str[r].mac = HexText(Zero)
    BY <2>1 DEF Init
  <2>3. /\ Len(HexText(Zero)) = 2 * Len(Zero)
        /\ \A k \in DOMAIN HexText(Zero) : HexText(Zero)[k] \in Character
    BY <2>1, MacText
  <2>4. DOMAIN question = {}
    BY DEF Init
  <2>5. /\ Shut \in Nat /\ MaxFailures \in Nat /\ scan_qz = 0 /\ wifi_bad = 0 /\ heard = {}
        /\ joined = FALSE /\ missed = 0 /\ failures = 0
    BY ConstantsAssumption DEF Init
  <2>6. scan_inf \in [0 .. Rows - 1 -> Row] /\ apmac_rssi \in [Slot -> Row] /\ DOMAIN ap_str = Slot
    BY <2>1 DEF Init
  <2>7. /\ wifi_bad \in 0 .. Shut + 2 * MaxFailures /\ scan_qz \in {0, 1}
        /\ missed \in 0 .. Shut + 1 /\ failures \in 0 .. MaxFailures /\ heard \subseteq Row
    BY <2>5
  <2>8. \A r \in Slot : /\ Len(ap_str[r].mac) = 2 * Len(Zero)
                        /\ \A k \in DOMAIN ap_str[r].mac : ap_str[r].mac[k] \in Character
    BY <2>2, <2>3
  <2>9. TypeOK
    <3>1. joined \in BOOLEAN
      BY <2>5, Zenon
    <3>2. \A r \in DOMAIN question, k \in 1 .. 4 * Len(Zero) : question[r][k] \in 48 .. 57
      BY <2>4
    <3> QED
      BY <2>6, <2>7, <2>8, <3>1, <3>2, Zenon DEF TypeOK
  <2> QED
    BY <2>1, <2>2, <2>4, <2>5, <2>9 DEF TypeInv
<1>2. TypeInv /\ [Next]_vars => TypeInv'
  <2> SUFFICES ASSUME TypeInv, [Next]_vars PROVE TypeInv'
    OBVIOUS
  <2> DEFINE Gate == /\ scan_qz \in {0, 1} /\ wifi_bad \in Nat /\ wifi_bad <= Shut + 2 * failures
                     /\ joined \in BOOLEAN /\ missed \in 0 .. Shut + 1 /\ failures \in 0 .. MaxFailures
             Tab == /\ scan_inf \in [0 .. Rows - 1 -> Row] /\ apmac_rssi \in [Slot -> Row]
                    /\ heard \subseteq Row
             Txt == /\ DOMAIN ap_str = Slot
                    /\ \A r \in Slot : \E m \in Bssid \cup {Zero} : ap_str[r].mac = HexText(m)
             Asked == \A r \in DOMAIN question : \E m \in Bssid \cup {Zero} :
                        question[r] = HexText(HexText(m))
  <2>1. Gate /\ Tab /\ Txt /\ Asked
    BY DEF TypeInv, TypeOK
  <2>2. ASSUME Gate', Tab', Txt', Asked' PROVE TypeInv'
    <3>1. ASSUME NEW r \in Slot
          PROVE  /\ Len(ap_str'[r].mac) = 2 * Len(Zero)
                 /\ \A k \in DOMAIN ap_str'[r].mac : ap_str'[r].mac[k] \in Character
      <4>1. PICK m \in Bssid \cup {Zero} : ap_str'[r].mac = HexText(m)
        BY <2>2
      <4> QED
        BY <4>1, MacText
    <3>2. ASSUME NEW r \in DOMAIN question', NEW k \in 1 .. 4 * Len(Zero)
          PROVE  question'[r][k] \in 48 .. 57
      <4>1. PICK m \in Bssid \cup {Zero} : question'[r] = HexText(HexText(m))
        BY <2>2
      <4> QED
        BY <4>1, MacText
    <3>3. wifi_bad' \in 0 .. Shut + 2 * MaxFailures
      <4>1. wifi_bad' \in Nat /\ wifi_bad' <= Shut + 2 * failures' /\ failures' \in 0 .. MaxFailures
        BY <2>2
      <4>2. Shut \in Nat /\ MaxFailures \in Nat
        BY ConstantsAssumption
      <4>3. \A w, f, n, m \in Nat : w <= n + 2 * f /\ f <= m => w \in 0 .. n + 2 * m
        OBVIOUS
      <4>4. failures' \in Nat /\ failures' <= MaxFailures
        BY <4>1, <4>2
      <4> QED
        BY <4>1, <4>2, <4>3, <4>4, Zenon
    <3>4. TypeOK'
      BY <2>2, <3>1, <3>2, <3>3 DEF TypeOK
    <3> QED
      BY <2>2, <3>4 DEF TypeInv
  <2> HIDE DEF Gate, Tab, Txt, Asked
  <2>3. CASE UNCHANGED vars
    BY <2>1, <2>2, <2>3 DEF vars, table, gate, Gate, Tab, Txt, Asked
  <2>4. CASE Next
    <3>1. Gate'
      BY <2>4, GateTypes DEF Gate
    <3>2. ASSUME NEW found \in Found, scan_done(found) PROVE Tab' /\ Txt' /\ Asked'
      <4>1. /\ scan_inf' \in Table /\ apmac_rssi' \in [Slot -> Row] /\ heard' \subseteq Row
            /\ ap_str' = [r \in Slot |-> Text(scan_inf'[r])]
            /\ \A r \in Slot : scan_inf'[r] \in Row
        BY <3>2, ScanTypes
      <4>2. Tab'
        BY <4>1 DEF Tab, Table
      <4>3. ASSUME NEW r \in Slot PROVE \E m \in Bssid \cup {Zero} : ap_str'[r].mac = HexText(m)
        <5>1. ap_str'[r].mac = HexText(scan_inf'[r].mac)
          BY <4>1 DEF Text
        <5>2. scan_inf'[r].mac \in Bssid \cup {Zero}
          BY <4>1 DEF Row
        <5> QED
          BY <5>1, <5>2
      <4>4. Txt'
        BY <4>1, <4>3 DEF Txt
      <4>5. Asked'
        BY <2>1, <3>2 DEF scan_done, Asked
      <4> QED
        BY <4>2, <4>4, <4>5
    <3>3. ASSUME get_indoor_position PROVE Tab' /\ Txt' /\ Asked'
      <4>1. PICK pick \in [Anchor -> DOMAIN question] :
              /\ \A a \in Anchor : \E m \in Bssid \cup {Zero} :
                   apmac_rssi'[a] = [apmac_rssi[a] EXCEPT !.mac = m]
              /\ \A r \in Slot \ Anchor : apmac_rssi'[r] = apmac_rssi[r]
              /\ apmac_rssi' = [r \in Slot |-> apmac_rssi'[r]]
        BY <3>3, AnswerIs
      <4>2. UNCHANGED <<scan_inf, ap_str, heard>> /\ question' = << >>
        BY <3>3 DEF get_indoor_position
      <4>3. ASSUME NEW r \in Slot PROVE apmac_rssi'[r] \in Row
        <5>1. apmac_rssi[r] \in Row
          BY <2>1 DEF Tab
        <5>2. \A m \in Bssid \cup {Zero} : [apmac_rssi[r] EXCEPT !.mac = m] \in Row
          BY <5>1 DEF Row
        <5> QED
          BY <4>1, <5>1, <5>2
      <4>4. Tab'
        BY <2>1, <4>1, <4>2, <4>3 DEF Tab
      <4>5. Txt' /\ Asked'
        BY <2>1, <4>2 DEF Txt, Asked
      <4> QED
        BY <4>4, <4>5
    <3>4. ASSUME NEW connected \in BOOLEAN, ap_str_ascii_str(connected) PROVE Tab' /\ Txt' /\ Asked'
      <4>1. UNCHANGED <<scan_inf, apmac_rssi, ap_str, heard>>
        BY <3>4 DEF ap_str_ascii_str, table
      <4>2. Tab' /\ Txt'
        BY <2>1, <4>1 DEF Tab, Txt
      <4>3. CASE connected
        <5>1. question' = question
          BY <3>4, <4>3 DEF ap_str_ascii_str
        <5> QED
          BY <2>1, <4>2, <5>1 DEF Asked
      <4>4. CASE ~connected
        <5>1. question' = [r \in 1 .. Reported |-> HexText(ap_str[r - 1].mac)]
          BY <3>4, <4>4 DEF ap_str_ascii_str
        <5>2. ASSUME NEW r \in 1 .. Reported
              PROVE  \E m \in Bssid \cup {Zero} : question'[r] = HexText(HexText(m))
          <6>1. r - 1 \in Slot
            BY Bounds DEF Slot
          <6>2. PICK m \in Bssid \cup {Zero} : ap_str[r - 1].mac = HexText(m)
            BY <2>1, <6>1 DEF Txt
          <6> QED
            BY <5>1, <6>2
        <5> QED
          BY <4>2, <5>1, <5>2 DEF Asked
      <4> QED
        BY <4>2, <4>3, <4>4
    <3>5. ASSUME UNCHANGED <<scan_inf, apmac_rssi, ap_str, heard, question>>
          PROVE  Tab' /\ Txt' /\ Asked'
      BY <2>1, <3>5 DEF Tab, Txt, Asked
    <3>6. Tab' /\ Txt' /\ Asked'
      <4>1. ASSUME NEW connected, Look(connected)
            PROVE  UNCHANGED <<scan_inf, apmac_rssi, ap_str, heard, question>>
        BY <4>1 DEF Look, table
      <4>2. ASSUME NEW again, Fails(again)
            PROVE  UNCHANGED <<scan_inf, apmac_rssi, ap_str, heard, question>>
        BY <4>2 DEF Fails, table
      <4>3. ASSUME Succeeds
            PROVE  UNCHANGED <<scan_inf, apmac_rssi, ap_str, heard, question>>
        BY <4>3 DEF Succeeds, table
      <4>4. CASE Scan
        BY <3>2, <4>4 DEF Scan
      <4>5. CASE \E connected \in BOOLEAN : ap_str_ascii_str(connected) \/ Look(connected)
        BY <3>4, <3>5, <4>1, <4>5
      <4>6. CASE \E again \in BOOLEAN : Fails(again)
        BY <3>5, <4>2, <4>6
      <4> QED
        BY <2>4, <3>3, <3>5, <4>3, <4>4, <4>5, <4>6 DEF Next
    <3> QED
      BY <2>2, <3>1, <3>6
  <2> QED
    BY <2>3, <2>4
<1> QED
  BY <1>1, <1>2, PTL DEF Spec

\* The type invariant, for every number of rows, anchors and access points.
THEOREM TypesAlways == Spec => []TypeOK
<1>1. TypeInv => TypeOK
  BY DEF TypeInv
<1> QED
  BY <1>1, TypeInvHolds, PTL

-----------------------------------------------------------------------------
(* The report.                                                             *)

\* What a scan leaves in the report, from the table it has placed.
LEMMA ScanReports ==
  ASSUME TypeInv, NEW found \in Found, scan_done(found)
  PROVE  HeardReported'
<1> DEFINE n == Len(found)
           f == Filled(found)
           t == scan_inf'
<1>1. scan_inf \in Table
  BY DEF TypeInv, TypeOK, Table
<1>2. /\ n \in 0 .. Rows /\ n \in Nat /\ found \in [1 .. n -> Row] /\ DOMAIN found = 1 .. n
      /\ \A k, l \in 1 .. n : found[k].mac = found[l].mac => k = l
  BY FoundIs, Bounds
<1>3. f \in Table /\ \A r \in 0 .. n - 1 : f[r] = found[r + 1]
  BY <1>1, FilledIs
<1>4. t = Placed(f, n) /\ heard' = {found[k] : k \in 1 .. n}
  BY <1>2 DEF scan_done
<1>5. Cardinality(heard') = n
  BY <1>2, <1>4, HeardCount
<1>6. \A r \in Slot : ap_str'[r] = Text(t[r]) /\ t[r] \in Row
  BY ScanTypes
<1> HIDE DEF n, f, t
<1>7. \A r \in Slot : Reads(t[r], ap_str'[r])
  BY <1>6, TextReads
<1>8. ASSUME n <= Reported, NEW h \in heard' PROVE \E r \in Slot : Reads(h, ap_str'[r])
  <2>1. PICK k \in 1 .. n : h = found[k]
    BY <1>4
  <2>2. k - 1 \in 0 .. n - 1 /\ (k - 1) + 1 = k
    BY <1>2
  <2>3. n \in 0 .. Reported
    BY <1>2, <1>8, Bounds
  <2>4. PICK r \in Slot : t[r] = f[k - 1]
    BY <1>3, <1>4, <2>2, <2>3, PlacedFew
  <2>5. t[r] = h
    BY <1>3, <2>1, <2>2, <2>4
  <2> QED
    BY <1>7, <2>5
<1>9. ASSUME n >= Reported
      PROVE  /\ \A r \in Slot : \E h \in heard' : Reads(h, ap_str'[r])
             /\ \A r, q \in Slot : ap_str'[r].mac = ap_str'[q].mac => r = q
  <2>1. n \in Reported .. Rows
    BY <1>2, <1>9, Bounds
  <2>2. ASSUME NEW k \in 0 .. n - 1, NEW l \in 0 .. n - 1, f[k].mac = f[l].mac PROVE k = l
    <3>1. k + 1 \in 1 .. n /\ l + 1 \in 1 .. n
      BY <1>2
    <3>2. f[k] = found[k + 1] /\ f[l] = found[l + 1]
      BY <1>3
    <3>3. k + 1 = l + 1
      BY <1>2, <2>2, <3>1, <3>2
    <3> QED
      BY <3>3
  <2>3. /\ \A r \in 0 .. n - 1 : \E k \in 0 .. n - 1 : t[r] = f[k]
        /\ \A r, s \in 0 .. n - 1 : t[r].mac = t[s].mac => r = s
    BY <1>3, <1>4, <2>1, <2>2, PlacedMany
  <2>4. \A r \in Slot : r \in 0 .. n - 1
    BY <1>2, <1>9, Bounds DEF Slot
  <2>5. ASSUME NEW r \in Slot PROVE \E h \in heard' : Reads(h, ap_str'[r])
    <3>1. PICK k \in 0 .. n - 1 : t[r] = f[k]
      BY <2>3, <2>4
    <3>2. k + 1 \in 1 .. n /\ f[k] = found[k + 1]
      BY <1>2, <1>3
    <3>3. t[r] \in heard'
      BY <1>4, <3>1, <3>2
    <3> QED
      BY <1>7, <3>3
  <2>6. ASSUME NEW r \in Slot, NEW q \in Slot, ap_str'[r].mac = ap_str'[q].mac PROVE r = q
    <3>1. ReadHex(ap_str'[r].mac) = t[r].mac /\ ReadHex(ap_str'[q].mac) = t[q].mac
      BY <1>7 DEF Reads
    <3>2. t[r].mac = t[q].mac
      BY <2>6, <3>1
    <3> QED
      BY <2>3, <2>4, <3>2
  <2> QED
    BY <2>5, <2>6
<1> QED
  BY <1>5, <1>8, <1>9 DEF HeardReported

\* Only a scan changes what has been heard and what is reported.
LEMMA NoScan ==
  ASSUME TypeInv, [Next]_vars, ~Scan
  PROVE  heard' = heard /\ ap_str' = ap_str /\ scan_inf' = scan_inf
<1>1. CASE get_indoor_position
  BY <1>1 DEF get_indoor_position
<1>2. ASSUME NEW connected, ap_str_ascii_str(connected) \/ Look(connected)
      PROVE  UNCHANGED table
  BY <1>2 DEF ap_str_ascii_str, Look
<1>3. ASSUME NEW again, Fails(again) PROVE UNCHANGED table
  BY <1>3 DEF Fails
<1>4. ASSUME Succeeds PROVE UNCHANGED table
  BY <1>4 DEF Succeeds
<1>5. ASSUME UNCHANGED vars PROVE UNCHANGED table
  BY <1>5 DEF vars
<1>6. ASSUME UNCHANGED table PROVE heard' = heard /\ ap_str' = ap_str /\ scan_inf' = scan_inf
  BY <1>6 DEF table
<1>7. CASE \E connected \in BOOLEAN : ap_str_ascii_str(connected) \/ Look(connected)
  BY <1>2, <1>6, <1>7
<1>8. CASE \E again \in BOOLEAN : Fails(again)
  BY <1>3, <1>6, <1>8
<1> QED
  BY <1>1, <1>4, <1>5, <1>6, <1>7, <1>8 DEF Next

\* No access point is lost or added on the way to the report, for lists of any
\* length, reports of any size and anchors in any places.
THEOREM HeardReportedAlways == Spec => []HeardReported
<1>1. Init => HeardReported
  BY DEF Init, HeardReported
<1>2. TypeInv /\ HeardReported /\ [Next]_vars => HeardReported'
  <2> SUFFICES ASSUME TypeInv, HeardReported, [Next]_vars PROVE HeardReported'
    OBVIOUS
  <2>1. CASE Scan
    BY <2>1, ScanReports DEF Scan
  <2>2. CASE ~Scan
    <3>1. heard' = heard /\ ap_str' = ap_str
      BY <2>2, NoScan
    <3> QED
      BY <3>1 DEF HeardReported
  <2> QED
    BY <2>1, <2>2
<1> QED
  BY <1>1, <1>2, TypeInvHolds, PTL DEF Spec

-----------------------------------------------------------------------------
(* The anchors.                                                            *)

\* Either the server has named the anchors, each once, or they are the rows that
\* the last scan has left: so none of them hides a point behind the rows found.
AnchorInv ==
  \/ \A r, q \in Anchor : apmac_rssi[r].mac = apmac_rssi[q].mac => r = q
  \/ \A r \in Anchor : apmac_rssi[r] = scan_inf[r]

LEMMA AnchorInvHolds == Spec => []AnchorInv
<1>1. Init => AnchorInv
  BY Bounds DEF Init, AnchorInv
<1>2. TypeInv /\ AnchorInv /\ [Next]_vars => AnchorInv'
  <2> SUFFICES ASSUME TypeInv, AnchorInv, [Next]_vars PROVE AnchorInv'
    OBVIOUS
  <2>1. CASE Scan
    <3>1. PICK found \in Found : scan_done(found)
      BY <2>1 DEF Scan
    <3>2. \A r \in Slot : apmac_rssi'[r] = scan_inf'[r]
      BY <3>1, ScanTypes
    <3> QED
      BY <3>2, Bounds DEF AnchorInv
  <2>2. CASE get_indoor_position
    <3>1. PICK pick \in [Anchor -> DOMAIN question] :
            /\ \A a, b \in Anchor : question[pick[a]] = question[pick[b]] => a = b
            /\ \A a \in Anchor : \E m \in Bssid \cup {Zero} :
                 /\ question[pick[a]] = HexText(HexText(m))
                 /\ apmac_rssi'[a] = [apmac_rssi[a] EXCEPT !.mac = m]
      BY <2>2, AnswerIs
    <3>2. \A a \in Anchor : apmac_rssi[a] \in Row
      BY Bounds DEF TypeInv, TypeOK
    <3>3. ASSUME NEW a \in Anchor
          PROVE  question[pick[a]] = HexText(HexText(apmac_rssi'[a].mac))
      <4>1. PICK m \in Bssid \cup {Zero} :
              /\ question[pick[a]] = HexText(HexText(m))
              /\ apmac_rssi'[a] = [apmac_rssi[a] EXCEPT !.mac = m]
        BY <3>1
      <4>2. apmac_rssi'[a].mac = m
        BY <3>2, <4>1 DEF Row
      <4> QED
        BY <4>1, <4>2
    <3>4. \A r, q \in Anchor : apmac_rssi'[r].mac = apmac_rssi'[q].mac => r = q
      BY <3>1, <3>3
    <3> QED
      BY <3>4 DEF AnchorInv
  <2>3. ASSUME UNCHANGED <<apmac_rssi, scan_inf>> PROVE AnchorInv'
    BY <2>3 DEF AnchorInv
  <2>4. ASSUME NEW connected, ap_str_ascii_str(connected) \/ Look(connected)
        PROVE  UNCHANGED <<apmac_rssi, scan_inf>>
    BY <2>4 DEF ap_str_ascii_str, Look, table
  <2>5. ASSUME NEW again, Fails(again) PROVE UNCHANGED <<apmac_rssi, scan_inf>>
    BY <2>5 DEF Fails, table
  <2>6. ASSUME Succeeds \/ UNCHANGED vars PROVE UNCHANGED <<apmac_rssi, scan_inf>>
    BY <2>6 DEF Succeeds, vars, table
  <2>7. CASE \E connected \in BOOLEAN : ap_str_ascii_str(connected) \/ Look(connected)
    BY <2>3, <2>4, <2>7
  <2>8. CASE \E again \in BOOLEAN : Fails(again)
    BY <2>3, <2>5, <2>8
  <2> QED
    BY <2>1, <2>2, <2>3, <2>6, <2>7, <2>8 DEF Next
<1> QED
  BY <1>1, <1>2, TypeInvHolds, PTL DEF Spec

\* An anchor heard again is in its place in the next report, for every number of
\* anchors and every order in which the scan has found them.
THEOREM AnchorsKeptAlways == Spec => AnchorsKept
<1> DEFINE Kept ==
      heard' # heard =>
        \A i \in Anchor :
          /\ \E h \in heard' : h.mac = apmac_rssi[i].mac
          /\ \A l \in Anchor : l > i => apmac_rssi[l].mac # apmac_rssi[i].mac
          => apmac_rssi'[i].mac = apmac_rssi[i].mac
<1>1. TypeInv /\ AnchorInv /\ [Next]_vars => [Kept]_vars
  <2> SUFFICES ASSUME TypeInv, AnchorInv, [Next]_vars, heard' # heard, NEW i \in Anchor,
                      NEW h \in heard', h.mac = apmac_rssi[i].mac,
                      \A l \in Anchor : l > i => apmac_rssi[l].mac # apmac_rssi[i].mac
               PROVE  apmac_rssi'[i].mac = apmac_rssi[i].mac
    OBVIOUS
  <2>1. Scan
    BY NoScan
  <2>2. PICK found \in Found : scan_done(found)
    BY <2>1 DEF Scan
  <2> DEFINE n == Len(found)
             t == Filled(found)
  <2>3. scan_inf \in Table
    BY DEF TypeInv, TypeOK, Table
  <2>4. n \in 0 .. Rows /\ n \in Nat /\ DOMAIN found = 1 .. n
    BY FoundIs, Bounds
  <2>5. /\ t \in Table /\ \A r \in 0 .. n - 1 : t[r] = found[r + 1]
        /\ \A r \in 0 .. Rows - 1 : r >= n => t[r] = scan_inf[r]
    BY <2>3, FilledIs
  <2>6. heard' = {found[k] : k \in 1 .. n} /\ scan_inf' = Placed(t, n)
    BY <2>2, <2>4 DEF scan_done
  <2>7. apmac_rssi'[i] = scan_inf'[i]
    BY <2>2, ScanTypes, Bounds
  <2> HIDE DEF n, t
  <2>8. \E j \in 0 .. n - 1 : t[j].mac = apmac_rssi[i].mac
    <3>1. PICK k \in 1 .. n : h = found[k]
      BY <2>6
    <3>2. k - 1 \in 0 .. n - 1 /\ (k - 1) + 1 = k
      BY <2>4
    <3>3. t[k - 1] = h
      BY <2>5, <3>1, <3>2
    <3> QED
      BY <3>2, <3>3
  <2>9. ASSUME NEW l \in Anchor, l < i, l >= n
        PROVE  apmac_rssi[l].mac # apmac_rssi[i].mac \/ t[l].mac = apmac_rssi[i].mac
    <3>1. l \in 0 .. Rows - 1 /\ l # i
      BY <2>9, Bounds DEF Anchor
    <3>2. t[l] = scan_inf[l]
      BY <2>5, <2>9, <3>1
    <3> QED
      BY <3>1, <3>2 DEF AnchorInv
  <2>10. Placed(t, n)[i].mac = apmac_rssi[i].mac
    BY <2>4, <2>5, <2>8, <2>9, PlacedAnchor
  <2> QED
    BY <2>6, <2>7, <2>10
<1> QED
  BY <1>1, TypeInvHolds, AnchorInvHolds, PTL DEF Spec, AnchorsKept

\* The anchors taken from an answer are points the question was about, for
\* addresses of any length.
THEOREM AnchorsAskedAlways == Spec => AnchorsAsked
<1> DEFINE Asked ==
      question # << >> /\ question' = << >> =>
        \A i \in Anchor : \E r \in DOMAIN question :
          apmac_rssi'[i].mac = ReadHex(ReadHex(question[r]))
<1>1. TypeInv /\ [Next]_vars => [Asked]_vars
  <2> SUFFICES ASSUME TypeInv, [Next]_vars, question # << >>, question' = << >>, NEW i \in Anchor
               PROVE  \E r \in DOMAIN question : apmac_rssi'[i].mac = ReadHex(ReadHex(question[r]))
    OBVIOUS
  <2>1. ASSUME UNCHANGED question PROVE FALSE
    BY <2>1
  <2>2. ASSUME NEW connected, ap_str_ascii_str(connected) PROVE FALSE
    <3>1. CASE connected
      BY <2>1, <2>2, <3>1 DEF ap_str_ascii_str
    <3>2. CASE ~connected
      <4>1. question' = [r \in 1 .. Reported |-> HexText(ap_str[r - 1].mac)] /\ 1 \in 1 .. Reported
        BY <2>2, <3>2, Bounds DEF ap_str_ascii_str
      <4>2. 1 \in DOMAIN question'
        BY <4>1
      <4>3. DOMAIN << >> = {}
        OBVIOUS
      <4> QED
        BY <4>2, <4>3
    <3> QED
      BY <3>1, <3>2
  <2>3. ASSUME Scan \/ Succeeds \/ UNCHANGED vars PROVE UNCHANGED question
    BY <2>3 DEF Scan, scan_done, Succeeds, vars
  <2>4. ASSUME NEW x, Look(x) \/ Fails(x) PROVE UNCHANGED question
    BY <2>4 DEF Look, Fails
  <2>5. get_indoor_position
    <3>1. CASE \E connected \in BOOLEAN : ap_str_ascii_str(connected) \/ Look(connected)
      BY <2>1, <2>2, <2>4, <3>1
    <3>2. CASE \E again \in BOOLEAN : Fails(again)
      BY <2>1, <2>4, <3>2
    <3> QED
      BY <2>1, <2>3, <3>1, <3>2 DEF Next
  <2>6. PICK pick \in [Anchor -> DOMAIN question] :
          \A a \in Anchor : \E m \in Bssid \cup {Zero} :
            /\ question[pick[a]] = HexText(HexText(m))
            /\ apmac_rssi'[a] = [apmac_rssi[a] EXCEPT !.mac = m]
    BY <2>5, AnswerIs
  <2>7. PICK m \in Bssid \cup {Zero} :
          /\ question[pick[i]] = HexText(HexText(m))
          /\ apmac_rssi'[i] = [apmac_rssi[i] EXCEPT !.mac = m]
    BY <2>6
  <2>8. apmac_rssi[i] \in Row
    BY Bounds DEF TypeInv, TypeOK
  <2>9. apmac_rssi'[i].mac = m
    BY <2>7, <2>8 DEF Row
  <2>10. ReadHex(ReadHex(question[pick[i]])) = m
    <3>1. m \in Seq(Byte) /\ HexText(m) \in Seq(Byte)
      BY Addresses, HexTextIs
    <3> QED
      BY <2>7, <3>1, ReadHexIs
  <2> QED
    BY <2>9, <2>10
<1> QED
  BY <1>1, TypeInvHolds, PTL DEF Spec, AnchorsAsked

-----------------------------------------------------------------------------
(* The gate.                                                               *)

\* What the count of failures and scans says of the scans that could have joined
\* a network: with a count from 1 to Shut they are fewer than it, beyond Shut
\* there are none since the last failure, and at 0 the gate is open.
GateInv ==
  /\ wifi_bad \in Nat /\ missed \in Nat /\ failures \in Nat
  /\ failures > 0 => wifi_bad > 0 /\ ~joined
  /\ wifi_bad = 0 => missed <= Shut
  /\ wifi_bad \in 1 .. Shut => missed < wifi_bad
  /\ wifi_bad > Shut => missed = 0

LEMMA GateHolds == Spec => []GateInv
<1> USE ConstantsAssumption
<1>1. Init => GateInv
  BY DEF Init, GateInv
<1>2. GateInv /\ [Next]_vars => GateInv'
  <2> SUFFICES ASSUME GateInv, [Next]_vars PROVE GateInv'
    OBVIOUS
  <2>1. CASE UNCHANGED <<wifi_bad, missed, failures, joined>>
    BY <2>1 DEF GateInv
  <2>2. ASSUME NEW found, scan_done(found) PROVE GateInv'
    <3>1. PICK qz :
            /\ joined' = (qz = 1 /\ wifi_bad = 0)
            /\ wifi_bad' = IF joined' THEN wifi_bad ELSE IF wifi_bad + 1 > Shut THEN 0 ELSE wifi_bad + 1
            /\ failures' = 0
            /\ missed' = IF qz = 0 \/ wifi_bad = 0 THEN 0
                         ELSE IF missed > Shut THEN missed ELSE missed + 1
      BY <2>2 DEF scan_done, Join
    <3>2. CASE wifi_bad = 0
      BY <3>1, <3>2 DEF GateInv
    <3>3. CASE wifi_bad > 0
      <4>1. wifi_bad # 0
        BY <3>3
      <4>2. ~joined'
        BY <3>1, <4>1, Zenon
      <4>3. wifi_bad' = IF wifi_bad + 1 > Shut THEN 0 ELSE wifi_bad + 1
        BY <3>1, <4>2, Zenon
      <4>4. missed' <= missed + 1 /\ missed' \in Nat /\ (missed = 0 => missed' <= 1)
        BY <3>1 DEF GateInv
      <4> QED
        BY <3>1, <3>3, <4>2, <4>3, <4>4 DEF GateInv
    <3> QED
      BY <3>2, <3>3 DEF GateInv
  <2>3. CASE get_indoor_position
    BY <2>1, <2>3 DEF get_indoor_position, gate
  <2>4. ASSUME NEW connected, ap_str_ascii_str(connected) \/ Look(connected) PROVE GateInv'
    BY <2>1, <2>4 DEF ap_str_ascii_str, Look
  <2>5. ASSUME NEW again, Fails(again) PROVE GateInv'
    BY <2>5 DEF Fails, GateInv
  <2>6. CASE Succeeds
    BY <2>6 DEF Succeeds, GateInv
  <2>7. CASE UNCHANGED vars
    BY <2>1, <2>7 DEF vars, gate
  <2> QED
    BY <2>2, <2>3, <2>4, <2>5, <2>6, <2>7 DEF Next, Scan
<1> QED
  BY <1>1, <1>2, PTL DEF Spec

\* The gate opens in time for every limit of the count.
THEOREM JoinsInTimeAlways == Spec => []JoinsInTime
<1>1. GateInv => JoinsInTime
  BY ConstantsAssumption DEF GateInv, JoinsInTime
<1> QED
  BY <1>1, GateHolds, PTL

\* No scan joins a network between a failure and the scan after it.
THEOREM BackOffAlways == Spec => BackOff
<1>1. GateInv /\ [Next]_vars => [failures > 0 => ~joined']_vars
  <2> SUFFICES ASSUME GateInv, Next, failures > 0, joined' PROVE FALSE
    BY DEF BackOff
  <2>1. wifi_bad > 0 /\ ~joined
    BY DEF GateInv
  <2>2. ASSUME NEW found, scan_done(found) PROVE FALSE
    <3>1. \E qz : joined' = (qz = 1 /\ wifi_bad = 0)
      BY <2>2 DEF scan_done, Join
    <3>2. wifi_bad # 0
      BY <2>1 DEF GateInv
    <3> QED
      BY <3>1, <3>2, Zenon
  <2>3. CASE get_indoor_position
    BY <2>1, <2>3 DEF get_indoor_position, gate
  <2>4. ASSUME NEW connected, ap_str_ascii_str(connected) \/ Look(connected) PROVE FALSE
    BY <2>1, <2>4 DEF ap_str_ascii_str, Look
  <2>5. ASSUME NEW again, Fails(again) PROVE FALSE
    BY <2>5 DEF Fails
  <2>6. CASE Succeeds
    BY <2>1, <2>6 DEF Succeeds
  <2> QED
    BY <2>2, <2>3, <2>4, <2>5, <2>6 DEF Next, Scan
<1> QED
  BY <1>1, GateHolds, PTL DEF Spec, BackOff

=============================================================================
