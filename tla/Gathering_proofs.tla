-------------------------- MODULE Gathering_proofs --------------------------
(***************************************************************************)
(* Proofs about Gathering: of the sectors in flash only the oldest of the  *)
(* task counts, an upload loses no address but those that UploadWhole      *)
(* names, for every number of parts and of addresses, and no use of the    *)
(* lamps takes the modem's power.                                          *)
(***************************************************************************)
EXTENDS Gathering, Recursion, FiniteSetTheorems, TLAPS

-----------------------------------------------------------------------------
(* The text.                                                               *)

\* The lengths add up to a number.
LEMMA CellsNat == Cells \in Nat /\ Each * Parts \in Nat
BY ConstantsAssumption DEF Cells

\* Division with a remainder, of a number below a multiple.
LEMMA Divided ==
  ASSUME NEW x \in Nat, NEW e \in Nat \ {0}, NEW p \in Nat, x < e * p
  PROVE  \E q \in 0 .. p - 1 : e * q <= x /\ x < e * q + e
<1>1. x \div e \in Nat /\ x % e \in 0 .. e - 1 /\ x = (e * (x \div e)) + (x % e)
  OBVIOUS
<1>2. PICK q \in Nat : e * q <= x /\ x < e * q + e
  BY <1>1
<1>3. q < p
  <2>1. SUFFICES ASSUME q >= p PROVE FALSE
    BY <1>2
  <2>2. e * q >= e * p
    BY <1>2, <2>1
  <2> QED
    BY <1>2, <2>2
<1> QED
  BY <1>2, <1>3

\* Every character of the addresses is in a part, but for the comma that the
\* template of the first part ends with: in the first part, in one of the
\* following or in the last.
LEMMA InAPart ==
  ASSUME NEW p \in Nat, p < Begin(Cells + 1) - 2,
         p < Begin(First + 1) - 2 \/ p >= Begin(First + 1)
  PROVE  Copied(p)
<1> USE ConstantsAssumption, CellsNat
<1>1. CASE p < Begin(First + 1) - 2
  <2>1. Copies(0) = [from |-> 0, to |-> Begin(First + 1) - 2] /\ 0 \in 0 .. Parts + 1
    BY DEF Copies
  <2> QED
    BY <1>1, <2>1 DEF Copied
<1>2. CASE p >= Begin(First + 1) /\ p < Begin(First + Each * Parts + 1)
  <2> DEFINE x == p - Begin(First + 1)
             e == 26 * Each
  <2>1. e \in Nat \ {0} /\ e * Parts = 26 * (Each * Parts)
    OBVIOUS
  <2>2. x \in Nat /\ x < e * Parts
    BY <1>2, <2>1 DEF Begin
  <2>3. PICK q \in 0 .. Parts - 1 : e * q <= x /\ x < e * q + e
    <3> HIDE DEF x, e
    <3> QED
      BY <2>1, <2>2, Divided
  <2>4. /\ q + 1 \in 1 .. Parts /\ Each * q \in Nat /\ Each * (q + 1) = Each * q + Each
        /\ e * q = 26 * (Each * q)
    BY <2>3
  <2>5. Copies(q + 1) = [from |-> Begin(First + Each * q + 1), to |-> Begin(First + Each * (q + 1) + 1)]
    BY <2>4 DEF Copies
  <2>6. Begin(First + Each * q + 1) = Begin(First + 1) + e * q
    BY <2>4 DEF Begin
  <2>7. Begin(First + Each * (q + 1) + 1) = Begin(First + 1) + e * q + e
    BY <2>4 DEF Begin
  <2>8. Begin(First + 1) \in Nat /\ e * q \in Nat
    BY <2>4 DEF Begin
  <2>9. Copies(q + 1).from <= p /\ p < Copies(q + 1).to
    BY <2>1, <2>3, <2>5, <2>6, <2>7, <2>8
  <2>10. q + 1 \in 0 .. Parts + 1
    BY <2>4
  <2> QED
    BY <2>9, <2>10 DEF Copied
<1>3. CASE p >= Begin(First + Each * Parts + 1)
  <2>1. Copies(Parts + 1) = [from |-> Begin(Cells - Last + 1), to |-> Begin(Cells + 1) - 2]
    BY DEF Copies
  <2>2. Cells - Last + 1 = First + Each * Parts + 1
    BY DEF Cells
  <2>3. Copies(Parts + 1).from <= p /\ p < Copies(Parts + 1).to
    BY <1>3, <2>1, <2>2
  <2>4. Parts + 1 \in 0 .. Parts + 1
    OBVIOUS
  <2> QED
    BY <2>3, <2>4 DEF Copied
<1>4. Begin(First + Each * Parts + 1) \in Nat
  BY DEF Begin
<1> QED
  BY <1>1, <1>2, <1>3, <1>4

\* An address that is not late stands alone, unless it is the first one behind
\* those that are.
LEMMA InTime ==
  ASSUME NEW shifted \in 0 .. Cells, NEW c \in 1 .. Cells, c > shifted,
         shifted = 0 \/ c # shifted + 1
  PROVE  Alone(c, shifted)
<1> USE ConstantsAssumption, CellsNat
<1>1. ASSUME NEW p \in Begin(c) .. Begin(c) + 23 PROVE Copied(p)
  <2>1. p \in Nat /\ p < Begin(Cells + 1) - 2
    BY DEF Begin
  <2>2. p < Begin(First + 1) - 2 \/ p >= Begin(First + 1)
    <3>1. CASE c <= First
      BY <3>1 DEF Begin
    <3>2. CASE c > First
      BY <3>2 DEF Begin
    <3> QED
      BY <3>1, <3>2
  <2> QED
    BY <2>1, <2>2, InAPart
<1>2. Begin(c) + (IF c <= shifted THEN 2 ELSE 0) = Begin(c)
  BY DEF Begin
<1>3. (c = 1 => shifted = 0) /\ ~(shifted > 0 /\ c = shifted + 1)
  OBVIOUS
<1> QED
  BY <1>1, <1>2, <1>3 DEF Alone

\* One that is late does, too, unless it is the first, number First or the last.
LEMMA TooLate ==
  ASSUME NEW shifted \in 0 .. Cells, NEW c \in 1 .. Cells, c <= shifted,
         c # 1, c # First, c # Cells
  PROVE  Alone(c, shifted)
<1> USE ConstantsAssumption, CellsNat
<1>1. ASSUME NEW p \in Begin(c) + 2 .. Begin(c) + 2 + 23 PROVE Copied(p)
  <2>1. p \in Nat /\ p < Begin(Cells + 1) - 2
    BY DEF Begin
  <2>2. p < Begin(First + 1) - 2 \/ p >= Begin(First + 1)
    <3>1. CASE c < First
      BY <3>1 DEF Begin
    <3>2. CASE c > First
      BY <3>2 DEF Begin
    <3> QED
      BY <3>1, <3>2
  <2> QED
    BY <2>1, <2>2, InAPart
<1>2. Begin(c) + (IF c <= shifted THEN 2 ELSE 0) = Begin(c) + 2
  OBVIOUS
<1>3. ~(c = shifted + 1)
  OBVIOUS
<1> QED
  BY <1>1, <1>2, <1>3 DEF Alone

\* The parts of an upload over NB lose no address of a text in which none is
\* late.
THEOREM PartsKeepText ==
  ASSUME NEW S, NEW text \in [1 .. Cells -> S]
  PROVE  str_ascii_str(text, 0) = text
<1>1. 0 \in 0 .. Cells
  BY CellsNat
<1>2. \A c \in 1 .. Cells : Alone(c, 0)
  BY <1>1, InTime
<1>3. str_ascii_str(text, 0) = [c \in 1 .. Cells |-> text[c]]
  BY <1>2 DEF str_ascii_str
<1> QED
  BY <1>3

\* Lists that sta_str has room for.
Lists == {m \in Seq(Address) : Len(m) <= Cells}

\* What UploadWhole says of one upload.
Whole(upload) ==
  \A k \in DOMAIN upload.macs :
    \/ Arrives(upload, k)
    \/ k = 1 /\ upload.late > 0
    \/ k \in {First, Cells} /\ upload.late = Cells

\* How many addresses may be late when a list of n is sent: all, if there are
\* Cells in it, or else some before the list.
Lates(n) == {x \in 0 .. Cells : x <= Cells - n \/ (x = Cells /\ n = Cells)}

\* Where a list of n has its addresses in a text of m.
LEMMA Places ==
  ASSUME NEW m \in Nat, NEW n \in 0 .. m, NEW k \in 1 .. n
  PROVE  \E c \in 1 .. m : c = (m - n) + k /\ c > m - n /\ c - (m - n) = k
<1>1. (m - n) + k \in 1 .. m /\ (m - n) + k > m - n /\ ((m - n) + k) - (m - n) = k
  OBVIOUS
<1> QED
  BY <1>1

\* Every list that has room in sta_str is uploaded, over either link, as
\* UploadWhole says, whatever was late in the text before.
THEOREM EveryListWhole ==
  ASSUME NEW l, NEW macs \in Lists, NEW shifted \in Lates(Len(macs))
  PROVE  Whole(Upload(l, macs, shifted))
<1>1. PICK n \in Nat : n = Len(macs) /\ DOMAIN macs = 1 .. n /\ n <= Cells
  BY DEF Lists
<1>2. /\ Cells \in Nat /\ shifted \in 0 .. Cells
      /\ shifted <= Cells - n \/ (shifted = Cells /\ n = Cells)
  BY <1>1, CellsNat DEF Lates
<1>3. PICK u : u = Upload(l, macs, shifted)
  OBVIOUS
<1>4. u.macs = macs
  BY <1>3 DEF Upload
<1>5. CASE l # "nb"
  <2>1. u.text = macs
    BY <1>3, <1>5 DEF Upload
  <2>2. ASSUME NEW k \in 1 .. n PROVE Arrives(u, k)
    <3>1. n - n + k = k
      BY <1>1
    <3> QED
      BY <1>1, <1>4, <2>1, <3>1 DEF Arrives
  <2> QED
    BY <1>1, <1>3, <1>4, <2>2 DEF Whole
<1>6. CASE l = "nb"
  <2>1. PICK t : t = Padded(macs)
    OBVIOUS
  <2>2. u.text = [c \in 1 .. Cells |-> IF Alone(c, shifted) THEN t[c] ELSE Older] /\ u.late = shifted
    BY <1>3, <1>6, <2>1 DEF Upload, str_ascii_str
  <2>3. Len(u.text) = Cells
    BY <1>2, <2>2
  <2>4. ASSUME NEW k \in 1 .. n, Alone((Cells - n) + k, shifted) PROVE Arrives(u, k)
    <3>1. PICK c \in 1 .. Cells : c = (Cells - n) + k /\ c > Cells - n /\ c - (Cells - n) = k
      <4>1. n \in 0 .. Cells
        BY <1>1, <1>2
      <4> QED
        BY <1>2, <4>1, Places
    <3>2. t[c] = macs[k]
      BY <1>1, <2>1, <3>1 DEF Padded
    <3>3. u.text[c] = macs[k]
      BY <2>2, <2>4, <3>1, <3>2
    <3> QED
      BY <1>1, <1>4, <2>3, <3>1, <3>3 DEF Arrives
  <2>5. ASSUME NEW k \in 1 .. n, shifted <= Cells - n, ~(k = 1 /\ shifted > 0)
        PROVE  Arrives(u, k)
    <3>1. PICK c \in 1 .. Cells : c = (Cells - n) + k /\ c > shifted /\ (shifted = 0 \/ c # shifted + 1)
      BY <1>1, <1>2, <2>5
    <3>2. Alone(c, shifted)
      BY <1>2, <3>1, InTime
    <3> QED
      BY <2>4, <3>1, <3>2
  <2>6. ASSUME NEW k \in 1 .. n, shifted = Cells, n = Cells, k \notin {1, First, Cells}
        PROVE  Arrives(u, k)
    <3>1. (Cells - n) + k = k /\ k \in 1 .. Cells /\ k <= shifted
      BY <1>2, <2>6
    <3>2. Alone(k, shifted)
      BY <1>2, <2>6, <3>1, TooLate
    <3> QED
      BY <2>4, <3>1, <3>2
  <2>7. ASSUME NEW k \in 1 .. n
        PROVE  Arrives(u, k) \/ (k = 1 /\ u.late > 0) \/ (k \in {First, Cells} /\ u.late = Cells)
    <3>1. CASE shifted <= Cells - n
      BY <2>2, <2>5, <3>1
    <3>2. CASE shifted = Cells /\ n = Cells
      <4>1. shifted > 0
        BY <1>1, <1>2, <3>2
      <4> QED
        BY <2>2, <2>6, <3>2, <4>1
    <3> QED
      BY <1>2, <3>1, <3>2
  <2> QED
    BY <1>1, <1>3, <1>4, <2>7 DEF Whole
<1> QED
  BY <1>5, <1>6

-----------------------------------------------------------------------------
(* The comparison with the cache.                                          *)

\* Records of such lists.  Only a full one is cut.
Kept == {r \in [task : Task \cup {NoTask}, macs : Lists, cut : BOOLEAN] :
           r.cut => Len(r.macs) = Cells}

\* Tables of Deduplication, and what it has after a sector.
Tables  == [1 .. Cells -> Address \cup {Empty}]
Results == {r \in [id : Task \cup {NoTask}, rows : Tables, macs : Lists, cut : BOOLEAN] :
              r.cut => Len(r.macs) = Cells}

\* The rows before the first empty one.
LEMMA UpToHoleIs ==
  ASSUME NEW rows \in Tables
  PROVE  \E n \in 0 .. Cells :
           /\ UpToHole(rows) = [k \in 1 .. n |-> rows[k]]
           /\ UpToHole(rows) \in Lists /\ Len(UpToHole(rows)) = n
           /\ \A k \in 1 .. n : rows[k] # Empty
           /\ n < Cells => rows[n + 1] = Empty
<1> DEFINE H == {k \in 1 .. Cells + 1 : k <= Cells => rows[k] = Empty}
<1>1. Cells \in Nat
  BY CellsNat
<1>2. PICK x \in H : \A y \in H : x <= y
  <2>1. H \subseteq Nat /\ Cells + 1 \in H
    BY <1>1
  <2> HIDE DEF H
  <2> QED
    BY <2>1, LeastNatural
<1>3. PICK n \in 0 .. Cells : x = n + 1
  <2>1. x \in 1 .. Cells + 1 /\ x - 1 \in 0 .. Cells /\ x = (x - 1) + 1
    BY <1>1, <1>2
  <2> QED
    BY <2>1
<1>4. ASSUME NEW k \in 1 .. n PROVE k \in 1 .. Cells /\ rows[k] # Empty
  <2>1. k \in 1 .. Cells /\ k \in 1 .. Cells + 1 /\ ~(n + 1 <= k)
    BY <1>1
  <2>2. k \notin H
    BY <1>2, <1>3, <2>1
  <2> QED
    BY <2>1, <2>2
<1>5. ASSUME n < Cells PROVE rows[n + 1] = Empty
  <2>1. n + 1 <= Cells
    BY <1>1, <1>5
  <2> QED
    BY <1>2, <1>3, <2>1
<1> HIDE DEF H
<1>6. {k \in 1 .. Cells : \A j \in 1 .. k : rows[j] # Empty} = 1 .. n
  <2>1. ASSUME NEW k \in 1 .. Cells, \A j \in 1 .. k : rows[j] # Empty PROVE k \in 1 .. n
    <3>1. SUFFICES ASSUME k > n PROVE FALSE
      BY <1>1
    <3>2. n < Cells /\ n + 1 \in 1 .. k
      BY <1>1, <3>1
    <3> QED
      BY <1>5, <2>1, <3>2
  <2>2. ASSUME NEW k \in 1 .. n PROVE \A j \in 1 .. k : rows[j] # Empty
    <3>1. \A j \in 1 .. k : j \in 1 .. n
      BY <1>1
    <3> QED
      BY <1>4, <3>1
  <2> QED
    BY <1>4, <2>1, <2>2
<1>7. UpToHole(rows) = [k \in 1 .. n |-> rows[k]]
  BY <1>6 DEF UpToHole
<1>8. \A k \in 1 .. n : rows[k] \in Address
  BY <1>4 DEF Tables
<1>9. n \in Nat /\ n <= Cells
  BY <1>1
<1>10. UpToHole(rows) \in Seq(Address) /\ Len(UpToHole(rows)) = n
  BY <1>7, <1>8, <1>9
<1> QED
  BY <1>4, <1>5, <1>7, <1>9, <1>10 DEF Lists

\* A list without the addresses that are held, which leave holes.
Cut(macs, held) ==
  [c \in 1 .. Cells |-> IF c \in DOMAIN macs /\ macs[c] \notin held THEN macs[c] ELSE Empty]

\* A list that has been cut ends before the first address that is held.
LEMMA CutIs ==
  ASSUME NEW macs \in Lists, NEW held
  PROVE  Cut(macs, held) \in Tables /\ UpToHole(Cut(macs, held)) = Before(macs, held)
<1> DEFINE rows == Cut(macs, held)
           K == {k \in DOMAIN macs : \A j \in 1 .. k : macs[j] \notin held}
<1>1. macs \in Seq(Address) /\ Len(macs) \in Nat /\ DOMAIN macs = 1 .. Len(macs) /\ Len(macs) <= Cells
  BY DEF Lists
<1>2. Cells \in Nat /\ \A a \in Address : a # Empty
  BY CellsNat, ConstantsAssumption
<1>3. rows \in Tables
  <2>1. \A c \in 1 .. Len(macs) : macs[c] \in Address
    BY <1>1
  <2> QED
    BY <1>1, <2>1 DEF Cut, Tables
<1>4. ASSUME NEW c \in 1 .. Cells
      PROVE  rows[c] # Empty => c \in DOMAIN macs /\ macs[c] \notin held /\ rows[c] = macs[c]
  BY DEF Cut
<1>5. ASSUME NEW c \in 1 .. Cells
      PROVE  c \in DOMAIN macs /\ macs[c] \notin held => rows[c] # Empty
  <2>1. c \in DOMAIN macs => macs[c] \in Address
    BY <1>1
  <2> QED
    BY <1>2, <2>1 DEF Cut
<1> HIDE DEF rows
<1>6. PICK n \in 0 .. Cells :
        /\ UpToHole(rows) = [k \in 1 .. n |-> rows[k]]
        /\ \A k \in 1 .. n : rows[k] # Empty
        /\ n < Cells => rows[n + 1] = Empty
  BY <1>3, UpToHoleIs
<1>7. n \in Nat /\ n <= Cells /\ \A k \in 1 .. n : k \in 1 .. Cells
  BY <1>2
<1>8. \A k \in 1 .. n : k \in DOMAIN macs /\ macs[k] \notin held /\ rows[k] = macs[k]
  BY <1>4, <1>6, <1>7
<1>9. n <= Len(macs)
  <2>1. CASE n = 0
    BY <1>1, <2>1
  <2>2. CASE n # 0
    <3>1. n \in 1 .. n
      BY <1>7, <2>2
    <3> QED
      BY <1>1, <1>7, <1>8, <3>1
  <2> QED
    BY <2>1, <2>2
<1>10. K = 1 .. n
  <2>1. ASSUME NEW k \in DOMAIN macs, \A j \in 1 .. k : macs[j] \notin held PROVE k \in 1 .. n
    <3>1. SUFFICES ASSUME k > n PROVE FALSE
      BY <1>1, <1>7
    <3>2. n + 1 \in 1 .. k /\ n + 1 \in DOMAIN macs /\ n + 1 \in 1 .. Cells /\ n < Cells
      BY <1>1, <1>2, <1>7, <3>1
    <3> QED
      BY <1>5, <1>6, <2>1, <3>2
  <2>2. ASSUME NEW k \in 1 .. n PROVE k \in DOMAIN macs /\ \A j \in 1 .. k : macs[j] \notin held
    <3>1. \A j \in 1 .. k : j \in 1 .. n
      BY <1>7
    <3> QED
      BY <1>8, <3>1
  <2> QED
    BY <2>1, <2>2
<1>11. Cardinality(K) = n
  <2>1. Cardinality(1 .. n) = n
    BY <1>7, FS_Interval
  <2> HIDE DEF K
  <2> QED
    BY <1>10, <2>1
<1>12. Before(macs, held) = SubSeq(macs, 1, n)
  BY <1>11 DEF Before
<1>13. SubSeq(macs, 1, n) = [k \in 1 .. n |-> macs[k]]
  BY <1>1, <1>7, <1>9
<1>14. [k \in 1 .. n |-> macs[k]] = [k \in 1 .. n |-> rows[k]]
  BY <1>8
<1> QED
  BY <1>3, <1>6, <1>12, <1>13, <1>14 DEF rows

\* A list with none of its addresses held stays as it is.
LEMMA BeforeNone ==
  ASSUME NEW macs \in Lists
  PROVE  Before(macs, {}) = macs
<1>1. macs \in Seq(Address) /\ Len(macs) \in Nat /\ DOMAIN macs = 1 .. Len(macs)
  BY DEF Lists
<1>2. {k \in DOMAIN macs : \A j \in 1 .. k : macs[j] \notin {}} = 1 .. Len(macs)
  BY <1>1
<1>3. Cardinality(1 .. Len(macs)) = Len(macs)
  BY <1>1, FS_Interval
<1>4. Before(macs, {}) = SubSeq(macs, 1, Len(macs))
  BY <1>2, <1>3 DEF Before
<1> QED
  BY <1>1, <1>4

\* The addresses that the records of a sector hold.
Held(sector) == UNION {Elements(sector[k].macs) : k \in DOMAIN sector}

\* What a sector does: nothing if it is another task's.
LEMMA ComparedIs ==
  ASSUME NEW d \in Results, NEW sector \in Seq(Kept)
  PROVE  LET id == IF sector = << >> THEN d.id ELSE sector[1].task
             rows == [c \in 1 .. Cells |->
                        IF c \in DOMAIN d.macs /\ d.macs[c] \notin Held(sector)
                          THEN d.macs[c] ELSE d.rows[c]]
         IN  /\ Compared(d, sector) \in Results
             /\ id # tag => /\ Compared(d, sector).rows = d.rows
                            /\ Compared(d, sector).macs = d.macs
             /\ id = tag => /\ Compared(d, sector).rows = rows
                            /\ Compared(d, sector).macs = UpToHole(rows)
<1> DEFINE id == IF sector = << >> THEN d.id ELSE sector[1].task
           rows == [c \in 1 .. Cells |->
                      IF c \in DOMAIN d.macs /\ d.macs[c] \notin Held(sector)
                        THEN d.macs[c] ELSE d.rows[c]]
<1>1. Compared(d, sector) = IF id # tag THEN [d EXCEPT !.id = id] ELSE Compressed(id, rows)
  BY DEF Compared, Held
<1>2. /\ d.id \in Task \cup {NoTask} /\ d.rows \in Tables /\ d.macs \in Lists
      /\ d \in [id : Task \cup {NoTask}, rows : Tables, macs : Lists, cut : BOOLEAN]
      /\ d.cut => Len(d.macs) = Cells
  BY DEF Results
<1>3. id \in Task \cup {NoTask}
  <2>1. CASE sector = << >>
    BY <1>2, <2>1
  <2>2. CASE sector # << >>
    <3>1. sector[1] \in Kept
      BY <2>2
    <3> QED
      BY <2>2, <3>1 DEF Kept
  <2> QED
    BY <2>1, <2>2
<1>4. rows \in Tables
  <2>1. \A c \in DOMAIN d.macs : d.macs[c] \in Address
    BY <1>2 DEF Lists
  <2> QED
    BY <1>2, <2>1 DEF Tables
<1> HIDE DEF id, rows
<1>5. UpToHole(rows) \in Lists
  BY <1>4, UpToHoleIs
<1>6. Compared(d, sector) \in Results
  <2>1. CASE id # tag
    <3> DEFINE e == [d EXCEPT !.id = id]
    <3>1. e \in [id : Task \cup {NoTask}, rows : Tables, macs : Lists, cut : BOOLEAN]
      BY <1>2, <1>3
    <3>2. e.cut = d.cut /\ e.macs = d.macs
      BY <1>2
    <3> HIDE DEF e
    <3>3. e \in Results
      BY <1>2, <3>1, <3>2 DEF Results
    <3> QED
      BY <1>1, <2>1, <3>3 DEF e
  <2>2. CASE id = tag
    <3> DEFINE e == Compressed(id, rows)
    <3>1. PICK b \in BOOLEAN : b = (Len(UpToHole(rows)) = Cells)
      OBVIOUS
    <3>2. e = [id |-> id, rows |-> rows, macs |-> UpToHole(rows), cut |-> b]
      BY <3>1, Zenon DEF Compressed
    <3>3. e \in [id : Task \cup {NoTask}, rows : Tables, macs : Lists, cut : BOOLEAN]
      BY <1>3, <1>4, <1>5, <3>2
    <3>4. e.cut = b /\ e.macs = UpToHole(rows)
      BY <3>2
    <3> HIDE DEF e
    <3>5. e.cut => Len(e.macs) = Cells
      BY <3>1, <3>4, Zenon
    <3>6. e \in Results
      BY <3>3, <3>5 DEF Results
    <3> QED
      BY <1>1, <2>2, <3>6 DEF e
  <2> QED
    BY <2>1, <2>2
<1>7. id # tag => Compared(d, sector).rows = d.rows /\ Compared(d, sector).macs = d.macs
  BY <1>1, <1>2
<1>8. id = tag => Compared(d, sector).rows = rows /\ Compared(d, sector).macs = UpToHole(rows)
  BY <1>1 DEF Compressed
<1> QED
  BY <1>6, <1>7, <1>8 DEF id, rows

\* What Deduplication has before the first sector.
Fresh == [id |-> sector_tag_id, rows |-> [c \in 1 .. Cells |-> Empty],
          macs |-> sta_str, cut |-> cut]

\* What it has after each of them.
LEMMA DeduplicatedIs ==
  ASSUME Fresh \in Results, sectors \in Seq(Seq(Kept))
  PROVE  \E d \in [0 .. Len(sectors) -> Results] :
           /\ d[0] = Fresh /\ d[Len(sectors)] = Deduplicated
           /\ \A s \in 1 .. Len(sectors) : d[s] = Compared(d[s - 1], sectors[s])
<1> DEFINE Is(d) == d = [s \in 0 .. Len(sectors) |->
                           IF s = 0 THEN Fresh ELSE Compared(d[s - 1], sectors[s])]
<1>1. PICK n \in Nat : n = Len(sectors)
  OBVIOUS
<1>2. PICK a \in Results : a = Fresh
  OBVIOUS
<1>3. PICK F : F = [s \in 1 .. n |-> [d \in Results |-> Compared(d, sectors[s])]]
  OBVIOUS
<1>4. F \in [1 .. n -> [Results -> Results]]
  <2>1. ASSUME NEW s \in 1 .. n, NEW d \in Results PROVE Compared(d, sectors[s]) \in Results
    <3>1. sectors[s] \in Seq(Kept)
      BY <1>1
    <3> QED
      BY <3>1, ComparedIs
  <2> QED
    BY <1>3, <2>1
<1>5. PICK g \in [0 .. n -> Results] : Follows(g, n, a, F)
  BY <1>4, RecursiveFunction
<1>6. ASSUME NEW s \in 1 .. n, NEW d \in Results PROVE F[s][d] = Compared(d, sectors[s])
  BY <1>3
<1>7. Is(g)
  <2>1. g = [s \in 0 .. n |-> g[s]]
    OBVIOUS
  <2>2. ASSUME NEW s \in 0 .. n
        PROVE  g[s] = IF s = 0 THEN Fresh ELSE Compared(g[s - 1], sectors[s])
    <3>1. g[s] = IF s = 0 THEN a ELSE F[s][g[s - 1]]
      BY <1>5 DEF Follows
    <3>2. s # 0 => s \in 1 .. n /\ s - 1 \in 0 .. n
      OBVIOUS
    <3>3. s # 0 => g[s - 1] \in Results
      BY <3>2
    <3> QED
      BY <1>2, <1>6, <3>1, <3>2, <3>3
  <2> QED
    BY <1>1, <2>1, <2>2
<1>8. PICK c : c = CHOOSE d : Is(d)
  OBVIOUS
<1>9. Deduplicated = c[n] /\ Is(c)
  <2>1. Deduplicated = c[n]
    BY <1>1, <1>8 DEF Deduplicated, Fresh
  <2> HIDE DEF Is
  <2> QED
    BY <1>7, <1>8, <2>1
<1>10. c = g
  <2> DEFINE S == {s \in Nat : s <= n => c[s] = g[s]}
  <2>1. 0 \in S
    BY <1>1, <1>7, <1>9
  <2>2. ASSUME NEW s \in 1 .. n, s - 1 \in S PROVE s \in S
    <3>1. c[s - 1] = g[s - 1] /\ s # 0 /\ s \in 0 .. n /\ s \in Nat
      BY <2>2
    <3>2. c[s] = Compared(c[s - 1], sectors[s]) /\ g[s] = Compared(g[s - 1], sectors[s])
      BY <1>1, <1>7, <1>9, <3>1
    <3> QED
      BY <3>1, <3>2
  <2> HIDE DEF S
  <2>3. 0 .. n \subseteq S
    BY <2>1, <2>2, InductionTo, Zenon
  <2>4. \A s \in 0 .. n : c[s] = g[s]
    BY <2>3 DEF S
  <2>5. c = [s \in 0 .. n |-> c[s]] /\ g = [s \in 0 .. n |-> g[s]]
    BY <1>1, <1>9
  <2> QED
    BY <2>4, <2>5
<1>11. ASSUME NEW s \in 1 .. n PROVE g[s] = Compared(g[s - 1], sectors[s])
  <2>1. s \in 0 .. Len(sectors) /\ s # 0
    BY <1>1
  <2> QED
    BY <1>7, <2>1
<1>12. g[0] = Fresh
  BY <1>1, <1>7
<1> QED
  BY <1>1, <1>9, <1>10, <1>11, <1>12

\* The sectors that Deduplication takes for those of the task.
Mine == {s \in DOMAIN sectors : sectors[s] # << >> /\ sectors[s][1].task = tag}

\* A table that has been compared with the oldest sector of the task is not
\* changed by another one.
LEMMA ComparedAgain ==
  ASSUME NEW d \in Results, NEW sector \in Seq(Kept), d.macs = UpToHole(d.rows)
  PROVE  Compared(d, sector).rows = d.rows /\ Compared(d, sector).macs = d.macs
<1> DEFINE rows == [c \in 1 .. Cells |->
                      IF c \in DOMAIN d.macs /\ d.macs[c] \notin Held(sector)
                        THEN d.macs[c] ELSE d.rows[c]]
<1>1. d.rows \in Tables
  BY DEF Results
<1>2. PICK n \in 0 .. Cells : UpToHole(d.rows) = [k \in 1 .. n |-> d.rows[k]]
  BY <1>1, UpToHoleIs
<1>3. \A c \in DOMAIN d.macs : d.macs[c] = d.rows[c]
  BY <1>2
<1>4. rows = [c \in 1 .. Cells |-> d.rows[c]]
  BY <1>3
<1>5. rows = d.rows
  BY <1>1, <1>4 DEF Tables
<1> HIDE DEF rows
<1>6. \/ Compared(d, sector).rows = d.rows /\ Compared(d, sector).macs = d.macs
      \/ Compared(d, sector).rows = rows /\ Compared(d, sector).macs = UpToHole(rows)
  BY ComparedIs DEF rows
<1> QED
  BY <1>5, <1>6

\* Only the oldest sector of the task counts, among any number of sectors.
LEMMA OldestIs ==
  ASSUME Fresh \in Results, sectors \in Seq(Seq(Kept)),
         \A s \in DOMAIN sectors : sectors[s] = << >> => Len(sectors) = 1
  PROVE  /\ Deduplicated \in Results
         /\ Mine = {} => Deduplicated.macs = sta_str
         /\ \A o \in Mine : (\A r \in Mine : o <= r) =>
              Deduplicated.macs = Before(sta_str, Held(sectors[o]))
<1>1. PICK n \in Nat : n = Len(sectors)
  OBVIOUS
<1>2. PICK all : all = sectors
  OBVIOUS
<1>3. PICK own : own = Mine
  OBVIOUS
<1>4. PICK macs \in Lists : macs = sta_str
  BY DEF Fresh, Results
<1>5. PICK d \in [0 .. n -> Results] :
        /\ d[0] = Fresh /\ d[n] = Deduplicated
        /\ \A s \in 1 .. n : d[s] = Compared(d[s - 1], all[s])
  BY <1>1, <1>2, DeduplicatedIs
<1> DEFINE Unused(x, s) == x.macs = macs /\ (s = 0 \/ n > 1 => x.rows = [c \in 1 .. Cells |-> Empty])
           Used(x, o) == x.rows = Cut(macs, Held(all[o])) /\ x.macs = UpToHole(x.rows)
           Good(x, s) == /\ (\A r \in 1 .. s : r \notin own) => Unused(x, s)
                         /\ \A o \in 1 .. s : o \in own /\ (\A r \in own : o <= r) => Used(x, o)
           S == {s \in Nat : s <= n => Good(d[s], s)}
<1>6. 0 \in S
  <2>1. Unused(d[0], 0)
    BY <1>4, <1>5 DEF Fresh
  <2> QED
    BY <2>1
<1>7. ASSUME NEW s \in 1 .. n, s - 1 \in S PROVE s \in S
  <2>1. PICK x \in Results : x = d[s - 1]
    OBVIOUS
  <2>2. PICK y : y = Compared(x, all[s])
    OBVIOUS
  <2>3. d[s] = y /\ s - 1 \in 0 .. n /\ s \in 0 .. n /\ s \in Nat
    BY <1>5, <2>1, <2>2
  <2>4. Good(x, s - 1)
    BY <1>7, <2>1, <2>3
  <2>5. all[s] \in Seq(Kept) /\ s \in DOMAIN sectors
    BY <1>1, <1>2
  <2>6. s \in own <=> all[s] # << >> /\ all[s][1].task = tag
    BY <1>2, <1>3, <2>5 DEF Mine
  <2>7. SUFFICES Good(y, s)
    BY <2>3
  <2> HIDE DEF S
  <2>8. CASE all[s] = << >>
    <3>1. n = 1 /\ s = 1
      <4>1. sectors[s] = << >> /\ s \in DOMAIN sectors
        BY <1>2, <2>5, <2>8
      <4>2. Len(sectors) = 1
        BY <4>1, Zenon
      <4> QED
        BY <1>1, <4>2
    <3>2. s \notin own
      BY <2>6, <2>8
    <3>3. Unused(x, 0)
      BY <2>4, <3>1
    <3>4. DOMAIN all[s] = {}
      BY <2>8
    <3>5. Held(all[s]) = {}
      BY <3>4 DEF Held
    <3>6. y.macs = macs
      <4> DEFINE rows == [c \in 1 .. Cells |->
                            IF c \in DOMAIN x.macs /\ x.macs[c] \notin Held(all[s])
                              THEN x.macs[c] ELSE x.rows[c]]
      <4>1. \/ y.macs = x.macs
            \/ y.macs = UpToHole(rows)
        BY <2>2, <2>5, ComparedIs
      <4>2. rows = Cut(macs, {})
        BY <3>3, <3>5 DEF Cut
      <4>3. UpToHole(rows) = macs
        BY <4>2, CutIs, BeforeNone
      <4> HIDE DEF rows
      <4> QED
        BY <3>3, <4>1, <4>3
    <3>7. Unused(y, s)
      BY <3>1, <3>6
    <3>8. \A o \in 1 .. s : o = s
      BY <3>1
    <3> HIDE DEF Unused, Used
    <3> QED
      BY <3>2, <3>7, <3>8
  <2>9. CASE all[s] # << >> /\ s \notin own
    <3>1. y.rows = x.rows /\ y.macs = x.macs
      BY <2>2, <2>5, <2>6, <2>9, ComparedIs
    <3>2. ASSUME \A r \in 1 .. s : r \notin own PROVE Unused(y, s)
      <4>1. \A r \in 1 .. s - 1 : r \in 1 .. s
        OBVIOUS
      <4>2. Unused(x, s - 1)
        BY <2>4, <3>2, <4>1
      <4>3. s # 0
        OBVIOUS
      <4> QED
        BY <3>1, <4>2, <4>3
    <3>3. ASSUME NEW o \in 1 .. s, o \in own, \A r \in own : o <= r PROVE Used(y, o)
      <4>1. o \in 1 .. s - 1
        BY <2>9, <3>3
      <4>2. Used(x, o)
        BY <2>4, <3>3, <4>1
      <4> QED
        BY <3>1, <4>2
    <3> QED
      BY <3>2, <3>3
  <2>10. CASE all[s] # << >> /\ s \in own
    <3>1. ASSUME NEW o \in 1 .. s, o \in own, \A r \in own : o <= r PROVE Used(y, o)
      <4>1. CASE o = s
        <5>1. ASSUME NEW r \in 1 .. s - 1 PROVE r \notin own
          BY <3>1, <4>1, <5>1
        <5>2. Unused(x, s - 1)
          BY <2>4, <5>1
        <5>3. s - 1 = 0 \/ n > 1
          OBVIOUS
        <5>4. x.macs = macs /\ x.rows = [c \in 1 .. Cells |-> Empty]
          BY <5>2, <5>3
        <5> DEFINE rows == [c \in 1 .. Cells |->
                              IF c \in DOMAIN x.macs /\ x.macs[c] \notin Held(all[s])
                                THEN x.macs[c] ELSE x.rows[c]]
        <5>5. y.rows = rows /\ y.macs = UpToHole(rows)
          BY <2>2, <2>5, <2>6, <2>10, ComparedIs
        <5>6. rows = Cut(macs, Held(all[s]))
          BY <5>4 DEF Cut
        <5> QED
          BY <4>1, <5>5, <5>6
      <4>2. CASE o # s
        <5>1. o \in 1 .. s - 1
          BY <4>2
        <5>2. Used(x, o)
          BY <2>4, <3>1, <5>1
        <5>3. y.rows = x.rows /\ y.macs = x.macs
          BY <2>2, <2>5, <5>2, ComparedAgain
        <5> QED
          BY <5>2, <5>3
      <4> QED
        BY <4>1, <4>2
    <3>2. s \in 1 .. s
      OBVIOUS
    <3> HIDE DEF Unused, Used
    <3> QED
      BY <2>10, <3>1, <3>2
  <2> QED
    BY <2>8, <2>9, <2>10
<1> HIDE DEF S
<1>8. n \in S
  <2>1. 0 .. n \subseteq S
    BY <1>6, <1>7, InductionTo, Zenon
  <2> QED
    BY <2>1
<1>9. Good(d[n], n)
  BY <1>8 DEF S
<1>10. \A s \in own : s \in 1 .. n
  BY <1>1, <1>3 DEF Mine
<1>11. own = {} => Deduplicated.macs = macs
  BY <1>5, <1>9
<1>12. ASSUME NEW o \in own, \A r \in own : o <= r
       PROVE  Deduplicated.macs = Before(macs, Held(all[o]))
  <2>1. Used(d[n], o)
    BY <1>9, <1>10, <1>12
  <2> QED
    BY <1>5, <2>1, CutIs
<1>13. Deduplicated \in Results
  <2>1. n \in 0 .. n
    OBVIOUS
  <2> QED
    BY <1>5, <2>1
<1> QED
  BY <1>2, <1>3, <1>4, <1>11, <1>12, <1>13

-----------------------------------------------------------------------------
(* The lamps.                                                              *)

\* What the lamps keep: the power's pin is set, and the bytes that are shifted
\* to a pin are the ones that Ones knows.
LampInv ==
  /\ pins \in [Pin -> {0, 1}] /\ state \in {0, 255} /\ get_gps \in {0, 1}
  /\ PinsKept

\* An output to the lamp of the device may darken the lamp of the fix, but does
\* not light it, and leaves the power.
LEMMA LampOutput ==
  ASSUME NEW p \in [Pin -> {0, 1}], NEW bits \in {0, 255}, p[PIN_POWER] = 1
  PROVE  /\ GPIO_OUTPUT_SET(p, PIN_LED_S, bits) \in [Pin -> {0, 1}]
         /\ GPIO_OUTPUT_SET(p, PIN_LED_S, bits)[PIN_POWER] = 1
         /\ GPIO_OUTPUT_SET(p, PIN_LED_S, bits)[PIN_GPS_S] = 0 => p[PIN_GPS_S] = 0
<1>1. Ones(PIN_LED_S, bits) = IF bits = 0 THEN {} ELSE 5 .. 12
  BY DEF Ones, PIN_LED_S
<1> QED
  BY <1>1 DEF GPIO_OUTPUT_SET, Pin, PIN_LED_S, PIN_POWER, PIN_GPS_S

\* The lamp of the fix is lit with a fix only.
LEMMA FixOutput ==
  ASSUME NEW p \in [Pin -> {0, 1}], NEW fix \in {0, 1}, p[PIN_POWER] = 1
  PROVE  /\ GPIO_OUTPUT_SET(p, PIN_GPS_S, 1 - fix) \in [Pin -> {0, 1}]
         /\ GPIO_OUTPUT_SET(p, PIN_GPS_S, 1 - fix)[PIN_POWER] = 1
         /\ GPIO_OUTPUT_SET(p, PIN_GPS_S, 1 - fix)[PIN_GPS_S] = 0 => fix = 1
<1>1. Ones(PIN_GPS_S, 1 - fix) = IF fix = 1 THEN {} ELSE {10}
  BY DEF Ones, PIN_GPS_S
<1> QED
  BY <1>1 DEF GPIO_OUTPUT_SET, Pin, PIN_LED_S, PIN_POWER, PIN_GPS_S

\* A tick keeps it, whatever the state of the lamp.
LEMMA TickKeeps ==
  ASSUME LampInv, NEW led, devicexx_io_led_timer_tick(led), get_gps' = get_gps
  PROVE  LampInv'
<1>1. state' \in {0, 255}
  BY DEF LampInv, devicexx_io_led_timer_tick
<1>2. \/ pins' = GPIO_OUTPUT_SET(pins, PIN_LED_S, state')
      \/ pins' = GPIO_OUTPUT_SET(pins, PIN_LED_S, 0)
      \/ pins' = pins
  BY DEF devicexx_io_led_timer_tick
<1>3. CASE pins' = GPIO_OUTPUT_SET(pins, PIN_LED_S, state')
  BY <1>1, <1>3, LampOutput DEF LampInv, PinsKept
<1>4. CASE pins' = GPIO_OUTPUT_SET(pins, PIN_LED_S, 0)
  BY <1>1, <1>4, LampOutput DEF LampInv, PinsKept
<1>5. CASE pins' = pins
  BY <1>1, <1>5 DEF LampInv, PinsKept
<1> QED
  BY <1>2, <1>3, <1>4, <1>5

LEMMA LampInvHolds == Spec => []LampInv
<1>1. Init => LampInv
  <2> SUFFICES ASSUME Init PROVE LampInv
    OBVIOUS
  <2>1. pins = [i \in Pin |-> IF i = PIN_LED_S THEN 0 ELSE 1]
    BY DEF Init
  <2>2. pins \in [Pin -> {0, 1}] /\ pins[PIN_POWER] = 1 /\ pins[PIN_GPS_S] = 1
    BY <2>1 DEF Pin, PIN_LED_S, PIN_POWER, PIN_GPS_S
  <2> QED
    BY <2>2 DEF Init, LampInv, PinsKept
<1>2. LampInv /\ [Next]_vars => LampInv'
  <2> SUFFICES ASSUME LampInv, [Next]_vars PROVE LampInv'
    OBVIOUS
  <2>1. CASE UNCHANGED <<lamp, get_gps>>
    BY <2>1 DEF LampInv, PinsKept, lamp
  <2>2. CASE LedTimer
    BY <2>2, TickKeeps DEF LedTimer
  <2>3. ASSUME NEW fix \in {0, 1}, GNRMC(fix) PROVE LampInv'
    BY <2>3, FixOutput DEF GNRMC, LampInv, PinsKept
  <2>4. CASE start
    BY <2>4, TickKeeps DEF start
  <2>5. CASE Sniff \/ Deduplication \/ sector_upload_done \/ Failed
    BY <2>1, <2>5 DEF Sniff, Deduplication, sector_upload_done, Failed
  <2>6. ASSUME NEW t \in Task, save_stakid(t) PROVE LampInv'
    BY <2>1, <2>6 DEF save_stakid
  <2>7. ASSUME NEW l, update_data(l) PROVE LampInv'
    BY <2>1, <2>7, TickKeeps DEF update_data
  <2>8. ASSUME NEW l, read_sector(l) PROVE LampInv'
    BY <2>1, <2>8 DEF read_sector
  <2>9. CASE Stored
    BY <2>1, <2>9, TickKeeps DEF Stored
  <2>10. CASE Refused
    BY <2>10, TickKeeps DEF Refused
  <2>11. CASE Restart
    <3>1. pins' = [i \in Pin |-> IF i = PIN_LED_S THEN 0 ELSE 1]
      BY <2>11 DEF Restart
    <3>2. pins' \in [Pin -> {0, 1}] /\ pins'[PIN_POWER] = 1 /\ pins'[PIN_GPS_S] = 1
      BY <3>1 DEF Pin, PIN_LED_S, PIN_POWER, PIN_GPS_S
    <3> QED
      BY <2>11, <3>2 DEF Restart, LampInv, PinsKept
  <2>12. CASE UNCHANGED vars
    BY <2>1, <2>12 DEF vars
  <2> QED
    BY <2>2, <2>3, <2>4, <2>5, <2>6, <2>7, <2>8, <2>9, <2>10, <2>11, <2>12 DEF Next
<1> QED
  BY <1>1, <1>2, PTL DEF Spec

\* Whatever is gathered and uploaded, and however often the lamps change, the
\* modem has its power and the lamp of the fix tells the truth.
THEOREM PinsAlwaysKept == Spec => []PinsKept
<1>1. LampInv => PinsKept
  BY DEF LampInv
<1> QED
  BY <1>1, LampInvHolds, PTL

-----------------------------------------------------------------------------
(* Types.                                                                  *)

\* Lists have room in sta_str wherever they are, a sector of the cache is empty
\* only if there is no other, and what has been sent is an upload of a list.
ListInv ==
  /\ gathering \in BOOLEAN /\ due \in BOOLEAN /\ rounds \in 0 .. MaxRounds
  /\ sta_str \in Lists /\ cut \in BOOLEAN /\ (cut => Len(sta_str) = Cells)
  /\ tag \in Task \cup {NoTask} /\ sector_tag_id \in Task \cup {NoTask}

CacheInv ==
  /\ test_str \in Kept
  /\ sectors \in Seq(Seq(Kept)) /\ Len(sectors) \in 1 .. MaxSectors
  /\ \A s \in DOMAIN sectors : sectors[s] = << >> => Len(sectors) = 1

SentInv ==
  \/ sent = None
  \/ \E l \in {"nb", "wifi"}, macs \in Lists : \E x \in Lates(Len(macs)) :
       sent = Upload(l, macs, x)

LateInv == late \in [Text -> 0 .. Cells]

LedInv == led_state \in {0, 1, 5} /\ ticking \in BOOLEAN

GatherInv == ListInv /\ CacheInv /\ SentInv /\ LateInv /\ LedInv

\* The empty list.
LEMMA NoList == << >> \in Lists
BY CellsNat DEF Lists

\* Before the first sector.
LEMMA FreshIs ==
  ASSUME ListInv
  PROVE  Fresh \in Results
<1>1. PICK b \in BOOLEAN : b = cut
  BY DEF ListInv
<1>2. PICK f : f = Fresh
  OBVIOUS
<1>3. f = [id |-> sector_tag_id, rows |-> [c \in 1 .. Cells |-> Empty], macs |-> sta_str, cut |-> b]
  BY <1>1, <1>2, Zenon DEF Fresh
<1>4. f \in [id : Task \cup {NoTask}, rows : Tables, macs : Lists, cut : BOOLEAN]
  BY <1>3 DEF ListInv, Tables
<1>5. f.cut = b /\ f.macs = sta_str
  BY <1>3
<1>6. f.cut => Len(f.macs) = Cells
  <2>1. cut => Len(sta_str) = Cells
    BY DEF ListInv
  <2>2. f.cut = cut
    BY <1>1, <1>5, Zenon
  <2> QED
    BY <1>5, <2>1, <2>2, Zenon
<1> QED
  BY <1>2, <1>4, <1>6 DEF Results

\* What may be late in a text after a list has gone into it.
LEMMA ShiftedIs ==
  ASSUME NEW macs \in Lists, NEW c \in BOOLEAN, c => Len(macs) = Cells, NEW before \in 0 .. Cells
  PROVE  Shifted(macs, c, before) \in Lates(Len(macs)) /\ Shifted(macs, c, before) \in 0 .. Cells
<1>1. Len(macs) \in Nat /\ Len(macs) <= Cells /\ Cells \in Nat
  BY CellsNat DEF Lists
<1>2. CASE c
  <2>1. Shifted(macs, c, before) = Cells
    BY <1>2, Zenon DEF Shifted
  <2>2. Len(macs) = Cells
    BY <1>2, Zenon
  <2> QED
    BY <1>1, <2>1, <2>2 DEF Lates
<1>3. CASE ~c
  <2>1. Shifted(macs, c, before) =
          IF before < Cells - Len(macs) THEN before ELSE Cells - Len(macs)
    BY <1>3, Zenon DEF Shifted
  <2> QED
    BY <1>1, <2>1 DEF Lates
<1> QED
  BY <1>2, <1>3

\* What is sent is an upload of the list, and the text keeps its bounds.
LEMMA SendKeeps ==
  ASSUME LateInv, NEW f \in Text, NEW l \in {"nb", "wifi"}, NEW macs \in Lists,
         NEW c \in BOOLEAN, c => Len(macs) = Cells, Send(f, l, macs, c)
  PROVE  SentInv' /\ LateInv'
<1>1. PICK g \in [Text -> 0 .. Cells] : g = late
  BY DEF LateInv
<1>2. PICK x : x = Shifted(macs, c, g[f])
  OBVIOUS
<1>3. x \in Lates(Len(macs)) /\ x \in 0 .. Cells
  BY <1>2, ShiftedIs
<1>4. sent' = Upload(l, macs, x) /\ late' = IF l = "nb" THEN [g EXCEPT ![f] = x] ELSE g
  BY <1>1, <1>2 DEF Send
<1>5. SentInv'
  BY <1>3, <1>4 DEF SentInv
<1>6. LateInv'
  BY <1>3, <1>4 DEF LateInv
<1> QED
  BY <1>5, <1>6

\* The types of an upload.
LEMMA UploadTypes ==
  ASSUME NEW l \in {"nb", "wifi"}, NEW macs \in Lists, NEW x \in 0 .. Cells
  PROVE  /\ Upload(l, macs, x).link = l /\ Upload(l, macs, x).macs = macs
         /\ Upload(l, macs, x).late \in 0 .. Cells
         /\ Elements(Upload(l, macs, x).text) \subseteq Address \cup {Older}
<1>1. macs \in Seq(Address) /\ Len(macs) \in Nat /\ DOMAIN macs = 1 .. Len(macs)
  BY DEF Lists
<1>2. Elements(macs) \subseteq Address
  BY <1>1 DEF Elements
<1>3. Elements(str_ascii_str(Padded(macs), x)) \subseteq Address \cup {Older}
  <2>1. ASSUME NEW c \in 1 .. Cells PROVE Padded(macs)[c] \in Address \cup {Older}
    <3>1. CASE c > Cells - Len(macs)
      <4>1. c - (Cells - Len(macs)) \in 1 .. Len(macs)
        BY <1>1, <3>1, CellsNat
      <4> QED
        BY <1>1, <3>1, <4>1 DEF Padded
    <3>2. CASE ~(c > Cells - Len(macs))
      BY <3>2 DEF Padded
    <3> QED
      BY <3>1, <3>2
  <2>2. str_ascii_str(Padded(macs), x) \in [1 .. Cells -> Address \cup {Older}]
    BY <2>1 DEF str_ascii_str
  <2> QED
    BY <2>2 DEF Elements
<1>4. 0 \in 0 .. Cells
  BY CellsNat
<1> QED
  BY <1>2, <1>3, <1>4 DEF Upload

\* The types follow.
LEMMA GatherTypes ==
  ASSUME GatherInv, LampInv
  PROVE  TypeOK
<1>1. /\ sta_str \in Seq(Address) /\ Len(sta_str) <= Cells
      /\ cut \in BOOLEAN /\ (cut => Len(sta_str) = Cells)
  BY Zenon DEF GatherInv, ListInv, Lists
<1>2. \A r \in Kept : r \in Record
  BY DEF Kept, Lists, Record
<1>3. test_str \in Record
  BY <1>2 DEF GatherInv, CacheInv
<1>4. ASSUME NEW s \in DOMAIN sectors, NEW k \in DOMAIN sectors[s] PROVE sectors[s][k] \in Record
  <2>1. sectors[s] \in Seq(Kept)
    BY DEF GatherInv, CacheInv
  <2> QED
    BY <1>2, <2>1
<1>5. /\ sent.link \in {"none", "nb", "wifi"} /\ sent.macs \in Seq(Address)
      /\ Elements(sent.text) \subseteq Address \cup {Older} /\ sent.late \in 0 .. Cells
  <2>1. CASE sent = None
    <3>1. << >> \in Seq(Address) /\ DOMAIN << >> = {} /\ 0 \in 0 .. Cells
      BY CellsNat
    <3>2. Elements(<< >>) = {}
      BY <3>1 DEF Elements
    <3> QED
      BY <2>1, <3>1, <3>2 DEF None
  <2>2. ASSUME NEW l \in {"nb", "wifi"}, NEW macs \in Lists, NEW x \in Lates(Len(macs)),
               sent = Upload(l, macs, x)
        PROVE  /\ sent.link \in {"none", "nb", "wifi"} /\ sent.macs \in Seq(Address)
               /\ Elements(sent.text) \subseteq Address \cup {Older} /\ sent.late \in 0 .. Cells
    <3>1. x \in 0 .. Cells
      BY DEF Lates
    <3> QED
      BY <2>2, <3>1, UploadTypes DEF Lists
  <2> QED
    BY <2>1, <2>2 DEF GatherInv, SentInv
<1>6. /\ gathering \in BOOLEAN /\ due \in BOOLEAN /\ ticking \in BOOLEAN
      /\ tag \in Task \cup {NoTask} /\ sector_tag_id \in Task \cup {NoTask}
      /\ Len(sectors) \in 1 .. MaxSectors /\ late \in [Text -> 0 .. Cells]
      /\ led_state \in {0, 1, 5} /\ rounds \in 0 .. MaxRounds
  BY DEF GatherInv, ListInv, CacheInv, LateInv, LedInv
<1>7. state \in {0, 255} /\ pins \in [Pin -> {0, 1}] /\ get_gps \in {0, 1}
  BY DEF LampInv
<1> QED
  BY <1>1, <1>3, <1>4, <1>5, <1>6, <1>7 DEF TypeOK

\* A tick with a state that it knows.
LEMMA TickTypes ==
  ASSUME NEW led \in {0, 1, 5}, devicexx_io_led_timer_tick(led)
  PROVE  LedInv'
BY DEF devicexx_io_led_timer_tick, LedInv

\* A failed request keeps a record that is not lost in an empty sector.
LEMMA StoreKeeps ==
  ASSUME CacheInv, Failed
  PROVE  CacheInv'
<1>1. /\ test_str \in Kept /\ sectors \in Seq(Seq(Kept)) /\ Len(sectors) \in 1 .. MaxSectors
      /\ \A s \in DOMAIN sectors : sectors[s] = << >> => Len(sectors) = 1
      /\ test_str' = test_str
  BY DEF CacheInv, Failed
<1> DEFINE n == Len(sectors)
<1>2. n \in Nat /\ n \in 1 .. n /\ DOMAIN sectors = 1 .. n /\ MaxSectors \in Nat \ {0} /\ sectors[n] \in Seq(Kept)
  BY <1>1, ConstantsAssumption
<1>3. <<test_str>> \in Seq(Kept) /\ <<test_str>> # << >>
  BY <1>1
<1>4. ASSUME NEW x \in Seq(Kept), x # << >>, NEW j \in 1 .. n, sectors' = [sectors EXCEPT ![j] = x]
      PROVE  CacheInv'
  <2>1. sectors' \in Seq(Seq(Kept)) /\ Len(sectors') = n /\ DOMAIN sectors' = 1 .. n
    BY <1>1, <1>2, <1>4
  <2>2. \A s \in 1 .. n : sectors'[s] = << >> => n = 1
    BY <1>1, <1>2, <1>4
  <2> QED
    BY <1>1, <2>1, <2>2 DEF CacheInv
<1>5. CASE sectors' = [sectors EXCEPT ![Len(sectors)] = Append(@, test_str)]
  <2>1. sectors' = [sectors EXCEPT ![n] = Append(sectors[n], test_str)]
    BY <1>5
  <2>2. Append(sectors[n], test_str) \in Seq(Kept) /\ Append(sectors[n], test_str) # << >>
    BY <1>1, <1>2
  <2> QED
    BY <1>2, <1>4, <2>1, <2>2
<1>6. CASE Newest # << >> /\ Len(sectors) < MaxSectors /\ sectors' = Append(sectors, <<test_str>>)
  <2>1. /\ sectors' \in Seq(Seq(Kept)) /\ Len(sectors') = n + 1 /\ DOMAIN sectors' = 1 .. n + 1
        /\ \A s \in 1 .. n : sectors'[s] = sectors[s]
        /\ sectors'[n + 1] = <<test_str>>
    BY <1>1, <1>2, <1>3, <1>6
  <2>2. \A s \in 1 .. n : sectors[s] # << >>
    <3>1. sectors[n] # << >>
      BY <1>6 DEF Newest
    <3>2. ASSUME NEW s \in 1 .. n, sectors[s] = << >> PROVE FALSE
      <4>1. s \in DOMAIN sectors
        BY <1>2
      <4>2. Len(sectors) = 1
        BY <1>1, <3>2, <4>1
      <4>3. s = n
        BY <4>2
      <4> QED
        BY <3>1, <3>2, <4>3
    <3> QED
      BY <3>2
  <2>3. n + 1 \in 1 .. MaxSectors
    BY <1>2, <1>6
  <2>4. ASSUME NEW s \in 1 .. n + 1 PROVE sectors'[s] # << >>
    <3>1. CASE s = n + 1
      BY <1>3, <2>1, <3>1
    <3>2. CASE s # n + 1
      <4>1. s \in 1 .. n
        BY <1>2, <3>2
      <4> QED
        BY <2>1, <2>2, <4>1
    <3> QED
      BY <3>1, <3>2
  <2> QED
    BY <1>1, <2>1, <2>3, <2>4 DEF CacheInv
<1>7. CASE Len(sectors) = MaxSectors /\ sectors' = [sectors EXCEPT ![MaxSectors] = <<test_str>>]
  BY <1>2, <1>3, <1>4, <1>7
<1> QED
  BY <1>5, <1>6, <1>7 DEF Failed

\* The newest sector goes, and leaves no empty one among others.
LEMMA DoneKeeps ==
  ASSUME CacheInv, sector_upload_done
  PROVE  CacheInv'
<1>1. /\ test_str \in Kept /\ sectors \in Seq(Seq(Kept)) /\ Len(sectors) \in 1 .. MaxSectors
      /\ \A s \in DOMAIN sectors : sectors[s] = << >> => Len(sectors) = 1
      /\ test_str' = test_str /\ MaxSectors \in Nat
  BY ConstantsAssumption DEF CacheInv, sector_upload_done, cache
<1>2. CASE Len(sectors) = 1
  <2>1. sectors' = << << >> >>
    BY <1>2 DEF sector_upload_done
  <2>2. << >> \in Seq(Kept)
    OBVIOUS
  <2>3. sectors' \in Seq(Seq(Kept)) /\ Len(sectors') = 1
    BY <2>1, <2>2
  <2> QED
    BY <1>1, <1>2, <2>3 DEF CacheInv
<1>3. CASE Len(sectors) # 1
  <2> DEFINE n == Len(sectors) - 1
  <2>1. n \in 1 .. MaxSectors /\ n \in Nat /\ n <= Len(sectors)
    <3>1. \A m \in 1 .. MaxSectors : m # 1 =>
            m - 1 \in 1 .. MaxSectors /\ m - 1 \in Nat /\ m - 1 <= m
      BY <1>1
    <3> QED
      BY <1>1, <1>3, <3>1
  <2>2. sectors' = SubSeq(sectors, 1, n)
    BY <1>3 DEF sector_upload_done
  <2>3. /\ sectors' \in Seq(Seq(Kept)) /\ Len(sectors') = n
        /\ \A s \in 1 .. n : sectors'[s] = sectors[s] /\ s \in DOMAIN sectors
    BY <1>1, <2>1, <2>2
  <2>4. DOMAIN sectors' = 1 .. n
    BY <2>3
  <2> HIDE DEF n
  <2>5. \A s \in DOMAIN sectors' : sectors'[s] # << >>
    BY <1>1, <1>3, <2>3, <2>4
  <2> QED
    BY <1>1, <2>1, <2>3, <2>5 DEF CacheInv
<1> QED
  BY <1>2, <1>3

\* A record of a list.
LEMMA KeptIs ==
  ASSUME NEW t \in Task \cup {NoTask}, NEW m \in Lists, NEW c \in BOOLEAN, c => Len(m) = Cells
  PROVE  [task |-> t, macs |-> m, cut |-> c] \in Kept
<1>1. PICK r : r = [task |-> t, macs |-> m, cut |-> c]
  OBVIOUS
<1>2. r \in [task : Task \cup {NoTask}, macs : Lists, cut : BOOLEAN] /\ r.cut = c /\ r.macs = m
  BY <1>1
<1>3. r.cut => Len(r.macs) = Cells
  BY <1>2, Zenon
<1> QED
  BY <1>1, <1>2, <1>3 DEF Kept

\* What Deduplication leaves is a list, and in memory the record of it.
LEMMA GatheredIs ==
  ASSUME ListInv, CacheInv, Deduplication
  PROVE  ListInv' /\ CacheInv'
<1>1. PICK d \in Results : d = Deduplicated
  BY FreshIs, OldestIs DEF CacheInv
<1>2. d.id \in Task \cup {NoTask} /\ d.macs \in Lists /\ d.cut \in BOOLEAN /\ (d.cut => Len(d.macs) = Cells)
  BY DEF Results
<1>3. sta_str' = d.macs /\ cut' = d.cut /\ sector_tag_id' = d.id /\ UNCHANGED <<tag, rounds, sectors>>
  BY <1>1 DEF Deduplication
<1>4. gathering' \in BOOLEAN /\ due' \in BOOLEAN
  BY DEF Deduplication
<1>5. cut' \in BOOLEAN /\ (cut' => Len(sta_str') = Cells)
  BY <1>2, <1>3, Zenon
<1>6. ListInv'
  BY <1>2, <1>3, <1>4, <1>5 DEF ListInv
<1>7. test_str' = [task |-> tag, macs |-> d.macs, cut |-> d.cut]
  BY <1>3 DEF Deduplication
<1>8. test_str' \in Kept
  BY <1>2, <1>7, KeptIs DEF ListInv
<1>9. CacheInv'
  BY <1>3, <1>8 DEF CacheInv
<1> QED
  BY <1>6, <1>9

LEMMA GatherInvHolds == Spec => []GatherInv
<1>1. Init => GatherInv
  <2> SUFFICES ASSUME Init PROVE GatherInv
    OBVIOUS
  <2>1. ListInv
    <3>1. gathering = FALSE /\ due = FALSE /\ rounds = 0 /\ 0 \in 0 .. MaxRounds
      BY ConstantsAssumption DEF Init
    <3>2. gathering \in BOOLEAN /\ due \in BOOLEAN /\ rounds \in 0 .. MaxRounds
      BY <3>1, Zenon
    <3>3. sta_str \in Lists /\ cut = FALSE /\ tag \in Task \cup {NoTask} /\ sector_tag_id \in Task \cup {NoTask}
      BY NoList DEF Init
    <3>4. cut \in BOOLEAN /\ (cut => Len(sta_str) = Cells)
      BY <3>3, Zenon
    <3> QED
      BY <3>2, <3>3, <3>4 DEF ListInv
  <2>2. CacheInv
    <3>1. << >> \in Seq(Kept) /\ sectors = << << >> >> /\ MaxSectors \in Nat \ {0}
      BY ConstantsAssumption DEF Init
    <3>2. sectors \in Seq(Seq(Kept)) /\ Len(sectors) = 1
      BY <3>1
    <3>3. test_str \in Kept
      <4>1. test_str = [task |-> NoTask, macs |-> << >>, cut |-> FALSE]
        BY DEF Init
      <4> QED
        BY <4>1, NoList, KeptIs
    <3> QED
      BY <3>1, <3>2, <3>3 DEF CacheInv
  <2>3. SentInv /\ LateInv /\ LedInv
    BY CellsNat DEF Init, SentInv, LateInv, LedInv
  <2> QED
    BY <2>1, <2>2, <2>3 DEF GatherInv
<1>2. GatherInv /\ [Next]_vars => GatherInv'
  <2> SUFFICES ASSUME GatherInv, [Next]_vars PROVE GatherInv'
    OBVIOUS
  <2>1. ListInv /\ CacheInv /\ SentInv /\ LateInv /\ LedInv
    BY DEF GatherInv
  <2>2. UNCHANGED <<list, due, rounds>> => ListInv'
    BY <2>1 DEF list, ListInv
  <2>3. UNCHANGED cache => CacheInv'
    BY <2>1 DEF cache, CacheInv
  <2>4. (UNCHANGED sent => SentInv') /\ (UNCHANGED late => LateInv')
    BY <2>1 DEF SentInv, LateInv
  <2>5. UNCHANGED lamp => LedInv'
    BY <2>1 DEF lamp, LedInv
  <2>6. sent' = None => SentInv'
    BY DEF SentInv
  <2>7. CASE LedTimer
    <3>1. LedInv'
      BY <2>1, <2>7, TickTypes DEF LedTimer, LedInv
    <3> QED
      BY <2>2, <2>3, <2>4, <2>7, <3>1 DEF LedTimer, link, GatherInv
  <2>8. ASSUME NEW fix \in {0, 1}, GNRMC(fix) PROVE GatherInv'
    <3>1. LedInv'
      BY <2>1, <2>8 DEF GNRMC, LedInv
    <3> QED
      BY <2>2, <2>3, <2>4, <2>8, <3>1 DEF GNRMC, link, GatherInv
  <2>9. CASE start
    <3>1. LedInv'
      BY <2>9, TickTypes DEF start
    <3>2. ListInv'
      <4>1. /\ gathering' \in BOOLEAN /\ due' \in BOOLEAN /\ rounds' \in 0 .. MaxRounds
            /\ sta_str' \in Lists /\ tag' \in Task \cup {NoTask} /\ sector_tag_id' \in Task \cup {NoTask}
        BY <2>1, <2>9, NoList, ConstantsAssumption DEF start, ListInv, link
      <4>2. cut' = FALSE
        BY <2>9 DEF start
      <4>3. cut' \in BOOLEAN /\ (cut' => Len(sta_str') = Cells)
        BY <4>2, Zenon
      <4> QED
        BY <4>1, <4>3 DEF ListInv
    <3> QED
      BY <2>3, <2>4, <2>9, <3>1, <3>2 DEF start, link, GatherInv
  <2>10. CASE Sniff
    <3>1. sta_str' \in Lists
      <4>1. PICK a \in Address : sta_str' = Append(sta_str, a)
        BY <2>10 DEF Sniff
      <4>2. sta_str \in Seq(Address) /\ Len(sta_str) < Cells /\ Cells \in Nat
        BY <2>1, <2>10, CellsNat DEF Sniff, ListInv, Lists
      <4>3. sta_str' \in Seq(Address) /\ Len(sta_str') = Len(sta_str) + 1
        BY <4>1, <4>2
      <4>4. Len(sta_str') <= Cells
        BY <4>2, <4>3
      <4> QED
        BY <4>3, <4>4 DEF Lists
    <3>2. ListInv'
      BY <2>1, <2>10, <3>1 DEF Sniff, ListInv, link
    <3> QED
      BY <2>3, <2>4, <2>5, <2>10, <3>2 DEF Sniff, link, GatherInv
  <2>11. CASE Deduplication
    <3>1. ListInv' /\ CacheInv'
      BY <2>1, <2>11, GatheredIs
    <3>2. UNCHANGED <<sent, late, lamp>>
      BY <2>11 DEF Deduplication
    <3> QED
      BY <2>4, <2>5, <3>1, <3>2 DEF GatherInv
  <2>12. ASSUME NEW t \in Task, save_stakid(t) PROVE GatherInv'
    <3>1. ListInv'
      BY <2>1, <2>12 DEF save_stakid, ListInv, link
    <3> QED
      BY <2>3, <2>4, <2>5, <2>12, <3>1 DEF save_stakid, link, GatherInv
  <2>13. ASSUME NEW l \in {"nb", "wifi"}, update_data(l) PROVE GatherInv'
    <3>1. ListInv' /\ CacheInv'
      BY <2>1, <2>3, <2>13 DEF update_data, ListInv, list
    <3>2. SentInv' /\ LateInv' /\ LedInv'
      <4>1. CASE l = "nb" /\ sta_str = << >>
        BY <2>4, <2>13, <4>1, TickTypes DEF update_data
      <4>2. CASE ~(l = "nb" /\ sta_str = << >>)
        <5>1. Send("update_data", l, sta_str, cut) /\ UNCHANGED lamp
          BY <2>13, <4>2 DEF update_data
        <5>2. PICK m \in Lists, c \in BOOLEAN : m = sta_str /\ c = cut /\ (c => Len(m) = Cells)
          BY <2>1 DEF ListInv
        <5>3. Send("update_data", l, m, c) /\ "update_data" \in Text
          BY <5>1, <5>2 DEF Text
        <5>4. SentInv' /\ LateInv'
          BY <2>1, <5>2, <5>3, SendKeeps
        <5> QED
          BY <2>5, <5>1, <5>4
      <4> QED
        BY <4>1, <4>2
    <3> QED
      BY <3>1, <3>2 DEF GatherInv
  <2>14. ASSUME NEW l \in {"nb", "wifi"}, read_sector(l) PROVE GatherInv'
    <3>1. PICK record \in Elements(Newest) \cup {test_str} : send_flash_mac(l, record)
      BY <2>14 DEF read_sector
    <3>2. record \in Kept
      <4>1. Len(sectors) \in DOMAIN sectors /\ sectors \in Seq(Seq(Kept))
        BY <2>1 DEF CacheInv
      <4>2. Newest \in Seq(Kept)
        BY <4>1 DEF Newest
      <4>3. Elements(Newest) \subseteq Kept
        BY <4>2 DEF Elements
      <4> QED
        BY <2>1, <3>1, <4>3 DEF CacheInv
    <3>3. PICK m \in Lists, c \in BOOLEAN : m = record.macs /\ c = record.cut /\ (c => Len(m) = Cells)
      BY <3>2 DEF Kept
    <3>4. UNCHANGED <<sta_str, cut>> \/ (sta_str' = m /\ cut' = c)
      BY <3>1, <3>3 DEF send_flash_mac
    <3>5. sta_str' \in Lists /\ cut' \in BOOLEAN /\ (cut' => Len(sta_str') = Cells)
      <4>1. CASE UNCHANGED <<sta_str, cut>>
        BY <2>1, <4>1 DEF ListInv
      <4>2. CASE sta_str' = m /\ cut' = c
        BY <3>3, <4>2, Zenon
      <4> QED
        BY <3>4, <4>1, <4>2
    <3>6. UNCHANGED <<gathering, tag, sector_tag_id, sectors, due, lamp, get_gps, rounds>> /\ test_str' = record
      BY <2>14, <3>1 DEF read_sector, send_flash_mac
    <3>7. ListInv'
      BY <2>1, <3>5, <3>6 DEF ListInv
    <3>8. CacheInv'
      BY <2>1, <3>2, <3>6 DEF CacheInv
    <3>9. SentInv' /\ LateInv'
      <4>1. Send("send_flash_mac", l, m, c) /\ "send_flash_mac" \in Text
        BY <3>1, <3>3 DEF send_flash_mac, Text
      <4> QED
        BY <2>1, <3>3, <4>1, SendKeeps
    <3> QED
      BY <2>5, <3>6, <3>7, <3>8, <3>9 DEF GatherInv
  <2>15. CASE sector_upload_done
    <3>1. CacheInv'
      BY <2>1, <2>15, DoneKeeps
    <3> QED
      BY <2>2, <2>4, <2>5, <2>15, <3>1 DEF sector_upload_done, link, GatherInv
  <2>16. CASE Stored
    <3>1. LedInv'
      BY <2>5, <2>16, TickTypes DEF Stored
    <3> QED
      BY <2>2, <2>3, <2>4, <2>6, <2>16, <3>1 DEF Stored, GatherInv
  <2>17. CASE Refused
    <3>1. LedInv'
      BY <2>17, TickTypes DEF Refused
    <3> QED
      BY <2>2, <2>3, <2>4, <2>6, <2>17, <3>1 DEF Refused, GatherInv
  <2>18. CASE Failed
    <3>1. CacheInv'
      BY <2>1, <2>18, StoreKeeps
    <3> QED
      BY <2>2, <2>4, <2>5, <2>6, <2>18, <3>1 DEF Failed, GatherInv
  <2>19. CASE Restart
    <3>1. ListInv'
      <4>1. gathering' = FALSE /\ due' = FALSE /\ rounds < MaxRounds /\ rounds' = rounds + 1
        BY <2>19 DEF Restart
      <4>2. rounds' \in 0 .. MaxRounds
        BY <2>1, <4>1, ConstantsAssumption DEF ListInv
      <4>3. gathering' \in BOOLEAN /\ due' \in BOOLEAN
        BY <4>1, Zenon
      <4>4. /\ sta_str' \in Lists /\ cut' = FALSE /\ tag' \in Task \cup {NoTask}
            /\ sector_tag_id' \in Task \cup {NoTask}
        BY <2>1, <2>19, NoList DEF Restart, ListInv
      <4>5. cut' \in BOOLEAN /\ (cut' => Len(sta_str') = Cells)
        BY <4>4, Zenon
      <4> QED
        BY <4>2, <4>3, <4>4, <4>5 DEF ListInv
    <3>2. CacheInv'
      <4>1. test_str' = [task |-> NoTask, macs |-> << >>, cut |-> FALSE] /\ UNCHANGED sectors
        BY <2>19 DEF Restart
      <4>2. test_str' \in Kept
        BY <4>1, NoList, KeptIs
      <4> QED
        BY <2>1, <4>1, <4>2 DEF CacheInv
    <3>3. LedInv' /\ LateInv' /\ sent' = None
      BY <2>19, CellsNat DEF Restart, LedInv, LateInv
    <3> QED
      BY <2>6, <3>1, <3>2, <3>3 DEF GatherInv
  <2>20. CASE UNCHANGED vars
    BY <2>2, <2>3, <2>4, <2>5, <2>20 DEF vars, link, GatherInv
  <2>21. CASE \E l \in {"nb", "wifi"} : update_data(l) \/ read_sector(l)
    BY <2>13, <2>14, <2>21
  <2> QED
    BY <2>7, <2>8, <2>9, <2>10, <2>11, <2>12, <2>15, <2>16, <2>17, <2>18, <2>19, <2>20, <2>21
    DEF Next
<1> QED
  BY <1>1, <1>2, PTL DEF Spec

\* The type invariant, for every set of addresses and every number of parts,
\* sectors and rounds.
THEOREM TypesAlways == Spec => []TypeOK
<1>1. GatherInv /\ LampInv => TypeOK
  BY GatherTypes
<1> QED
  BY <1>1, GatherInvHolds, LampInvHolds, PTL

\* Of every upload in flight, whether the list comes from the sniffer or from
\* the cache, no address is lost but the three that a list without its last comma
\* may cost, for all lengths of the parts.
THEOREM UploadsWhole == Spec => []UploadWhole
<1>1. GatherInv => UploadWhole
  <2> SUFFICES ASSUME GatherInv PROVE Whole(sent)
    BY DEF UploadWhole, Whole
  <2>1. CASE sent = None
    <3>1. DOMAIN << >> = {}
      OBVIOUS
    <3> QED
      BY <2>1, <3>1 DEF None, Whole
  <2>2. ASSUME NEW l \in {"nb", "wifi"}, NEW macs \in Lists, NEW x \in Lates(Len(macs)),
               sent = Upload(l, macs, x)
        PROVE  Whole(sent)
    BY <2>2, EveryListWhole
  <2> QED
    BY <2>1, <2>2 DEF GatherInv, SentInv
<1> QED
  BY <1>1, GatherInvHolds, PTL

\* Only the oldest sector of the task has an effect on the list, and it cuts the
\* list at the first address it holds, for every cache and every list.
THEOREM OldestAlwaysCounts == Spec => OldestCounts
<1> DEFINE mine == {s \in DOMAIN sectors : sectors[s] # << >> /\ sectors[s][1].task = tag}
           Counts ==
             Gathered =>
               sta_str' =
                 IF mine = {} THEN sta_str
                 ELSE LET oldest == CHOOSE s \in mine : \A r \in mine : s <= r
                      IN Before(sta_str, UNION {Elements(sectors[oldest][k].macs) :
                                                 k \in DOMAIN sectors[oldest]})
<1>1. GatherInv /\ [Next]_vars => [Counts]_vars
  <2> SUFFICES ASSUME GatherInv, [Next]_vars, Gathered PROVE Counts
    OBVIOUS
  <2>1. sta_str' = Deduplicated.macs
    <3>1. ASSUME UNCHANGED gathering PROVE FALSE
      BY <3>1 DEF Gathered
    <3>2. CASE LedTimer \/ Sniff \/ sector_upload_done \/ Stored \/ Refused \/ Failed
      BY <3>1, <3>2 DEF LedTimer, Sniff, sector_upload_done, Stored, Refused, Failed, list
    <3>3. ASSUME NEW x, GNRMC(x) \/ save_stakid(x) \/ update_data(x) \/ read_sector(x) PROVE FALSE
      BY <3>1, <3>3 DEF GNRMC, save_stakid, update_data, read_sector, list
    <3>4. CASE start \/ Restart
      BY <3>4 DEF start, Restart, Gathered, link
    <3>5. CASE UNCHANGED vars
      BY <3>1, <3>5 DEF vars, list
    <3>6. CASE Deduplication
      BY <3>6 DEF Deduplication
    <3> QED
      BY <3>2, <3>3, <3>4, <3>5, <3>6 DEF Next
  <2>2. /\ Mine = {} => Deduplicated.macs = sta_str
        /\ \A o \in Mine : (\A r \in Mine : o <= r) =>
             Deduplicated.macs = Before(sta_str, Held(sectors[o]))
    BY FreshIs, OldestIs DEF GatherInv, CacheInv
  <2>3. mine = Mine /\ mine \subseteq Nat
    BY DEF Mine, GatherInv, CacheInv
  <2>4. CASE mine = {}
    BY <2>1, <2>2, <2>3, <2>4
  <2>5. CASE mine # {}
    <3> DEFINE oldest == CHOOSE s \in mine : \A r \in mine : s <= r
    <3>1. oldest \in mine /\ \A r \in mine : oldest <= r
      <4> HIDE DEF mine
      <4> QED
        BY <2>3, <2>5, LeastNatural
    <3> HIDE DEF oldest
    <3>2. sta_str' = Before(sta_str, Held(sectors[oldest]))
      BY <2>1, <2>2, <2>3, <3>1
    <3>3. sta_str' = Before(sta_str, UNION {Elements(sectors[oldest][k].macs) :
                                             k \in DOMAIN sectors[oldest]})
      BY <3>2 DEF Held
    <3> QED
      BY <2>5, <3>3 DEF oldest
  <2> QED
    BY <2>4, <2>5
<1> QED
  BY <1>1, GatherInvHolds, PTL DEF Spec, OldestCounts

=============================================================================
