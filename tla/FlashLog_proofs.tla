-------------------------- MODULE FlashLog_proofs ---------------------------
(***************************************************************************)
(* What FlashLog promises for every number of sectors, every record size   *)
(* and every number of faults: TypeOK, NothingHidden, SavedCoversFlash and *)
(* that it implements SectorStack.                                         *)
(***************************************************************************)
EXTENDS FlashLog, SequenceTheorems, TLAPS

SectorStr == {s \in Seq(Cell) : Len(s) <= SectorSize + 1}
Traffic   == [Request -> 0 .. MaxRequests]

\* TypeOK in two parts: what the operations on the flash change, and the rest.
StoreType ==
  /\ flash \in [0 .. MaxSector -> Seq(Cell)]
  /\ \A i \in 0 .. MaxSector : Len(flash[i]) <= SectorSize
  /\ saved \in Status /\ status \in Status /\ all_done \in {0, 1}
  /\ sector_str \in SectorStr
  /\ cursor \in 0 .. SectorSize /\ bit \in 0 .. SectorSize
  /\ stage \in {"run", "grow", "erase", "write", "done"}

SessionType ==
  /\ inrom \in {0, 1}
  /\ test_str \in Seq(Cell) /\ Len(test_str) <= SectorSize
  /\ sta \in Body \cup {None}
  /\ link \in {"wifi", "nb"}
  /\ at_state \in {"ZGMODE", "ZADC", "WAIT"}
  /\ upload \in BOOLEAN /\ tail \in BOOLEAN
  /\ requests \in Traffic
  /\ gathered \subseteq Id /\ acked \subseteq Id
  /\ faults \in 0 .. MaxFaults /\ boots \in 0 .. MaxBoots

\* What ties the flash to the two copies of local_system_status at every
\* point where a handler can be cut.
CacheInv ==
  /\ NothingHidden
  /\ \A i \in 0 .. MaxSector : i > saved.used \/ i > status.used => flash[i] = << >>
  /\ all_done = status.flag
  /\ stage # "done" => saved = status
  /\ stage \in {"grow", "erase", "write"} => status.flag = 0
  /\ stage = "erase" => Len(sector_str) + Len(test_str) <= SectorSize
  /\ stage = "write" => Len(sector_str) <= SectorSize

IInv == StoreType /\ SessionType /\ CacheInv

-----------------------------------------------------------------------------

\* A body and a record are sequences of cells that fit into a sector.
LEMMA RecordType ==
  ASSUME NEW i \in Body
  PROVE  /\ Payload(i) \in Seq(Cell) /\ Len(Payload(i)) = Size[i]
         /\ Headed(i) \in Seq(Cell) /\ Len(Headed(i)) = Size[i] + 1
         /\ Size[i] \in Nat \ {0} /\ Size[i] < SectorSize
<1>1. Size[i] \in Nat \ {0} /\ Size[i] < SectorSize
  BY FlashLogAssumption DEF Body
<1>2. \A k \in 1 .. Size[i] :
        [id |-> i, part |-> IF k = 1 THEN "open" ELSE "text"] \in Cell
  BY DEF Cell
<1>3. Payload(i) \in [1 .. Size[i] -> Cell]
  BY <1>2 DEF Payload
<1>4. Payload(i) \in Seq(Cell) /\ Len(Payload(i)) = Size[i]
  <2>1. Payload(i) \in Seq(Cell)
    BY <1>1, <1>3, SeqDef
  <2>2. DOMAIN Payload(i) = 1 .. Size[i]
    BY <1>3
  <2> QED
    BY <1>1, <2>1, <2>2, LenProperties
<1>5. <<[id |-> i, part |-> "head"]>> \in Seq(Cell) /\ Len(<<[id |-> i, part |-> "head"]>>) = 1
  BY DEF Cell
<1>6. QED
  BY <1>1, <1>4, <1>5, ConcatProperties DEF Headed

\* Marking a record as sent keeps the sector in memory a sector.
LEMMA MarkedType ==
  ASSUME NEW str \in SectorStr, bit \in 0 .. SectorSize
  PROVE  Marked(str) \in SectorStr
<1> USE FlashLogAssumption
<1>1. CASE bit < Len(str)
  <2>1. bit + 1 \in 1 .. Len(str) /\ str[bit + 1] \in Cell
    BY <1>1, LenProperties, ElementOfSeq DEF SectorStr
  <2>2. PICK c \in Cell : Marked(str) = [str EXCEPT ![bit + 1] = c]
    <3>1. [str[bit + 1] EXCEPT !.part = IF @ = "head" THEN "sent" ELSE @] \in Cell
      BY <2>1 DEF Cell
    <3> QED
      BY <1>1, <3>1 DEF Marked
  <2> QED
    BY <2>1, <2>2, ExceptSeq DEF SectorStr
<1>2. CASE bit = Len(str)
  <2>1. [id |-> Junk, part |-> "open"] \in Cell
    BY DEF Cell, Body
  <2> QED
    BY <1>2, <2>1, AppendProperties DEF Marked, SectorStr
<1>3. CASE bit > Len(str)
  BY <1>3 DEF Marked, SectorStr
<1>4. QED
  BY <1>1, <1>2, <1>3, LenProperties DEF SectorStr

\* Requests are added and answered within the bound.
LEMMA TrafficType ==
  ASSUME NEW f \in Traffic, NEW q \in Request
  PROVE  /\ \A n \in Nat : More(q, n, f) \in Traffic
         /\ f[q] > 0 => [f EXCEPT ![q] = @ - 1] \in Traffic
         /\ \A n \in Nat, l \in Link : More(getCollect(l), n, f) \in Traffic
         /\ \A i \in Body, l \in {"wifi", "nb"} : Posted(i, l, f) \in Traffic
<1> USE FlashLogAssumption
<1>1. ASSUME NEW r \in Request, NEW n \in Nat PROVE More(r, n, f) \in Traffic
  <2>1. f[r] \in 0 .. MaxRequests
    BY DEF Traffic
  <2>2. (IF f[r] + n > MaxRequests THEN MaxRequests ELSE f[r] + n) \in 0 .. MaxRequests
    BY <2>1
  <2> QED
    BY <2>2 DEF More, Traffic
<1>2. f[q] > 0 => [f EXCEPT ![q] = @ - 1] \in Traffic
  <2>1. f[q] > 0 => f[q] - 1 \in 0 .. MaxRequests
    BY DEF Traffic
  <2> QED
    BY <2>1 DEF Traffic
<1>3. \A l \in Link : getCollect(l) \in Request
  BY DEF getCollect, Request
<1>4. \A i \in Body, l \in {"wifi", "nb"} : [what |-> i, link |-> l] \in Request
  BY DEF Request
<1>5. QED
  BY <1>1, <1>2, <1>3, <1>4 DEF Posted

-----------------------------------------------------------------------------

\* sector_upload_done: the sectors above the one erased are empty, so that
\* nothing is left in the flash when the last one goes.
LEMMA UploadDoneStep ==
  ASSUME StoreType, CacheInv, stage = "run", NEW str \in SectorStr,
         sector_upload_done(str), saved' = saved
  PROVE  StoreType' /\ CacheInv'
<1> USE FlashLogAssumption
<1> DEFINE u == status.used
<1>1. u \in 0 .. MaxSector /\ status.flag \in {0, 1} /\ saved = status
  BY DEF StoreType, CacheInv, Status
<1>2. \A i \in 0 .. MaxSector : i >= u => flash'[i] = << >>
  BY <1>1 DEF sector_upload_done, StoreType, CacheInv
<1>3. \A i \in 0 .. MaxSector : i # u => flash'[i] = flash[i]
  BY <1>1 DEF sector_upload_done, StoreType
<1>4. /\ flash' \in [0 .. MaxSector -> Seq(Cell)]
      /\ \A i \in 0 .. MaxSector : Len(flash'[i]) <= SectorSize
  <2>1. << >> \in Seq(Cell) /\ Len(<< >>) = 0
    BY EmptySeq
  <2> QED
    BY <1>1, <1>3, <1>2, <2>1 DEF sector_upload_done, StoreType
<1>5. cursor' = 0 /\ bit' = 0 /\ stage' = "done"
  BY DEF sector_upload_done
<1>6. CASE u = 0
  <2>1. status' = [status EXCEPT !.flag = 1] /\ all_done' = 1 /\ sector_str' = str
    BY <1>6 DEF sector_upload_done
  <2>2. status' \in Status /\ status'.flag = 1 /\ status'.used = 0
    BY <2>1, <1>1, <1>6 DEF StoreType, Status
  <2>3. \A i \in 0 .. MaxSector : flash'[i] = << >>
    BY <1>2, <1>6
  <2> QED
    BY <1>4, <1>5, <2>1, <2>2, <2>3 DEF StoreType, CacheInv, NothingHidden
<1>7. CASE u > 0
  <2>1. /\ status' = [status EXCEPT !.used = u - 1] /\ all_done' = all_done
        /\ sector_str' = flash[u - 1]
    BY <1>7, <1>1 DEF sector_upload_done
  <2>a. u - 1 \in 0 .. MaxSector
    BY <1>1, <1>7
  <2>2. status' \in Status /\ status'.flag = status.flag /\ status'.used = u - 1
    BY <2>1, <2>a DEF StoreType, Status
  <2>3. sector_str' \in SectorStr
    BY <2>1, <1>1, <1>7, LenProperties DEF StoreType, SectorStr
  <2>4. \A i \in 0 .. MaxSector : i > saved'.used \/ i > status'.used => flash'[i] = << >>
    BY <1>1, <1>2, <1>7, <2>2
  <2>5. NothingHidden'
    BY <1>1, <1>2, <1>3, <2>2 DEF NothingHidden, CacheInv
  <2> QED
    BY <1>4, <1>5, <2>1, <2>2, <2>3, <2>4, <2>5 DEF StoreType, CacheInv
<1>8. QED
  BY <1>1, <1>6, <1>7

\* The same for a cursor that moves on.
LEMMA AdvanceStep ==
  ASSUME StoreType, CacheInv, stage = "run", NEW str \in SectorStr, NEW n \in Nat,
         AdvanceTo(n, str), saved' = saved,
         n <= SectorSize => bit' \in 0 .. SectorSize
  PROVE  StoreType' /\ CacheInv'
<1>1. CASE n > SectorSize
  BY <1>1, UploadDoneStep DEF AdvanceTo
<1>2. CASE ~(n > SectorSize)
  <2>1. /\ cursor' = n /\ sector_str' = str /\ bit' \in 0 .. SectorSize
        /\ UNCHANGED <<flash, status, all_done, stage>>
    BY <1>2, FlashLogAssumption DEF AdvanceTo
  <2>2. cursor' \in 0 .. SectorSize
    BY <1>2, <2>1, FlashLogAssumption
  <2>3. StoreType'
    BY <2>1, <2>2 DEF StoreType
  <2>4. CacheInv'
    BY <2>1 DEF CacheInv, NothingHidden
  <2> QED
    BY <2>3, <2>4
<1>3. QED
  BY <1>1, <1>2

\* What send_flash_mac leaves in memory besides the cache.
SendType ==
  /\ inrom \in {0, 1} /\ test_str \in Seq(Cell) /\ Len(test_str) <= SectorSize
  /\ sta \in Body \cup {None} /\ requests \in Traffic
  /\ at_state \in {"ZGMODE", "ZADC", "WAIT"}

\* check_id keeps the types of what it changes.
LEMMA CheckIdType ==
  ASSUME SessionType, NEW n \in Nat, NEW f \in Traffic, CheckId(n, f)
  PROVE  requests' \in Traffic /\ at_state' \in {"ZGMODE", "ZADC", "WAIT"}
<1>1. PICK l \in Link : /\ requests' = More(getCollect(l), n, f)
                        /\ at_state' = IF l = "nb" THEN "WAIT" ELSE at_state
  BY DEF CheckId
<1>2. getCollect(l) \in Request
  BY FlashLogAssumption DEF getCollect, Request
<1>3. requests' \in Traffic
  BY <1>1, <1>2, TrafficType
<1>4. at_state' \in {"ZGMODE", "ZADC", "WAIT"}
  BY <1>1 DEF SessionType
<1>5. QED
  BY <1>3, <1>4

\* SkipField and SendField, for every end of the field.
LEMMA SkipFieldStep ==
  ASSUME StoreType, SessionType, CacheInv, stage = "run", saved' = saved,
         NEW str \in SectorStr, NEW n \in Nat, NEW f \in Traffic,
         SkipField(n, str, f), inrom' \in {0, 1}
  PROVE  StoreType' /\ CacheInv' /\ SendType'
<1>1. n <= SectorSize => bit' \in 0 .. SectorSize
  BY FlashLogAssumption DEF SkipField, StoreType
<1>2. StoreType' /\ CacheInv'
  BY <1>1, AdvanceStep DEF SkipField
<1>3. requests' \in Traffic /\ at_state' \in {"ZGMODE", "ZADC", "WAIT"}
  BY CheckIdType DEF SkipField
<1>4. QED
  BY <1>2, <1>3 DEF SendType, SkipField, SessionType

LEMMA SendFieldStep ==
  ASSUME StoreType, SessionType, CacheInv, stage = "run", saved' = saved,
         NEW str \in SectorStr, NEW n \in Nat, NEW f \in Traffic,
         NEW i \in Body, NEW body \in Seq(Cell), Len(body) <= SectorSize,
         NEW wifi \in {"wifi", "nb"},
         SendField(i, body, n, str, wifi, f), inrom' \in {0, 1}
  PROVE  StoreType' /\ CacheInv' /\ SendType'
<1> USE FlashLogAssumption
<1>1. Posted(i, wifi, f) \in Traffic
  <2>1. getCollect("nb") \in Request
    BY DEF Request, getCollect
  <2> QED
    BY <2>1, TrafficType
<1>2. test_str' \in Seq(Cell) /\ Len(test_str') <= SectorSize /\ sta' \in Body \cup {None}
  BY DEF SendField, SessionType
<1>3. CASE n > SectorSize
  <2>1. sector_upload_done(str) /\ CheckId(1, Posted(i, wifi, f))
    BY <1>3 DEF SendField
  <2>2. StoreType' /\ CacheInv'
    BY <2>1, UploadDoneStep
  <2>3. requests' \in Traffic /\ at_state' \in {"ZGMODE", "ZADC", "WAIT"}
    BY <1>1, <2>1, CheckIdType
  <2> QED
    BY <1>2, <2>2, <2>3 DEF SendType
<1>4. CASE ~(n > SectorSize)
  <2>1. /\ bit' = cursor /\ AdvanceTo(n, str) /\ requests' = Posted(i, wifi, f)
        /\ at_state' = IF wifi = "nb" THEN "WAIT" ELSE at_state
    BY <1>4 DEF SendField
  <2>2. bit' \in 0 .. SectorSize
    BY <2>1 DEF StoreType
  <2>3. StoreType' /\ CacheInv'
    BY <2>1, <2>2, AdvanceStep
  <2>4. at_state' \in {"ZGMODE", "ZADC", "WAIT"}
    BY <2>1 DEF SessionType
  <2> QED
    BY <1>1, <1>2, <2>1, <2>3, <2>4 DEF SendType
<1>5. QED
  BY <1>3, <1>4

-----------------------------------------------------------------------------

\* send_flash_mac keeps the invariant wherever the cursor is.
LEMMA SendFlashMacStep ==
  ASSUME StoreType, SessionType, CacheInv, stage = "run", saved' = saved,
         NEW str \in SectorStr, NEW rom \in {0, 1}, NEW f \in Traffic,
         NEW wifi \in {"wifi", "nb"},
         send_flash_mac(str, rom, wifi, f)
  PROVE  StoreType' /\ CacheInv' /\ SendType'
<1> USE FlashLogAssumption
<1>a. Len(str) \in Nat /\ cursor \in Nat /\ cursor <= SectorSize
  BY LenProperties DEF SectorStr, StoreType
<1>1. CASE cursor >= Len(str)
  <2>1. /\ inrom' = 0 /\ CheckId(1, f) /\ UNCHANGED <<test_str, sta>>
        /\ IF rom = 1
             THEN /\ sector_str' = str
                  /\ UNCHANGED <<flash, status, all_done, cursor, bit, stage>>
             ELSE sector_upload_done(str)
    BY <1>1 DEF send_flash_mac
  <2>2. SendType'
    <3>1. requests' \in Traffic /\ at_state' \in {"ZGMODE", "ZADC", "WAIT"}
      BY <2>1, CheckIdType
    <3> QED
      BY <2>1, <3>1 DEF SendType, SessionType
  <2>3. CASE rom = 1
    <3>1. sector_str' = str /\ UNCHANGED <<flash, status, all_done, cursor, bit, stage>>
      BY <2>1, <2>3
    <3>2. StoreType'
      BY <3>1 DEF StoreType
    <3>3. CacheInv'
      BY <3>1 DEF CacheInv, NothingHidden
    <3> QED
      BY <2>2, <3>2, <3>3
  <2>4. CASE rom # 1
    <3>1. sector_upload_done(str)
      BY <2>1, <2>4
    <3> QED
      BY <3>1, <2>2, UploadDoneStep
  <2> QED
    BY <2>3, <2>4
<1>2. CASE ~(cursor >= Len(str))
  <2> DEFINE c == str[cursor + 1]
             n == FieldEnd(c.id)
             body == SubSeq(str, cursor + 2, IF n > Len(str) THEN Len(str) ELSE n)
  <2>1. c \in Cell
    BY <1>2, <1>a, ElementOfSeq DEF SectorStr
  <2>2. /\ inrom' \in {0, 1}
        /\ \/ c.part = "head" /\ SendField(c.id, body, n, str, wifi, f)
           \/ c.part = "sent" /\ SkipField(n, str, f)
           \/ c.part = "open" /\ SkipField(SectorSize + 1, str, f)
           \/ \E m \in 0 .. SectorSize + 1 :
                \/ SkipField(m, str, f)
                \/ SendField(Junk, Payload(Junk), m, str, wifi, f)
    BY <1>2 DEF send_flash_mac
  <2>3. c.id \in Body /\ n \in Nat /\ n = cursor + 1 + Size[c.id]
    BY <2>1, <1>a, RecordType DEF Cell, FieldEnd
  <2>4. body \in Seq(Cell) /\ Len(body) <= SectorSize
    <3> DEFINE m == IF n > Len(str) THEN Len(str) ELSE n
    <3>1. m \in Nat /\ m <= n /\ m <= Len(str)
      BY <1>a, <2>3
    <3>2. \A k \in cursor + 2 .. m : k \in 1 .. Len(str)
      BY <1>a, <3>1
    <3>3. \A k \in cursor + 2 .. m : str[k] \in Cell
      BY <3>2, ElementOfSeq DEF SectorStr
    <3>4. /\ SubSeq(str, cursor + 2, m) \in Seq(Cell)
          /\ Len(SubSeq(str, cursor + 2, m)) = IF cursor + 2 <= m THEN m - (cursor + 2) + 1 ELSE 0
      <4> HIDE DEF m
      <4>1. cursor + 2 \in Int /\ m \in Int
        BY <1>a, <3>1
      <4> QED
        BY <4>1, <3>3, SubSeqProperties
    <3>5. Size[c.id] \in Nat /\ Size[c.id] < SectorSize
      BY <2>3, RecordType
    <3>6. (IF cursor + 2 <= m THEN m - (cursor + 2) + 1 ELSE 0) <= SectorSize
      <4> HIDE DEF m, n
      <4> QED
        BY <1>a, <2>3, <3>1, <3>5
    <3> QED
      BY <3>4, <3>6
  <2>5. CASE c.part = "head" /\ SendField(c.id, body, n, str, wifi, f)
    <3> HIDE DEF n, body
    <3> QED
      BY <2>2, <2>3, <2>4, <2>5, SendFieldStep
  <2>6. CASE c.part = "sent" /\ SkipField(n, str, f)
    <3> HIDE DEF n, c
    <3> QED
      BY <2>2, <2>3, <2>6, SkipFieldStep
  <2>7. CASE c.part = "open" /\ SkipField(SectorSize + 1, str, f)
    BY <2>2, <2>7, SkipFieldStep
  <2>8. ASSUME NEW m \in 0 .. SectorSize + 1, SkipField(m, str, f)
        PROVE  StoreType' /\ CacheInv' /\ SendType'
    BY <2>2, <2>8, SkipFieldStep
  <2>9. ASSUME NEW m \in 0 .. SectorSize + 1,
               SendField(Junk, Payload(Junk), m, str, wifi, f)
        PROVE  StoreType' /\ CacheInv' /\ SendType'
    <3>1. Junk \in Body /\ m \in Nat
      BY DEF Body
    <3>2. Payload(Junk) \in Seq(Cell) /\ Len(Payload(Junk)) <= SectorSize
      BY <3>1, RecordType
    <3> QED
      BY <2>2, <2>9, <3>1, <3>2, SendFieldStep
  <2> QED
    BY <2>2, <2>5, <2>6, <2>7, <2>8, <2>9
<1>3. QED
  BY <1>1, <1>2

\* read_sector, whichever copy it takes.
LEMMA ReadSectorStep ==
  ASSUME StoreType, SessionType, CacheInv, stage = "run", saved' = saved,
         NEW f \in Traffic, NEW wifi \in {"wifi", "nb"}, read_sector(wifi, f)
  PROVE  StoreType' /\ CacheInv' /\ SendType'
<1> DEFINE str == IF inrom = 0 THEN flash[status.used] ELSE test_str
<1>1. status.used \in 0 .. MaxSector
  BY DEF StoreType, Status
<1>2. str \in SectorStr
  BY <1>1, LenProperties, FlashLogAssumption DEF StoreType, SessionType, SectorStr
<1>3. inrom \in {0, 1}
  BY DEF SessionType
<1>4. send_flash_mac(str, inrom, wifi, f)
  BY DEF read_sector
<1>5. QED
  <2> HIDE DEF str
  <2> QED
    BY <1>2, <1>3, <1>4, SendFlashMacStep

\* write_to_flash up to its first save.
LEMMA WriteStep ==
  ASSUME StoreType, SessionType, CacheInv, stage = "run", write_to_flash
  PROVE  /\ StoreType' /\ CacheInv'
         /\ inrom' = 0 /\ link' = "nb" /\ at_state' = "ZGMODE"
         /\ UNCHANGED <<test_str, sta, upload>>
<1> USE FlashLogAssumption
<1> DEFINE here == flash[status.used]
<1>1. status.used \in 0 .. MaxSector /\ status.flag \in {0, 1} /\ saved = status
  BY DEF StoreType, CacheInv, Status
<1>2. here \in Seq(Cell) /\ Len(here) \in Nat /\ Len(here) <= SectorSize
  BY <1>1, LenProperties DEF StoreType
<1>3. /\ status' = [status EXCEPT !.flag = 0] /\ saved' = status' /\ all_done' = 0
      /\ UNCHANGED <<flash, test_str, sta, cursor, bit, upload>>
      /\ inrom' = 0 /\ link' = "nb" /\ at_state' = "ZGMODE"
  BY DEF write_to_flash
<1>4. status' \in Status /\ status'.flag = 0 /\ status'.used = status.used
  BY <1>1, <1>3 DEF StoreType, Status
<1>5. /\ sector_str' \in SectorStr /\ stage' \in {"run", "grow", "erase"}
      /\ stage' = "erase" => Len(sector_str') + Len(test_str) <= SectorSize
  <2>1. CASE sta = None
    BY <2>1 DEF write_to_flash, StoreType
  <2>2. CASE sta # None
    <3>1. sector_str' = here /\ stage' = IF Len(test_str) > SectorSize - Len(here)
                                           THEN "grow" ELSE "erase"
      BY <2>2 DEF write_to_flash
    <3>2. Len(test_str) \in Nat
      BY LenProperties DEF SessionType
    <3>3. here \in SectorStr
      BY <1>2 DEF SectorStr
    <3>4. stage' = "erase" => Len(here) + Len(test_str) <= SectorSize
      <4> HIDE DEF here
      <4>1. stage' = "erase" => ~(Len(test_str) > SectorSize - Len(here))
        BY <3>1
      <4> QED
        BY <1>2, <3>2, <4>1
    <3>5. stage' \in {"run", "grow", "erase"}
      BY <3>1
    <3> QED
      BY <3>1, <3>3, <3>4, <3>5
  <2> QED
    BY <2>1, <2>2
<1>6. StoreType'
  BY <1>3, <1>4, <1>5 DEF StoreType
<1>7. CacheInv'
  BY <1>1, <1>3, <1>4, <1>5 DEF CacheInv, NothingHidden
<1>8. QED
  BY <1>3, <1>6, <1>7

-----------------------------------------------------------------------------

\* The cache starts empty, with nothing to upload.
LEMMA InitIInv == Init => IInv
<1> SUFFICES ASSUME Init PROVE IInv
  OBVIOUS
<1> USE FlashLogAssumption
<1>1. << >> \in Seq(Cell) /\ Len(<< >>) = 0
  BY EmptySeq
<1>2. saved \in Status /\ saved.used = 0 /\ saved.flag = 1
  BY DEF Init, Status
<1>3. StoreType
  BY <1>1, <1>2 DEF Init, StoreType, SectorStr
<1>4. NoRequest \in Traffic
  BY DEF NoRequest, Traffic
<1>5. SessionType
  <2>1. /\ test_str = << >> /\ upload = FALSE /\ tail = FALSE /\ requests = NoRequest
        /\ inrom = 0 /\ sta = None /\ link = "nb" /\ at_state = "ZADC"
        /\ gathered = {} /\ acked = {} /\ faults = 0 /\ boots = 0
    BY DEF Init
  <2>2. test_str \in Seq(Cell) /\ Len(test_str) <= SectorSize
    BY <1>1, <2>1
  <2>3. faults \in 0 .. MaxFaults /\ boots \in 0 .. MaxBoots
    BY <2>1
  <2> QED
    BY <1>4, <2>1, <2>2, <2>3 DEF SessionType
<1>6. CacheInv
  BY <1>2 DEF Init, CacheInv, NothingHidden
<1>7. QED
  BY <1>3, <1>5, <1>6 DEF IInv

\* Nothing of the cache changes.
LEMMA StoreKept ==
  ASSUME StoreType, CacheInv, stage # "erase" \/ test_str' = test_str,
         UNCHANGED <<flash, saved, status, all_done, cursor, bit, stage>>,
         sector_str' \in SectorStr, stage = "run" \/ sector_str' = sector_str
  PROVE  StoreType' /\ CacheInv'
<1>1. StoreType'
  BY DEF StoreType
<1>2. CacheInv'
  BY DEF CacheInv, NothingHidden
<1>3. QED
  BY <1>1, <1>2

\* The steps of write_to_flash and sector_upload_done after the first, each
\* of which the power may cut off from the next.
LEMMA FlashStepsKeep ==
  ASSUME IInv, FlashSteps PROVE IInv'
<1> USE FlashLogAssumption
<1>0. status.used \in 0 .. MaxSector /\ status.flag \in {0, 1}
  BY DEF IInv, StoreType, Status
<1>1. CASE TakeNextSector
  <2> DEFINE n == IF status.used + 1 > MaxSector THEN MaxSector ELSE status.used + 1
  <2>1. n \in 0 .. MaxSector /\ n >= status.used
    BY <1>0
  <2>2. /\ stage = "grow" /\ stage' = "erase" /\ saved' = status' /\ sector_str' = << >>
        /\ status' = [status EXCEPT !.used = n]
        /\ UNCHANGED <<flash, all_done, inrom, test_str, sta, cursor, bit, link,
                       at_state, upload, tail, requests, past>>
    BY <1>1 DEF TakeNextSector
  <2>3. status' \in Status /\ status'.used = n /\ status'.flag = status.flag
    BY <2>1, <2>2 DEF IInv, StoreType, Status
  <2>4. << >> \in Seq(Cell) /\ Len(<< >>) = 0
    BY EmptySeq
  <2>5. StoreType'
    BY <2>2, <2>3, <2>4 DEF IInv, StoreType, SectorStr
  <2>6. SessionType'
    BY <2>2 DEF IInv, SessionType, past
  <2>7. Len(sector_str') + Len(test_str') <= SectorSize
    BY <2>2, <2>4, LenProperties DEF IInv, SessionType
  <2>8. CacheInv'
    <3>1. NothingHidden'
      BY <2>2, <2>3 DEF IInv, CacheInv, NothingHidden
    <3>2. \A i \in 0 .. MaxSector : i > saved'.used \/ i > status'.used => flash'[i] = << >>
      BY <1>0, <2>1, <2>2, <2>3 DEF IInv, CacheInv
    <3>3. status'.flag = 0 /\ all_done' = status'.flag
      BY <2>2, <2>3 DEF IInv, CacheInv
    <3> QED
      BY <2>2, <2>7, <3>1, <3>2, <3>3 DEF CacheInv
  <2> QED
    BY <2>5, <2>6, <2>8 DEF IInv
<1>2. CASE EraseToWrite
  <2>1. /\ stage = "erase" /\ stage' = "write" /\ sector_str' = sector_str \o test_str
        /\ flash' = [flash EXCEPT ![status.used] = << >>]
        /\ UNCHANGED <<saved, status, all_done, inrom, test_str, sta, cursor, bit, link,
                       at_state, upload, tail, requests, past>>
    BY <1>2 DEF EraseToWrite
  <2>2. sector_str' \in Seq(Cell) /\ Len(sector_str') <= SectorSize
    BY <2>1, ConcatProperties DEF IInv, StoreType, SessionType, CacheInv, SectorStr
  <2>3. << >> \in Seq(Cell) /\ Len(<< >>) = 0
    BY EmptySeq
  <2>4. Len(sector_str') \in Nat
    BY <2>2, LenProperties
  <2>5. \A i \in 0 .. MaxSector : flash'[i] = IF i = status.used THEN << >> ELSE flash[i]
    BY <2>1 DEF IInv, StoreType
  <2>6. flash' \in [0 .. MaxSector -> Seq(Cell)]
    BY <1>0, <2>1, <2>3 DEF IInv, StoreType
  <2>7. StoreType'
    <3>1. sector_str' \in SectorStr
      BY <2>2, <2>4 DEF SectorStr
    <3> QED
      BY <2>1, <2>3, <2>5, <2>6, <3>1 DEF IInv, StoreType
  <2>8. SessionType'
    BY <2>1 DEF IInv, SessionType, past
  <2>9. CacheInv'
    BY <2>1, <2>2, <2>5 DEF IInv, CacheInv, NothingHidden
  <2> QED
    BY <2>7, <2>8, <2>9 DEF IInv
<1>3. CASE WriteSector
  <2>1. /\ stage = "write" /\ stage' = "run"
        /\ flash' = [flash EXCEPT ![status.used] = sector_str]
        /\ UNCHANGED <<saved, status, all_done, inrom, test_str, sta, sector_str, cursor,
                       bit, link, at_state, upload, tail, requests, past>>
    BY <1>3 DEF WriteSector
  <2>2. sector_str \in Seq(Cell) /\ Len(sector_str) <= SectorSize
    BY <2>1 DEF IInv, StoreType, CacheInv, SectorStr
  <2>3. \A i \in 0 .. MaxSector : flash'[i] = IF i = status.used THEN sector_str ELSE flash[i]
    BY <2>1 DEF IInv, StoreType
  <2>4. flash' \in [0 .. MaxSector -> Seq(Cell)]
    BY <1>0, <2>1, <2>2 DEF IInv, StoreType
  <2>5. StoreType'
    BY <2>1, <2>2, <2>3, <2>4 DEF IInv, StoreType
  <2>6. SessionType'
    BY <2>1 DEF IInv, SessionType, past
  <2>7. status.flag = 0 /\ saved = status
    BY <2>1 DEF IInv, CacheInv
  <2>8. \A i \in 0 .. MaxSector : i > saved'.used \/ i > status'.used => flash'[i] = << >>
    BY <1>0, <2>1, <2>3, <2>7 DEF IInv, CacheInv
  <2>9. CacheInv'
    BY <2>1, <2>7, <2>8 DEF IInv, CacheInv, NothingHidden
  <2> QED
    BY <2>5, <2>6, <2>9 DEF IInv
<1>4. CASE SaveAfterUpload
  <2>1. /\ stage = "done" /\ stage' = "run" /\ saved' = status
        /\ UNCHANGED <<flash, status, all_done, inrom, test_str, sta, sector_str, cursor,
                       bit, link, at_state, upload, tail, requests, past>>
    BY <1>4 DEF SaveAfterUpload
  <2>2. StoreType'
    BY <2>1 DEF IInv, StoreType
  <2>3. SessionType'
    BY <2>1 DEF IInv, SessionType, past
  <2>4. CacheInv'
    BY <2>1 DEF IInv, CacheInv, NothingHidden
  <2> QED
    BY <2>2, <2>3, <2>4 DEF IInv
<1>5. QED
  BY <1>1, <1>2, <1>3, <1>4 DEF FlashSteps

\* The handlers that answer a request.
LEMMA AnswersKeep ==
  ASSUME IInv, Answers PROVE IInv'
<1> USE FlashLogAssumption
<1>0. \A q \in Request : requests[q] > 0 => Answered(q) \in Traffic
  BY TrafficType DEF IInv, SessionType, Answered
<1>1. \A l \in {"wifi", "nb"} : getCollect(l) \in Request
  BY DEF getCollect, Request
<1>2. \A i \in Body, l \in {"wifi", "nb"} : [what |-> i, link |-> l] \in Request
  BY DEF Request
<1>3. \A s \in SectorStr : Marked(s) \in SectorStr
  BY MarkedType DEF IInv, StoreType
<1>4. MaybeError => tail' \in BOOLEAN /\ faults' \in 0 .. MaxFaults
  <2>1. MaybeError => tail' \in BOOLEAN
    BY DEF MaybeError
  <2>2. MaybeError => faults' \in 0 .. MaxFaults
    BY DEF MaybeError, IInv, SessionType
  <2> QED
    BY <2>1, <2>2
<1>a. sector_str \in SectorStr
  BY DEF IInv, StoreType
<1>5. CASE WifiCollect
  <2> DEFINE q == getCollect("wifi")
  <2>1. /\ stage = "run" /\ requests[q] > 0 /\ link' = "wifi" /\ MaybeError
        /\ UNCHANGED <<saved, upload, gathered, acked, boots>>
    BY <1>5 DEF WifiCollect, Running
  <2>2. Answered(q) \in Traffic
    BY <1>0, <1>1, <2>1
  <2>3. StoreType' /\ CacheInv' /\ SendType'
    <3>1. CASE all_done = 1 /\ inrom = 0
      <4>1. /\ at_state' \in {"ZGMODE", at_state} /\ requests' = Answered(q)
            /\ UNCHANGED <<flash, status, all_done, inrom, test_str, sta, sector_str,
                           cursor, bit, stage>>
        BY <1>5, <3>1 DEF WifiCollect
      <4>2. StoreType' /\ CacheInv'
        BY <1>a, <2>1, <4>1, StoreKept DEF IInv
      <4>3. SendType'
        BY <2>2, <4>1 DEF IInv, SessionType, SendType
      <4> QED
        BY <4>2, <4>3
    <3>2. CASE ~(all_done = 1 /\ inrom = 0)
      <4>1. read_sector("wifi", Answered(q))
        BY <1>5, <3>2 DEF WifiCollect
      <4> QED
        BY <2>1, <2>2, <4>1, ReadSectorStep DEF IInv
    <3> QED
      BY <3>1, <3>2
  <2>4. SessionType'
    BY <1>4, <2>1, <2>3 DEF IInv, SessionType, SendType
  <2> QED
    BY <2>3, <2>4 DEF IInv
<1>6. CASE NbCollect
  <2> DEFINE q == getCollect("nb")
  <2>1. /\ stage = "run" /\ requests[q] > 0
        /\ UNCHANGED <<saved, link, upload, tail, past>>
    BY <1>6 DEF NbCollect, Running
  <2>2. Answered(q) \in Traffic
    BY <1>0, <1>1, <2>1
  <2>3. StoreType' /\ CacheInv' /\ SendType'
    <3>1. CASE all_done = 1
      <4>1. /\ at_state' \in {"ZGMODE", "WAIT"} /\ requests' = Answered(q)
            /\ UNCHANGED <<flash, status, all_done, inrom, test_str, sta, sector_str,
                           cursor, bit, stage>>
        BY <1>6, <3>1 DEF NbCollect
      <4>2. StoreType' /\ CacheInv'
        BY <1>a, <2>1, <4>1, StoreKept DEF IInv
      <4>3. SendType'
        BY <2>2, <4>1 DEF IInv, SessionType, SendType
      <4> QED
        BY <4>2, <4>3
    <3>2. CASE all_done # 1
      <4>1. read_sector(link, Answered(q)) /\ link \in {"wifi", "nb"}
        BY <1>6, <3>2 DEF NbCollect, IInv, SessionType
      <4> QED
        BY <2>1, <2>2, <4>1, ReadSectorStep DEF IInv
    <3> QED
      BY <3>1, <3>2
  <2>4. SessionType'
    BY <2>1, <2>3 DEF IInv, SessionType, SendType, past
  <2> QED
    BY <2>3, <2>4 DEF IInv
<1>7. ASSUME NEW i \in Body, WifiStored(i) PROVE IInv'
  <2> DEFINE q == [what |-> i, link |-> "wifi"]
  <2>1. /\ stage = "run" /\ requests[q] > 0 /\ link' = "wifi" /\ MaybeError
        /\ acked' = acked \cup ({i} \cap Id)
        /\ UNCHANGED <<saved, upload, gathered, boots>>
    BY <1>7 DEF WifiStored, Running
  <2>2. Answered(q) \in Traffic
    BY <1>0, <1>2, <2>1
  <2>3. StoreType' /\ CacheInv' /\ SendType'
    <3>1. CASE all_done = 0
      <4>1. send_flash_mac(Marked(sector_str), 0, "wifi", Answered(q))
        BY <1>7, <3>1 DEF WifiStored
      <4> QED
        BY <1>3, <1>a, <2>1, <2>2, <4>1, SendFlashMacStep DEF IInv
    <3>2. CASE all_done # 0
      <4>1. /\ sector_str' = Marked(sector_str) /\ inrom' = 0 /\ CheckId(1, Answered(q))
            /\ UNCHANGED <<flash, status, all_done, test_str, sta, cursor, bit, stage>>
        BY <1>7, <3>2 DEF WifiStored
      <4>2. StoreType' /\ CacheInv'
        BY <1>3, <1>a, <2>1, <4>1, StoreKept DEF IInv
      <4>3. requests' \in Traffic /\ at_state' \in {"ZGMODE", "ZADC", "WAIT"}
        BY <2>2, <4>1, CheckIdType DEF IInv
      <4>4. SendType'
        BY <4>1, <4>3 DEF IInv, SessionType, SendType
      <4> QED
        BY <4>2, <4>4
    <3> QED
      BY <3>1, <3>2
  <2>4. SessionType'
    BY <1>4, <2>1, <2>3 DEF IInv, SessionType, SendType
  <2> QED
    BY <2>3, <2>4 DEF IInv
<1>8. ASSUME NEW i \in Body, NbStored(i) PROVE IInv'
  <2> DEFINE q   == [what |-> i, link |-> "nb"]
             str == IF inrom = 0 THEN Marked(sector_str) ELSE sector_str
  <2>1. /\ stage = "run" /\ requests[q] > 0
        /\ acked' = acked \cup ({i} \cap Id)
        /\ UNCHANGED <<saved, upload, tail, gathered, faults, boots>>
    BY <1>8 DEF NbStored, Running
  <2>2. Answered(q) \in Traffic
    BY <1>0, <1>2, <2>1
  <2>3. str \in SectorStr
    BY <1>3, <1>a
  <2>4. StoreType' /\ CacheInv' /\ SendType' /\ link' \in {"wifi", "nb"}
    <3>1. CASE all_done = 0
      <4>1. link' = "nb" /\ send_flash_mac(str, 0, "nb", Answered(q))
        BY <1>8, <3>1 DEF NbStored
      <4> HIDE DEF str, q
      <4> QED
        BY <2>1, <2>2, <2>3, <4>1, SendFlashMacStep DEF IInv
    <3>2. CASE all_done # 0
      <4>1. /\ sector_str' = str /\ inrom' = 0 /\ at_state' = "ZADC"
            /\ requests' = Answered(q)
            /\ UNCHANGED <<flash, status, all_done, test_str, sta, cursor, bit, link, stage>>
        BY <1>8, <3>2 DEF NbStored
      <4>2. StoreType' /\ CacheInv'
        BY <2>1, <2>3, <4>1, StoreKept DEF IInv
      <4>3. SendType' /\ link' \in {"wifi", "nb"}
        BY <2>2, <4>1 DEF IInv, SessionType, SendType
      <4> QED
        BY <4>2, <4>3
    <3> QED
      BY <3>1, <3>2
  <2>5. SessionType'
    BY <2>1, <2>4 DEF IInv, SessionType, SendType
  <2> QED
    BY <2>4, <2>5 DEF IInv
<1>9. QED
  BY <1>5, <1>6, <1>7, <1>8 DEF Answers

\* The other handlers and a restart.
LEMMA HandlersKeep ==
  ASSUME IInv, NEW i \in Body, NEW q \in Request,
         \/ Gather(i) \/ StartCheckId \/ update_data \/ NbRefused(q) \/ WifiRefused(q)
         \/ WifiFailed(q) \/ NoWifi \/ ErrorTail \/ Reboot
  PROVE  IInv'
<1> USE FlashLogAssumption
<1>0. requests[q] > 0 => Answered(q) \in Traffic
  BY TrafficType DEF IInv, SessionType, Answered
<1>a. /\ sector_str \in SectorStr /\ status.used \in 0 .. MaxSector
      /\ getCollect("nb") \in Request
  BY DEF IInv, StoreType, Status, getCollect, Request
<1>b. \A f \in Traffic : /\ More(getCollect("nb"), 1, f) \in Traffic
                         /\ \A l \in Link : More(getCollect(l), 1, f) \in Traffic
                         /\ \A j \in Body, l \in Link : Posted(j, l, f) \in Traffic
  BY <1>a, TrafficType
<1>c. requests \in Traffic
  BY DEF IInv, SessionType
<1>1. CASE Gather(i)
  <2>1. /\ stage = "run" /\ gathered' = gathered \cup ({i} \cap Id)
        /\ sta' = (IF i \in Id THEN i ELSE None)
        /\ inrom' = (IF i \in Id THEN 1 ELSE inrom)
        /\ test_str' = Headed(i) /\ sector_str' = flash[status.used]
        /\ at_state' = "WAIT" /\ upload' = TRUE
        /\ UNCHANGED <<flash, saved, status, all_done, cursor, bit, link, stage, tail,
                       requests, acked, faults, boots>>
    BY <1>1 DEF Gather, Running
  <2>2. flash[status.used] \in SectorStr
    BY <1>a, LenProperties DEF IInv, StoreType, SectorStr
  <2>3. StoreType' /\ CacheInv'
    BY <2>1, <2>2, StoreKept DEF IInv
  <2>4. test_str' \in Seq(Cell) /\ Len(test_str') <= SectorSize
    <3>1. Len(Headed(i)) = Size[i] + 1 /\ Headed(i) \in Seq(Cell)
          /\ Size[i] \in Nat /\ Size[i] < SectorSize
      BY RecordType
    <3> QED
      BY <2>1, <3>1
  <2>5. SessionType'
    BY <2>1, <2>4 DEF IInv, SessionType, Body
  <2> QED
    BY <2>3, <2>5 DEF IInv
<1>2. CASE StartCheckId
  <2>1. /\ requests' \in Traffic /\ at_state' = "WAIT"
        /\ UNCHANGED <<flash, saved, status, all_done, inrom, test_str, sta, sector_str,
                       cursor, bit, link, upload, stage, tail, past>>
    BY <1>2, <1>b, <1>c DEF StartCheckId
  <2>2. StoreType' /\ CacheInv'
    BY <1>a, <2>1, StoreKept DEF IInv
  <2>3. SessionType'
    BY <2>1 DEF IInv, SessionType, past
  <2> QED
    BY <2>2, <2>3 DEF IInv
<1>3. CASE update_data
  <2>1. PICK l \in Link :
          IF l = "nb" /\ sta = None
            THEN at_state' = "ZADC" /\ requests' = requests
            ELSE /\ requests' = Posted(IF sta = None THEN Junk ELSE sta, l, requests)
                 /\ at_state' = IF l = "nb" THEN "WAIT" ELSE at_state
    BY <1>3 DEF update_data
  <2>2. (IF sta = None THEN Junk ELSE sta) \in Body
    BY DEF IInv, SessionType, Body
  <2>3. requests' \in Traffic
    BY <1>b, <1>c, <2>1, <2>2
  <2>4. at_state' \in {"ZGMODE", "ZADC", "WAIT"}
    BY <2>1 DEF IInv, SessionType
  <2>5. /\ upload' = FALSE
        /\ UNCHANGED <<flash, saved, status, all_done, inrom, test_str, sta, sector_str,
                       cursor, bit, link, stage, tail, past>>
    BY <1>3 DEF update_data
  <2>6. StoreType' /\ CacheInv'
    BY <1>a, <2>5, StoreKept DEF IInv
  <2>7. SessionType'
    BY <2>3, <2>4, <2>5 DEF IInv, SessionType, past
  <2> QED
    BY <2>6, <2>7 DEF IInv
<1>4. CASE NbRefused(q)
  <2>1. /\ requests[q] > 0 /\ faults < MaxFaults /\ faults' = faults + 1
        /\ UNCHANGED <<flash, saved, status, all_done, inrom, test_str, sta, sector_str,
                       cursor, bit, link, upload, stage, tail, gathered, acked, boots>>
    BY <1>4 DEF NbRefused
  <2>2. requests' \in Traffic /\ at_state' \in {"WAIT", at_state}
    BY <1>0, <1>4, <1>b, <2>1 DEF NbRefused
  <2>3. faults' \in 0 .. MaxFaults
    BY <2>1 DEF IInv, SessionType
  <2>4. StoreType' /\ CacheInv'
    BY <1>a, <2>1, StoreKept DEF IInv
  <2>5. SessionType'
    BY <2>1, <2>2, <2>3 DEF IInv, SessionType
  <2> QED
    BY <2>4, <2>5 DEF IInv
<1>4a. CASE WifiRefused(q)
  <2>1. /\ requests[q] > 0 /\ faults < MaxFaults /\ faults' = faults + 1
        /\ link' = "wifi" /\ tail' \in BOOLEAN /\ CheckId(1, Answered(q))
        /\ UNCHANGED <<flash, saved, status, all_done, inrom, test_str, sta, sector_str,
                       cursor, bit, upload, stage, gathered, acked, boots>>
    BY <1>4a DEF WifiRefused
  <2>2. requests' \in Traffic /\ at_state' \in {"ZGMODE", "ZADC", "WAIT"}
    BY <1>0, <2>1, CheckIdType DEF IInv
  <2>3. faults' \in 0 .. MaxFaults
    BY <2>1 DEF IInv, SessionType
  <2>4. StoreType' /\ CacheInv'
    BY <1>a, <2>1, StoreKept DEF IInv
  <2>5. SessionType'
    BY <2>1, <2>2, <2>3 DEF IInv, SessionType
  <2> QED
    BY <2>4, <2>5 DEF IInv
<1>5. ASSUME write_to_flash, stage = "run", requests' \in Traffic, tail' \in BOOLEAN,
             faults' \in 0 .. MaxFaults, UNCHANGED <<gathered, acked, boots>>
      PROVE  IInv'
  <2>1. /\ StoreType' /\ CacheInv'
        /\ inrom' = 0 /\ link' = "nb" /\ at_state' = "ZGMODE"
        /\ UNCHANGED <<test_str, sta, upload>>
    BY <1>5, WriteStep DEF IInv
  <2>2. SessionType'
    BY <1>5, <2>1 DEF IInv, SessionType
  <2> QED
    BY <2>1, <2>2 DEF IInv
<1>6. CASE WifiFailed(q)
  <2>1. faults' \in 0 .. MaxFaults
    BY <1>6 DEF WifiFailed, IInv, SessionType
  <2> QED
    BY <1>0, <1>5, <1>6, <2>1 DEF WifiFailed, Running
<1>7. CASE NoWifi
  <2>1. faults' \in 0 .. MaxFaults
    BY <1>7 DEF NoWifi, IInv, SessionType
  <2>2. tail' \in BOOLEAN
    BY <1>7 DEF NoWifi, IInv, SessionType
  <2> QED
    BY <1>5, <1>7, <1>c, <2>1, <2>2 DEF NoWifi, Running
<1>8. CASE ErrorTail
  <2>1. faults' \in 0 .. MaxFaults
    BY <1>8 DEF ErrorTail, past, IInv, SessionType
  <2> QED
    BY <1>5, <1>8, <1>c, <2>1 DEF ErrorTail, past
<1>9. CASE Reboot
  <2>1. /\ status' = saved /\ all_done' = saved.flag /\ stage' = "run"
        /\ cursor' = 0 /\ bit' = 0 /\ sector_str' = << >>
        /\ UNCHANGED <<flash, saved, gathered, acked, faults>>
    BY <1>9 DEF Reboot, devicexx_app_load
  <2>2. /\ inrom' = 0 /\ test_str' = << >> /\ sta' = None /\ link' = "nb"
        /\ at_state' = "ZADC" /\ upload' = FALSE /\ tail' = FALSE
    BY <1>9 DEF Reboot, devicexx_app_load
  <2>3. << >> \in Seq(Cell) /\ Len(<< >>) = 0
    BY EmptySeq
  <2>4. requests' \in Traffic
    <3>1. requests \in Traffic
      BY DEF IInv, SessionType
    <3>2. [r \in Request |-> IF r.link = "nb" THEN requests[r] ELSE 0] \in Traffic
      BY <3>1 DEF Traffic
    <3>3. NoRequest \in Traffic
      BY DEF NoRequest, Traffic
    <3> QED
      BY <1>9, <3>2, <3>3 DEF Reboot
  <2>5. boots' \in 0 .. MaxBoots
    BY <1>9 DEF Reboot, IInv, SessionType
  <2>6. StoreType'
    <3>1. sector_str' \in SectorStr /\ saved.flag \in {0, 1}
      BY <2>1, <2>3 DEF SectorStr, IInv, StoreType, Status
    <3> QED
      BY <2>1, <3>1 DEF IInv, StoreType
  <2>7. test_str' \in Seq(Cell) /\ Len(test_str') <= SectorSize
    BY <2>2, <2>3
  <2>8. SessionType'
    BY <2>1, <2>2, <2>4, <2>5, <2>7 DEF IInv, SessionType
  <2>9. CacheInv'
    BY <2>1 DEF IInv, CacheInv, NothingHidden
  <2> QED
    BY <2>6, <2>8, <2>9 DEF IInv
<1>10. QED
  BY <1>1, <1>2, <1>3, <1>4, <1>4a, <1>6, <1>7, <1>8, <1>9

\* Every step keeps the invariant.
LEMMA NextIInv == IInv /\ [Next]_vars => IInv'
<1> SUFFICES ASSUME IInv, [Next]_vars PROVE IInv'
  OBVIOUS
<1>0. Junk \in Body /\ getCollect("nb") \in Request
  BY DEF Body, getCollect, Request
<1>1. ASSUME NEW i \in Body, Gather(i) PROVE IInv'
  BY <1>0, <1>1, HandlersKeep
<1>2. CASE StartCheckId \/ update_data \/ NoWifi \/ ErrorTail \/ Reboot
  BY <1>0, <1>2, HandlersKeep
<1>3. ASSUME NEW q \in Request, NbRefused(q) \/ WifiRefused(q) \/ WifiFailed(q) PROVE IInv'
  BY <1>0, <1>3, HandlersKeep
<1>4. CASE Answers
  BY <1>4, AnswersKeep
<1>5. CASE FlashSteps
  BY <1>5, FlashStepsKeep
<1>6. CASE UNCHANGED vars
  <2>1. StoreType'
    BY <1>6 DEF IInv, StoreType, vars, ram, past
  <2>2. SessionType'
    BY <1>6 DEF IInv, SessionType, vars, ram, past
  <2>3. CacheInv'
    BY <1>6 DEF IInv, CacheInv, NothingHidden, vars, ram, past
  <2> QED
    BY <2>1, <2>2, <2>3 DEF IInv
<1>7. QED
  BY <1>1, <1>2, <1>3, <1>4, <1>5, <1>6 DEF Next

\* IInv holds in every reachable state.
THEOREM Invariance == Spec => []IInv
<1>1. QED
  BY InitIInv, NextIInv, PTL DEF Spec

\* Type correctness: no sector ever holds more than SectorSize, and neither
\* cursor leaves the sector.
THEOREM TypeCorrect == Spec => []TypeOK
<1>1. IInv => TypeOK
  BY DEF IInv, StoreType, SessionType, TypeOK, SectorStr, Traffic
<1>2. QED
  BY <1>1, Invariance, PTL

\* No cached record is hidden from the upload by a flag that says that all is
\* sent, wherever the power fails.
THEOREM CacheVisible == Spec => []NothingHidden
<1>1. IInv => NothingHidden
  BY DEF IInv, CacheInv
<1>2. QED
  BY <1>1, Invariance, PTL

\* The saved status covers every sector in use, and agrees with the memory
\* between handlers.
THEOREM StatusSaved == Spec => []SavedCoversFlash
<1>1. IInv => SavedCoversFlash
  BY DEF IInv, CacheInv, SavedCoversFlash
<1>2. QED
  BY <1>1, Invariance, PTL

-----------------------------------------------------------------------------
(* The stack of sectors.                                                   *)

\* What a handler has in hand when it is cut: the sector that is to be rewritten
\* or nothing of the last one, the new contents with the record at their end, or
\* a status that has stepped back from an empty sector.
StackInv ==
  /\ stage = "erase" =>
       sector_str = flash[saved.used] \/ (saved.used = MaxSector /\ sector_str = << >>)
  /\ stage = "write" => \E old \in Seq(Cell) : sector_str = old \o test_str
  /\ stage = "done" =>
       /\ flash[saved.used] = << >>
       /\ IF saved.used = 0 THEN status.used = 0 /\ status.flag = 1
          ELSE status.used = saved.used - 1 /\ status.flag = saved.flag

Seen == <<flash, saved.used, saved.flag = 1, held>>
Kind == Stack!Next \/ UNCHANGED Seen

LEMMA FirstPart ==
  ASSUME NEW old \in Seq(Cell), NEW t \in Seq(Cell)
  PROVE  /\ old \o t \in Seq(Cell) /\ Len(old \o t) = Len(old) + Len(t)
         /\ SubSeq(old \o t, 1, Len(old \o t) - Len(t)) = old
         /\ SubSeq(old \o t, 1, Len(old)) = old
<1> DEFINE n == Len(old)  s == old \o t  p == SubSeq(s, 1, n)
<1>1. n \in Nat /\ Len(t) \in Nat
  BY LenProperties
<1>2. s \in Seq(Cell) /\ Len(s) = n + Len(t) /\ \A k \in 1 .. n : s[k] = old[k]
  BY ConcatProperties, <1>1
<1>3. \A k \in 1 .. n : s[k] \in Cell
  BY <1>2, ElementOfSeq
<1>4. p \in Seq(Cell) /\ Len(p) = n /\ \A k \in 1 .. n : p[k] = s[k]
  <2> HIDE DEF s, n
  <2>1. /\ SubSeq(s, 1, n) \in Seq(Cell)
        /\ Len(SubSeq(s, 1, n)) = IF 1 <= n THEN n - 1 + 1 ELSE 0
        /\ \A k \in 1 .. n - 1 + 1 : SubSeq(s, 1, n)[k] = s[1 + k - 1]
    BY <1>1, <1>3, SubSeqProperties
  <2>2. n - 1 + 1 = n /\ \A k \in 1 .. n : 1 + k - 1 = k
    BY <1>1
  <2> QED
    BY <1>1, <2>1, <2>2
<1>5. p = old
  <2> HIDE DEF p, s
  <2> QED
    BY <1>2, <1>4, SeqEqual
<1>6. Len(s) - Len(t) = n
  BY <1>1, <1>2
<1> QED
  BY <1>2, <1>5, <1>6

\* A step between handlers that leaves the flash and the saved status alone.
LEMMA QuietKind ==
  ASSUME stage = "run", stage' = "run", UNCHANGED <<flash, saved>>
  PROVE  StackInv' /\ Kind
BY DEF StackInv, Kind, Seen, held

\* write_to_flash up to its first save: a restart no longer takes the cache for
\* empty.
LEMMA WriteKind ==
  ASSUME IInv, stage = "run", write_to_flash
  PROVE  StackInv' /\ Kind
<1>1. saved = status /\ saved \in Status
  BY DEF IInv, CacheInv, StoreType
<1>2. flash' = flash /\ saved' = [status EXCEPT !.flag = 0]
  BY DEF write_to_flash
<1>3. saved'.used = saved.used /\ saved'.flag = 0
  BY <1>1, <1>2 DEF Status
<1>4. \/ stage' = "run" \/ stage' = "grow"
      \/ stage' = "erase" /\ sector_str' = flash[status.used]
  BY DEF write_to_flash
<1>5. StackInv'
  BY <1>1, <1>2, <1>3, <1>4 DEF StackInv
<1>6. held = {} /\ held' = {}
  BY <1>4 DEF held
<1>7. Stack!Announce
  BY <1>2, <1>3, <1>6 DEF Stack!Announce
<1> QED
  BY <1>5, <1>7 DEF Kind, Stack!Next

\* send_flash_mac erases the sector on top as a whole, or leaves the flash alone.
LEMMA SendKind ==
  ASSUME IInv, stage = "run", saved' = saved,
         NEW str, NEW rom, NEW wifi, NEW f, send_flash_mac(str, rom, wifi, f)
  PROVE  StackInv' /\ Kind
<1> DEFINE Same == UNCHANGED <<flash, stage>>
           Done == \E s : sector_upload_done(s)
<1>1. ASSUME NEW n, NEW s, AdvanceTo(n, s) PROVE Same \/ Done
  BY <1>1 DEF AdvanceTo
<1>2. ASSUME NEW n, NEW s, NEW g, SkipField(n, s, g) PROVE Same \/ Done
  BY <1>1, <1>2 DEF SkipField
<1>3. ASSUME NEW i, NEW b, NEW n, NEW s, NEW w, NEW g, SendField(i, b, n, s, w, g)
      PROVE  Same \/ Done
  BY <1>1, <1>3 DEF SendField
<1>4. Same \/ Done
  <2>1. CASE cursor >= Len(str)
    BY <2>1 DEF send_flash_mac
  <2>2. CASE ~(cursor >= Len(str))
    <3>1. \/ \E i, b, n : SendField(i, b, n, str, wifi, f)
          \/ \E n : SkipField(n, str, f)
      BY <2>2 DEF send_flash_mac
    <3> HIDE DEF Same, Done
    <3> QED
      BY <1>2, <1>3, <3>1
  <2> QED
    BY <2>1, <2>2
<1>5. CASE Same
  BY <1>5, QuietKind
<1>6. ASSUME NEW s, sector_upload_done(s) PROVE StackInv' /\ Kind
  <2>1. /\ saved = status /\ status \in Status /\ status.used \in 0 .. MaxSector
        /\ flash \in [0 .. MaxSector -> Seq(Cell)]
    BY DEF IInv, CacheInv, StoreType, Status
  <2>2. flash' = [flash EXCEPT ![saved.used] = << >>] /\ stage' = "done"
    BY <1>6, <2>1 DEF sector_upload_done
  <2>3. IF saved.used = 0 THEN status'.used = 0 /\ status'.flag = 1
        ELSE status'.used = saved.used - 1 /\ status'.flag = saved.flag
    BY <1>6, <2>1 DEF sector_upload_done, Status
  <2>4. StackInv'
    BY <2>1, <2>2, <2>3 DEF StackInv
  <2>5. held = {} /\ held' = {}
    BY <2>2 DEF held
  <2>6. Stack!Clear
    BY <2>2, <2>5 DEF Stack!Clear
  <2> QED
    BY <2>4, <2>6 DEF Kind, Stack!Next
<1> QED
  <2> HIDE DEF Same
  <2> QED
    BY <1>4, <1>5, <1>6

\* The steps after the first of a store or an upload.
LEMMA FlashStepsKind ==
  ASSUME IInv, StackInv, FlashSteps
  PROVE  StackInv' /\ Kind
<1> USE FlashLogAssumption
<1>0. /\ status.used \in 0 .. MaxSector /\ status \in Status /\ saved \in Status
      /\ saved.used \in 0 .. MaxSector
      /\ flash \in [0 .. MaxSector -> Seq(Cell)] /\ test_str \in Seq(Cell)
  BY DEF IInv, StoreType, SessionType, Status
<1>1. CASE TakeNextSector
  <2> DEFINE n == IF status.used + 1 > MaxSector THEN MaxSector ELSE status.used + 1
  <2>1. /\ stage = "grow" /\ stage' = "erase" /\ saved' = status' /\ sector_str' = << >>
        /\ status' = [status EXCEPT !.used = n] /\ flash' = flash
    BY <1>1 DEF TakeNextSector
  <2>2. saved = status /\ status.flag = 0
    BY <2>1 DEF IInv, CacheInv
  <2>3. saved'.used = n /\ saved'.flag = 0
    BY <1>0, <2>1, <2>2 DEF Status
  <2>4. held = {} /\ held' = {}
    BY <2>1 DEF held
  <2>5. CASE status.used + 1 > MaxSector
    <3>1. n = MaxSector /\ saved.used = MaxSector
      BY <1>0, <2>2, <2>5
    <3>2. StackInv'
      BY <2>1, <2>3, <3>1 DEF StackInv
    <3>3. UNCHANGED Seen
      BY <2>1, <2>2, <2>3, <2>4, <3>1 DEF Seen
    <3> QED
      BY <3>2, <3>3 DEF Kind
  <2>6. CASE ~(status.used + 1 > MaxSector)
    <3>1. n = saved.used + 1 /\ saved.used < MaxSector /\ n \in 0 .. MaxSector
      BY <1>0, <2>2, <2>6
    <3>2. flash[n] = << >>
      BY <1>0, <3>1 DEF IInv, CacheInv
    <3>3. StackInv'
      BY <2>1, <2>3, <3>2 DEF StackInv
    <3>4. Stack!NewSector
      BY <2>1, <2>2, <2>3, <2>4, <3>1 DEF Stack!NewSector
    <3> QED
      BY <3>3, <3>4 DEF Kind, Stack!Next
  <2> QED
    BY <2>5, <2>6
<1>2. CASE EraseToWrite
  <2>1. /\ stage = "erase" /\ stage' = "write" /\ sector_str' = sector_str \o test_str
        /\ flash' = [flash EXCEPT ![status.used] = << >>]
        /\ saved' = saved /\ test_str' = test_str
    BY <1>2 DEF EraseToWrite
  <2>2. saved = status /\ status.flag = 0 /\ sector_str \in Seq(Cell)
    BY <2>1 DEF IInv, CacheInv, StoreType, SectorStr
  <2>3. StackInv'
    BY <2>1, <2>2 DEF StackInv
  <2>4. held = {} /\ held' = {sector_str}
    BY <1>0, <2>1, <2>2, FirstPart DEF held
  <2>5. Stack!Erase
    BY <2>1, <2>2, <2>4 DEF Stack!Erase, StackInv
  <2> QED
    BY <2>3, <2>5 DEF Kind, Stack!Next
<1>3. CASE WriteSector
  <2>1. /\ stage = "write" /\ stage' = "run" /\ saved' = saved
        /\ flash' = [flash EXCEPT ![status.used] = sector_str]
    BY <1>3 DEF WriteSector
  <2>2. PICK old \in Seq(Cell) : sector_str = old \o test_str
    BY <2>1 DEF StackInv
  <2>3. saved = status /\ Len(sector_str) <= SectorSize
    BY <2>1 DEF IInv, CacheInv
  <2>4. held = {old} /\ held' = {}
    BY <1>0, <2>1, <2>2, FirstPart DEF held
  <2>5. flash'[saved.used] = sector_str
    BY <1>0, <2>1, <2>3
  <2>6. Len(sector_str) \in Len(old) .. SectorSize /\ SubSeq(sector_str, 1, Len(old)) = old
    <3>1. Len(old) \in Nat /\ Len(test_str) \in Nat
      BY <1>0, LenProperties
    <3>2. Len(sector_str) = Len(old) + Len(test_str) /\ SubSeq(sector_str, 1, Len(old)) = old
      BY <1>0, <2>2, FirstPart
    <3> QED
      BY <2>3, <3>1, <3>2
  <2>7. Stack!Write(old)
    BY <2>1, <2>3, <2>4, <2>5, <2>6 DEF Stack!Write
  <2>8. StackInv'
    BY <2>1 DEF StackInv
  <2> QED
    BY <2>4, <2>7, <2>8 DEF Kind, Stack!Next
<1>4. CASE SaveAfterUpload
  <2>1. stage = "done" /\ stage' = "run" /\ saved' = status /\ flash' = flash
    BY <1>4 DEF SaveAfterUpload
  <2>2. held = {} /\ held' = {}
    BY <2>1 DEF held
  <2>3. /\ flash[saved.used] = << >>
        /\ IF saved.used = 0 THEN status.used = 0 /\ status.flag = 1
           ELSE status.used = saved.used - 1 /\ status.flag = saved.flag
    BY <2>1 DEF StackInv
  <2>4. Stack!Back
    BY <2>1, <2>2, <2>3 DEF Stack!Back
  <2>5. StackInv'
    BY <2>1 DEF StackInv
  <2> QED
    BY <2>4, <2>5 DEF Kind, Stack!Next
<1> QED
  BY <1>1, <1>2, <1>3, <1>4 DEF FlashSteps

\* A loss of power in the middle of a store leaves the sector empty.
LEMMA RebootKind ==
  ASSUME Reboot
  PROVE  StackInv' /\ Kind
<1>1. stage' = "run" /\ UNCHANGED <<flash, saved>>
  BY DEF Reboot, devicexx_app_load
<1>2. StackInv'
  BY <1>1 DEF StackInv
<1>3. held' = {}
  BY <1>1 DEF held
<1>4. Stack!Cut
  BY <1>1, <1>3 DEF Stack!Cut
<1> QED
  BY <1>2, <1>4 DEF Kind, Stack!Next

LEMMA NextKind ==
  ASSUME IInv, StackInv, [Next]_vars
  PROVE  StackInv' /\ Kind
<1>1. CASE Answers
  <2>1. stage = "run" /\ saved' = saved
    BY <1>1 DEF Answers, WifiCollect, NbCollect, WifiStored, NbStored, Running
  <2>2. \/ UNCHANGED <<flash, stage>>
        \/ \E s, r, w, f : send_flash_mac(s, r, w, f)
    BY <1>1 DEF Answers, WifiCollect, NbCollect, WifiStored, NbStored, read_sector
  <2>3. CASE UNCHANGED <<flash, stage>>
    BY <2>1, <2>3, QuietKind
  <2>4. ASSUME NEW s, NEW r, NEW w, NEW f, send_flash_mac(s, r, w, f)
        PROVE  StackInv' /\ Kind
    BY <2>1, <2>4, SendKind
  <2> QED
    BY <2>2, <2>3, <2>4
<1>2. CASE FlashSteps
  BY <1>2, FlashStepsKind
<1>3. CASE Reboot
  BY <1>3, RebootKind
<1>4. CASE (\E q \in Request : WifiFailed(q)) \/ NoWifi \/ ErrorTail
  BY <1>4, WriteKind DEF WifiFailed, NoWifi, ErrorTail, Running
<1>5. CASE \/ \E i \in Body : Gather(i)
           \/ StartCheckId \/ update_data
           \/ \E q \in Request : NbRefused(q) \/ WifiRefused(q)
  <2>1. stage = "run" /\ stage' = "run" /\ UNCHANGED <<flash, saved>>
    BY <1>5 DEF Gather, StartCheckId, update_data, NbRefused, WifiRefused, Running
  <2> QED
    BY <2>1, QuietKind
<1>6. CASE UNCHANGED vars
  BY <1>6 DEF vars, ram, StackInv, Kind, Seen, held
<1> QED
  BY <1>1, <1>2, <1>3, <1>4, <1>5, <1>6 DEF Next

LEMMA StackAlways == Spec => []StackInv
<1>1. Init => StackInv
  BY DEF Init, StackInv
<1>2. IInv /\ StackInv /\ [Next]_vars => StackInv'
  BY NextKind
<1> QED
  BY <1>1, <1>2, Invariance, PTL DEF Spec

\* The cache implements SectorStack, for every size of records and sectors, every
\* order of answers and failures and every loss of power (write_to_flash,
\* send_flash_mac, sector_upload_done, devicexx_app_load).
THEOREM StackImplemented == Spec => ImplementsStack
<1>1. Init => Stack!Init
  BY DEF Init, Stack!Init, held
<1>2. IInv /\ StackInv /\ [Next]_vars => [Stack!Next]_<<flash, saved.used, saved.flag = 1, held>>
  BY NextKind DEF Kind, Seen
<1> QED
  BY <1>1, <1>2, Invariance, StackAlways, PTL DEF Spec, ImplementsStack, Stack!Spec

\* No step erases or writes a sector below the newest one: what is cached in
\* the older sectors is safe from every handler and from every power failure.
THEOREM OlderSectorsKept == Spec => Stack!OlderKept
<1>1. ASSUME IInv, Kind, NEW i \in 0 .. MaxSector, i < saved.used
      PROVE  flash'[i] = flash[i]
  <2>1. flash \in [0 .. MaxSector -> Seq(Cell)] /\ saved.used \in 0 .. MaxSector
    BY <1>1 DEF IInv, StoreType, Status
  <2>2. i # saved.used
    BY <1>1, <2>1, FlashLogAssumption
  <2>3. flash' = flash \/ \E x : flash' = [flash EXCEPT ![saved.used] = x]
    BY <1>1 DEF Kind, Seen, Stack!Next, Stack!Announce, Stack!NewSector, Stack!Erase,
                Stack!Write, Stack!Cut, Stack!Clear, Stack!Back
  <2> QED
    BY <2>1, <2>2, <2>3
<1>2. IInv /\ StackInv /\ [Next]_vars =>
        [\A i \in 0 .. MaxSector : i < saved.used => (flash')[i] = flash[i]]_<<flash, saved.used>>
  BY <1>1, NextKind
<1> QED
  BY <1>2, Invariance, StackAlways, PTL DEF Spec, Stack!OlderKept
=============================================================================
