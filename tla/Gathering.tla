------------------------------ MODULE Gathering ------------------------------
(***************************************************************************)
(* What becomes of the addresses the device has gathered, and what its     *)
(* lamps show meanwhile.  The sniffer fills sta_str; Deduplication removes *)
(* what the sectors in flash hold; update_data and send_flash_mac copy the *)
(* rest into a text of fixed length that str_ascii_str cuts into the parts *)
(* of an upload over NB.  start, the answers and the GPS sentences set the *)
(* lamps, which share a register with the modem's power (devicexx_io.c).   *)
(* FlashLog has the cache in its details, and DeviceControl the dialogue.  *)
(***************************************************************************)
EXTENDS Integers, Sequences, FiniteSets

CONSTANTS
  Address,     (* addresses of other devices                               *)
  Older,       (* in a text, anything but an address of this upload: what  *)
               (* one before it has left there, zeros, or digits of others *)
  Task, NoTask,
  First, Each, Parts, Last,
               (* addresses in the first part of an upload, in each of the *)
               (* following and in the last: 3, 19, 5 and 2                *)
  MaxSectors,  (* sectors of the cache, 1010                               *)
  Room,        (* bound: records in a sector                               *)
  MaxRounds    (* bound: gatherings and restarts                           *)

\* Addresses that sta_str has room for.
Cells == First + Each * Parts + Last

\* A row without an address.
Empty == "empty"

ASSUME ConstantsAssumption ==
  /\ Older \notin Address /\ Empty \notin Address /\ NoTask \notin Task
  /\ First \in Nat \ {0} /\ Each \in Nat \ {0} /\ Parts \in Nat /\ Last \in Nat \ {0}
  /\ MaxSectors \in Nat \ {0} /\ Room \in Nat \ {0} /\ MaxRounds \in Nat

VARIABLES
  gathering,      (* the sniffer runs                                      *)
  sta_str,        (* the addresses in it                                   *)
  cut,            (* the comma behind the last of Cells addresses is gone  *)
  tag,            (* parameter_tag                                         *)
  sector_tag_id,  (* a literal of Deduplication that it writes to          *)
  sectors,        (* the records in flash, sector by sector                *)
  test_str,       (* the record to store or to send                        *)
  due,            (* upload_data runs                                      *)
  sent,           (* the upload that is not answered yet                   *)
  late,           (* in all_str of each function, the addresses at its     *)
                  (* beginning that stand one character late               *)
  led_state, state,
  ticking,        (* devicexx_io_led_timer runs                            *)
  pins,           (* the output register, as far as pins are used          *)
  get_gps,
  rounds

list  == <<gathering, sta_str, cut, tag, sector_tag_id>>
cache == <<sectors, test_str>>
link  == <<due, sent, late>>
lamp  == <<led_state, state, ticking, pins>>
vars  == <<list, cache, link, lamp, get_gps, rounds>>

Elements(s) == {s[k] : k \in DOMAIN s}
Record == [task : Task \cup {NoTask}, macs : Seq(Address), cut : BOOLEAN]
None   == [link |-> "none", macs |-> << >>, text |-> << >>, late |-> 0]
Text   == {"update_data", "send_flash_mac"}

PIN_LED_S == 5
PIN_POWER == 9
PIN_GPS_S == 10
Pin == {PIN_LED_S, PIN_POWER, PIN_GPS_S}

TypeOK ==
  /\ gathering \in BOOLEAN /\ due \in BOOLEAN /\ ticking \in BOOLEAN
  /\ sta_str \in Seq(Address) /\ Len(sta_str) <= Cells
  /\ cut \in BOOLEAN /\ (cut => Len(sta_str) = Cells)
  /\ tag \in Task \cup {NoTask} /\ sector_tag_id \in Task \cup {NoTask}
  /\ Len(sectors) \in 1 .. MaxSectors
  /\ \A s \in DOMAIN sectors : \A k \in DOMAIN sectors[s] : sectors[s][k] \in Record
  /\ test_str \in Record
  /\ sent.link \in {"none", "nb", "wifi"} /\ sent.macs \in Seq(Address)
  /\ Elements(sent.text) \subseteq Address \cup {Older}
  /\ late \in [Text -> 0 .. Cells] /\ sent.late \in 0 .. Cells
  /\ led_state \in {0, 1, 5} /\ state \in {0, 255}
  /\ pins \in [Pin -> {0, 1}] /\ get_gps \in {0, 1}
  /\ rounds \in 0 .. MaxRounds

-----------------------------------------------------------------------------
(* The lamps.                                                              *)

\* The pins that bits has a one for, shifted to gpio.
Ones(gpio, bits) ==
  CASE bits = 0 -> {} [] bits = 1 -> {gpio} [] bits = 255 -> gpio .. gpio + 7

\* A GPIO_OUTPUT_SET whose complement is not cut to the one pin.
OutputClears(p, gpio, bits) ==
  [i \in Pin |-> IF i \in Ones(gpio, bits) THEN 1 ELSE IF i >= gpio THEN 0 ELSE p[i]]

\* A byte may set seven pins above its own, but clears no other.
GPIO_OUTPUT_SET(p, gpio, bits) ==
  [i \in Pin |-> IF i \in Ones(gpio, bits) THEN 1 ELSE IF i = gpio THEN 0 ELSE p[i]]

\* From the timer, and from start and the answers with a new led_state.  State
\* 5 leaves the lamp dark and the timer disarmed.
devicexx_io_led_timer_tick(led) ==
  /\ led_state' = led /\ state' = 255 - state
  /\ pins' = CASE led = 1 -> GPIO_OUTPUT_SET(pins, PIN_LED_S, state')
               [] led = 5 -> GPIO_OUTPUT_SET(pins, PIN_LED_S, 0)
               [] OTHER   -> pins
  /\ ticking' = (led # 5)

LedTimer ==
  /\ ticking /\ devicexx_io_led_timer_tick(led_state)
  /\ UNCHANGED <<list, cache, link, get_gps, rounds>>

\* A GPS sentence; the lamp of the fix is lit by a low pin.
GNRMC(fix) ==
  /\ get_gps' = fix
  /\ pins' = GPIO_OUTPUT_SET(pins, PIN_GPS_S, 1 - fix)
  /\ UNCHANGED <<list, cache, link, led_state, state, ticking, rounds>>

-----------------------------------------------------------------------------
(* The gathering.                                                          *)

\* The sniffer's list begins anew.
start ==
  /\ rounds < MaxRounds /\ rounds' = rounds + 1
  /\ ~gathering /\ gathering' = TRUE /\ sta_str' = << >> /\ cut' = FALSE
  /\ devicexx_io_led_timer_tick(1)
  /\ UNCHANGED <<tag, sector_tag_id, cache, link, get_gps>>

\* The sniffer hears an address that is not in its list.
Sniff ==
  /\ gathering /\ Len(sta_str) < Cells
  /\ \E a \in Address \ Elements(sta_str) : sta_str' = Append(sta_str, a)
  /\ UNCHANGED <<gathering, cut, tag, sector_tag_id, cache, link, lamp, get_gps, rounds>>

\* A table copied with its empty rows.
AllRows(rows) == rows

\* The rows of a table up to the first empty one, where os_strlen ends.
UpToHole(rows) ==
  [c \in {k \in 1 .. Cells : \A j \in 1 .. k : rows[j] # Empty} |-> rows[c]]

\* What a comparison writes to sta_str.  The character behind the digits of the
\* last row is always '\0': a list of all the rows loses its last comma.
Compressed(id, rows) ==
  [id |-> id, rows |-> rows, macs |-> UpToHole(rows), cut |-> Len(UpToHole(rows)) = Cells]

\* A comparison that does not look at the task.
ComparedAnyTask(d, sector) ==
  LET held == UNION {Elements(sector[k].macs) : k \in DOMAIN sector}
      rows == [c \in 1 .. Cells |->
                 IF c \in DOMAIN d.macs /\ d.macs[c] \notin held THEN d.macs[c] ELSE d.rows[c]]
  IN Compressed(IF sector = << >> THEN d.id ELSE sector[1].task, rows)

\* What Deduplication does with one sector.  An empty sector leaves the task of
\* the sector before; temp_cache_ap keeps what earlier sectors have left in it.
Compared(d, sector) ==
  LET id   == IF sector = << >> THEN d.id ELSE sector[1].task
      held == UNION {Elements(sector[k].macs) : k \in DOMAIN sector}
      rows == [c \in 1 .. Cells |->
                 IF c \in DOMAIN d.macs /\ d.macs[c] \notin held THEN d.macs[c] ELSE d.rows[c]]
  IN IF id # tag THEN [d EXCEPT !.id = id] ELSE Compressed(id, rows)

Deduplicated ==
  LET d[s \in 0 .. Len(sectors)] ==
        IF s = 0 THEN [id |-> sector_tag_id, rows |-> [c \in 1 .. Cells |-> Empty],
                       macs |-> sta_str, cut |-> cut]
        ELSE Compared(d[s - 1], sectors[s])
  IN d[Len(sectors)]

\* The sniffer's time is over.  get_rssi asks for the signal, and its answer
\* makes nbiot_http_post arm upload_data.
Deduplication ==
  /\ gathering /\ gathering' = FALSE
  /\ sta_str' = Deduplicated.macs /\ cut' = Deduplicated.cut
  /\ sector_tag_id' = Deduplicated.id
  /\ test_str' = [task |-> tag, macs |-> sta_str', cut |-> cut']
  /\ due' = TRUE
  /\ UNCHANGED <<tag, sectors, sent, late, lamp, get_gps, rounds>>

\* save_stakid, from an answer of the server.
save_stakid(t) ==
  /\ tag' = t
  /\ UNCHANGED <<gathering, sta_str, cut, sector_tag_id, cache, link, lamp, get_gps, rounds>>

-----------------------------------------------------------------------------
(* The text of an upload over NB, two characters for a byte.               *)

\* Where the text of address c begins, behind the 151 bytes before the first.
Begin(c) == 302 + 26 * (c - 1)

\* Copies whose following parts begin behind the comma of the first.
CopiesLate(k) ==
  CASE k = 0     -> [from |-> 0, to |-> Begin(First + 1) - 2]
    [] k > Parts -> [from |-> Begin(Cells - Last + 1), to |-> Begin(Cells + 1) - 2]
    [] OTHER     -> [from |-> Begin(First + Each * (k - 1) + 1) + 2, to |-> Begin(First + Each * k + 1)]

\* What str_ascii_str copies into part k.  The templates of the first and the
\* last end with the comma or the quotation mark that is not copied.
Copies(k) ==
  CASE k = 0     -> [from |-> 0, to |-> Begin(First + 1) - 2]
    [] k > Parts -> [from |-> Begin(Cells - Last + 1), to |-> Begin(Cells + 1) - 2]
    [] OTHER     -> [from |-> Begin(First + Each * (k - 1) + 1), to |-> Begin(First + Each * k + 1)]

\* The character at place p is in a part.
Copied(p) == \E k \in 0 .. Parts + 1 : Copies(k).from <= p /\ p < Copies(k).to

\* All digits of address c are sent, and no other digit stands before them: the
\* text begins with one if its addresses are late, and before the first one that
\* is not late stands the last digit of one that is.
Alone(c, shifted) ==
  LET at == Begin(c) + (IF c <= shifted THEN 2 ELSE 0)
  IN /\ \A p \in at .. at + 23 : Copied(p)
     /\ c = 1 => shifted = 0
     /\ shifted > 0 /\ c = shifted + 1 => ~Copied(Begin(c) - 2)

\* What of a text is sent, in which so many addresses are late.
str_ascii_str(text, shifted) ==
  [c \in 1 .. Cells |-> IF Alone(c, shifted) THEN text[c] ELSE Older]

\* all_str: the list at its end.  It is a literal that is written to, and
\* before the list is what an upload before has left there.
Padded(macs) ==
  [c \in 1 .. Cells |->
     IF c > Cells - Len(macs) THEN macs[c - (Cells - Len(macs))] ELSE Older]

\* The addresses that are late then: a list without its last comma ends where
\* the text ends, too.
Shifted(macs, c, before) ==
  IF c THEN Cells ELSE IF before < Cells - Len(macs) THEN before ELSE Cells - Len(macs)

\* An upload of these addresses.
Upload(l, macs, shifted) ==
  [link |-> l, macs |-> macs,
   text |-> IF l = "nb" THEN str_ascii_str(Padded(macs), shifted) ELSE macs,
   late |-> IF l = "nb" THEN shifted ELSE 0]

-----------------------------------------------------------------------------
(* Uploads.                                                                *)

\* Function f sends a list.
Send(f, l, macs, c) ==
  LET shifted == Shifted(macs, c, late[f])
  IN /\ late' = IF l = "nb" THEN [late EXCEPT ![f] = shifted] ELSE late
     /\ sent' = Upload(l, macs, shifted)

update_data(l) ==
  /\ due /\ due' = FALSE
  /\ IF l = "nb" /\ sta_str = << >>
       THEN devicexx_io_led_timer_tick(5) /\ UNCHANGED <<sent, late>>
       ELSE Send("update_data", l, sta_str, cut) /\ UNCHANGED lamp
  /\ UNCHANGED <<list, cache, get_gps, rounds>>

AllDone == sectors = << << >> >>
Newest  == sectors[Len(sectors)]

\* A record of the newest sector, or the one in memory; FlashLog says which.
\* Over NB its addresses go to sta_str on the way.
send_flash_mac(l, record) ==
  /\ test_str' = record /\ Send("send_flash_mac", l, record.macs, record.cut)
  /\ IF l = "nb" THEN sta_str' = record.macs /\ cut' = record.cut ELSE UNCHANGED <<sta_str, cut>>

\* The cache is read when the server has been asked for a task.
read_sector(l) ==
  /\ ~AllDone
  /\ \E record \in Elements(Newest) \cup {test_str} : send_flash_mac(l, record)
  /\ UNCHANGED <<gathering, tag, sector_tag_id, sectors, due, lamp, get_gps, rounds>>

\* The newest sector has been sent.
sector_upload_done ==
  /\ ~AllDone
  /\ sectors' = IF Len(sectors) = 1 THEN << << >> >> ELSE SubSeq(sectors, 1, Len(sectors) - 1)
  /\ UNCHANGED <<list, test_str, link, lamp, get_gps, rounds>>

\* {"des":"success"} over NB puts the lamp out when nothing is in flash.
Stored ==
  /\ sent # None /\ sent' = None
  /\ IF sent.link = "nb" /\ AllDone THEN devicexx_io_led_timer_tick(5) ELSE UNCHANGED lamp
  /\ UNCHANGED <<list, cache, due, late, get_gps, rounds>>

\* No task, or outside its region: the answer to any request over NB.
Refused ==
  /\ sent.link # "wifi" /\ sent' = None
  /\ devicexx_io_led_timer_tick(5)
  /\ UNCHANGED <<list, cache, due, late, get_gps, rounds>>

\* Any request over Wi-Fi fails: write_to_flash puts test_str behind the records
\* of the newest sector or, when it does not fit, into the next one.  The last
\* sector is written over.
Failed ==
  /\ sent.link # "nb" /\ sent' = None
  /\ sta_str # << >>
  /\ \/ /\ Len(Newest) < Room
        /\ sectors' = [sectors EXCEPT ![Len(sectors)] = Append(@, test_str)]
     \/ /\ Newest # << >> /\ Len(sectors) < MaxSectors
        /\ sectors' = Append(sectors, <<test_str>>)
     \/ /\ Newest # << >> /\ Len(sectors) = MaxSectors
        /\ sectors' = [sectors EXCEPT ![MaxSectors] = <<test_str>>]
  /\ UNCHANGED <<list, test_str, due, late, lamp, get_gps, rounds>>

-----------------------------------------------------------------------------
\* devicexx_io_init sets the pins and ticks once.
Init ==
  /\ gathering = FALSE /\ sta_str = << >> /\ cut = FALSE /\ sector_tag_id = NoTask
  /\ test_str = [task |-> NoTask, macs |-> << >>, cut |-> FALSE]
  /\ due = FALSE /\ sent = None /\ late = [f \in Text |-> 0]
  /\ led_state = 0 /\ state = 255 /\ ticking = TRUE
  /\ pins = [i \in Pin |-> IF i = PIN_LED_S THEN 0 ELSE 1] /\ get_gps = 0
  /\ sectors = << << >> >> /\ tag = NoTask /\ rounds = 0

\* The cache and the task are in flash.
Restart ==
  /\ rounds < MaxRounds /\ rounds' = rounds + 1
  /\ gathering' = FALSE /\ sta_str' = << >> /\ cut' = FALSE /\ sector_tag_id' = NoTask
  /\ test_str' = [task |-> NoTask, macs |-> << >>, cut |-> FALSE]
  /\ due' = FALSE /\ sent' = None /\ late' = [f \in Text |-> 0]
  /\ led_state' = 0 /\ state' = 255 /\ ticking' = TRUE
  /\ pins' = [i \in Pin |-> IF i = PIN_LED_S THEN 0 ELSE 1] /\ get_gps' = 0
  /\ UNCHANGED <<sectors, tag>>

Next ==
  \/ LedTimer \/ \E fix \in {0, 1} : GNRMC(fix)
  \/ start \/ Sniff \/ Deduplication \/ \E t \in Task : save_stakid(t)
  \/ \E l \in {"nb", "wifi"} : update_data(l) \/ read_sector(l)
  \/ sector_upload_done \/ Stored \/ Refused \/ Failed
  \/ Restart

Spec == Init /\ [][Next]_vars

-----------------------------------------------------------------------------
(* Properties.                                                             *)

Gathered == gathering /\ ~gathering' /\ due'

\* The longest beginning of macs with none of these addresses in it.
Before(macs, these) ==
  SubSeq(macs, 1, Cardinality({k \in DOMAIN macs : \A j \in 1 .. k : macs[j] \notin these}))

\* Of all the sectors Deduplication goes through, only the oldest one of the
\* task has an effect, and it cuts the list at the first address it holds: what
\* the sectors after it hold is gathered and sent again.
OldestCounts ==
  [][Gathered =>
       LET mine == {s \in DOMAIN sectors : sectors[s] # << >> /\ sectors[s][1].task = tag}
       IN sta_str' =
            IF mine = {} THEN sta_str
            ELSE LET oldest == CHOOSE s \in mine : \A r \in mine : s <= r
                 IN Before(sta_str, UNION {Elements(sectors[oldest][k].macs) :
                                            k \in DOMAIN sectors[oldest]})]_vars

\* Address k of an upload arrives: it is in its place, at the end of the text.
Arrives(upload, k) ==
  upload.text[Len(upload.text) - Len(upload.macs) + k] = upload.macs[k]

\* The addresses of an upload, whatever their number, are sent one by one and in
\* order, with three exceptions over NB.  Of a full list without its last comma
\* the parts lose a digit of number First and of the last, and the first has a
\* zero before it.  And while the text has something left of such a list, the
\* first address of a shorter one may run into it.
UploadWhole ==
  \A k \in DOMAIN sent.macs :
    \/ Arrives(sent, k)
    \/ k = 1 /\ sent.late > 0
    \/ k \in {First, Cells} /\ sent.late = Cells

\* The lamps share a register: no blink of the one takes the modem's power, or
\* lights the lamp of the GPS fix when there is none.
PinsKept == pins[PIN_POWER] = 1 /\ (pins[PIN_GPS_S] = 0 => get_gps = 1)

\* What Deduplication is for: of the addresses it has found, those that no
\* record of the task in flash has are kept.
NewKept ==
  [][Gathered =>
       \A a \in Elements(sta_str) :
         (\A s \in DOMAIN sectors : \A k \in DOMAIN sectors[s] :
            sectors[s][k].task = tag => a \notin Elements(sectors[s][k].macs))
         => a \in Elements(sta_str')]_vars
=============================================================================
