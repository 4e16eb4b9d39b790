---------------------------- MODULE AccessPoints ----------------------------
(***************************************************************************)
(* The access points the device hears: scan_done of app/main/platform.c    *)
(* keeps them in scan_inf, puts the anchors of its position back into      *)
(* their places, writes the first of them as text for the server, and      *)
(* decides whether to join the network "qingzhu".  The server answers with *)
(* the anchors to use from then on (get_indoor_position).  The timers that  *)
(* these handlers arm are in DeviceControl.                                *)
(***************************************************************************)
EXTENDS Integers, Sequences, FiniteSets

CONSTANTS
  Bssid,        (* the addresses of the access points, sequences of bytes  *)
  Zero,         (* the address of an empty row, zeros                      *)
  Net,          (* those whose name has "qingzhu" in it                    *)
  Sky,          (* levels in dBm and channels the points may be heard at   *)
  Rows,         (* rows of scan_inf, 128                                   *)
  Reported,     (* rows of apmac_rssi, 6                                   *)
  Anchored,     (* rows the anchors have, 3                                *)
  Shut,         (* what wifi_bad counts to before it goes round, 6         *)
  MaxFailures   (* bound: failed requests between two scans                *)

Byte == 0 .. 255

ASSUME ConstantsAssumption ==
  /\ Rows \in Nat /\ Reported \in 1 .. Rows /\ Anchored \in 1 .. Reported
  /\ Zero \in Seq(Byte) /\ Zero \notin Bssid /\ Net \subseteq Bssid
  /\ \A b \in Bssid : b \in Seq(Byte) /\ Len(b) = Len(Zero)
  /\ Sky \subseteq [Bssid -> [level : -127 .. -1, channel : 1 .. 14]]
  /\ Shut \in Nat \ {0} /\ MaxFailures \in Nat

VARIABLES
  scan_inf,    (* the rows of this scan, and behind them those of earlier ones *)
  apmac_rssi,  (* the rows reported last, or the anchors the server has named  *)
  ap_str,      (* the report as text                                           *)
  scan_qz,
  wifi_bad,
  question,    (* what the server has been asked over NB and has not answered  *)
  heard,       (* history: what the last scan has found                        *)
  joined,      (* history: the last scan has called switch_to_wifi             *)
  missed,      (* history: scans in a row that could have joined and have not  *)
  failures     (* history: failed requests since the last scan or success      *)

table   == <<scan_inf, apmac_rssi, ap_str, heard>>
gate    == <<scan_qz, wifi_bad, joined, missed, failures>>
vars    == <<table, gate, question>>

Slot   == 0 .. Reported - 1
Anchor == 0 .. Anchored - 1
Row    == [mac : Bssid \cup {Zero}, rssi : 0 .. 127, channel : 0 .. 14]
Blank  == [mac |-> Zero, rssi |-> 0, channel |-> 0]

-----------------------------------------------------------------------------
(* The text.                                                               *)

\* The characters of hexadecimal numbers.
Character == 48 .. 57 \cup 65 .. 70

\* A digit that takes letters for figures.
DigitPlain(d) == d + 48

\* A digit of a number in hexadecimal, as the character it is.
Digit(d) == IF d < 10 THEN d + 48 ELSE d + 55

\* Two characters for each byte.
HexText(bytes) ==
  [k \in 1 .. 2 * Len(bytes) |->
     LET b == bytes[(k + 1) \div 2] IN Digit(IF k % 2 = 1 THEN b \div 16 ELSE b % 16)]

\* One row of ap_str: the address, the level and the frequency in MHz.
Text(row) ==
  [mac  |-> HexText(row.mac),
   rssi |-> <<Digit(row.rssi \div 10), Digit(row.rssi % 10)>>,
   freq |-> <<Digit(2), Digit(4), Digit((row.channel + 1) \div 2),
              Digit(((row.channel + 1) % 2) * 5 + 2)>>]

\* What such a text says.
ReadHex(text) ==
  LET value(c) == IF c < 58 THEN c - 48 ELSE c - 55
  IN [k \in 1 .. Len(text) \div 2 |-> value(text[2 * k - 1]) * 16 + value(text[2 * k])]

\* Pairs of digits as numbers.
Pair(n) == [k \in 1 .. Len(n) \div 2 |-> (n[2 * k - 1] * 16 + n[2 * k]) % 256]

\* The digits of a text, of figures only or of figures and letters.
Figures(text) == [k \in DOMAIN text |-> (text[k] - 48) % 256]
Digits(text) ==
  [k \in DOMAIN text |-> IF text[k] < 58 THEN (text[k] - 48) % 256 ELSE (text[k] - 55) % 256]

\* A decoding that takes no character for a letter.
DecodeFigures(text) == Pair(Figures(Pair(Figures(text))))

\* get_indoor_position: figures that stand for characters that stand for bytes.
Decode(text) == Pair(Digits(Pair(Figures(text))))

-----------------------------------------------------------------------------
TypeOK ==
  /\ scan_inf \in [0 .. Rows - 1 -> Row]
  /\ apmac_rssi \in [Slot -> Row]
  /\ DOMAIN ap_str = Slot
  /\ \A r \in Slot : /\ Len(ap_str[r].mac) = 2 * Len(Zero)
                     /\ \A k \in DOMAIN ap_str[r].mac : ap_str[r].mac[k] \in Character
  /\ scan_qz \in {0, 1} /\ wifi_bad \in 0 .. Shut + 2 * MaxFailures
  /\ \A r \in DOMAIN question, k \in 1 .. 4 * Len(Zero) : question[r][k] \in 48 .. 57
  /\ heard \subseteq Row
  /\ joined \in BOOLEAN /\ missed \in 0 .. Shut + 1 /\ failures \in 0 .. MaxFailures

Init ==
  /\ scan_inf = [r \in 0 .. Rows - 1 |-> Blank]
  /\ apmac_rssi = [r \in Slot |-> Blank] /\ ap_str = [r \in Slot |-> Text(Blank)]
  /\ scan_qz = 0 /\ wifi_bad = 0
  /\ question = << >>
  /\ heard = {} /\ joined = FALSE /\ missed = 0 /\ failures = 0

-----------------------------------------------------------------------------
(* The scan.                                                               *)

\* found is the list the SDK hands over, in its order.
Filled(found) ==
  [r \in 0 .. Rows - 1 |-> IF r < Len(found) THEN found[r + 1] ELSE scan_inf[r]]

\* Only the one half of an exchange, or only the other.
CopyOver(t, i, j) == [t EXCEPT ![i] = t[j]]
CopyBack(t, i, j) == [t EXCEPT ![j] = t[i]]

Exchange(t, i, j) == [t EXCEPT ![i] = t[j], ![j] = t[i]]

\* An anchor that has been heard changes places with the row that is in its.
Place(q, i, sum) ==
  LET js == {j \in 0 .. sum - 1 : q[j].mac = apmac_rssi[i].mac}
  IN IF js = {} THEN q ELSE Exchange(q, i, CHOOSE j \in js : \A l \in js : j <= l)

\* One anchor after the other.
Placed(t, sum) ==
  LET p[k \in 0 .. Anchored] == IF k = 0 THEN t ELSE Place(p[k - 1], k - 1, sum)
  IN p[Anchored]

\* A gate that stays shut once it has been shut for long enough.
JoinStuck(qz) ==
  /\ joined' = (qz = 1 /\ wifi_bad = 0)
  /\ wifi_bad' = IF joined' \/ wifi_bad >= Shut THEN wifi_bad ELSE wifi_bad + 1

\* switch_to_wifi is called unless requests have failed; a scan that does not
\* call it counts as well, and the count goes round.
Join(qz) ==
  /\ joined' = (qz = 1 /\ wifi_bad = 0)
  /\ wifi_bad' = IF joined' THEN wifi_bad ELSE IF wifi_bad + 1 > Shut THEN 0 ELSE wifi_bad + 1

\* A scan that fails hands over nothing.
scan_done(found) ==
  LET qz == IF \E k \in DOMAIN found : found[k].mac \in Net THEN 1 ELSE scan_qz
      t  == Placed(Filled(found), Len(found))
  IN /\ scan_inf' = t
     /\ apmac_rssi' = [r \in Slot |-> t[r]]
     /\ ap_str' = [r \in Slot |-> Text(t[r])]
     /\ Join(qz) /\ scan_qz' = 0
     /\ heard' = {found[k] : k \in DOMAIN found} /\ failures' = 0
     /\ missed' = IF qz = 0 \/ wifi_bad = 0 THEN 0
                  ELSE IF missed > Shut THEN missed ELSE missed + 1
     /\ UNCHANGED question

\* What the SDK may find: any points in any order, each once, as strong as they
\* may be.
Found ==
  UNION {{[k \in 1 .. n |-> [mac |-> order[k], rssi |-> -sky[order[k]].level,
                             channel |-> sky[order[k]].channel]] :
            order \in {f \in [1 .. n -> Bssid] : \A a, b \in 1 .. n : f[a] = f[b] => a = b},
            sky \in Sky} : n \in 0 .. Rows}

Scan == \E found \in Found : scan_done(found)

-----------------------------------------------------------------------------
(* The question and its answer.                                            *)

\* The report over NB, its characters in hexadecimal again.
ap_str_ascii_str(connected) ==
  /\ scan_qz' = IF connected THEN 1 ELSE 0
  /\ question' = IF connected THEN question
                 ELSE [r \in 1 .. Reported |-> HexText(ap_str[r - 1].mac)]
  /\ UNCHANGED <<table, wifi_bad, joined, missed, failures>>

\* The server names some of the rows it has been told of, each once.
get_indoor_position ==
  /\ question # << >> /\ question' = << >>
  /\ \E pick \in {f \in [Anchor -> DOMAIN question] :
                     \A a, b \in Anchor : question[f[a]] = question[f[b]] => a = b} :
       apmac_rssi' = [r \in Slot |-> IF r \in Anchor
                        THEN [apmac_rssi[r] EXCEPT !.mac = Decode(question[pick[r]])]
                        ELSE apmac_rssi[r]]
  /\ UNCHANGED <<scan_inf, ap_str, heard, gate>>

\* Check_WifiState, update_data, check_id and receive_ok look whether there is a connection.
Look(connected) ==
  /\ scan_qz' = IF connected THEN 1 ELSE 0
  /\ UNCHANGED <<table, question, wifi_bad, joined, missed, failures>>

-----------------------------------------------------------------------------
(* Requests over Wi-Fi.                                                    *)

\* A failure that the gate does not count.
FailsUncounted(again) ==
  /\ failures < MaxFailures /\ failures' = failures + 1
  /\ scan_qz' = 0 /\ joined' = FALSE /\ missed' = 0
  /\ wifi_bad' = wifi_bad + (IF again THEN 1 ELSE 0)
  /\ UNCHANGED <<table, question>>

\* post_callback is told of a failure, and error_callback counts it again.
Fails(again) ==
  /\ failures < MaxFailures /\ failures' = failures + 1
  /\ scan_qz' = 0 /\ joined' = FALSE /\ missed' = 0
  /\ wifi_bad' = wifi_bad + (IF again THEN 2 ELSE 1)
  /\ UNCHANGED <<table, question>>

\* post_callback with a status of 200.
Succeeds ==
  /\ wifi_bad' = 0 /\ missed' = 0 /\ failures' = 0
  /\ UNCHANGED <<table, question, scan_qz, joined>>

Next ==
  \/ Scan
  \/ get_indoor_position
  \/ \E connected \in BOOLEAN : ap_str_ascii_str(connected) \/ Look(connected)
  \/ \E again \in BOOLEAN : Fails(again)
  \/ Succeeds

Spec == Init /\ [][Next]_vars

-----------------------------------------------------------------------------
(* Properties.                                                             *)

\* What a server reads in a row of the report, by the usual rules.
Reads(row, text) ==
  /\ ReadHex(text.mac) = row.mac
  /\ row.rssi < 100 =>
       (text.rssi[1] - 48) * 10 + (text.rssi[2] - 48) = row.rssi
  /\ row.channel \in 1 .. 13 =>
       text.freq = [k \in 1 .. 4 |->
         48 + (((2407 + 5 * row.channel) \div <<1000, 100, 10, 1>>[k]) % 10)]

\* scan_done loses no access point and adds none: a short scan is in the report
\* as a whole, though it may leave rows of an earlier one there, and a long one
\* fills the report with rows of its own, none of them twice.
HeardReported ==
  heard # {} =>
    /\ Cardinality(heard) <= Reported =>
         \A h \in heard : \E r \in Slot : Reads(h, ap_str[r])
    /\ Cardinality(heard) >= Reported =>
         /\ \A r \in Slot : \E h \in heard : Reads(h, ap_str[r])
         /\ \A r, q \in Slot : ap_str[r].mac = ap_str[q].mac => r = q

\* An anchor that is heard again is in its place in the next report, wherever
\* the scan has it and whatever the places of the others.
AnchorsKept ==
  [][heard' # heard =>
       \A i \in Anchor :
         /\ \E h \in heard' : h.mac = apmac_rssi[i].mac
         /\ \A l \in Anchor : l > i => apmac_rssi[l].mac # apmac_rssi[i].mac
         => apmac_rssi'[i].mac = apmac_rssi[i].mac]_vars

\* The anchors that get_indoor_position takes from an answer are access points
\* of the report that the question was about: the text is read back as the
\* device has written it, through both codings.
AnchorsAsked ==
  [][question # << >> /\ question' = << >> =>
       \A i \in Anchor : \E r \in DOMAIN question :
         apmac_rssi'[i].mac = ReadHex(ReadHex(question[r]))]_vars

\* After a failed request the next scan does not join the network, though it
\* may hear it: failures outlast the scan_qz they clear.
BackOff == [][failures > 0 => ~joined']_vars

\* The gate opens in time: of Shut + 1 scans in a row that hear the network, with
\* no failed request between them, one joins it.
JoinsInTime == missed <= Shut
=============================================================================
