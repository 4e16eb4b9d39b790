---------------------------- MODULE DeviceControl ----------------------------
(***************************************************************************)
(* The control of the device in app/main/devicexx_app.c: the dialogue of   *)
(* AT commands with the NB-IoT modem (at_state, uart_receive, receive_ok,  *)
(* what_do, create_http), the timers that drive it (platform_init sets     *)
(* them up) and the way to a restart.  FlashLog has what the same handlers *)
(* do to the records; here it is one free choice whether records wait.     *)
(*                                                                         *)
(* A handler is a function from the state of the device to the states it   *)
(* may leave behind, because one frame may hold several answers and runs   *)
(* several branches one after the other.  The modem is the environment: it *)
(* answers its commands in order, and reports what happens to it.          *)
(***************************************************************************)
EXTENDS Integers, Sequences, FiniteSets

CONSTANTS
  Unit,          (* milliseconds that one tick stands for                  *)
  MaxGnrmc,      (* GPS sentences before the device moves on, 110          *)
  MaxEvents,     (* bound: refusals, drops, GPS sentences, Wi-Fi   *)
  MaxLine,       (* bound: unanswered commands                             *)
  WifiInRange,   (* whether the access point exists                        *)
  Prompt,        (* whether the modem answers before the next tick         *)
  MayFallSilent, (* whether the modem may stop answering                   *)
  Answers        (* the answers the server may give                        *)

ASSUME ControlAssumption ==
  /\ Unit \in Nat \ {0} /\ MaxGnrmc \in Nat \ {0}
  /\ MaxEvents \in Nat /\ MaxLine \in Nat \ {0}
  /\ WifiInRange \in BOOLEAN /\ Prompt \in BOOLEAN /\ MayFallSilent \in BOOLEAN
  /\ Answers \subseteq {"success", "region", "collectId", "position", "misplaced",
                         "unused", "unknown"}

VARIABLES
  dev,     (* the device, a record: see Device                             *)
  line,    (* the commands the modem has not answered                      *)
  wifi,    (* wifi_station_get_connect_status() = STATION_GOT_IP           *)
  modem,   (* environment: the modem, a record: see Modem                  *)
  events   (* how many of MaxEvents have happened                          *)

vars == <<dev, line, wifi, modem, events>>

Timer == {"check_id", "restart_nb", "err_restart", "upload_data", "delay_update",
          "delay_discon", "scan", "wait_con_wifi", "wait_nb_con", "wifistate"}

\* HTTP_SEND to HTTP_SEND5 await the OK of http_send0 to http_send5.
SendState == <<"HTTP_SEND", "HTTP_SEND1", "HTTP_SEND2", "HTTP_SEND3",
               "HTTP_SEND4", "HTTP_SEND5">>
SendPart  == <<"send0", "send1", "send2", "send3", "send4", "send5", "send6">>
Part      == {SendPart[k] : k \in 1 .. 7}
Sending   == {SendState[k] : k \in 1 .. 6}

\* Commands that use the modem's HTTP client.
ClientUse == Part \cup {"con", "discon", "get_tag", "apmac"}
Command   == ClientUse \cup {"create", "cfun", "zrst", "cesq", "zgrun", "at"}

AtState == Sending \cup {"NONE", "LED", "ZADC", "CCLK", "ZCFUN", "ZOFF", "ZGMODE",
                         "ZGNMEA", "ZGRUN", "HTTP_CON", "WAIT"}

Off == -1   \* a timer that is disarmed

Device ==
  [ up     : BOOLEAN,              (* FALSE: system_restart is under way   *)
    at     : AtState,              (* at_state                             *)
    post   : {"IDLE", "OTA", "CHECK_ID", "AP_MAC"},           (* post_state *)
    dis    : {0, 1},               (* http_dis                             *)
    creat  : {0, 1},               (* creat_flag                           *)
    order  : {0, 2, 3, 4},         (* send_order                           *)
    gps    : {0, 1},               (* get_gps                              *)
    gnrmc  : 0 .. MaxGnrmc,        (* gnrmc_gps_flag                       *)
    left   : [Timer -> Int],       (* ticks until a timer runs out, or Off *)
    reload : [Timer -> Int],       (* the same for its next round, or Off  *)
    scan   : BOOLEAN,              (* a scan is under way                  *)
    sniff  : BOOLEAN,              (* a gathering is under way             *)
    ota    : BOOLEAN,              (* a download is under way              *)
    posts  : BOOLEAN,              (* a request over Wi-Fi is under way    *)
    out    : Seq(Command),         (* what the handler hands to the modem  *)
    last   : Command \cup {"-"},   (* history: the last use of the client  *)
    heard  : BOOLEAN ]             (* history: a frame came since the boot *)

Modem ==
  [ live   : BOOLEAN,
    boot   : {"cpin", "ip", "up"}, (* what it reports next of its start    *)
    radio  : BOOLEAN,
    client : {"none", "closed", "open"},
    owed   : SUBSET {"get_tag", "send6", "apmac"},  (* answers to come     *)
    gnss   : BOOLEAN ]

TypeOK ==
  /\ dev \in Device /\ line \in Seq(Command) /\ wifi \in BOOLEAN
  /\ modem \in Modem /\ events \in 0 .. MaxEvents

\* A timer shorter than a tick may run out at any time before the next one; one
\* that repeats does so once in a tick.
Ticks(ms)  == ms \div Unit
Rounds(ms) == IF ms < Unit THEN 1 ELSE Ticks(ms)

Booted ==
  [ up |-> TRUE, at |-> "NONE", post |-> "CHECK_ID", dis |-> 1, creat |-> 0,
    order |-> 0, gps |-> 0, gnrmc |-> 0,
    left |-> [t \in Timer |-> IF t = "wait_nb_con" THEN Ticks(30000) ELSE Off],
    reload |-> [t \in Timer |-> Off],
    scan |-> FALSE, sniff |-> FALSE, ota |-> FALSE, posts |-> FALSE,
    out |-> << >>, last |-> "-", heard |-> FALSE ]

Reset ==
  [ live |-> TRUE, boot |-> "cpin", radio |-> TRUE, client |-> "none",
    owed |-> {}, gnss |-> FALSE ]

Init ==
  /\ dev = Booted /\ line = << >> /\ wifi = FALSE
  /\ modem = Reset /\ events = 0

-----------------------------------------------------------------------------
(* Timers and commands.                                                    *)

\* os_timer_disarm and os_timer_arm, once or again and again.
Disarm(d, t) == [d EXCEPT !.left[t] = Off, !.reload[t] = Off]
Arm(d, t, ms) == [d EXCEPT !.left[t] = Ticks(ms), !.reload[t] = Off]
Repeat(d, t, ms) == [d EXCEPT !.left[t] = Rounds(ms), !.reload[t] = Rounds(ms)]

queue_uart_send(d, c) ==
  [d EXCEPT !.out = Append(@, c), !.last = IF c \in Part THEN c ELSE IF c \in ClientUse THEN "-" ELSE @]

\* The device sends c and waits in state s.
Ask(d, c, s) == [queue_uart_send(d, c) EXCEPT !.at = s]

delay_power_off(d) == Ask(d, "cfun", "ZCFUN")

\* A what_do that asks for a task and does not leave its state.
WhatDoStays(d) ==
  IF d.order = 0 THEN Arm(d, "check_id", 10000)
  ELSE IF d.order = 2 THEN Ask(d, "send0", "HTTP_SEND")
  ELSE queue_uart_send(d, IF d.order = 3 THEN "apmac" ELSE "get_tag")

\* send_order: 0 nothing yet, 2 the MAC addresses, 3 the access points, 4 a
\* question for a task.
what_do(d) ==
  CASE d.order = 0 -> Arm(d, "check_id", 10000)
    [] d.order = 2 -> Ask(d, "send0", "HTTP_SEND")
    [] d.order = 3 ->
         LET e == Ask(d, "apmac", "WAIT")
             f == IF d.dis = 0 THEN Arm(e, "delay_discon", 20000) ELSE e
         IN Arm(f, "delay_update", 40000)
    [] d.order = 4 -> Ask(d, "get_tag", "WAIT")

\* A create_http that connects a client nobody has created.
CreateUnasked(d, k) ==
  LET e == [Repeat(d, "restart_nb", 180000) EXCEPT !.order = k] IN
  IF k = 0 THEN queue_uart_send(e, "create")
  ELSE IF d.dis = 1 THEN Ask(e, "con", "HTTP_CON") ELSE what_do(e)

create_http(d, k) ==
  LET e == [Repeat(d, "restart_nb", 180000) EXCEPT !.order = k] IN
  IF k = 0 \/ d.creat = 0 THEN queue_uart_send(e, "create")
  ELSE IF d.dis = 1 THEN Ask(e, "con", "HTTP_CON")
  ELSE what_do(e)

http_post(d) == [d EXCEPT !.posts = TRUE]

\* w is whether Wi-Fi has an address.
check_id(d, w) == IF w THEN http_post(d) ELSE create_http(d, 4)

CheckIdNext(d, w) == check_id([d EXCEPT !.post = "CHECK_ID"], w)

http_disc(d) ==
  IF d.dis = 0 THEN [Ask(d, "discon", "WAIT") EXCEPT !.dis = 1] ELSE d

\* A disconnect that does not look whether the connection is open, and counts.
DisconnectCounts(d) == [queue_uart_send(d, "discon") EXCEPT !.dis = @ + 1]

\* The same where the code leaves at_state alone.
Disconnect(d) ==
  IF d.dis = 0 THEN [queue_uart_send(d, "discon") EXCEPT !.dis = 1] ELSE d

get_rssi(d) == queue_uart_send(d, "cesq")

start(d) ==
  LET e == Disarm(Disarm(Disarm(d, "wifistate"), "wait_nb_con"), "scan")
  IN [e EXCEPT !.gnrmc = 0, !.sniff = TRUE]

\* With few addresses there is nothing to upload and the round begins anew.
update_data(d, w) ==
  IF w THEN {http_post(d)}
  ELSE {Ask(d, "at", "ZADC"), create_http(d, 2)}

nbiot_http_post(d) ==
  LET e == Disarm(d, "wifistate")
      f == IF d.gps = 1
             THEN [Arm(e, "upload_data", 21000) EXCEPT !.post = "IDLE"] ELSE e
  IN Arm(f, "scan", 3000)

\* After a gathering the device asks for the quality of the signal.
Deduplication(d) == get_rssi([d EXCEPT !.sniff = FALSE])

\* The device meets its access point and polls until it has an address.
tcp_client_init(d) == Repeat(d, "wifistate", 1000)

\* What send_flash_mac and sector_upload_done may come to: the next record is
\* sent, the sector is done and a task is asked for, or both.  l is
\* connected_wifi.
send_flash_mac(d, w, l) ==
  LET e == CheckIdNext(d, w)
      next(x) == IF l THEN http_post(x) ELSE create_http(x, 2)
  IN {next(d), e, next(e), CheckIdNext(e, w)}

-----------------------------------------------------------------------------
(* receive_ok: what follows the OK of the modem.                           *)

receive_ok(d, w) ==
  CASE d.at = "LED"    -> {Ask(d, "at", "ZADC")}
    [] d.at = "ZADC"   -> {Ask(d, "at", "CCLK"), delay_power_off(d)}
    [] d.at = "CCLK"   ->
         IF w THEN {check_id(IF d.creat = 0 THEN create_http(d, 0) ELSE d, w)}
         ELSE {create_http(d, IF d.creat = 0 THEN 0 ELSE 4)}
    [] d.at = "ZCFUN"  -> {Ask(d, "zrst", "ZOFF")}
    [] d.at = "ZOFF"   -> {[d EXCEPT !.up = FALSE]}
    [] d.at = "ZGMODE" -> {Ask(d, "at", "ZGNMEA")}
    [] d.at = "ZGNMEA" -> {Disconnect(Ask(d, "zgrun", "ZGRUN"))}
    [] d.at = "ZGRUN"  -> {[start(d) EXCEPT !.at = "WAIT"]}
    [] d.at = "HTTP_CON" -> {what_do([d EXCEPT !.dis = 0])}
    [] d.at \in Sending ->
         {IF k < 6 THEN Ask(d, SendPart[k + 1], SendState[k + 1])
          ELSE [Ask(d, SendPart[k + 1], "WAIT") EXCEPT !.gnrmc = 0] :
            k \in {k \in 1 .. 6 : SendState[k] = d.at}}
    [] OTHER -> {d}

-----------------------------------------------------------------------------
(* +EHTTPNMIC: the answers of the server.                                  *)

\* Over NB, update_firmware leaves post_state alone.
update_firmware(d) == {tcp_client_init(d), Repeat(d, "check_id", 120000)}

\* "success": the records that wait come next, or the battery.
Uploaded(d, w) == send_flash_mac(d, w, FALSE) \cup {Ask(d, "at", "ZADC")}

\* A collectId answer that lets a task run with no timer armed.
CollectedUnwatched(d, w) ==
  LET e    == [Arm(d, "err_restart", 240000) EXCEPT !.at = "NONE"]
      task == Ask(Disarm(e, "check_id"), "at", "ZGMODE")
  IN {Disarm(task, "restart_nb")}
       \cup {Repeat(x, "restart_nb", 185000) : x \in update_firmware(e)}

\* "collectId": records come first; else a task starts a gathering, and a
\* device that is not to gather looks for an update.  A task may also be over.
Collected(d, w) ==
  LET e     == Arm(d, "err_restart", 240000)
      idle  == [e EXCEPT !.at = "NONE"]
      task  == Ask(Disarm(idle, "check_id"), "at", "ZGMODE")
      none  == {idle} \cup update_firmware(Disarm(idle, "restart_nb"))
  IN send_flash_mac(e, w, FALSE) \cup send_flash_mac(e, w, WifiInRange)
       \cup {Repeat(x, "restart_nb", 185000) :
               x \in {task, Disconnect(task)} \cup {Disconnect(n) : n \in none}}

\* The position of the access points.
get_indoor_position(d) ==
  [Arm(d, "upload_data", 2000) EXCEPT !.post = "IDLE"]

\* The device is not in use: an update is looked for, then a task again.
Unused(d) ==
  {Repeat(x, "check_id", 120000) : x \in update_firmware(Disarm(d, "restart_nb"))}

\* An answer that the code does not know makes it ask again.
EHTTPNMIC(d, w, answer) ==
  CASE answer = "success"   -> Uploaded(d, w)
    [] answer = "region"    -> {Repeat(d, "check_id", 120000)}
    [] answer = "collectId" -> Collected(d, w)
    [] answer = "position"  -> {get_indoor_position(d)}
    [] answer = "misplaced" -> {Ask(d, "at", "ZGMODE")}
    [] answer = "unused"    -> Unused(d)
    [] OTHER                -> {Ask(d, "get_tag", "WAIT")}

-----------------------------------------------------------------------------
(* uart_receive: a frame is a set of tokens.                               *)

\* A first look at a frame that sets no timer.
ListenIdly(d, w) == [d EXCEPT !.heard = TRUE]

\* Without Wi-Fi every frame puts both timers off.
Listen(d, w) ==
  LET e == [d EXCEPT !.heard = TRUE] IN
  IF w THEN e
  ELSE Repeat(Repeat(e, "check_id", 120000), "restart_nb", 180000)

\* A GPS sentence, with a position or without.  After too many of them the
\* device takes its connection for closed and begins a new round.
GNRMC(d) ==
  LET e == [d EXCEPT !.gnrmc = @ + 1] IN
  {IF d.gnrmc = MaxGnrmc
     THEN [Ask(d, "at", "ZADC") EXCEPT !.gps = g, !.gnrmc = 0, !.dis = 1]
     ELSE [e EXCEPT !.gps = g] : g \in {0, 1}}

\* A refusal that is passed over.
RefusalIgnored(d) == d

\* Whatever command the modem refuses, the device restarts it and itself.
Refused(d) == delay_power_off(d)

\* Many branches blank the buffer that holds the frame, and what else it held
\* is lost.  These are the answers of receive_ok that do: d before, e after.
Blanks(d, e, w) ==
  \/ d.at \in Sending \cup {"LED", "ZCFUN", "ZGMODE", "ZGNMEA", "HTTP_CON"}
  \/ d.at = "ZADC" /\ e.at = "ZCFUN"
  \/ d.at = "CCLK" /\ (d.creat = 0 \/ (~w /\ d.dis = 1))

\* The last two branches, for what is left of the frame.
Rest(d, frame, w, answer) ==
  IF "EHTTPNMIC" \in frame THEN EHTTPNMIC(d, w, answer)
  ELSE IF "GNRMC" \in frame THEN GNRMC(d)
  ELSE {d}

\* The branches in their order.  CPIN and ERROR blank the buffer; IP, EHTTPCREAT
\* and EHTTPERR return, and leave the OK of the same frame unread.
uart_receive(d, frame, w, answer) ==
  LET d1 == Listen(d, w)
      d2 == IF "CESQ" \in frame THEN nbiot_http_post(d1) ELSE d1
  IN IF "CPIN" \in frame THEN {Ask(d2, "at", "WAIT")}
     ELSE IF "IP" \in frame THEN {Ask(Disarm(d2, "wait_nb_con"), "at", "LED")}
     ELSE IF "EHTTPCREAT" \in frame
       THEN {[Ask(d2, "con", "HTTP_CON") EXCEPT !.creat = 1, !.dis = 0]}
     ELSE IF "EHTTPERR" \in frame THEN {[d2 EXCEPT !.dis = 1]}
     ELSE IF "ERROR" \in frame THEN {Refused(d2)}
     ELSE IF "OK" \in frame
       THEN UNION {Rest(e, IF Blanks(d2, e, w) THEN {} ELSE frame, w, answer) :
                     e \in receive_ok(d2, w)}
     ELSE Rest(d2, frame, w, answer)

-----------------------------------------------------------------------------
(* The timers and Wi-Fi.                                                   *)

\* The access point is found, unless Wi-Fi has failed lately.
switch_to_wifi(d) == Disarm(Repeat(d, "wifistate", 1000), "restart_nb")

scan_done(d) ==
  {IF e.gps = 0
     THEN [Arm(e, "wait_con_wifi", 18000) EXCEPT !.post = "AP_MAC"] ELSE e :
       e \in {d} \cup {switch_to_wifi(x) : x \in IF WifiInRange THEN {d} ELSE {}}}

wifi_scan(d) == [d EXCEPT !.scan = TRUE]

ap_str_ascii_str(d, w) == IF w THEN d ELSE create_http(d, 3)

\* The poll ends with an address, or after a while without one.
Check_WifiState(d, w) ==
  LET e == Disarm(Disarm(d, "check_id"), "wifistate") IN
  IF ~w THEN {d, Ask(Disarm(d, "wifistate"), "at", "ZGMODE")}
  ELSE CASE d.post = "OTA"      -> {e, [e EXCEPT !.ota = TRUE]}
         [] d.post = "CHECK_ID" -> {check_id(e, w)}
         [] d.post = "AP_MAC"   -> {http_post(Disarm(e, "wait_con_wifi"))}
         [] d.post = "IDLE"     -> {e}

check_update_firmware(d) ==
  {[tcp_client_init(d) EXCEPT !.post = "OTA"], Arm(d, "check_id", 100000)}

\* The end of a request over Wi-Fi: post_callback, and the failure handling that
\* error_callback repeats after it.  Any answer in JSON ends the watch over the
\* modem.
post_callback(d, w) ==
  LET again(x) == Ask(x, "at", "ZGMODE")
      failed   == {again(d), again(again(d))}
      task     == {d, again(d)} \cup check_update_firmware(d)
      records  == UNION {send_flash_mac(e, w, TRUE) :
                           e \in {d} \cup check_update_firmware(d)}
      other    == update_data(d, w)
                    \cup {CheckIdNext(d, w), CheckIdNext(Disarm(d, "delay_update"), w)}
  IN {d} \cup failed
       \cup {Disarm(e, "restart_nb") : e \in task \cup records \cup other}

Expired(d, t, w) ==
  CASE t = "check_id"      -> {check_id(d, w)}
    [] t \in {"restart_nb", "err_restart"}    -> {delay_power_off(d)}
    [] t \in {"upload_data", "delay_update"}  -> update_data(d, w)
    [] t = "delay_discon"  -> {http_disc(d)}
    [] t = "scan"          -> {wifi_scan(d)}
    [] t = "wait_con_wifi" -> {ap_str_ascii_str(d, w)}
    [] t = "wait_nb_con"   -> {get_rssi(d)}
    [] t = "wifistate"     -> Check_WifiState(d, w)

-----------------------------------------------------------------------------
(* The modem.                                                              *)

CanAccept(c) ==
  CASE c = "create" -> modem.radio
    [] c = "con"    -> modem.radio /\ modem.client # "none"
    [] c \in ClientUse \ {"con"} -> modem.radio /\ modem.client = "open"
    [] c \notin ClientUse \cup {"create"} -> TRUE

Closed(m) == [m EXCEPT !.client = IF @ = "none" THEN @ ELSE "closed"]

Accepted(c) ==
  CASE c = "cfun"   -> [Closed(modem) EXCEPT !.radio = FALSE, !.owed = {}]
    [] c = "zrst"   -> Reset
    [] c = "create" -> [modem EXCEPT !.client = "closed"]
    [] c = "con"    -> [modem EXCEPT !.client = "open"]
    [] c = "discon" -> Closed(modem)
    [] c = "zgrun"  -> [modem EXCEPT !.gnss = TRUE]
    [] c \in {"get_tag", "send6", "apmac"} -> [modem EXCEPT !.owed = {c}]
    [] OTHER        -> modem

\* The modem accepts its next command or refuses it.  A new client may come in
\* one frame with the OK or in two.
Yes(frame, rest) ==
  [ok |-> TRUE, frame |-> frame, modem |-> Accepted(Head(line)), line |-> rest]

Accepts ==
  CASE Head(line) = "create" ->
         {Yes({"EHTTPCREAT", "OK"}, Tail(line)), Yes({"EHTTPCREAT"}, <<"at">> \o Tail(line))}
    [] Head(line) = "cesq" -> {Yes({"CESQ", "OK"}, Tail(line))}
    [] Head(line) = "zrst" -> {Yes({"OK"}, << >>)}
    [] OTHER               -> {Yes({"OK"}, Tail(line))}

Refusal == [ok |-> FALSE, frame |-> {"ERROR"}, modem |-> modem, line |-> Tail(line)]

Replies ==
  IF line = << >> THEN {}
  ELSE {Refusal} \cup {r \in Accepts : CanAccept(Head(line))}

Cost(r) == IF ~r.ok /\ CanAccept(Head(line)) THEN 1 ELSE 0

\* What the modem m may report, unasked: its start, the end of the connection,
\* an answer of the server, a position.
Report(m, token, answer, after, cost) ==
  [frame |-> {token}, answer |-> answer, modem |-> after, cost |-> cost]

Starts(m) ==
  {n \in {Report(m, "CPIN", "-", [m EXCEPT !.boot = "ip"], 0)} : m.boot = "cpin"}
    \cup {n \in {Report(m, "IP", "-", [m EXCEPT !.boot = "up"], 0)} :
            m.boot = "ip" /\ m.radio}

AnswersTo(q) ==
  Answers \cap CASE q = "get_tag" -> {"region", "collectId", "unused", "unknown"}
                 [] q = "send6"   -> {"success", "region", "unknown"}
                 [] q = "apmac"   -> {"position", "misplaced", "unknown"}

Reports(m) ==
  Starts(m)
    \cup {r \in {Report(m, "EHTTPERR", "-", Closed(m), 1)} : m.client = "open"}
    \cup {r \in {Report(m, "GNRMC", "-", m, 1)} : m.gnss}
    \cup UNION {{Report(m, "EHTTPNMIC", a, [m EXCEPT !.owed = @ \ {q}], 0) :
                   a \in AnswersTo(q)} : q \in m.owed}

NoReport(m) == [Report(m, "-", "-", m, 0) EXCEPT !.frame = {}]

-----------------------------------------------------------------------------
(* The steps.                                                              *)

\* The handler ends in state x; rest is what the modem has yet to answer.
HandOver(x, rest) ==
  /\ dev' = [x EXCEPT !.out = << >>]
  /\ line' = IF modem.live THEN rest \o x.out ELSE << >>

\* Room for the commands of one more handler.
Room == dev.up /\ Len(line) < MaxLine

\* The modem answers a command, and may put a report into the same frame; when
\* it is reset it starts only later.
Answered ==
  /\ dev.up /\ modem.live /\ modem.boot # "cpin"
  /\ \E r \in Replies : \E n \in Reports(r.modem) \cup {NoReport(r.modem)} :
       /\ n.frame = {} \/ (Len(r.line) < MaxLine /\ Head(line) # "zrst")
       /\ events + Cost(r) + n.cost <= MaxEvents
       /\ events' = events + Cost(r) + n.cost
       /\ modem' = n.modem
       /\ \E x \in uart_receive(dev, r.frame \cup n.frame, wifi, n.answer) : HandOver(x, r.line)
  /\ wifi' = wifi

Reported(n) ==
  /\ dev.up /\ modem.live
  /\ events + n.cost <= MaxEvents /\ events' = events + n.cost
  /\ modem' = n.modem
  /\ \E x \in uart_receive(dev, n.frame, wifi, n.answer) : HandOver(x, line)
  /\ wifi' = wifi

ModemStarts == \E n \in Starts(modem) : Reported(n)
ModemReports == Room /\ \E n \in Reports(modem) \ Starts(modem) : Reported(n)

\* The modem does not answer any more.
FallSilent ==
  /\ MayFallSilent /\ modem.live
  /\ modem' = [modem EXCEPT !.live = FALSE] /\ line' = << >>
  /\ UNCHANGED <<dev, wifi, events>>

\* The access point grants or takes back an address.
WifiChanges ==
  /\ WifiInRange /\ events < MaxEvents
  /\ wifi' = ~wifi /\ events' = events + 1
  /\ UNCHANGED <<dev, line, modem>>

Expire(t) ==
  /\ Room /\ dev.left[t] = 0
  /\ \E x \in Expired([dev EXCEPT !.left[t] = dev.reload[t]], t, wifi) : HandOver(x, line)
  /\ UNCHANGED <<wifi, modem, events>>

\* Other requests may still be under way.
PostEnds ==
  /\ Room /\ dev.posts
  /\ \E b \in BOOLEAN :
       \E x \in post_callback([dev EXCEPT !.posts = b], wifi) : HandOver(x, line)
  /\ UNCHANGED <<wifi, modem, events>>

\* The scan is over: a gathering does not stop it.
Scanned ==
  /\ Room /\ dev.scan
  /\ \E x \in scan_done([dev EXCEPT !.scan = FALSE]) : HandOver(x, line)
  /\ UNCHANGED <<wifi, modem, events>>

\* The sniffer is done; the device leaves the access point.
Gathered ==
  /\ Room /\ dev.sniff
  /\ HandOver(Deduplication(dev), line)
  /\ wifi' = FALSE /\ UNCHANGED <<modem, events>>

ota_finished_callback ==
  /\ Room /\ dev.ota
  /\ HandOver(delay_power_off([dev EXCEPT !.ota = FALSE]), line)
  /\ UNCHANGED <<wifi, modem, events>>

\* The restart of the device leaves the modem as it is: PIN_POWER stays high.
Restart ==
  /\ ~dev.up
  /\ dev' = Booted /\ wifi' = FALSE
  /\ UNCHANGED <<line, modem, events>>

\* No timer that has run out waits for the next tick, and no scan takes as long.
Tick ==
  /\ dev.up /\ ~dev.scan /\ \A t \in Timer : dev.left[t] # 0
  /\ Prompt /\ modem.live => line = << >>
  /\ dev' = [dev EXCEPT !.left = [t \in Timer |-> IF @[t] = Off THEN Off ELSE @[t] - 1]]
  /\ UNCHANGED <<line, wifi, modem, events>>

Next ==
  \/ Answered \/ ModemStarts \/ ModemReports \/ FallSilent
  \/ \E t \in Timer : Expire(t)
  \/ WifiChanges \/ PostEnds \/ Scanned \/ Gathered \/ ota_finished_callback
  \/ Restart \/ Tick

Spec == Init /\ [][Next]_vars

\* Time passes, timers run out, a scan, a gathering and a restart end, and a modem that
\* has not fallen silent starts and answers.
Fairness ==
  /\ WF_vars(Tick) /\ WF_vars(\E t \in Timer : Expire(t))
  /\ WF_vars(Scanned) /\ WF_vars(Gathered) /\ WF_vars(Restart)
  /\ WF_vars(Answered) /\ WF_vars(ModemStarts)

FairSpec == Spec /\ Fairness

-----------------------------------------------------------------------------
(* Properties.                                                             *)

\* The seven parts of an upload reach the modem one after the other: while the
\* device waits to send the next part, it has not used the HTTP client for
\* anything else, whatever timer or report came in between.
Contiguous ==
  \A k \in 1 .. 6 : dev.at = SendState[k] => dev.last = SendPart[k]

\* A client that the modem has not reported is never taken for connected or
\* connecting.
CreatedFirst ==
  dev.dis = 0 \/ dev.at \in Sending \cup {"HTTP_CON"} => dev.creat = 1

\* Without an access point, and once the modem has spoken, a question for a
\* task or a restart is always to come.
Attended ==
  ~WifiInRange /\ dev.heard =>
    dev.left["check_id"] # Off \/ dev.left["restart_nb"] # Off

\* A device that takes its HTTP client for created, though the modem has lost
\* it in a restart of its own, finds out and creates it anew, possibly by a
\* restart of its own.
ClientRecovered ==
  dev.creat = 1 /\ modem.client = "none" ~> dev.creat = 0 \/ modem.client # "none"

\* Over NB alone, the device asks its server again and again, or restarts.
Asking == \E i \in DOMAIN line : line[i] \in {"get_tag", "apmac"} \cup Part
KeepsAsking == []<>(Asking \/ ~dev.up)

\* "restart when no data has been received for three minutes"
SilenceRestarts == dev.heard /\ ~modem.live ~> ~dev.up
=============================================================================
