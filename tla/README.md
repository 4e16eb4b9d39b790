# Verification of vkt-wifiprobe

TLA+ models of the firmware of a Wi-Fi probe (ESP8266, non-OS SDK), the TLC
configurations that check them on small instances and TLAPS proofs of what
matters most for every instance.

## The system

The device listens for Wi-Fi stations nearby ("a gathering"), and uploads the MAC
addresses it saw with time, task and position. It reaches its server over Wi-Fi
(`httpclient.c`) or over an NB-IoT modem that it drives with AT commands on UART0
(`uart.c`, `queue_uart.c`, `devicexx_app.c`); the modem also gives time and GPS
position. Records it cannot upload are cached in flash and sent later.

Everything runs on the SDK's event loop: timers, network callbacks and posted
events run to completion, one at a time. Only interrupt handlers and the hardware
step in between, and only a loss of power cuts a handler short.

| part | state | operations | interacts by |
|---|---|---|---|
| UART0 driver, `app/driver/uart.c` | FIFO, interrupt raw/enable bits, event queue | `uart0_rx_intr_handler`, `uart_recvTask`, interrupt enable/disable | hardware, `system_os_post`, a callback per byte |
| Frame queue, `app/main/queue_uart.c` | buffer, index, one-shot timer | `queue_uart_input`, timer tick, register | byte callback in, frame callback out |
| AT machine, `devicexx_app.c` `uart_receive`, `receive_ok` | `at_state`, `post_state`, a dozen flags | one branch per modem answer | frames in, AT commands out, timers |
| Record cache, `devicexx_app.c` | sectors, `local_system_status`, `sector_str`, cursor, `test_str` | `write_to_flash`, `send_flash_mac`, `read_sector`, `sector_upload_done`, `app_save` | called by the AT machine and the HTTP callbacks |
| Gathering and dedup, sniffer library, `Deduplication`, `str_ascii_str` | `sta_str`, literals used as buffers | drop addresses the cache has, build a record, cut it into parts | reads the flash, starts the upload |
| HTTP client, `httpclient.c` | a heap record per request, `http_parallel` | one function per espconn callback | espconn down, user callback up |
| Wi-Fi poll and OTA, `tcpclient.c` | `checkTimer_wifistate`, `wifi_state`, `post_state` | `Check_WifiState`, `post_callback` | makes HTTP requests, caches on failure |
| Clock and settings, `devicexx_app.c` | decimal time stamp, task id, version | `resolution_times`, `update_timestamp`, `save_stakid`, save and load | RTC, flash |
| Firmware update, `devicexx_app.c` | flags | `check_update_firmware`, `update_firmware`, `ota_start_upgrade` | server answers, SDK upgrade |
| Scan and platform, `platform.c` | tables of access points, `wifi_bad`, timers | `scan_done`, `get_indoor_position`, `platform_init` | SDK scan, answers of the server |
| Status LED, `app/main/devicexx_io.c` | `led_state`, a timer, three pins of one output register | set a state, tick | called by the start of a gathering and by answers; shares the register with the modem's power and the GPS lamp |
| Keys, I2C, OLED | debounce timers, pins | interrupts | used by nothing in the build |
| Tools, `tools/` | - | `gen_appbin.py` lays out the image | host side |

What makes it hard: wake-ups that may be lost between interrupt and task; frames cut
by time and by length; three copies of a record (memory, sector buffer, flash) with
one cursor; loss of power between two flash operations and in the middle of a download;
failure callbacks that run twice; unlimited parallel requests over one set of globals;
tables that are changed in place while they are searched, literals that are written to and
outlive the call, and numbers kept as decimal digits or in a byte. `PROJECT.json` lists
each hazard at its line.

Hazards that are matters of the linked image, the chip or the server, and no behaviour a
model could show, are these: sectors 518 + 0 .. 1009 reach beyond the flash and over the
SDK's and the program's own parameter sectors; the searches for the first erased byte of a
sector, for the end of the list in `sta_str` and for the end of a scan in `scan_inf` have no
bound of their own; `get_host_byname` frees the request it hands to an asynchronous
question; the last part of an upload ends with the template's own `fixedId`.

## Modules

| module | models | abstraction it implements |
|---|---|---|
| `QueueUart` | `queue_uart.c` | - |
| `UartLink` (extends `QueueUart`) | `uart.c`, receive side | `ByteChannel` |
| `FlashLog`, `MCFlashLog` | the record cache and the upload protocol around it | `SectorStack` |
| `DeviceControl` | `uart_receive`, `receive_ok`, the timers, Wi-Fi poll and way to a restart | - |
| `HttpClient` | `httpclient.c`, `Check_WifiState`, `switch_to_wifi` | `HttpPromise` |
| `Settings`, `MCSettings` | the saved status, the clock, versions and the download | `Upgrades`; the usual calendar (`Seconds`) |
| `AccessPoints`, `MCAccessPoints` | `scan_done`, `get_indoor_position`, the gate to Wi-Fi | reading the text by the usual rules (`Reads`) |
| `Gathering`, `MCGathering` | `Deduplication`, `str_ascii_str`, the lamps | - |
| `UartLink_proofs`, `FlashLog_proofs`, `DeviceControl_proofs`, `HttpClient_proofs`, `Settings_proofs`, `AccessPoints_proofs`, `Gathering_proofs` | theorems | - |
| `Recursion` | nothing of the program: induction, and what a recursive function returns | - |

The modules share no variables. Where two of them have the same handler, each has what
the handler does to its own state and leaves the rest free: `update_data` is a timer and
commands in `DeviceControl`, a record and a request in `FlashLog`, a list and a text in
`Gathering`.

A few definitions in the modules are marked as faulty variants ("A tick that forgets
...", "An upload that ..."). Nothing uses them: they are what a plausible bug would make
of the definition after them, kept to show that each property would notice.

### UartLink over QueueUart

`uart_recvTask` is split at each byte (`uart_recvTaskStart`, `uart_recvTaskByte`,
`uart_recvTaskDone`), because bytes and interrupts come in between; the one-shot timer
and the frame callback run between tasks. The hardware is external: bytes arrive, FULL,
TOUT and OVF are raised. `accepted`, `out` and `quiet` are history.

The build has `UART_BUFF_EN` 0 and a FULL threshold of `256 & 0x7F` = 0; both are
parameters here. The FRM_ERR and TXFIFO_EMPTY branches of the handler change nothing of
the receive path.

### FlashLog

One handler is one step, except that it is cut after each flash operation (`stage`), so
`Reboot` can strike there. A sector is the sequence of its non-erased cells; a record is
a header cell (the flag and the four digits of length) and a body of `Size[id]` cells.
What the code reads at a cursor that landed inside a body is arbitrary, as are the digits
there. Abstractions worth knowing:

* `at_state` has three values: `ZGMODE` (a gathering is starting), `ZADC` (battery check,
  which ends in `check_id`), `WAIT`. `upload` is `update_data` due.
* `requests` counts requests in flight by kind and link. Answers come in any order. A
  request that finds no heap is dropped, as `check_id` does when `os_zalloc` fails;
  `MaxRequests` is that limit.
* `wifi_station_get_connect_status` is free at each `check_id`; `Link` says which ways
  exist at all.
* `tail` is the second failure handling of `error_callback` after `disconnect_callback`.
* The '0' that marks a record as sent is written to `sector_str` only. It never reaches
  the flash, unless `write_to_flash` stores that sector again, which re-reads it first.
* `restart_nb`, `err_restart`, a watchdog and a pulled plug are all `Reboot`. The modem
  need not restart with the device: requests over NB may still be answered afterwards.
* `check_id_timer` may run out while requests are in flight (`StartCheckId`), and the poll
  of Wi-Fi may give up in any state (`NoWifi`).
* Answers over Wi-Fi that are not HTTP 200 or not JSON, and the answers of the position
  lookup, change nothing of the cache and are left out.

`SectorStack` is the cache as the flash sees it, without records, links, requests or
cursors: `sectors` is `flash`, `top` and `all_sent` are what a restart would find
(`saved.used`, `saved.flag = 1`), and `held` is what the sector on top had while it is being
rewritten (between `EraseToWrite` and `WriteSector`, all of `sector_str` but its last
`Len(test_str)` cells). It promises that a store writes back every cell the sector had and
only adds behind them, that no step touches a sector below the top (`OlderKept`), that an
upload leaves a sector only when it is empty, and that the stack is said to be empty only at
an empty bottom. What it does not promise is what the code does not do: the last sector is
given up when it is full (`Erase`), and a loss of power between erase and write loses the
sector on top (`Cut`). `Clear` does not ask whether the sector was sent: see finding 1.

### DeviceControl

A handler is a function from the device, a record, to the set of devices it may leave
behind; an action applies one to `dev` and hands its commands (`out`) to the modem. So
`uart_receive` reads like the code: branch after branch over one frame, with its early
returns, and with the buffer blanked half way (`Blanks`), after which the rest of the
frame is lost.

* `left` and `reload` are the SDK's timers in ticks of `Unit` milliseconds. A timer that
  has run out may fire at any moment before the next tick, so timers of 2 to 40 seconds
  fire in any order; those of 120, 180, 185 and 240 seconds keep their distances.
* `line` holds the commands the modem has not answered. The modem answers in order,
  refuses what it cannot do, may refuse what it can, puts a report (start, drop, GPS
  sentence, answer of the server) into the frame of an answer or into its own, restarts
  on `AT+ZRST` alone, and may fall silent. With `Prompt` it answers before the next tick.
* A device that restarts forgets everything but finds the modem as it left it, because
  `PIN_POWER` stays high.
* `last` and `heard` are history. Lack of memory, `HTTP_DESTROY` (entered only if byte 81
  of a text is 1) and the LED are left out; whether records wait is a free choice.

### HttpClient

A request goes idle, dns, connecting, open, closing, freed, one espconn callback per
step. Lengths are counted in TCP segments. A user callback that makes a request of its
own is two steps (see the module). Lack of memory is modelled in `connect_callback`, which
then leaves the connection open with nothing sent, and in `receive_callback`, the two places
that check for it once a request is made. URL parsing, header text and chunk decoding are data.

### Settings

Three parts of one saved record. The stamp is six numbers, each two decimal digits in the
code. `Advance` is `update_timestamp` with its carry in a `uint8`, its leap years and its
one look at the end of the month; `Seconds` is an independent count of the days, with which
`StampTimely` compares. `truth` (the true second), `source` (what the stamp goes back to),
`answered` and `grew` are history. `resolution_times` takes the month it finds, which may
not be the one that was meant. The seconds are counted in RTC memory, which a restart keeps
(`power_on`) and a loss of power leaves as it may be (`Crash`); the base does not survive.

A version is a type and a number. Every answer overwrites both (`Offer`), over Wi-Fi, over
NB and for a device that is bound to nobody (`PostUnbound`), and the comparisons look at the
type, which is 0 in the saved status for ever, and at the number, as a byte over Wi-Fi. An
image has the version it was asked for with and the slot it is linked for. A download erases
the spare slot when it starts and fills it when it ends, so every step may be the last one
before a crash. The SDK refuses a second download and starts the other slot only when its
image is whole. `post_ota` is the poll of Wi-Fi for a download; its timers are in
`DeviceControl`.

`Upgrades` is what a user of the download sees: the saved number, the version in the last
answer, the one in use, the one being fetched and the one that is ready. It maps to
`flash.num`, `offered`, the version in the slot in use (`current`), `file` (`fetching`) and
the image in the spare slot when `update_reboot` is set (`ready`). Time and tasks are
stutters; a second `ota_start_upgrade` gives up what was ready, and one that the SDK refuses
is a stutter too. It promises nothing of the order of versions, because the code enforces
none: `Complete` saves the number that was named last, which may be below the image's. That
it is not, as long as the numbers named never fall (`grew`), is `NeverBehind`.

### AccessPoints

`scan_done` overwrites the first rows of `scan_inf` and leaves the others (`Filled`), moves
each anchor to its place by an exchange with the row that is there (`Place`, once for each
anchor in `Placed`), copies the
first rows to `apmac_rssi` and writes them as text. Addresses are sequences of bytes and
text is digits, because the properties are about them: over NB the text is written in
hexadecimal twice (`ap_str_ascii_str`), the server sends it back, and
`get_indoor_position` decodes it twice. `wifi_bad` and `scan_qz` form the gate in front of
`switch_to_wifi`. Scans stop while there is a GPS fix, so no fairness of theirs is assumed
and `JoinsInTime` counts scans and not time.

### Gathering

`Deduplication` goes through the sectors with a table of rows that is not cleared between
them (`Compared`) and copies it as a string, up to its first empty row (`UpToHole`).
A comparison also writes a '\0' over the comma of the last row, so a full list that has been
compared is one character short (`cut`); records keep it so. `FlashLog` knows where the
cursor is and which record is sent; here any record of the newest sector may be.

An upload over NB is a text of a fixed number of places, two characters for each of its
bytes, that is cut at fixed offsets (`Copies`). The list is copied to its end, so a list
that is one character short stands one character late: `late` is the number of addresses at
the beginning of the text of which that is so. The text is a literal, one for each of
`update_data` and `send_flash_mac`, which keeps what earlier uploads left in it, late
addresses too. `Alone` says when an address arrives: all its digits are in a part, and no
other digit stands before them; whatever else the text has is the one value `Older`. In the
build the text begins with 151 bytes, and `First`, `Each`, `Parts` and `Last` are 3, 19, 5
and 2.

The lamps are pins of one register that `GPIO_OUTPUT_SET` shifts a whole byte into, so a
state of 255 sets seven pins above the lamp's as well (`Ones`).

## Runs

| run | instance | shows |
|---|---|---|
| `uart_link` | FIFO of 3, frames of 3, interval 2, 5 bytes of 2 values, event queue of 2 | `TypeOK`, `OneWakeup`, `BytesInOrder`, `FramesWhole`, `ImplementsChannel`, `EveryByteDelivered` |
| `flash_log` | a record of 1 cell, a body of 2 without new addresses, 2 sectors of 3 cells, both links, 1 request of a kind, 2 faults, 1 restart | `TypeOK`, `NothingHidden`, `SavedCoversFlash`, `ImplementsStack`, `Drained` |
| `device_control` | NB, 2 commands unanswered, a modem that may fall silent, tasks | `Contiguous`, `CreatedFirst`, `Attended` |
| `device_wifi` | an access point, 1 command unanswered, 1 event (a GPS sentence, a refusal, an address granted or lost), positions | `TypeOK` |
| `device_asks` | NB, no faults, liveness, the other answers | `KeepsAsking`, `ClientRecovered` |
| `http_client` | 2 requests, responses of 1 to 3 segments, a buffer of 2 | `TypeOK`, `ParallelCounts`, `ImplementsPromise`, `EveryRequestEnds` |
| `settings` | 2 dates at the ends of a month and a year, gaps of 110 s up to 220 s, a task, number 300 of type 0 and 1 of type 2 in any order, 2 updates, 1 restart | `TypeOK`, `NeverBehind`, `Bootable`, `StampTimely`, `TaskSurvives`, `ImplementsUpgrades` |
| `access_points` | 3 points, 3 rows, 2 reported, 2 anchors, `Shut` 2, 1 failure | `TypeOK`, `HeardReported`, `JoinsInTime`, `AnchorsKept`, `AnchorsAsked`, `BackOff` |
| `gathering` | 3 addresses, lists of 3, sectors of 1 record, 2 sectors, 2 gatherings or restarts | `TypeOK`, `UploadWhole`, `PinsKept`, `OldestCounts` |
| `sent_before_erased` | records with bodies of 1 and 2 cells, sectors of 4, no restart | violated: finding 1 |
| `silence_restarts` | NB, a modem that falls silent | violated: finding 2 |
| `addresses_kept` | as `gathering`, 2 addresses | violated: finding 3 |

Why the bounds are enough.

* UART: with three bytes per FIFO and per frame and five in all, a frame fills while bytes
  wait, the FIFO overflows, a byte comes while the task clears the status bits, and the
  timer cuts a frame.
* Flash: a sector of three cells has room for one record and not for a second, so the
  next sector is taken; one fault caches a record, and the second stores its body without
  the header. A cursor outlives its sector and lands inside a body, in memory and in flash: the body of a
  gathering without new addresses has a second cell for that, with any digits in it. Without
  its exception `Drained` fails in this instance. Each kind of request over each link is in
  flight once at most, which is up to six at a time. Two records and larger sectors
  are in `sent_before_erased`; the theorems about safety cover all sizes and numbers.
* Device: two unanswered commands are enough for a timer's command to overtake the answer
  of another handler; 60 seconds per tick keep 120, 180 and 240 apart (with 120 per tick the
  restart and the question for a task always fall together, and the device shuts the modem
  down for ever: an artefact). `device_wifi` has one command at a time, so timers do not
  interleave with answers there, and one event, so that the limit of GPS sentences without
  a position (`MaxGnrmc`) is not met by TLC; the theorems cover it. The server's answers are spread over the runs.
* HTTP: the buffer holds fewer segments than a response has, and two requests interleave in
  every way.
* Settings: the dates lie before the ends of a leap February and of a year; 110 seconds
  carry into the minute once or twice, and 220 seconds still fit in a byte with the seconds
  of the stamp added or do not (the case the property excludes). The theorem has every date.
  Number 300 is 44 as a byte, an answer of type 2 has a lower number and an unbound device
  reads it as one of type 0, and downloads fit before and after a restart.
* Access points: with as many rows as points every exchange occurs, an anchor in the place
  of another, one that is not heard, and two in each other's places; two reported rows
  leave one out. A `Shut` of 2 lets the count go round, and a failure that counts twice
  goes beyond it.
* Gathering: in two rounds a list is stored and the next compared with it, or a full one
  is compared with an empty or another's sector, loses its comma and is uploaded before a
  shorter one. The texts have one part of each kind; with `First` 1 the exceptions of a full
  list are its first address and its last, and the second arrives. The theorem
  `EveryListWhole` has every length of the parts. `Alike` makes the addresses symmetric, which
  is sound because nothing but their places tells them apart and none of these is a
  liveness property.

Fairness. UART: TOUT is raised while bytes sit in a silent FIFO, an enabled interrupt is
taken, the event loop serves tasks and due timers, the clock runs; nothing is assumed of
arrivals. `FULL` is not assumed fair. Flash: timers expire and the server answers; of
`check_id_timer` it is only assumed that it runs out while no request is in flight or in
`ZADC`; faults are finite because `MaxFaults` bounds them. Device: time passes, timers run
out, scans, gatherings and restarts end, and a modem that is not silent starts and answers;
nothing is assumed of the server. HTTP: a DNS question is answered, an attempt to connect
ends, a connection the device closes is reported closed. Nothing is assumed of a connection
that the server keeps open in silence: no timer of the firmware watches it, hence the
exception in `EveryRequestEnds`. Settings, access points and gathering have no liveness
property: nothing obliges a server to offer a version, or the device to scan or to gather.

`Drained` has an exception, too. A cursor that outlives its sector can land in the body of
another record, where the digits are any. It may be sent round inside that body, by a length
of nothing, for as long as the digits say so: the property allows an execution in which some
cursor is `Astray` for ever, and no other in which the backlog stays.

## Findings

1. **A sector erased unsent** (`SentBeforeErased`). After a gathering is uploaded from
   memory with mac_inrom_flag cleared while records wait in flash, `send_flash_mac` comes
   to the end of the copy in `sector_str` and `sector_upload_done` erases the newest
   sector in flash, which was never read.
2. **Silence does not restart the device** (`SilenceRestarts`). `restart_nb` asks the modem
   to shut down and waits for its answers, and every `check_id` puts it off.
3. **New addresses lost** (`NewKept`). `Deduplication` keeps the addresses that are not in
   flash in rows of their own and copies the table up to its first empty row: whatever comes
   behind the first known address is neither uploaded nor cached. `OldestCounts` says exactly
   what is kept.

Seen on the way, and contradicting no statement of the repository: when the upload of a
cached record fails, `write_to_flash` stores the body without its header, and the next
upload reads `{"ti` as flag and length and drops the rest of the sector; a response over
Wi-Fi is cut after its first segment; an update announced over NB polls Wi-Fi with
`CHECK_ID`, so the download does not start; an answer that names a
lower number during a download has that number saved with the higher image (`devicexx_app.c:240`);
in September the month of a header is not found. And of a
list of a hundred addresses not all are sent once it has been compared with a sector: '\0' is
written over its last comma (2222), the text is aligned by its length (1035) and stands one
character late, and the cuts at fixed places (937-943) send the first address with a zero before
it and drop a digit of the third and of the hundredth. What the text has left of such a list is
run into by the first address of a later, shorter one. `UploadWhole` says that this is all that
is lost.

## Proofs

All theorems hold for every value of the constants that satisfies the modules' ASSUMEs.

* `UartLink_proofs`: the inductive invariant joins `TypeOK`, `OneWakeup`, `BytesInOrder`
  and the link between the task's count and the FIFO (the task never reads more bytes than
  are there) and between `timer` and `quiet`. `FramesWhole` and the refinement of
  `ByteChannel` follow step by step.
* `FlashLog_proofs`: `IInv` is the types of the three groups of variables and `CacheInv`,
  which says at each `stage` what the saved copy of the status may lag behind memory; the
  bare safety properties are not inductive because a handler saves the flag before it
  writes and erases before it saves. One lemma per helper (`UploadDoneStep`,
  `SendFieldStep`, `SendFlashMacStep`, ...) states what it does to these parts, one per
  group of actions puts them together.
  `StackImplemented` (the refinement of `SectorStack`) adds `StackInv`: what a handler has in
  hand at each `stage` - the sector it is going to rewrite, that sector with the record behind
  it, or a status one below a sector that is already erased. `FirstPart` says that what a
  store concatenates can be taken apart again; `WriteKind`, `SendKind`, `FlashStepsKind` and
  `RebootKind` give the step of `SectorStack` that each group of actions maps to.
  `OlderSectorsKept` follows from the same lemma.
* `DeviceControl_proofs`: `IInv` is `TypeOK`, the invariants `Contiguous`, `CreatedFirst`
  and `Attended`, and `Calm`: without an access point no request goes over Wi-Fi and an
  armed `restart_nb` repeats. `Attended` needs it, because both `post_callback` and a
  `restart_nb` that fires once would end the watch; `Contiguous` needs that `at_state`
  leaves `Sending` with every other use of the client. The invariants are predicates of a
  device record, so each handler has a lemma (`ReceiveOk`, `CollectedGood`, `ExpiredGood`,
  `UartReceive`, ...) that it keeps them, and a step cites the lemma of its handler. What
  an answer of the server leads to is covered for every answer, known or not.
* `HttpClient_proofs`: `HInv` adds to `TypeOK` and `ParallelCounts` that a buffer which
  would be taken for a response holds all that has arrived in order (`Unbroken`) and that
  the callback comes last (`NotToldYet`). The refinement of `HttpPromise` needs both.

* `Settings_proofs`, four arguments. The calendar: `Carry` and `Leap` split the sum of
  seconds into digits, `NextMonthCounts` says that turning the month leaves the count of days
  alone, and `AdvanceExact` that `Advance` adds its seconds for every stamp of the century;
  with the base of the clock this gives `StampTimely`. The versions: `Inv` adds `Kept` (what
  is in memory is in flash) and `Offered` (a file being fetched is linked for the spare slot,
  which has no image until it is whole; while one is fetched or wanted, what has been offered
  is the last answer; and as long as the numbers named only grow, neither the saved number
  nor the file's is above that answer). The last makes `NeverBehind` inductive: an answer
  may overwrite the number during a download, and what is saved at its end is then that of
  the answer and not the file's. Without `grew` there is no such bound, and a lower number is
  saved. `Bootable` and the promise do not depend on the order. The task: `TaskSurvives`
  is `Kept`. The promise: one lemma per kind of step (`UnseenKind`, `StartKind`,
  `FinishedKind`, `LoadKind`) gives the step of `Upgrades` it maps to; a download that fails
  would leave something ready, were it not for the empty spare slot of `Offered`.
* `Recursion` is for `Placed` and `Deduplicated`, which are recursive functions. The
  library's theorems on induction and recursive definitions have operators as parameters, so
  these are stated with a set or a function instead: `LeastNatural` (a set of numbers that is
  not empty has a least one, from the library's well-founded orders), `InductionTo` (a set
  that has 0 and the successor of each of its members has all numbers to n) and
  `RecursiveFunction` (a function on 0 .. n that begins with a and goes on by F exists, so
  the CHOOSE behind a recursive definition finds it).
* `AccessPoints_proofs`. The text: `ReadHexIs` says what the server's reading returns,
  `RoundTrip` that decoding twice what was written in hexadecimal twice gives the bytes back,
  for addresses of any length. The table: by `PlaceIs` what is done for one anchor is
  nothing or an exchange with a row that was found; `PlacedIs` turns the recursive function
  into a sequence of tables, and by induction over the anchors `PlacedFew` and `PlacedMany`
  say where the rows of a scan are that is shorter or longer than the report, and
  `PlacedAnchor` that an anchor is in its place after all exchanges. The last needs that no
  later anchor has the same address: its exchange would take the row away again, which is why
  `AnchorsKept` says so. The invariants: `TypeInv` adds to `TypeOK` that the texts in the
  report, and twice coded in the question, are those of addresses, and that the count is at
  most what the failures have added. `AnchorInv` says that the anchors are either named by
  the server, each once, or the rows the last scan has left: an anchor that occurs twice could
  otherwise move a point behind the rows found, out of the report. The gate: `GateInv` relates
  the count to the scans in a row that could have joined: with a count from 1 to `Shut` they
  are fewer than it, beyond `Shut` there are none.
* `Gathering_proofs`. The parts: `InAPart` says that every character of the addresses
  is in a part, by division with remainder (`Divided`) in the middle, but for the comma that
  the template of the first part ends with. `InTime` and `TooLate` say of which addresses
  a text that is partly late keeps every digit and no foreign one before it; hence
  `PartsKeepText`, and `EveryListWhole` with the exceptions of `UploadWhole`, for every number
  and size of parts. The lists:
  `CutIs` says that `UpToHole` of a compared table is the beginning of the list up to the
  first address of the sector, `DeduplicatedIs` turns the recursive function into a sequence
  of tables, and `OldestIs` says, by induction over the sectors, that nothing changes before
  the oldest sector of the task nor, by `ComparedAgain`, after it. `GatherInv` is the
  types of the list and the cache, that what has been sent is an upload of a list
  into a text whose late addresses are either all of them or before the list (`SentInv`,
  `Lates`, and `LateInv` for the texts that are left), and that a sector of the cache is empty only if there is no other: an empty one
  among others would be taken for a sector of the task, because the literal it is compared
  with outlives the call. `UploadWhole` and
  `OldestCounts` follow step by step. `PinsAlwaysKept` needs that `state` is 0 or 255 and
  that the lamp has the lowest of the pins.

Only model-checked:

* liveness, which is beyond the prover: `EveryByteDelivered`, `Drained`,
  `EveryRequestEnds`, `KeepsAsking`, `ClientRecovered`;
* the findings, which are counterexamples.

Every safety invariant, action property and refinement of the passing runs is a theorem.

## Not modelled, and the plan

What is left of the plan is the composition of `DeviceControl` and `FlashLog` with shared
`at_state` and `upload`. It would show in the cache what `send_order` forgets when a second
`create_http` overtakes `HTTP_CON`, and a second upload by `delay_update`. Each of the two
alone fills a run, so the composition needs a smaller `DeviceControl` first, with the
timers that do not touch the cache abstracted away.

Left out for good:

* the SDK, the sniffer library and cJSON: binary or third-party, seen as the environment;
* keys: no module of the program registers a key or calls `key_init`;
* I2C, OLED and GPIO16: behind `OLED_VERSION`, which the build leaves undefined, and with
  which `platform.c` does not compile;
* UART transmit and configuration: register writes and busy waits with no state of their
  own; the ring buffer is compiled out;
* `main.c`: calls the initialisers;
* `gen_appbin.py` and `esptool.py`: build tools that run once, on the host.
