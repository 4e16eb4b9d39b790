------------------------------ MODULE FlashLog ------------------------------
(***************************************************************************)
(* The cache of gathered records in flash and its upload: the functions    *)
(* write_to_flash, sector_upload_done, send_flash_mac and read_sector of   *)
(* app/main/devicexx_app.c, and the callbacks of tcpclient.c, httpclient.c *)
(* and uart_receive that drive them.                                       *)
(*                                                                         *)
(* Handlers run to completion on the SDK's event loop, so one handler is   *)
(* one step, except that it is cut after each operation on the flash: the  *)
(* power may fail there.  stage says where a handler was cut, and no other *)
(* handler starts before stage is "run" again.                             *)
(*                                                                         *)
(* A record is five bytes of header, one cell here, and a JSON body of     *)
(* Size[id] cells.  A sector is the sequence of cells before its first     *)
(* erased byte.                                                            *)
(***************************************************************************)
EXTENDS Integers, Sequences, FiniteSets

CONSTANTS
  Id,           (* the gatherings that find new MAC addresses              *)
  Junk,         (* stands for a body that is no such gathering             *)
  None,         (* sta_str holds 12 characters or fewer                    *)
  Size,         (* the cells of a body                                     *)
  SectorSize,   (* 4096 bytes in the build                                 *)
  MaxSector,    (* 1009 in the build, counted from start_sector            *)
  Link,         (* the ways to the server that exist                       *)
  MaxRequests,  (* requests of one kind the heap has room for              *)
  MaxFaults,    (* bound on the failed requests and timeouts               *)
  MaxBoots      (* bound on the losses of power                            *)

ASSUME FlashLogAssumption ==
  /\ SectorSize \in Nat /\ MaxSector \in Nat
  /\ Link \subseteq {"wifi", "nb"}
  /\ MaxRequests \in Nat \ {0} /\ MaxFaults \in Nat /\ MaxBoots \in Nat
  /\ Junk \notin Id /\ None \notin Id \cup {Junk}
  /\ Size \in [Id \cup {Junk} -> Nat \ {0}]
  /\ \A i \in Id \cup {Junk} : Size[i] < SectorSize

VARIABLES
  flash,      (* the sectors                                               *)
  saved,      (* the copy of status in flash, written with protection      *)
  status,     (* local_system_status: used_sector and sector_updata_flag   *)
  all_done,   (* all_sector_upload_done                                    *)
  inrom,      (* mac_inrom_flag                                            *)
  test_str,   (* the record or body about to be stored or sent             *)
  sta,        (* whose MAC addresses are in sta_str                        *)
  sector_str, (* the sector in memory                                      *)
  cursor,     (* sector_str_totlen                                         *)
  bit,        (* sector_str_upload_flag_bit                                *)
  link,       (* connected_wifi                                            *)
  at_state,   (* ZGMODE starts a gathering, ZADC ends in check_id          *)
  upload,     (* update_data is due: upload_data or the position lookup    *)
  stage,      (* where a handler was cut                                   *)
  tail,       (* the rest of error_callback is still to run                *)
  requests,   (* how many requests of each kind are in flight              *)
  gathered,   (* history: the gatherings that took place                   *)
  acked,      (* history: the gatherings the server has acknowledged       *)
  faults, boots

ram  == <<status, all_done, inrom, test_str, sta, sector_str, cursor, bit,
          link, at_state, upload, stage, tail>>
past == <<gathered, acked, faults, boots>>
vars == <<flash, saved, ram, requests, past>>

Body    == Id \cup {Junk}
Cell    == [id : Body, part : {"head", "sent", "open", "text"}]
Status  == [used : 0 .. MaxSector, flag : {0, 1}]
Request == [what : Body \cup {"getCollect"}, link : {"wifi", "nb"}]

TypeOK ==
  /\ flash \in [0 .. MaxSector -> Seq(Cell)]
  /\ \A i \in 0 .. MaxSector : Len(flash[i]) <= SectorSize
  /\ saved \in Status /\ status \in Status
  /\ all_done \in {0, 1} /\ inrom \in {0, 1}
  /\ test_str \in Seq(Cell) /\ Len(test_str) <= SectorSize
  /\ sta \in Body \cup {None}
  /\ sector_str \in Seq(Cell) /\ Len(sector_str) <= SectorSize + 1
  /\ cursor \in 0 .. SectorSize /\ bit \in 0 .. SectorSize
  /\ link \in {"wifi", "nb"}
  /\ at_state \in {"ZGMODE", "ZADC", "WAIT"}
  /\ upload \in BOOLEAN
  /\ stage \in {"run", "grow", "erase", "write", "done"}
  /\ tail \in BOOLEAN
  /\ requests \in [Request -> 0 .. MaxRequests]
  /\ gathered \subseteq Id /\ acked \subseteq Id
  /\ faults \in 0 .. MaxFaults /\ boots \in 0 .. MaxBoots

Payload(i) ==
  [k \in 1 .. Size[i] |-> [id |-> i, part |-> IF k = 1 THEN "open" ELSE "text"]]
Headed(i) == <<[id |-> i, part |-> "head"]>> \o Payload(i)

NoRequest == [r \in Request |-> 0]

Init ==
  /\ flash = [i \in 0 .. MaxSector |-> << >>]
  /\ saved = [used |-> 0, flag |-> 1]
  /\ status = saved /\ all_done = 1
  /\ inrom = 0 /\ test_str = << >> /\ sta = None
  /\ sector_str = << >> /\ cursor = 0 /\ bit = 0
  /\ link = "nb" /\ at_state = "ZADC" /\ upload = FALSE
  /\ stage = "run" /\ tail = FALSE
  /\ requests = NoRequest
  /\ gathered = {} /\ acked = {} /\ faults = 0 /\ boots = 0

-----------------------------------------------------------------------------
(* Requests.  Answers arrive in any order; whether check_id finds an IP    *)
(* address is free at every call.                                          *)

getCollect(l) == [what |-> "getCollect", link |-> l]

\* What is in flight once q has been answered.
Answered(q) == [requests EXCEPT ![q] = @ - 1]

\* n more requests q.  A request that finds no memory is not sent.
More(q, n, inFlight) ==
  [inFlight EXCEPT ![q] = IF @ + n > MaxRequests THEN MaxRequests ELSE @ + n]

Posted(i, l, inFlight) == More([what |-> i, link |-> l], 1, inFlight)

\* n calls of check_id on top of what is in flight.
CheckId(n, inFlight) ==
  \E l \in Link :
    /\ requests' = More(getCollect(l), n, inFlight)
    /\ at_state' = IF l = "nb" THEN "WAIT" ELSE at_state

-----------------------------------------------------------------------------
(* The operations on the flash.                                            *)

\* A write_to_flash that does not look whether the record fits.
WriteAnyway ==
  /\ inrom' = 0 /\ all_done' = 0 /\ link' = "nb" /\ at_state' = "ZGMODE"
  /\ status' = [status EXCEPT !.flag = 0] /\ saved' = status'
  /\ IF sta = None
       THEN UNCHANGED <<sector_str, stage>>
       ELSE sector_str' = flash[status.used] /\ stage' = "erase"
  /\ UNCHANGED <<flash, test_str, sta, cursor, bit, upload>>

\* A write_to_flash that rewrites the sector from what sector_str has of it.
WriteStale ==
  /\ inrom' = 0 /\ all_done' = 0 /\ link' = "nb" /\ at_state' = "ZGMODE"
  /\ status' = [status EXCEPT !.flag = 0]
  /\ saved' = status'
  /\ IF sta = None
       THEN UNCHANGED stage
       ELSE stage' = IF Len(test_str) > SectorSize - Len(sector_str)
                       THEN "grow" ELSE "erase"
  /\ UNCHANGED <<flash, test_str, sta, sector_str, cursor, bit, upload>>

\* A write_to_flash, and the app_save(0) after it, as the failure handlers
\* run them up to the first operation on the flash: sector_updata_flag is
\* saved as 0 before anything else.
write_to_flash ==
  LET here == flash[status.used] IN
  /\ inrom' = 0 /\ all_done' = 0 /\ link' = "nb" /\ at_state' = "ZGMODE"
  /\ status' = [status EXCEPT !.flag = 0]
  /\ saved' = status'
  /\ IF sta = None
       THEN UNCHANGED <<sector_str, stage>>
       ELSE /\ sector_str' = here
            /\ stage' = IF Len(test_str) > SectorSize - Len(here)
                          THEN "grow" ELSE "erase"
  /\ UNCHANGED <<flash, test_str, sta, cursor, bit, upload>>

\* A step to the next sector that is not saved.
NextSectorNotSaved ==
  /\ stage = "grow"
  /\ status' = [status EXCEPT !.used = IF @ + 1 > MaxSector THEN MaxSector ELSE @ + 1]
  /\ sector_str' = << >> /\ stage' = "erase"
  /\ UNCHANGED <<saved, flash, all_done, inrom, test_str, sta, cursor, bit, link,
                 at_state, upload, tail, requests, past>>

\* The sector is full: the next one is taken, up to the last.
TakeNextSector ==
  /\ stage = "grow"
  /\ status' = [status EXCEPT !.used = IF @ + 1 > MaxSector THEN MaxSector ELSE @ + 1]
  /\ saved' = status'
  /\ sector_str' = << >>
  /\ stage' = "erase"
  /\ UNCHANGED <<flash, all_done, inrom, test_str, sta, cursor, bit, link,
                 at_state, upload, tail, requests, past>>

EraseToWrite ==
  /\ stage = "erase"
  /\ sector_str' = sector_str \o test_str
  /\ flash' = [flash EXCEPT ![status.used] = << >>]
  /\ stage' = "write"
  /\ UNCHANGED <<saved, status, all_done, inrom, test_str, sta, cursor, bit, link,
                 at_state, upload, tail, requests, past>>

\* The last app_save(0) writes what is saved already.
WriteSector ==
  /\ stage = "write"
  /\ flash' = [flash EXCEPT ![status.used] = sector_str]
  /\ stage' = "run"
  /\ UNCHANGED <<saved, status, all_done, inrom, test_str, sta, sector_str, cursor,
                 bit, link, at_state, upload, tail, requests, past>>

\* An upload that takes sector 1 for the last one.
AllDoneTooEarly(str) ==
  LET u == status.used IN
  /\ cursor' = 0 /\ bit' = 0
  /\ flash' = [flash EXCEPT ![u] = << >>]
  /\ IF u <= 1
       THEN /\ all_done' = 1
            /\ status' = [status EXCEPT !.flag = 1]
            /\ sector_str' = str
       ELSE /\ all_done' = all_done
            /\ status' = [status EXCEPT !.used = u - 1]
            /\ sector_str' = flash[u - 1]
  /\ stage' = "done"

\* An upload that never says that all sectors are done.
AllDoneForgotten(str) ==
  LET u == status.used IN
  /\ cursor' = 0 /\ bit' = 0
  /\ flash' = [flash EXCEPT ![u] = << >>]
  /\ status' = [status EXCEPT !.used = IF u = 0 THEN 0 ELSE u - 1]
  /\ sector_str' = IF u = 0 THEN str ELSE flash[u - 1]
  /\ all_done' = all_done
  /\ stage' = "done"

\* Erases the sector just sent and steps back to the one before it.  str is
\* sector_str so far.  The check_id at its end is left to the callers.
sector_upload_done(str) ==
  LET u == status.used IN
  /\ cursor' = 0 /\ bit' = 0
  /\ flash' = [flash EXCEPT ![u] = << >>]
  /\ IF u = 0
       THEN /\ all_done' = 1
            /\ status' = [status EXCEPT !.flag = 1]
            /\ sector_str' = str
       ELSE /\ all_done' = all_done
            /\ status' = [status EXCEPT !.used = u - 1]
            /\ sector_str' = flash[u - 1]
  /\ stage' = "done"

SaveAfterUpload ==
  /\ stage = "done"
  /\ saved' = status
  /\ stage' = "run"
  /\ UNCHANGED <<flash, status, all_done, inrom, test_str, sta, sector_str, cursor,
                 bit, link, at_state, upload, tail, requests, past>>

-----------------------------------------------------------------------------
(* The upload of the cache.                                                *)

\* Where the field at the cursor ends, from the four digits after its flag.
FieldEnd(i) == cursor + 1 + Size[i]

\* Moves the cursor to n; a cursor beyond the sector ends the sector.
AdvanceTo(n, str) ==
  IF n > SectorSize
    THEN sector_upload_done(str)
    ELSE /\ cursor' = n
         /\ sector_str' = str
         /\ UNCHANGED <<flash, status, all_done, stage>>

\* A body is taken out of str and sent.  Over NB its MAC addresses are copied
\* to sta_str on the way.
SendField(i, body, n, str, wifi, inFlight) ==
  /\ test_str' = body
  /\ sta' = IF wifi = "nb" THEN i ELSE sta
  /\ IF n > SectorSize
       THEN /\ sector_upload_done(str)
            /\ CheckId(1, Posted(i, wifi, inFlight))
       ELSE /\ bit' = cursor
            /\ AdvanceTo(n, str)
            /\ requests' = Posted(i, wifi, inFlight)
            /\ at_state' = IF wifi = "nb" THEN "WAIT" ELSE at_state

SkipField(n, str, inFlight) ==
  /\ IF n > SectorSize THEN TRUE ELSE bit' = bit
  /\ AdvanceTo(n, str)
  /\ CheckId(IF n > SectorSize THEN 2 ELSE 1, inFlight)
  /\ UNCHANGED <<test_str, sta>>

\* send_flash_mac on the sector str with mac_inrom_flag rom, over wifi.  A
\* cursor inside a body reads an arbitrary flag and an arbitrary length.
send_flash_mac(str, rom, wifi, inFlight) ==
  IF cursor >= Len(str)
    THEN /\ inrom' = 0
         /\ IF rom = 1
              THEN /\ sector_str' = str
                   /\ UNCHANGED <<flash, status, all_done, cursor, bit, stage>>
              ELSE sector_upload_done(str)
         /\ CheckId(1, inFlight)
         /\ UNCHANGED <<test_str, sta>>
    ELSE LET c == str[cursor + 1] IN
         /\ inrom' = rom
         /\ \/ /\ c.part = "head"
               /\ LET n == FieldEnd(c.id) IN
                  SendField(c.id, SubSeq(str, cursor + 2, IF n > Len(str) THEN Len(str) ELSE n),
                            n, str, wifi, inFlight)
            \/ /\ c.part = "sent"
               /\ SkipField(FieldEnd(c.id), str, inFlight)
            \/ /\ c.part = "open"
               /\ SkipField(SectorSize + 1, str, inFlight)
            \/ /\ c.part = "text"
               /\ \E n \in 0 .. SectorSize + 1 :
                    \/ SkipField(n, str, inFlight)
                    \/ SendField(Junk, Payload(Junk), n, str, wifi, inFlight)

read_sector(wifi, inFlight) ==
  send_flash_mac(IF inrom = 0 THEN flash[status.used] ELSE test_str,
                 inrom, wifi, inFlight)

\* sector_str[sector_str_upload_flag_bit] = '0'
Marked(str) ==
  IF bit < Len(str)
    THEN [str EXCEPT ![bit + 1].part = IF @ = "head" THEN "sent" ELSE @]
    ELSE IF bit = Len(str) THEN Append(str, [id |-> Junk, part |-> "open"]) ELSE str

-----------------------------------------------------------------------------
(* The handlers.                                                           *)

Running == stage = "run" /\ tail = FALSE

\* Deduplication, at the end of a gathering: i is Junk when every address is
\* in the cache already.  sector_str is left with the last sector it read.
Gather(i) ==
  /\ Running /\ at_state = "ZGMODE"
  /\ i \notin gathered
  /\ gathered' = gathered \cup ({i} \cap Id)
  /\ sta' = IF i \in Id THEN i ELSE None
  /\ inrom' = IF i \in Id THEN 1 ELSE inrom
  /\ test_str' = Headed(i)
  /\ sector_str' = flash[status.used]
  /\ at_state' = "WAIT" /\ upload' = TRUE
  /\ UNCHANGED <<flash, saved, status, all_done, cursor, bit, link, stage, tail,
                 requests, acked, faults, boots>>

\* check_id, from the CCLK answer or from check_id_timer, which may run out while
\* requests are in flight.
StartCheckId ==
  /\ Running /\ at_state \in {"ZADC", "WAIT"}
  /\ \E l \in Link : requests' = More(getCollect(l), 1, requests)
  /\ at_state' = "WAIT"
  /\ UNCHANGED <<flash, saved, status, all_done, inrom, test_str, sta, sector_str,
                 cursor, bit, link, upload, stage, tail, past>>

\* Sends what is in sta_str.
update_data ==
  /\ Running /\ upload /\ upload' = FALSE
  /\ \E l \in Link :
       IF l = "nb" /\ sta = None
         THEN at_state' = "ZADC" /\ requests' = requests
         ELSE /\ requests' = Posted(IF sta = None THEN Junk ELSE sta, l, requests)
              /\ at_state' = IF l = "nb" THEN "WAIT" ELSE at_state
  /\ UNCHANGED <<flash, saved, status, all_done, inrom, test_str, sta, sector_str,
                 cursor, bit, link, stage, tail, past>>

\* What espconn does after an answer: nothing, or an error that makes
\* error_callback run its own failure handling once more.
MaybeError ==
  \/ tail' = FALSE /\ faults' = faults
  \/ tail' = TRUE /\ faults' = faults + 1 /\ faults < MaxFaults

\* post_callback with the answer to getCollect.
WifiCollect ==
  LET q == getCollect("wifi") IN
  /\ Running /\ requests[q] > 0
  /\ link' = "wifi"
  /\ IF all_done = 1 /\ inrom = 0
       THEN /\ at_state' \in {"ZGMODE", at_state}
            /\ requests' = Answered(q)
            /\ UNCHANGED <<flash, status, all_done, inrom, test_str, sta, sector_str,
                           cursor, bit, stage>>
       ELSE read_sector("wifi", Answered(q))
  /\ MaybeError
  /\ UNCHANGED <<saved, upload, gathered, acked, boots>>

\* The +EHTTPNMIC answer with a collectId.
NbCollect ==
  LET q == getCollect("nb") IN
  /\ Running /\ requests[q] > 0
  /\ IF all_done = 1
       THEN /\ at_state' \in {"ZGMODE", "WAIT"}
            /\ requests' = Answered(q)
            /\ UNCHANGED <<flash, status, all_done, inrom, test_str, sta, sector_str,
                           cursor, bit, stage>>
       ELSE read_sector(link, Answered(q))
  /\ UNCHANGED <<saved, link, upload, tail, past>>

\* post_callback with the answer to a record.
WifiStored(i) ==
  LET q == [what |-> i, link |-> "wifi"] IN
  /\ Running /\ requests[q] > 0
  /\ link' = "wifi"
  /\ IF all_done = 0
       THEN send_flash_mac(Marked(sector_str), 0, "wifi", Answered(q))
       ELSE /\ sector_str' = Marked(sector_str)
            /\ inrom' = 0
            /\ CheckId(1, Answered(q))
            /\ UNCHANGED <<flash, status, all_done, test_str, sta, cursor, bit, stage>>
  /\ acked' = acked \cup ({i} \cap Id)
  /\ MaybeError
  /\ UNCHANGED <<saved, upload, gathered, boots>>

\* The +EHTTPNMIC answer {"des":"success"}.
NbStored(i) ==
  LET q    == [what |-> i, link |-> "nb"]
      str  == IF inrom = 0 THEN Marked(sector_str) ELSE sector_str IN
  /\ Running /\ requests[q] > 0
  /\ IF all_done = 0
       THEN link' = "nb" /\ send_flash_mac(str, 0, "nb", Answered(q))
       ELSE /\ sector_str' = str
            /\ inrom' = 0 /\ at_state' = "ZADC" /\ requests' = Answered(q)
            /\ UNCHANGED <<flash, status, all_done, test_str, sta, cursor, bit, link, stage>>
  /\ acked' = acked \cup ({i} \cap Id)
  /\ UNCHANGED <<saved, upload, tail, gathered, faults, boots>>

\* The server refuses over NB: dropped, or getCollect is sent again.
NbRefused(q) ==
  /\ Running /\ q.link = "nb" /\ requests[q] > 0
  /\ faults < MaxFaults /\ faults' = faults + 1
  /\ \/ requests' = Answered(q) /\ at_state' = at_state
     \/ /\ requests' = More(getCollect("nb"), 1, Answered(q))
        /\ at_state' = "WAIT"
  /\ UNCHANGED <<flash, saved, status, all_done, inrom, test_str, sta, sector_str,
                 cursor, bit, link, upload, stage, tail, gathered, acked, boots>>

\* post_callback with an answer of no known form: getCollect is sent again.
WifiRefused(q) ==
  /\ Running /\ q.link = "wifi" /\ requests[q] > 0
  /\ faults < MaxFaults /\ faults' = faults + 1
  /\ link' = "wifi"
  /\ CheckId(1, Answered(q))
  /\ tail' \in BOOLEAN
  /\ UNCHANGED <<flash, saved, status, all_done, inrom, test_str, sta, sector_str,
                 cursor, bit, upload, stage, gathered, acked, boots>>

\* post_callback with status -1, for a request over Wi-Fi.  error_callback
\* then goes on with a failure handling of its own.
WifiFailed(q) ==
  /\ Running /\ q.link = "wifi" /\ requests[q] > 0
  /\ faults < MaxFaults /\ faults' = faults + 1
  /\ requests' = Answered(q)
  /\ write_to_flash
  /\ tail' \in BOOLEAN
  /\ UNCHANGED <<gathered, acked, boots>>

\* The same for the position lookup, or Check_WifiState gives up on Wi-Fi
\* while nb_signal_bad = 1, whatever it was to be polled for.
NoWifi ==
  /\ Running
  /\ faults < MaxFaults /\ faults' = faults + 1
  /\ write_to_flash
  /\ UNCHANGED <<requests, tail, gathered, acked, boots>>

\* error_callback after disconnect_callback.
ErrorTail ==
  /\ stage = "run" /\ tail /\ tail' = FALSE
  /\ write_to_flash
  /\ UNCHANGED <<requests, past>>

\* The memory after devicexx_app_load; the first check_id is to come.
devicexx_app_load ==
  /\ status' = saved /\ all_done' = saved.flag
  /\ inrom' = 0 /\ test_str' = << >> /\ sta' = None
  /\ sector_str' = << >> /\ cursor' = 0 /\ bit' = 0
  /\ link' = "nb" /\ at_state' = "ZADC" /\ upload' = FALSE
  /\ stage' = "run" /\ tail' = FALSE

\* The power fails, restart_nb expires or the device restarts itself.  The modem
\* may go on running, and answer what it was asked before.
Reboot ==
  /\ boots < MaxBoots /\ boots' = boots + 1
  /\ requests' \in {NoRequest, [r \in Request |-> IF r.link = "nb" THEN requests[r] ELSE 0]}
  /\ UNCHANGED <<flash, saved, gathered, acked, faults>>
  /\ devicexx_app_load

FlashSteps == TakeNextSector \/ EraseToWrite \/ WriteSector \/ SaveAfterUpload

Answers ==
  WifiCollect \/ NbCollect \/ \E i \in Body : WifiStored(i) \/ NbStored(i)

Next ==
  \/ \E i \in Body : Gather(i)
  \/ StartCheckId \/ update_data
  \/ Answers
  \/ \E q \in Request : NbRefused(q) \/ WifiRefused(q) \/ WifiFailed(q)
  \/ NoWifi \/ ErrorTail \/ FlashSteps \/ Reboot

Spec == Init /\ [][Next]_vars

\* Timers expire and the server answers; faults are bounded by MaxFaults.  Of
\* check_id it is only assumed that it comes when nothing else can.
Fairness ==
  /\ \A i \in Body : WF_vars(Gather(i))
  /\ WF_vars(StartCheckId /\ (at_state = "ZADC" \/ requests = NoRequest))
  /\ WF_vars(update_data)
  /\ WF_vars(WifiCollect) /\ WF_vars(NbCollect)
  /\ \A i \in Body : WF_vars(WifiStored(i)) /\ WF_vars(NbStored(i))
  /\ WF_vars(ErrorTail) /\ WF_vars(FlashSteps)

FairSpec == Spec /\ Fairness

-----------------------------------------------------------------------------
(* What the cache promises.                                                *)

\* While sector_updata_flag is 1, in memory or in the saved copy, no sector
\* holds anything: a cached record is never hidden from the upload, whatever
\* operation on the flash the power fails after.
NothingHidden ==
  status.flag = 1 \/ saved.flag = 1 => \A i \in 0 .. MaxSector : flash[i] = << >>

\* The saved used_sector counts every sector in use, so that a device that
\* restarts walks back over all of them; and between handlers the saved copy,
\* local_system_status and all_sector_upload_done say the same.
SavedCoversFlash ==
  /\ \A i \in 0 .. MaxSector : i > saved.used => flash[i] = << >>
  /\ stage = "run" => saved = status /\ all_done = status.flag

\* The cache is the stack of SectorStack: a store keeps every cell of the sector
\* it rewrites, in its place, unless the power fails between erasing and writing;
\* only the newest sector is erased or written, and the saved status steps back
\* only from a sector that is empty (write_to_flash, sector_upload_done).
held == IF stage = "write"
          THEN {SubSeq(sector_str, 1, Len(sector_str) - Len(test_str))} ELSE {}
Stack == INSTANCE SectorStack
           WITH sectors <- flash, top <- saved.used, all_sent <- (saved.flag = 1)
ImplementsStack == Stack!Spec

\* The cursor points into a body, of the sector in use or of what is in memory.
Astray ==
  \E s \in {flash[status.used], sector_str, test_str} :
    cursor < Len(s) /\ s[cursor + 1].part = "text"

\* When the server answers, every backlog is uploaded or dropped: the device
\* gets to "all sector send done" and is not caught in its own replies.  A cursor
\* that a new sector leaves inside a body gets out again and does no such harm;
\* only the digits it reads there can keep it, by sending it round inside for ever.
Drained == (all_done = 0 ~> all_done = 1) \/ <>[]Astray

\* "this sector send done": the records of a sector that sector_upload_done
\* erases have been acknowledged by the server.
SentBeforeErased ==
  [][stage = "run" /\ stage' = "done" =>
       \A k \in DOMAIN flash[status.used] :
         flash[status.used][k].id \in acked' \cup {Junk}]_vars
=============================================================================
