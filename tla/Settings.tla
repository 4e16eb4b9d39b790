------------------------------ MODULE Settings ------------------------------
(***************************************************************************)
(* What the device keeps over a restart, local_system_status and its copy  *)
(* in flash: the version, the task and the time.  The time is a stamp that *)
(* a Date header or a GPS sentence sets and that every gathering and every *)
(* upload brings up to date.  The version changes when an image has been   *)
(* downloaded into the other of the two slots (devicexx_app.c, tcpclient.c).*)
(***************************************************************************)
EXTENDS Integers

CONSTANTS
  Task,        (* identifiers of tasks                                     *)
  NoTask,      (* "CJ000000000", the task of a new device                  *)
  Date,        (* the instants that headers and GPS sentences report       *)
  Other,       (* months a header may name besides that of its Date        *)
  Gap,         (* how many seconds may pass at a time                      *)
  Version,     (* the versions the server names, of any type               *)
  MaxUptime,   (* bound: seconds between two restarts                      *)
  MaxUpdates,  (* bound: updates of the stamp between two settings of it   *)
  MaxBoots     (* bound: restarts                                          *)

\* parameter_timestamp as its six numbers of two digits; years count from 2000.
Stamp ==
  [ Y : 0 .. 255, M : 1 .. 12, D : 1 .. 31, H : 0 .. 23, Min : 0 .. 59, S : 0 .. 59 ]
At(y, m, d, h, min, s) ==
  [Y |-> y, M |-> m, D |-> d, H |-> h, Min |-> min, S |-> s]

\* version_type and version_num, "0.000" in an answer.
Versions == [type : 0 .. 9, num : 0 .. 999]
None     == [type |-> 0, num |-> 0]

ASSUME ConstantsAssumption ==
  /\ NoTask \notin Task
  /\ Date \subseteq Stamp /\ Other \subseteq 1 .. 12
  /\ Gap \subseteq Nat \ {0} /\ Version \subseteq Versions
  /\ MaxUptime \in Nat /\ MaxUpdates \in Nat /\ MaxBoots \in Nat

Slot   == {1, 2}        \* user1 and user2
Image  == [version : Versions, bin : Slot \cup {0}]
Broken == [version |-> None, bin |-> 0]  \* a slot that is erased or half written
NoFile == Broken                         \* no download

VARIABLES
  ram,          (* local_system_status                                     *)
  flash,        (* its copy in flash                                       *)
  tag,          (* parameter_tag                                           *)
  stamp,        (* parameter_timestamp                                     *)
  base,         (* sys_time_base                                           *)
  uptime,       (* the seconds counted in RTC memory                       *)
  offered,      (* version_type and version_num, as the last answer has it *)
  post_ota,     (* post_state is OTA: Wi-Fi is polled for a download       *)
  file,         (* the file system_upgrade_start is fetching               *)
  update_reboot,
  slots,        (* the image in each slot                                  *)
  running,      (* the slot the device runs from                           *)
  boots,        (* restarts so far                                         *)
  answered,     (* history: the number in the last answer                  *)
  grew,         (* history: no answer so far had a number below the last   *)
  truth,        (* history: the second it really is                        *)
  source,       (* history: what the stamp goes back to                    *)
  updates       (* history: updates of the stamp since                     *)

kept     == <<ram, flash, tag>>
clock    == <<stamp, base, uptime, truth, source, updates>>
download == <<offered, post_ota, file, update_reboot, slots, running, answered, grew>>
vars     == <<kept, clock, download, boots>>

-----------------------------------------------------------------------------
(* The calendar of update_timestamp.                                       *)

LeapYear(y) == (y % 4 = 0 /\ y % 100 # 0) \/ y % 400 = 0

Length(y, m) ==
  IF m = 2 THEN IF LeapYear(y) THEN 29 ELSE 28
  ELSE IF m \in {4, 6, 9, 11} THEN 30 ELSE 31

\* A turn of the month that forgets the turn of the year.
NextMonthOnly(s) ==
  IF s.D <= Length(s.Y, s.M) THEN s
  ELSE At(s.Y, s.M + 1, s.D - Length(s.Y, s.M), s.H, s.Min, s.S)

\* The day after the last of a month is the first of the next.
NextMonth(s) ==
  IF s.D <= Length(s.Y, s.M) THEN s
  ELSE At(IF s.M = 12 THEN (s.Y + 1) % 256 ELSE s.Y,
          IF s.M = 12 THEN 1 ELSE s.M + 1,
          s.D - Length(s.Y, s.M), s.H, s.Min, s.S)

\* e seconds later.  The seconds are added in a uint8; the end of the month is
\* looked at when midnight has passed, and only then.
Advance(s, e) ==
  LET sec  == (s.S + e) % 256
      min  == s.Min + sec \div 60
      hour == s.H + min \div 60
      d    == At(s.Y, s.M, s.D + hour \div 24, hour % 24, min % 60, sec % 60)
  IN IF hour > 23 THEN NextMonth(d) ELSE d

\* For comparison, the seconds since the beginning of 2000 by the usual count.
DaysBefore == <<0, 31, 59, 90, 120, 151, 181, 212, 243, 273, 304, 334>>

DayNumber(s) ==
  365 * s.Y + (s.Y + 3) \div 4 + DaysBefore[s.M]
    + (IF s.M > 2 /\ s.Y % 4 = 0 THEN 1 ELSE 0) + s.D - 1

Seconds(s) == 86400 * DayNumber(s) + 3600 * s.H + 60 * s.Min + s.S

\* The comparison counts this century only.
Countable(s) == s.Y \in 0 .. 98 /\ s.D <= Length(s.Y, s.M)

-----------------------------------------------------------------------------
TypeOK ==
  /\ ram   \in [num : 0 .. 999, task : Task \cup {NoTask}, times : Stamp]
  /\ flash \in [num : 0 .. 999, task : Task \cup {NoTask}, times : Stamp]
  /\ tag \in Task \cup {NoTask} /\ stamp \in Stamp
  /\ uptime \in 0 .. MaxUptime /\ base \in 0 .. uptime
  /\ offered \in Versions /\ answered \in 0 .. 999 /\ grew \in BOOLEAN
  /\ post_ota \in BOOLEAN
  /\ file \in Image /\ slots \in [Slot -> Image]
  /\ update_reboot \in {0, 1} /\ running \in Slot
  /\ boots \in 0 .. MaxBoots /\ updates \in 0 .. MaxUpdates
  /\ truth \in Int /\ source \in {"load", "date", "other"}

\* 11:11:11 on 11-11-11, the stamp of a new device.
NewStamp == At(11, 11, 11, 11, 11, 11)
NewDevice == [num |-> 0, task |-> NoTask, times |-> NewStamp]

\* The first start: the flash is blank and devicexx_app_load fills it.
Init ==
  /\ ram = NewDevice /\ flash = NewDevice
  /\ tag = NoTask /\ stamp = NewStamp
  /\ base = 0 /\ uptime = 0 /\ truth = 0 /\ source = "load" /\ updates = 0
  /\ offered = None /\ answered = 0 /\ grew = TRUE
  /\ post_ota = FALSE /\ file = NoFile
  /\ update_reboot = 0 /\ running = 1 /\ boots = 0
  /\ slots = [b \in Slot |-> IF b = 1 THEN [version |-> None, bin |-> 1] ELSE Broken]

\* devicexx_app_save.
Save(status) == ram' = status /\ flash' = status

-----------------------------------------------------------------------------
(* The clock.                                                              *)

Tick(g) ==
  /\ uptime + g <= MaxUptime
  /\ uptime' = uptime + g /\ truth' = truth + g
  /\ UNCHANGED <<kept, download, boots, stamp, base, source, updates>>

\* resolution_times looks for names of months anywhere in the header, the last
\* of the year wins; it looks for "Sept" where a header says "Sep".
MonthFound(names) ==
  LET found == names \ {9} IN
  IF found = {} THEN stamp.M ELSE CHOOSE m \in found : \A n \in found : n <= m

\* A sync that leaves the base of the clock where it was.
SyncKeepsBase(d, names) ==
  LET s == [d EXCEPT !.M = MonthFound(names)] IN
  /\ stamp' = s /\ Save([ram EXCEPT !.times = s])
  /\ truth' = Seconds(d) /\ source' = IF s = d THEN "date" ELSE "other"
  /\ updates' = 0
  /\ UNCHANGED <<tag, download, boots, uptime, base>>

resolution_times(d, names) ==
  LET s == [d EXCEPT !.M = MonthFound(names)] IN
  /\ stamp' = s /\ base' = uptime /\ Save([ram EXCEPT !.times = s])
  /\ truth' = Seconds(d) /\ source' = IF s = d THEN "date" ELSE "other"
  /\ updates' = 0
  /\ UNCHANGED <<tag, download, boots, uptime>>

\* A GPS sentence sets the stamp and neither the base nor the saved time.
GnrmcStamp(d) ==
  /\ stamp' = d /\ truth' = Seconds(d) /\ source' = "other" /\ updates' = 0
  /\ UNCHANGED <<kept, download, boots, base, uptime>>

\* The whole time since the base is added, each time.
update_timestamp ==
  /\ updates < MaxUpdates /\ updates' = updates + 1
  /\ stamp' = Advance(stamp, uptime - base)
  /\ Save([ram EXCEPT !.times = stamp'])
  /\ source' = IF Countable(stamp) /\ stamp.S + uptime - base < 256
                 THEN source ELSE "other"
  /\ UNCHANGED <<tag, download, boots, base, uptime, truth>>

-----------------------------------------------------------------------------
(* Tasks and versions, from the answers of the server.                     *)

\* A save_stakid that leaves the saving to the next update of the stamp.
StakidUnsaved(t) ==
  IF ram.task = t THEN UNCHANGED <<ram, flash, tag>>
  ELSE ram' = [ram EXCEPT !.task = t] /\ tag' = t /\ UNCHANGED flash

save_stakid(t) ==
  IF ram.task = t THEN UNCHANGED <<ram, flash, tag>>
  ELSE Save([ram EXCEPT !.task = t]) /\ tag' = t

\* Every answer sets the version, whatever it was: a server may name any, and the
\* answers of two links and several requests come in any order.
Offer(v) ==
  /\ offered' = v /\ answered' = v.num
  /\ grew' = (grew /\ v.num >= answered)

\* The type in the status is 0, and the number is passed as a uint8.
check_update_firmware(v) ==
  post_ota' = (post_ota \/ (v.type = 0 /\ ram.num < v.num % 256))

\* Over Wi-Fi.  idle is isCorrectTime: the device has nothing to gather.
post_callback(t, v, idle) ==
  /\ Offer(v) /\ save_stakid(t)
  /\ IF idle THEN check_update_firmware(v) ELSE UNCHANGED post_ota
  /\ UNCHANGED <<clock, boots, file, update_reboot, slots, running>>

\* The answer to a device that belongs to nobody: no task, and a version whose
\* type is not read.
PostUnbound(v) ==
  LET w == [v EXCEPT !.type = 0] IN
  /\ Offer(w) /\ check_update_firmware(w)
  /\ UNCHANGED <<kept, clock, boots, file, update_reboot, slots, running>>

\* Over NB.  update_firmware reads the version when the device is idle, and
\* leaves post_state alone.
NbCollectId(t, v, idle) ==
  /\ IF idle THEN Offer(v) ELSE UNCHANGED <<offered, answered, grew>>
  /\ save_stakid(t)
  /\ UNCHANGED <<clock, boots, post_ota, file, update_reboot, slots, running>>

-----------------------------------------------------------------------------
(* The download.                                                           *)

Spare   == 3 - running
Answers == <<offered, answered, grew>>

\* get_host_byname: the name of the server is not found.
NotFound == post_ota /\ post_ota' = FALSE
  /\ UNCHANGED <<kept, clock, boots, file, update_reboot, slots, running, Answers>>

\* An ota_start_upgrade that asks for the file of the slot it runs from.
StartSameBin ==
  /\ post_ota /\ post_ota' = FALSE
  /\ IF file # NoFile THEN UNCHANGED <<file, slots>>
     ELSE file' = [version |-> offered, bin |-> running]
            /\ slots' = [slots EXCEPT ![Spare] = Broken]
  /\ UNCHANGED <<kept, clock, boots, update_reboot, running, Answers>>

\* An ota_start_upgrade that keeps the image of the last download until the
\* next one is whole.
StartKeepsSpare ==
  /\ post_ota /\ post_ota' = FALSE
  /\ IF file # NoFile THEN UNCHANGED file
     ELSE file' = [version |-> offered, bin |-> Spare]
  /\ UNCHANGED <<kept, clock, boots, update_reboot, slots, running, Answers>>

\* The file is named after the slot it is linked for, the one not in use, and
\* the version of the last answer.  The SDK refuses a second download.
ota_start_upgrade ==
  /\ post_ota /\ post_ota' = FALSE
  /\ IF file # NoFile THEN UNCHANGED <<file, slots>>
     ELSE file' = [version |-> offered, bin |-> Spare]
            /\ slots' = [slots EXCEPT ![Spare] = Broken]
  /\ UNCHANGED <<kept, clock, boots, update_reboot, running, Answers>>

\* A callback that saves the new version only after the restart.
FinishedUnsaved(ok) ==
  /\ file # NoFile /\ file' = NoFile
  /\ update_reboot' = IF ok THEN 1 ELSE 0
  /\ IF ok THEN slots' = [slots EXCEPT ![Spare] = file] ELSE UNCHANGED slots
  /\ UNCHANGED <<kept, clock, boots, post_ota, running, Answers>>

\* A complete download is noted, and the number of the last answer is saved with
\* it, which need not be the number in its name; delay_power_off follows.
ota_finished_callback(ok) ==
  /\ file # NoFile /\ file' = NoFile
  /\ update_reboot' = IF ok THEN 1 ELSE 0
  /\ IF ok THEN slots' = [slots EXCEPT ![Spare] = file]
                  /\ Save([ram EXCEPT !.num = offered.num])
     ELSE UNCHANGED <<slots, ram, flash>>
  /\ UNCHANGED <<tag, clock, boots, post_ota, running, Answers>>

-----------------------------------------------------------------------------
(* Restarts.                                                               *)

\* devicexx_app_load, with the memory cleared; a stamp that is not text is
\* replaced, and what is loaded is saved.
devicexx_app_load ==
  /\ boots < MaxBoots /\ boots' = boots + 1
  /\ Save(flash) /\ tag' = flash.task /\ stamp' = flash.times
  /\ base' = 0 /\ source' = "load" /\ updates' = 0
  /\ offered' = None /\ post_ota' = FALSE /\ file' = NoFile /\ update_reboot' = 0
  /\ UNCHANGED <<slots, truth, answered, grew>>

\* Every way down ends here.  system_upgrade_reboot takes the other slot when
\* its image is complete.  rtc_count goes on from what it has in RTC memory, which
\* a restart keeps and devicexx_app_load does not write.
power_on ==
  /\ running' = IF update_reboot = 1 /\ slots[Spare] # Broken THEN Spare ELSE running
  /\ uptime' = uptime /\ devicexx_app_load

\* A watchdog, or a plug that is pulled: RTC memory is then anything, some of
\* which is here.
Crash ==
  /\ running' = running /\ uptime' \in {0, uptime, MaxUptime}
  /\ devicexx_app_load

Answer ==
  \E v \in Version :
    \/ \E t \in Task, idle \in BOOLEAN : post_callback(t, v, idle) \/ NbCollectId(t, v, idle)
    \/ PostUnbound(v)

SetStamp ==
  \E d \in Date :
    \/ \E names \in {{d.M}} \cup {{d.M, m} : m \in Other} : resolution_times(d, names)
    \/ GnrmcStamp(d)

Next ==
  \/ \E g \in Gap : Tick(g)
  \/ SetStamp \/ update_timestamp
  \/ Answer
  \/ NotFound \/ ota_start_upgrade \/ \E ok \in BOOLEAN : ota_finished_callback(ok)
  \/ power_on \/ Crash

Spec == Init /\ [][Next]_vars

-----------------------------------------------------------------------------
(* Properties.                                                             *)

\* What of the download its user sees: the image in use, the file being fetched
\* and the image that power_on would start.
current  == slots[running].version
fetching == IF file = NoFile THEN {} ELSE {file.version}
ready    == IF update_reboot = 1 /\ slots[Spare] # Broken THEN {slots[Spare].version} ELSE {}

\* update_timestamp is exact the first time after a Date header has been taken,
\* over ends of minutes, days, months and years, and never too early later on,
\* as long as the seconds to add fit in a uint8 (source stays "date").
StampTimely ==
  [][source = "date" /\ source' = "date" /\ updates' = updates + 1 =>
       /\ Seconds(stamp') >= truth
       /\ updates = 0 => Seconds(stamp') = truth]_vars

\* With a server whose answers never name a lower number than before, the saved
\* number is never behind the image the device runs or would start, so that a
\* device does not download what it has already got, whatever overlaps, fails and
\* is interrupted.  A server that does name a lower one during a download has
\* ota_finished_callback save it with the image of the higher one.
NeverBehind ==
  grew =>
    /\ flash.num >= slots[running].version.num
    /\ update_reboot = 1 /\ slots[Spare] # Broken => flash.num >= slots[Spare].version.num

\* A slot holds an image that is linked for it, and the slot in use a whole one,
\* however downloads fail, overlap and are interrupted.
Bootable ==
  /\ slots[running] # Broken
  /\ \A b \in Slot : slots[b] # Broken => slots[b].bin = b

\* The download keeps the promise of Upgrades: whatever the server names, however
\* downloads fail, overlap and are interrupted, a restart starts nothing but the
\* image in use or one fetched since the last restart as a whole, and the saved
\* number changes with a complete download only.
Promise == INSTANCE Upgrades WITH saved <- flash.num, Version <- Versions
ImplementsUpgrades == Promise!Spec

\* A restart does not change the task under which addresses are uploaded:
\* save_stakid has saved it, and devicexx_app_load takes it up again.
TaskSurvives == [][boots' # boots => tag' = tag]_vars
=============================================================================
