------------------------ MODULE DeviceControl_proofs ------------------------
(***************************************************************************)
(* The invariants of DeviceControl, for every value of its constants.      *)
(* Each helper of the handlers gets a lemma: it keeps the device Sound,    *)
(* and one that is watched it leaves watched.                              *)
(***************************************************************************)
EXTENDS DeviceControl, TLAPS

Contig(d) == \A k \in 1 .. 6 : d.at = SendState[k] => d.last = SendPart[k]

Created(d) == d.dis = 0 \/ d.at \in Sending \cup {"HTTP_CON"} => d.creat = 1

\* Without an access point no request goes over Wi-Fi, and restart_nb repeats.
Calm(d) ==
  ~WifiInRange =>
    /\ ~d.posts
    /\ d.left["restart_nb"] # Off => d.reload["restart_nb"] # Off

Watched(d) ==
  ~WifiInRange /\ d.heard =>
    d.left["check_id"] # Off \/ d.left["restart_nb"] # Off

Sound(d) == d \in Device /\ Contig(d) /\ Created(d) /\ Calm(d)

\* What a handler keeps, for a device that was watched or need not be.
Good(d) == Sound(d) /\ Watched(d)

\* A handler that knows whether there is Wi-Fi.
Fits(w) == w \in BOOLEAN /\ (~WifiInRange => ~w)

-----------------------------------------------------------------------------
(* Timers and commands.                                                    *)

\* The fields no timer touches.
SameControl(d, e) ==
  /\ e.at = d.at /\ e.last = d.last /\ e.dis = d.dis /\ e.creat = d.creat
  /\ e.order = d.order /\ e.heard = d.heard /\ e.posts = d.posts

SetTimer(d, t, a, b) == [d EXCEPT !.left[t] = a, !.reload[t] = b]

\* Setting one timer touches nothing else.
LEMMA TimerIs ==
  ASSUME NEW d \in Device, NEW t \in Timer, NEW a \in Int, NEW b \in Int
  PROVE  LET e == SetTimer(d, t, a, b)
         IN /\ e \in Device /\ SameControl(d, e)
            /\ e.left = [d.left EXCEPT ![t] = a]
            /\ e.reload = [d.reload EXCEPT ![t] = b]
PROOF
<1> DEFINE e == SetTimer(d, t, a, b)
<1>1. /\ [d.left EXCEPT ![t] = a] \in [Timer -> Int]
      /\ [d.reload EXCEPT ![t] = b] \in [Timer -> Int]
  BY DEF Device
<1>2. e = [d EXCEPT !.left = [d.left EXCEPT ![t] = a],
                    !.reload = [d.reload EXCEPT ![t] = b]]
  BY DEF Device, SetTimer
<1>3. e \in Device
  BY <1>1, <1>2 DEF Device
<1> QED
  BY <1>2, <1>3 DEF Device, SameControl

LEMMA TicksIs ==
  ASSUME NEW ms \in Nat
  PROVE  Ticks(ms) \in Nat /\ Rounds(ms) \in Nat
PROOF
<1>1. \A m \in Nat, u \in Nat \ {0} : m \div u \in Nat
  BY SMT
<1> QED
  BY <1>1, ControlAssumption DEF Ticks, Rounds

\* A timer that is set leaves the device sound, if restart_nb repeats.
LEMMA TimerSound ==
  ASSUME NEW d, Sound(d), NEW t \in Timer, NEW a \in Int, NEW b \in Int,
         t = "restart_nb" /\ a # Off => b # Off
  PROVE  LET e == SetTimer(d, t, a, b)
         IN /\ Sound(e) /\ SameControl(d, e)
            /\ e.left = [d.left EXCEPT ![t] = a]
            /\ Watched(d) /\ (t \in {"check_id", "restart_nb"} => a # Off) => Watched(e)
PROOF
<1> DEFINE e == SetTimer(d, t, a, b)
<1>0. d \in Device
  BY DEF Sound
<1>1. /\ e \in Device /\ SameControl(d, e)
      /\ e.left = [d.left EXCEPT ![t] = a]
      /\ e.reload = [d.reload EXCEPT ![t] = b]
  BY <1>0, TimerIs
<1>2. d.left \in [Timer -> Int] /\ d.reload \in [Timer -> Int]
  BY <1>0 DEF Device
<1> HIDE DEF e
<1>3. Contig(e) /\ Created(e)
  BY <1>1 DEF Sound, SameControl, Contig, Created
<1>4. Calm(e)
  BY <1>1, <1>2 DEF Sound, SameControl, Calm, Timer
<1>5. ASSUME Watched(d), t \in {"check_id", "restart_nb"} => a # Off
      PROVE  Watched(e)
  BY <1>1, <1>2, <1>5 DEF SameControl, Watched, Timer
<1> QED
  BY <1>1, <1>3, <1>4, <1>5 DEF Sound, e

LEMMA DisarmIs ==
  ASSUME NEW d, Sound(d), NEW t \in Timer
  PROVE  /\ Sound(Disarm(d, t)) /\ SameControl(d, Disarm(d, t))
         /\ Watched(d) /\ t \notin {"check_id", "restart_nb"} => Watched(Disarm(d, t))
PROOF
<1>1. Off \in Int
  BY DEF Off
<1> QED
  BY <1>1, TimerSound DEF Disarm, SetTimer

LEMMA ArmIs ==
  ASSUME NEW d, Sound(d), NEW t \in Timer, t # "restart_nb", NEW ms \in Nat
  PROVE  /\ Sound(Arm(d, t, ms)) /\ SameControl(d, Arm(d, t, ms))
         /\ Watched(d) => Watched(Arm(d, t, ms))
PROOF
<1>1. Off \in Int /\ Ticks(ms) \in Int /\ Ticks(ms) # Off
  BY TicksIs DEF Off
<1> QED
  BY <1>1, TimerSound DEF Arm, SetTimer

\* check_id or restart_nb, repeated, is enough for the device to be watched.
LEMMA RepeatIs ==
  ASSUME NEW d, Sound(d), NEW t \in Timer, NEW ms \in Nat
  PROVE  /\ Sound(Repeat(d, t, ms)) /\ SameControl(d, Repeat(d, t, ms))
         /\ Watched(d) \/ t \in {"check_id", "restart_nb"} => Watched(Repeat(d, t, ms))
PROOF
<1> DEFINE e == Repeat(d, t, ms)
<1>1. Rounds(ms) \in Int /\ Rounds(ms) # Off
  BY TicksIs DEF Off
<1>0. e = SetTimer(d, t, Rounds(ms), Rounds(ms))
  BY DEF Repeat, SetTimer
<1>2. /\ Sound(e) /\ SameControl(d, e) /\ (Watched(d) => Watched(e))
      /\ e.left = [d.left EXCEPT ![t] = Rounds(ms)]
  BY <1>0, <1>1, TimerSound
<1>3. d.left \in [Timer -> Int]
  BY DEF Sound, Device
<1>4. ASSUME t \in {"check_id", "restart_nb"} PROVE Watched(e)
  BY <1>1, <1>2, <1>3, <1>4 DEF Watched, Timer
<1> QED
  BY <1>2, <1>4

\* The fields no command touches.
SameTimers(d, e) ==
  /\ e.left = d.left /\ e.reload = d.reload /\ e.heard = d.heard
  /\ e.posts = d.posts

LEMMA TimersKept ==
  ASSUME NEW d, NEW e, SameTimers(d, e)
  PROVE  (Calm(d) => Calm(e)) /\ (Watched(d) => Watched(e))
PROOF
  BY DEF SameTimers, Calm, Watched

\* Sending a command notes it in last, if it uses the HTTP client.
LEMMA SendIs ==
  ASSUME NEW d \in Device, NEW c \in Command
  PROVE  LET e == queue_uart_send(d, c)
         IN /\ e \in Device /\ SameTimers(d, e)
            /\ e.at = d.at /\ e.dis = d.dis /\ e.creat = d.creat /\ e.order = d.order
            /\ e.last = IF c \in Part THEN c ELSE IF c \in ClientUse THEN "-" ELSE d.last
PROOF
<1> DEFINE l == IF c \in Part THEN c ELSE IF c \in ClientUse THEN "-" ELSE d.last
           e == queue_uart_send(d, c)
<1>1. Append(d.out, c) \in Seq(Command) /\ l \in Command \cup {"-"}
  BY DEF Device
<1>2. e = [d EXCEPT !.out = Append(d.out, c), !.last = l]
  BY DEF queue_uart_send, Device
<1> HIDE DEF l
<1>3. e \in Device
  BY <1>1, <1>2 DEF Device
<1>4. e.last = l
  BY <1>2 DEF Device
<1> QED
  BY <1>2, <1>3, <1>4 DEF Device, SameTimers, l

\* A command that does not use the client, or one sent while no upload is going on.
LEMMA SendSound ==
  ASSUME NEW d, Sound(d), NEW c \in Command, c \notin ClientUse \/ d.at \notin Sending
  PROVE  LET e == queue_uart_send(d, c)
         IN /\ Sound(e) /\ (Watched(d) => Watched(e))
            /\ e.at = d.at /\ e.dis = d.dis /\ e.creat = d.creat /\ e.order = d.order
            /\ e.heard = d.heard
PROOF
<1> DEFINE e == queue_uart_send(d, c)
<1>1. d \in Device
  BY DEF Sound
<1>2. /\ e \in Device /\ SameTimers(d, e)
      /\ e.at = d.at /\ e.dis = d.dis /\ e.creat = d.creat /\ e.order = d.order
      /\ e.last = IF c \in Part THEN c ELSE IF c \in ClientUse THEN "-" ELSE d.last
  BY <1>1, SendIs
<1> HIDE DEF e
<1>3. Part \subseteq ClientUse
  BY DEF ClientUse
<1>4. Contig(e)
  BY <1>2, <1>3 DEF Sound, Contig, Sending
<1>5. Created(e)
  BY <1>2 DEF Sound, Created
<1> QED
  BY <1>2, <1>4, <1>5, TimersKept DEF Sound, SameTimers, e

LEMMA States ==
  /\ SendState \in [1 .. 6 -> AtState] /\ SendPart \in [1 .. 7 -> Command]
  /\ \A j, k \in 1 .. 6 : SendState[j] = SendState[k] => j = k
  /\ \A k \in 1 .. 7 : SendPart[k] \in Part
  /\ \A k \in 1 .. 6 : SendState[k] \in Sending
  /\ SendState[1] = "HTTP_SEND" /\ SendPart[1] = "send0"
  /\ Sending = {"HTTP_SEND", "HTTP_SEND1", "HTTP_SEND2", "HTTP_SEND3",
                "HTTP_SEND4", "HTTP_SEND5"}
PROOF
<1>1. \A k \in 1 .. 6 : k = 1 \/ k = 2 \/ k = 3 \/ k = 4 \/ k = 5 \/ k = 6
  OBVIOUS
<1>2. \A k \in 1 .. 7 : k = 7 \/ k \in 1 .. 6
  OBVIOUS
<1>3. /\ SendState[1] = "HTTP_SEND" /\ SendState[2] = "HTTP_SEND1"
      /\ SendState[3] = "HTTP_SEND2" /\ SendState[4] = "HTTP_SEND3"
      /\ SendState[5] = "HTTP_SEND4" /\ SendState[6] = "HTTP_SEND5"
  BY DEF SendState
<1>4. Sending = {"HTTP_SEND", "HTTP_SEND1", "HTTP_SEND2", "HTTP_SEND3",
                 "HTTP_SEND4", "HTTP_SEND5"}
  <2> DEFINE S == {"HTTP_SEND", "HTTP_SEND1", "HTTP_SEND2", "HTTP_SEND3",
                   "HTTP_SEND4", "HTTP_SEND5"}
  <2>1. \A k \in 1 .. 6 : SendState[k] \in S
    BY <1>1, <1>3
  <2>2. \A x \in S : \E k \in 1 .. 6 : x = SendState[k]
    BY <1>3
  <2> HIDE DEF S
  <2> QED
    BY <2>1, <2>2 DEF Sending, S
<1>5. \A j, k \in 1 .. 6 : SendState[j] = SendState[k] => j = k
  BY <1>1, <1>3
<1>6. SendState \in [1 .. 6 -> AtState]
  BY <1>1, <1>3, <1>4 DEF SendState, AtState
<1>7. \A k \in 1 .. 7 : SendPart[k] \in Part
  BY DEF Part
<1>8. SendPart \in [1 .. 7 -> Command]
  <2>1. SendPart = [k \in 1 .. 7 |-> SendPart[k]]
    BY DEF SendPart
  <2> QED
    BY <2>1, <1>7 DEF Command, ClientUse
<1>9. SendPart[1] = "send0"
  BY DEF SendPart
<1> QED
  BY <1>3, <1>4, <1>5, <1>6, <1>7, <1>8, <1>9 DEF Sending

\* The device may wait for a part of an upload only if it has just sent it, and
\* for that and for a connection only if the client exists.
LEMMA AskSound ==
  ASSUME NEW d, Sound(d), NEW c \in Command, NEW s \in AtState,
         s \in Sending \cup {"HTTP_CON"} => d.creat = 1,
         \A k \in 1 .. 6 : s = SendState[k] => c = SendPart[k]
  PROVE  LET e == Ask(d, c, s)
         IN /\ Sound(e) /\ (Watched(d) => Watched(e))
            /\ e.at = s /\ e.dis = d.dis /\ e.creat = d.creat /\ e.order = d.order
            /\ e.heard = d.heard
PROOF
<1> DEFINE f == queue_uart_send(d, c)
           e == Ask(d, c, s)
<1>1. d \in Device
  BY DEF Sound
<1>2. /\ f \in Device /\ SameTimers(d, f)
      /\ f.dis = d.dis /\ f.creat = d.creat /\ f.order = d.order
      /\ f.last = IF c \in Part THEN c ELSE IF c \in ClientUse THEN "-" ELSE d.last
  BY <1>1, SendIs
<1>3. e = [f EXCEPT !.at = s]
  BY DEF Ask
<1> HIDE DEF e, f
<1>4. /\ e \in Device /\ SameTimers(f, e) /\ e.at = s /\ e.last = f.last
      /\ e.dis = f.dis /\ e.creat = f.creat /\ e.order = f.order
  BY <1>2, <1>3 DEF Device, SameTimers
<1>5. Contig(e)
  <2>1. \A k \in 1 .. 6 : SendPart[k] \in Part
    BY States
  <2> QED
    BY <1>2, <1>4, <2>1 DEF Contig
<1>6. Created(e)
  BY <1>2, <1>4 DEF Sound, Created
<1>7. SameTimers(d, e)
  BY <1>2, <1>4 DEF SameTimers
<1> QED
  BY <1>2, <1>4, <1>5, <1>6, <1>7, TimersKept DEF Sound, SameTimers, e

\* States in which no upload and no connection is awaited.
Plain == AtState \ (Sending \cup {"HTTP_CON"})

LEMMA Plains ==
  Plain = {"NONE", "LED", "ZADC", "CCLK", "ZCFUN", "ZOFF", "ZGMODE", "ZGNMEA",
           "ZGRUN", "WAIT"}
PROOF
  BY States DEF Plain, AtState

LEMMA AskPlain ==
  ASSUME NEW d, Sound(d), NEW c \in Command, NEW s \in Plain
  PROVE  LET e == Ask(d, c, s)
         IN /\ Sound(e) /\ (Watched(d) => Watched(e))
            /\ e.at = s /\ e.dis = d.dis /\ e.creat = d.creat /\ e.order = d.order
            /\ e.heard = d.heard
PROOF
<1>1. s \in AtState /\ s \notin Sending \cup {"HTTP_CON"}
  BY DEF Plain
<1>2. \A k \in 1 .. 6 : s # SendState[k]
  BY <1>1, States
<1> QED
  BY <1>1, <1>2, AskSound

-----------------------------------------------------------------------------
(* Commands that open no connection, and the fields that no invariant is    *)
(* about.                                                                  *)

LEMMA Words ==
  /\ {"at", "zrst", "zgrun", "cfun", "cesq", "create", "get_tag", "apmac",
      "discon", "con", "send0"} \subseteq Command
  /\ {"at", "zrst", "zgrun", "cfun", "cesq", "create"} \cap ClientUse = {}
PROOF
<1>1. \A k \in 1 .. 7 : SendPart[k] \in {"send0", "send1", "send2", "send3", "send4",
                                         "send5", "send6"}
  BY DEF SendPart
<1>2. \A c \in Part : c \in {"send0", "send1", "send2", "send3", "send4", "send5", "send6"}
  BY <1>1 DEF Part
<1>3. "send0" \in Part
  BY States
<1> QED
  BY <1>2, <1>3 DEF Command, ClientUse

\* A device left as well off as it was.
Keeps(d, e) == Sound(e) /\ (Watched(d) => Watched(e))

Light(d, e) ==
  /\ e.left = d.left /\ e.reload = d.reload /\ e.heard = d.heard /\ e.last = d.last
  /\ e.creat = d.creat
  /\ e.at = d.at \/ e.at \in Plain
  /\ e.dis = d.dis \/ e.dis = 1
  /\ e.posts = d.posts \/ WifiInRange

LEMMA Touched ==
  ASSUME NEW d, Sound(d), NEW e \in Device, Light(d, e)
  PROVE  Keeps(d, e)
PROOF
<1>1. \A k \in 1 .. 6 : SendState[k] \notin Plain
  BY States DEF Plain
<1>2. Contig(e)
  BY <1>1 DEF Sound, Light, Contig
<1>3. Created(e)
  BY DEF Sound, Light, Created, Plain
<1>4. Calm(e) /\ (Watched(d) => Watched(e))
  BY DEF Sound, Light, Calm, Watched
<1> QED
  BY <1>2, <1>3, <1>4 DEF Sound, Keeps

\* Handlers that touch one field only.
LEMMA Fields ==
  ASSUME NEW d, Sound(d)
  PROVE  /\ \A k \in {0, 2, 3, 4} : Keeps(d, [d EXCEPT !.order = k])
         /\ \A p \in {"IDLE", "OTA", "CHECK_ID", "AP_MAC"} : Keeps(d, [d EXCEPT !.post = p])
         /\ \A s \in Plain : Keeps(d, [d EXCEPT !.at = s])
         /\ Keeps(d, [d EXCEPT !.dis = 1])
         /\ \A b \in BOOLEAN : /\ Keeps(d, [d EXCEPT !.sniff = b])
                               /\ Keeps(d, [d EXCEPT !.ota = b])
                               /\ Keeps(d, [d EXCEPT !.scan = b])
                               /\ Keeps(d, [d EXCEPT !.up = b])
         /\ Keeps(d, [d EXCEPT !.gnrmc = 0])
         /\ WifiInRange => \A b \in BOOLEAN : Keeps(d, [d EXCEPT !.posts = b])
         /\ Keeps(d, [d EXCEPT !.out = << >>])
PROOF
<1>0. d \in Device
  BY DEF Sound
<1>1. ASSUME NEW k \in {0, 2, 3, 4} PROVE Keeps(d, [d EXCEPT !.order = k])
  <2>1. [d EXCEPT !.order = k] \in Device /\ Light(d, [d EXCEPT !.order = k])
    BY <1>0 DEF Device, Light
  <2> QED BY <2>1, Touched
<1>2. ASSUME NEW p \in {"IDLE", "OTA", "CHECK_ID", "AP_MAC"}
      PROVE  Keeps(d, [d EXCEPT !.post = p])
  <2>1. [d EXCEPT !.post = p] \in Device /\ Light(d, [d EXCEPT !.post = p])
    BY <1>0 DEF Device, Light
  <2> QED BY <2>1, Touched
<1>3. ASSUME NEW s \in Plain PROVE Keeps(d, [d EXCEPT !.at = s])
  <2>1. s \in AtState
    BY DEF Plain
  <2>2. [d EXCEPT !.at = s] \in Device /\ Light(d, [d EXCEPT !.at = s])
    BY <1>0, <2>1 DEF Device, Light
  <2> QED BY <2>2, Touched
<1>4. Keeps(d, [d EXCEPT !.dis = 1])
  <2>1. [d EXCEPT !.dis = 1] \in Device /\ Light(d, [d EXCEPT !.dis = 1])
    BY <1>0 DEF Device, Light
  <2> QED BY <2>1, Touched
<1>5. ASSUME NEW b \in BOOLEAN
      PROVE  /\ Keeps(d, [d EXCEPT !.sniff = b]) /\ Keeps(d, [d EXCEPT !.ota = b])
             /\ Keeps(d, [d EXCEPT !.scan = b]) /\ Keeps(d, [d EXCEPT !.up = b])
  <2>1. [d EXCEPT !.sniff = b] \in Device /\ Light(d, [d EXCEPT !.sniff = b])
    BY <1>0 DEF Device, Light
  <2>2. [d EXCEPT !.ota = b] \in Device /\ Light(d, [d EXCEPT !.ota = b])
    BY <1>0 DEF Device, Light
  <2>3. [d EXCEPT !.scan = b] \in Device /\ Light(d, [d EXCEPT !.scan = b])
    BY <1>0 DEF Device, Light
  <2>4. [d EXCEPT !.up = b] \in Device /\ Light(d, [d EXCEPT !.up = b])
    BY <1>0 DEF Device, Light
  <2> QED BY <2>1, <2>2, <2>3, <2>4, Touched
<1>6. Keeps(d, [d EXCEPT !.gnrmc = 0])
  <2>1. 0 \in 0 .. MaxGnrmc
    BY ControlAssumption
  <2>2. [d EXCEPT !.gnrmc = 0] \in Device /\ Light(d, [d EXCEPT !.gnrmc = 0])
    BY <1>0, <2>1 DEF Device, Light
  <2> QED BY <2>2, Touched
<1>7. ASSUME WifiInRange, NEW b \in BOOLEAN PROVE Keeps(d, [d EXCEPT !.posts = b])
  <2>1. [d EXCEPT !.posts = b] \in Device /\ Light(d, [d EXCEPT !.posts = b])
    BY <1>0, <1>7 DEF Device, Light
  <2> QED BY <2>1, Touched
<1>8. Keeps(d, [d EXCEPT !.out = << >>])
  <2>1. << >> \in Seq(Command)
    OBVIOUS
  <2>2. [d EXCEPT !.out = << >>] \in Device /\ Light(d, [d EXCEPT !.out = << >>])
    BY <1>0, <2>1 DEF Device, Light
  <2> QED BY <2>2, Touched
<1> QED
  BY <1>1, <1>2, <1>3, <1>4, <1>5, <1>6, <1>7, <1>8

-----------------------------------------------------------------------------
(* The handlers that send commands.                                        *)

LEMMA KeepsTrans ==
  ASSUME NEW d, NEW e, NEW f, Keeps(d, e), Keeps(e, f)
  PROVE  Keeps(d, f)
PROOF
  BY DEF Keeps

LEMMA KeepsGood ==
  ASSUME NEW d, NEW e, Good(d), Keeps(d, e)
  PROVE  Good(e)
PROOF
  BY DEF Keeps, Good

\* Where there may be Wi-Fi, nobody need watch the device.
LEMMA InRange ==
  ASSUME NEW d, Sound(d), WifiInRange
  PROVE  Good(d)
PROOF
  BY DEF Good, Watched

LEMMA AskKeeps ==
  ASSUME NEW d, Sound(d)
  PROVE  /\ \A c \in {"at", "zrst", "zgrun", "cfun", "cesq", "create", "get_tag",
                      "apmac", "discon"} :
              \A s \in Plain : Keeps(d, Ask(d, c, s)) /\ Ask(d, c, s).at = s
         /\ \A c \in {"at", "zrst", "zgrun", "cfun", "cesq", "create"} :
              Keeps(d, queue_uart_send(d, c)) /\ queue_uart_send(d, c).at = d.at
PROOF
<1>1. ASSUME NEW c \in {"at", "zrst", "zgrun", "cfun", "cesq", "create", "get_tag",
                        "apmac", "discon"}, NEW s \in Plain
      PROVE  Keeps(d, Ask(d, c, s)) /\ Ask(d, c, s).at = s
  <2>1. c \in Command
    BY Words
  <2> QED
    BY <2>1, AskPlain DEF Keeps
<1>2. ASSUME NEW c \in {"at", "zrst", "zgrun", "cfun", "cesq", "create"}
      PROVE  Keeps(d, queue_uart_send(d, c)) /\ queue_uart_send(d, c).at = d.at
  <2>1. c \in Command /\ c \notin ClientUse
    BY Words
  <2> QED
    BY <2>1, SendSound DEF Keeps
<1> QED
  BY <1>1, <1>2

LEMMA PlainHas ==
  \A s \in {"NONE", "LED", "ZADC", "CCLK", "ZCFUN", "ZOFF", "ZGMODE", "ZGNMEA",
            "ZGRUN", "WAIT"} : s \in Plain
PROOF
  BY Plains

\* delay_power_off does not end the watch.
LEMMA PowerOff ==
  ASSUME NEW d, Sound(d)
  PROVE  Keeps(d, delay_power_off(d))
PROOF
  BY AskKeeps, PlainHas DEF delay_power_off

\* A first part of an upload is sent only to a client that exists.
LEMMA WhatDo ==
  ASSUME NEW d, Sound(d), d.creat = 1
  PROVE  Keeps(d, what_do(d))
PROOF
<1>1. CASE d.order = 0
  <2>1. 10000 \in Nat /\ "check_id" \in Timer
    BY DEF Timer
  <2>2. Keeps(d, Arm(d, "check_id", 10000))
    BY <2>1, ArmIs DEF Keeps
  <2> QED
    BY <1>1, <2>2 DEF what_do
<1>2. CASE d.order = 2
  <2>1. /\ "send0" \in Command /\ "HTTP_SEND" \in AtState
        /\ \A k \in 1 .. 6 : "HTTP_SEND" = SendState[k] => "send0" = SendPart[k]
    BY States, Words DEF AtState
  <2>2. Keeps(d, Ask(d, "send0", "HTTP_SEND"))
    BY <2>1, AskSound DEF Keeps
  <2> QED
    BY <1>2, <2>2 DEF what_do
<1>3. CASE d.order = 3
  <2> DEFINE e == Ask(d, "apmac", "WAIT")
             f == IF d.dis = 0 THEN Arm(e, "delay_discon", 20000) ELSE e
  <2>1. Keeps(d, e)
    BY AskKeeps, PlainHas
  <2>2. /\ 20000 \in Nat /\ 40000 \in Nat
        /\ "delay_discon" \in Timer /\ "delay_update" \in Timer
    BY DEF Timer
  <2>3. what_do(d) = Arm(f, "delay_update", 40000)
    BY <1>3 DEF what_do
  <2> HIDE DEF e
  <2>4. Keeps(e, f)
    BY <2>1, <2>2, ArmIs DEF Keeps
  <2> HIDE DEF f
  <2>5. Keeps(f, Arm(f, "delay_update", 40000))
    BY <2>2, <2>4, ArmIs DEF Keeps
  <2> QED
    BY <2>1, <2>3, <2>4, <2>5 DEF Keeps
<1>4. CASE d.order = 4
  <2>1. Keeps(d, Ask(d, "get_tag", "WAIT"))
    BY AskKeeps, PlainHas
  <2> QED
    BY <1>4, <2>1 DEF what_do
<1> QED
  BY <1>1, <1>2, <1>3, <1>4 DEF Sound, Device

\* create_http watches the device: it has restart_nb repeat.
LEMMA CreateHttp ==
  ASSUME NEW d, Sound(d), NEW k \in {0, 2, 3, 4}
  PROVE  Good(create_http(d, k))
PROOF
<1> DEFINE r == Repeat(d, "restart_nb", 180000)
           e == [r EXCEPT !.order = k]
<1>1. "restart_nb" \in Timer /\ 180000 \in Nat
  BY DEF Timer
<1>2. Sound(r) /\ Watched(r) /\ SameControl(d, r)
  BY <1>1, RepeatIs
<1>3. create_http(d, k) = IF k = 0 \/ d.creat = 0 THEN queue_uart_send(e, "create")
                          ELSE IF d.dis = 1 THEN Ask(e, "con", "HTTP_CON")
                          ELSE what_do(e)
  BY DEF create_http
<1> HIDE DEF r
<1>4. Keeps(r, e)
  BY <1>2, Fields
<1>5. e.creat = d.creat
  BY <1>2 DEF Sound, Device, SameControl
<1> HIDE DEF e
<1>6. Good(e)
  BY <1>2, <1>4 DEF Keeps, Good
<1>7. Keeps(e, queue_uart_send(e, "create"))
  BY <1>6, AskKeeps DEF Good
<1>8. ASSUME d.creat # 0 PROVE e.creat = 1
  BY <1>5, <1>8 DEF Sound, Device
<1>9. ASSUME d.creat # 0 PROVE Keeps(e, Ask(e, "con", "HTTP_CON"))
  <2>1. /\ "con" \in Command /\ "HTTP_CON" \in AtState
        /\ \A j \in 1 .. 6 : "HTTP_CON" # SendState[j]
    BY States, Words DEF AtState
  <2> QED
    BY <1>6, <1>8, <1>9, <2>1, AskSound DEF Keeps, Good
<1>10. ASSUME d.creat # 0 PROVE Keeps(e, what_do(e))
  BY <1>6, <1>8, <1>10, WhatDo DEF Good
<1> QED
  BY <1>3, <1>6, <1>7, <1>9, <1>10, KeepsGood

LEMMA Post ==
  ASSUME NEW d, Sound(d), WifiInRange
  PROVE  Good(http_post(d))
PROOF
<1>1. Keeps(d, [d EXCEPT !.posts = TRUE])
  BY Fields
<1> QED
  BY <1>1, InRange DEF http_post, Keeps

LEMMA CheckId ==
  ASSUME NEW d, Sound(d), NEW w, Fits(w)
  PROVE  Good(check_id(d, w)) /\ Good(CheckIdNext(d, w))
PROOF
<1>1. ASSUME NEW e, Sound(e) PROVE Good(check_id(e, w))
  BY <1>1, Post, CreateHttp DEF check_id, Fits
<1>2. Sound([d EXCEPT !.post = "CHECK_ID"])
  BY Fields DEF Keeps
<1> QED
  BY <1>1, <1>2 DEF CheckIdNext

\* A connection is ended in a state that awaits no part of an upload.
LEMMA Ended ==
  ASSUME NEW d, Sound(d)
  PROVE  /\ Keeps(d, http_disc(d))
         /\ d.at \notin Sending => Keeps(d, Disconnect(d))
PROOF
<1>1. Keeps(d, Ask(d, "discon", "WAIT"))
  BY AskKeeps, PlainHas
<1>2. Keeps(Ask(d, "discon", "WAIT"), [Ask(d, "discon", "WAIT") EXCEPT !.dis = 1])
  BY <1>1, Fields DEF Keeps
<1>3. Keeps(d, http_disc(d))
  BY <1>1, <1>2 DEF http_disc, Keeps
<1>4. ASSUME d.at \notin Sending PROVE Keeps(d, Disconnect(d))
  <2>1. Keeps(d, queue_uart_send(d, "discon"))
    BY <1>4, SendSound, Words DEF Keeps
  <2>2. Keeps(queue_uart_send(d, "discon"), [queue_uart_send(d, "discon") EXCEPT !.dis = 1])
    BY <2>1, Fields DEF Keeps
  <2> QED
    BY <2>1, <2>2 DEF Disconnect, Keeps
<1> QED
  BY <1>3, <1>4

\* The timers of a gathering and of Wi-Fi do not watch the device.
LEMMA Names ==
  Timer = {"check_id", "restart_nb"}
            \cup {"err_restart", "upload_data", "delay_update", "delay_discon", "scan",
                  "wait_con_wifi", "wait_nb_con", "wifistate"}
PROOF
  BY DEF Timer

LEMMA Timers ==
  ASSUME NEW d, Sound(d)
  PROVE  /\ \A t \in Timer \ {"check_id", "restart_nb"} :
              /\ Keeps(d, Disarm(d, t)) /\ SameControl(d, Disarm(d, t))
              /\ \A ms \in Nat : Keeps(d, Arm(d, t, ms)) /\ SameControl(d, Arm(d, t, ms))
         /\ \A t \in Timer, ms \in Nat :
              Keeps(d, Repeat(d, t, ms)) /\ SameControl(d, Repeat(d, t, ms))
         /\ \A ms \in Nat : /\ Keeps(d, Arm(d, "check_id", ms))
                            /\ SameControl(d, Arm(d, "check_id", ms))
PROOF
<1>1. "check_id" \in Timer
  BY DEF Timer
<1> QED
  BY <1>1, DisarmIs, ArmIs, RepeatIs DEF Keeps

LEMMA Start ==
  ASSUME NEW d, Sound(d)
  PROVE  Keeps(d, start(d))
PROOF
<1> DEFINE a == Disarm(d, "wifistate")
           b == Disarm(a, "wait_nb_con")
           c == Disarm(b, "scan")
           e == [c EXCEPT !.gnrmc = 0]
<1>1. start(d) = [c EXCEPT !.gnrmc = 0, !.sniff = TRUE]
  BY DEF start
<1>2. {"wifistate", "wait_nb_con", "scan"} \subseteq Timer \ {"check_id", "restart_nb"}
  BY DEF Timer
<1>3. Keeps(d, a)
  BY <1>2, Timers
<1> HIDE DEF a
<1>4. Keeps(a, b)
  BY <1>2, <1>3, Timers DEF Keeps
<1> HIDE DEF b
<1>5. Keeps(b, c)
  BY <1>2, <1>4, Timers DEF Keeps
<1> HIDE DEF c
<1>6. Keeps(c, e)
  BY <1>5, Fields DEF Keeps
<1>7. [c EXCEPT !.gnrmc = 0, !.sniff = TRUE] = [e EXCEPT !.sniff = TRUE]
  BY <1>5 DEF Keeps, Sound, Device
<1> HIDE DEF e
<1>8. Keeps(e, [e EXCEPT !.sniff = TRUE])
  BY <1>6, Fields DEF Keeps
<1> QED
  BY <1>1, <1>3, <1>4, <1>5, <1>6, <1>7, <1>8 DEF Keeps

LEMMA UpdateData ==
  ASSUME NEW d, Sound(d), NEW w, Fits(w)
  PROVE  \A x \in update_data(d, w) : Keeps(d, x)
PROOF
<1>1. w => Good(http_post(d))
  BY Post DEF Fits
<1>2. Keeps(d, Ask(d, "at", "ZADC"))
  BY AskKeeps, PlainHas
<1>3. Good(create_http(d, 2))
  BY CreateHttp
<1> QED
  BY <1>1, <1>2, <1>3 DEF update_data, Keeps, Good

LEMMA NbiotHttpPost ==
  ASSUME NEW d, Sound(d)
  PROVE  Keeps(d, nbiot_http_post(d))
PROOF
<1> DEFINE e == Disarm(d, "wifistate")
           g == Arm(e, "upload_data", 21000)
           f == IF d.gps = 1 THEN [g EXCEPT !.post = "IDLE"] ELSE e
<1>1. {"wifistate", "upload_data", "scan"} \subseteq Timer \ {"check_id", "restart_nb"}
  BY DEF Timer
<1>2. nbiot_http_post(d) = Arm(f, "scan", 3000)
  BY DEF nbiot_http_post
<1>3. Keeps(d, e)
  BY <1>1, Timers
<1> HIDE DEF e
<1>4. Keeps(e, g)
  BY <1>1, <1>3, Timers DEF Keeps
<1> HIDE DEF g
<1>5. Keeps(g, [g EXCEPT !.post = "IDLE"])
  BY <1>4, Fields DEF Keeps
<1>6. Keeps(d, f)
  BY <1>3, <1>4, <1>5 DEF Keeps
<1> HIDE DEF f
<1>7. Keeps(f, Arm(f, "scan", 3000))
  BY <1>1, <1>6, Timers DEF Keeps
<1> QED
  BY <1>2, <1>6, <1>7 DEF Keeps

LEMMA Signal ==
  ASSUME NEW d, Sound(d)
  PROVE  Keeps(d, get_rssi(d)) /\ Keeps(d, Deduplication(d))
PROOF
<1>1. ASSUME NEW e, Sound(e) PROVE Keeps(e, get_rssi(e))
  BY <1>1, AskKeeps DEF get_rssi
<1>2. Keeps(d, [d EXCEPT !.sniff = FALSE])
  BY Fields
<1> QED
  BY <1>1, <1>2 DEF Deduplication, Keeps

LEMMA TcpClientInit ==
  ASSUME NEW d, Sound(d)
  PROVE  Keeps(d, tcp_client_init(d)) /\ tcp_client_init(d).at = d.at
PROOF
<1>1. "wifistate" \in Timer /\ 1000 \in Nat
  BY DEF Timer
<1> QED
  BY <1>1, Timers DEF tcp_client_init, SameControl

\* A record is sent, or a task is asked for: either watches the device.
LEMMA SendFlashMac ==
  ASSUME NEW d, Sound(d), NEW w, Fits(w), NEW l \in BOOLEAN, l => WifiInRange
  PROVE  \A x \in send_flash_mac(d, w, l) : Good(x)
PROOF
<1> DEFINE N(x) == IF l THEN http_post(x) ELSE create_http(x, 2)
           e == CheckIdNext(d, w)
<1>1. ASSUME NEW x, Sound(x) PROVE Good(N(x))
  BY <1>1, Post, CreateHttp
<1>2. Good(e) /\ Good(CheckIdNext(e, w))
  BY CheckId DEF Good
<1>3. send_flash_mac(d, w, l) = {N(d), e, N(e), CheckIdNext(e, w)}
  BY DEF send_flash_mac
<1> HIDE DEF N, e
<1> QED
  BY <1>1, <1>2, <1>3 DEF Good

-----------------------------------------------------------------------------
(* receive_ok.                                                             *)

\* The next part of an upload follows the OK of the one before.
LEMMA NextPart ==
  ASSUME NEW d, Sound(d), NEW k \in 1 .. 6, SendState[k] = d.at
  PROVE  /\ k < 6 => Keeps(d, Ask(d, SendPart[k + 1], SendState[k + 1]))
         /\ k = 6 => Keeps(d, [Ask(d, SendPart[k + 1], "WAIT") EXCEPT !.gnrmc = 0])
PROOF
<1>1. k + 1 \in 1 .. 7 /\ SendPart[k + 1] \in Command
  BY States
<1>2. ASSUME k < 6 PROVE Keeps(d, Ask(d, SendPart[k + 1], SendState[k + 1]))
  <2>1. k + 1 \in 1 .. 6
    BY <1>2
  <2>2. /\ SendState[k + 1] \in AtState
        /\ \A j \in 1 .. 6 : SendState[k + 1] = SendState[j] => j = k + 1
    BY <2>1, States
  <2>3. d.at \in Sending
    BY States
  <2>4. d.creat = 1
    BY <2>3 DEF Sound, Created
  <2> QED
    BY <1>1, <2>2, <2>4, AskSound DEF Keeps
<1>3. Keeps(d, Ask(d, SendPart[k + 1], "WAIT"))
  BY <1>1, AskPlain, PlainHas DEF Keeps
<1>4. Keeps(Ask(d, SendPart[k + 1], "WAIT"),
            [Ask(d, SendPart[k + 1], "WAIT") EXCEPT !.gnrmc = 0])
  BY <1>3, Fields DEF Keeps
<1> QED
  BY <1>2, <1>3, <1>4, KeepsTrans

\* The client is connected: it exists, for HTTP_CON awaits its connection.
LEMMA Connected ==
  ASSUME NEW d, Sound(d), d.at = "HTTP_CON"
  PROVE  Keeps(d, what_do([d EXCEPT !.dis = 0]))
PROOF
<1> DEFINE e == [d EXCEPT !.dis = 0]
<1>1. d.creat = 1 /\ d \in Device
  BY DEF Sound, Created
<1>2. /\ e \in Device /\ SameTimers(d, e) /\ e.creat = 1 /\ e.at = d.at
      /\ e.last = d.last
  BY <1>1 DEF Device, SameTimers
<1> HIDE DEF e
<1>3. Keeps(d, e)
  BY <1>2, TimersKept DEF Sound, Contig, Created, Keeps
<1>4. Keeps(e, what_do(e))
  BY <1>2, <1>3, WhatDo DEF Keeps
<1> QED
  BY <1>3, <1>4, KeepsTrans DEF e

LEMMA ReceiveOk ==
  ASSUME NEW d, Sound(d), NEW w, Fits(w)
  PROVE  \A x \in receive_ok(d, w) : Keeps(d, x)
PROOF
<1>1. /\ Keeps(d, Ask(d, "at", "ZADC")) /\ Keeps(d, Ask(d, "at", "CCLK"))
      /\ Keeps(d, Ask(d, "zrst", "ZOFF")) /\ Keeps(d, Ask(d, "at", "ZGNMEA"))
      /\ Keeps(d, d) /\ Keeps(d, delay_power_off(d))
  BY AskKeeps, PlainHas, PowerOff DEF Keeps
<1>0. \A s \in {"CCLK", "ZOFF", "ZGNMEA", "ZGRUN", "HTTP_CON"} : s \notin Sending
  BY States
<1>2. CASE d.at = "CCLK"
  <2>1. Good(create_http(d, 0)) /\ Good(create_http(d, 4))
    BY CreateHttp
  <2>2. Good(check_id(create_http(d, 0), w)) /\ Good(check_id(d, w))
    BY <2>1, CheckId DEF Good
  <2> QED
    BY <1>0, <1>2, <2>1, <2>2 DEF receive_ok, Keeps, Good
<1>3. CASE d.at = "ZOFF"
  <2>1. Keeps(d, [d EXCEPT !.up = FALSE])
    BY Fields
  <2>2. receive_ok(d, w) = {[d EXCEPT !.up = FALSE]}
    BY <1>0, <1>3 DEF receive_ok
  <2> QED
    BY <2>1, <2>2, Zenon
<1>4. CASE d.at = "ZGNMEA"
  <2>1. Keeps(d, Ask(d, "zgrun", "ZGRUN")) /\ Ask(d, "zgrun", "ZGRUN").at = "ZGRUN"
    BY AskKeeps, PlainHas
  <2>2. "ZGRUN" \notin Sending
    BY States
  <2>3. Keeps(Ask(d, "zgrun", "ZGRUN"), Disconnect(Ask(d, "zgrun", "ZGRUN")))
    BY <2>1, <2>2, Ended DEF Keeps
  <2>4. Keeps(d, Disconnect(Ask(d, "zgrun", "ZGRUN")))
    BY <2>1, <2>3, KeepsTrans
  <2> QED
    BY <1>0, <1>4, <2>4 DEF receive_ok
<1>5. CASE d.at = "ZGRUN"
  <2>1. Keeps(d, start(d))
    BY Start
  <2>2. Keeps(start(d), [start(d) EXCEPT !.at = "WAIT"])
    BY <2>1, Fields, PlainHas DEF Keeps
  <2>3. Keeps(d, [start(d) EXCEPT !.at = "WAIT"])
    BY <2>1, <2>2, KeepsTrans
  <2>4. receive_ok(d, w) = {[start(d) EXCEPT !.at = "WAIT"]}
    BY <1>0, <1>5 DEF receive_ok
  <2> QED
    BY <2>3, <2>4, Zenon
<1>6. CASE d.at = "HTTP_CON"
  <2>1. Keeps(d, what_do([d EXCEPT !.dis = 0]))
    BY <1>6, Connected
  <2>2. receive_ok(d, w) = {what_do([d EXCEPT !.dis = 0])}
    BY <1>0, <1>6 DEF receive_ok
  <2> QED
    BY <2>1, <2>2, Zenon
<1>7. CASE d.at \in Sending
  <2>1. d.at \notin {"LED", "ZADC", "CCLK", "ZCFUN", "ZOFF", "ZGMODE", "ZGNMEA",
                     "ZGRUN", "HTTP_CON"}
    BY <1>7, States
  <2>2. receive_ok(d, w) =
         {IF k < 6 THEN Ask(d, SendPart[k + 1], SendState[k + 1])
          ELSE [Ask(d, SendPart[k + 1], "WAIT") EXCEPT !.gnrmc = 0] :
            k \in {k \in 1 .. 6 : SendState[k] = d.at}}
    BY <1>7, <2>1 DEF receive_ok
  <2>3. ASSUME NEW k \in 1 .. 6, SendState[k] = d.at
        PROVE  Keeps(d, IF k < 6 THEN Ask(d, SendPart[k + 1], SendState[k + 1])
                        ELSE [Ask(d, SendPart[k + 1], "WAIT") EXCEPT !.gnrmc = 0])
    <3>1. CASE k < 6
      BY <2>3, <3>1, NextPart
    <3>2. CASE k = 6
      BY <2>3, <3>2, NextPart
    <3> QED
      BY <3>1, <3>2
  <2> QED
    BY <2>2, <2>3
<1>8. CASE d.at \notin Sending \cup {"CCLK", "ZOFF", "ZGNMEA", "ZGRUN", "HTTP_CON"}
  BY <1>1, <1>8 DEF receive_ok
<1> QED
  BY <1>2, <1>3, <1>4, <1>5, <1>6, <1>7, <1>8

-----------------------------------------------------------------------------
(* The answers of the server.                                              *)

LEMMA UpdateFirmware ==
  ASSUME NEW d, Sound(d)
  PROVE  \A x \in update_firmware(d) : Keeps(d, x) /\ x.at = d.at
PROOF
<1>1. "check_id" \in Timer /\ 120000 \in Nat
  BY DEF Timer
<1>2. Keeps(d, Repeat(d, "check_id", 120000)) /\ Repeat(d, "check_id", 120000).at = d.at
  BY <1>1, Timers DEF SameControl
<1> QED
  BY <1>2, TcpClientInit DEF update_firmware

\* restart_nb, repeated, watches whatever is left.
LEMMA WatchAgain ==
  ASSUME NEW d, Sound(d)
  PROVE  Good(Repeat(d, "restart_nb", 185000)) /\ Good(Repeat(d, "check_id", 120000))
PROOF
<1>1. {"restart_nb", "check_id"} \subseteq Timer /\ 185000 \in Nat /\ 120000 \in Nat
  BY DEF Timer
<1> QED
  BY <1>1, RepeatIs DEF Good

LEMMA UploadedKeeps ==
  ASSUME NEW d, Sound(d), NEW w, Fits(w)
  PROVE  \A x \in Uploaded(d, w) : Keeps(d, x)
PROOF
<1>1. Keeps(d, Ask(d, "at", "ZADC"))
  BY AskKeeps, PlainHas
<1> QED
  BY <1>1, SendFlashMac DEF Uploaded, Keeps, Good

LEMMA CollectedGood ==
  ASSUME NEW d, Sound(d), NEW w, Fits(w)
  PROVE  \A x \in Collected(d, w) : Good(x)
PROOF
<1> DEFINE e    == Arm(d, "err_restart", 240000)
           idle == [e EXCEPT !.at = "NONE"]
           quiet == Disarm(idle, "check_id")
           task == Ask(quiet, "at", "ZGMODE")
           still == Disarm(idle, "restart_nb")
           none == {idle} \cup update_firmware(still)
           rest == {task, Disconnect(task)} \cup {Disconnect(n) : n \in none}
           sent == send_flash_mac(e, w, FALSE) \cup send_flash_mac(e, w, WifiInRange)
<1>1. /\ "err_restart" \in Timer \ {"check_id", "restart_nb"} /\ 240000 \in Nat
      /\ {"restart_nb", "check_id"} \subseteq Timer
  BY DEF Timer
<1>2. Collected(d, w) = sent \cup {Repeat(x, "restart_nb", 185000) : x \in rest}
  BY DEF Collected
<1>3. Sound(e)
  BY <1>1, Timers DEF Keeps
<1> HIDE DEF e
<1>4. Sound(idle) /\ idle.at = "NONE"
  <2>1. Keeps(e, idle)
    BY <1>3, Fields, PlainHas
  <2> QED
    BY <1>3, <2>1 DEF Keeps, Sound, Device
<1> HIDE DEF idle
<1>5. Sound(quiet)
  BY <1>1, <1>4, DisarmIs
<1>6. Sound(still) /\ still.at = "NONE"
  BY <1>1, <1>4, DisarmIs DEF SameControl
<1> HIDE DEF quiet, still
<1>7. Sound(task) /\ task.at = "ZGMODE"
  BY <1>5, AskKeeps, PlainHas DEF Keeps
<1>8. \A n \in none : Sound(n) /\ n.at = "NONE"
  BY <1>4, <1>6, UpdateFirmware DEF Keeps
<1>9. "ZGMODE" \notin Sending /\ "NONE" \notin Sending
  BY States
<1> HIDE DEF task, none
<1>10. Sound(Disconnect(task)) /\ \A n \in none : Sound(Disconnect(n))
  BY <1>7, <1>8, <1>9, Ended DEF Keeps
<1>11. \A x \in rest : Good(Repeat(x, "restart_nb", 185000))
  BY <1>7, <1>10, WatchAgain
<1>12. \A x \in sent : Good(x)
  BY <1>3, SendFlashMac, ControlAssumption
<1> HIDE DEF rest, sent
<1> QED
  BY <1>2, <1>11, <1>12

LEMMA UnusedGood ==
  ASSUME NEW d, Sound(d)
  PROVE  \A x \in Unused(d) : Good(x)
PROOF
<1>1. "restart_nb" \in Timer
  BY DEF Timer
<1>2. Sound(Disarm(d, "restart_nb"))
  BY <1>1, DisarmIs
<1>3. \A x \in update_firmware(Disarm(d, "restart_nb")) : Sound(x)
  BY <1>2, UpdateFirmware DEF Keeps
<1> QED
  BY <1>3, WatchAgain DEF Unused

LEMMA Answer ==
  ASSUME NEW d, Sound(d), NEW w, Fits(w), NEW answer
  PROVE  \A x \in EHTTPNMIC(d, w, answer) : Keeps(d, x)
PROOF
<1>1. Keeps(d, get_indoor_position(d))
  <2> DEFINE e == Arm(d, "upload_data", 2000)
  <2>1. "upload_data" \in Timer \ {"check_id", "restart_nb"} /\ 2000 \in Nat
    BY DEF Timer
  <2>2. Keeps(d, e)
    BY <2>1, Timers
  <2>3. get_indoor_position(d) = [e EXCEPT !.post = "IDLE"]
    BY DEF get_indoor_position
  <2> HIDE DEF e
  <2>4. Keeps(e, [e EXCEPT !.post = "IDLE"])
    BY <2>2, Fields DEF Keeps
  <2> QED
    BY <2>2, <2>3, <2>4, KeepsTrans
<1>2. Keeps(d, Ask(d, "at", "ZGMODE")) /\ Keeps(d, Ask(d, "get_tag", "WAIT"))
  BY AskKeeps, PlainHas
<1>3. Keeps(d, Repeat(d, "check_id", 120000))
  BY WatchAgain DEF Good, Keeps
<1>4. CASE answer = "success"
  BY <1>4, UploadedKeeps DEF EHTTPNMIC
<1>5. CASE answer = "collectId"
  BY <1>5, CollectedGood DEF EHTTPNMIC, Keeps, Good
<1>6. CASE answer = "unused"
  BY <1>6, UnusedGood DEF EHTTPNMIC, Keeps, Good
<1>7. CASE answer \notin {"success", "collectId", "unused"}
  BY <1>1, <1>2, <1>3, <1>7 DEF EHTTPNMIC
<1> QED
  BY <1>4, <1>5, <1>6, <1>7

-----------------------------------------------------------------------------
(* uart_receive.                                                           *)

\* Once the modem has spoken, both timers run.
LEMMA ListenGood ==
  ASSUME NEW d, Sound(d), NEW w, Fits(w)
  PROVE  Good(Listen(d, w))
PROOF
<1> DEFINE e == [d EXCEPT !.heard = TRUE]
           f == Repeat(e, "check_id", 120000)
           g == Repeat(f, "restart_nb", 180000)
<1>1. Sound(e)
  <2>1. d \in Device
    BY DEF Sound
  <2>2. /\ e \in Device /\ e.left = d.left /\ e.reload = d.reload /\ e.posts = d.posts
        /\ e.at = d.at /\ e.last = d.last /\ e.dis = d.dis /\ e.creat = d.creat
    BY <2>1 DEF Device
  <2> HIDE DEF e
  <2> QED
    BY <2>2 DEF Sound, Contig, Created, Calm
<1>2. Listen(d, w) = IF w THEN e ELSE g
  BY DEF Listen
<1> HIDE DEF e
<1>3. {"restart_nb", "check_id"} \subseteq Timer /\ 180000 \in Nat /\ 120000 \in Nat
  BY DEF Timer
<1>4. Sound(f)
  BY <1>1, <1>3, RepeatIs
<1> HIDE DEF f
<1>5. Good(g)
  BY <1>3, <1>4, RepeatIs DEF Good
<1>6. w => Good(e)
  BY <1>1, InRange DEF Fits
<1> QED
  BY <1>2, <1>5, <1>6

LEMMA GnrmcKeeps ==
  ASSUME NEW d, Sound(d)
  PROVE  \A x \in GNRMC(d) : Keeps(d, x)
PROOF
<1>0. d \in Device
  BY DEF Sound
<1>1. ASSUME NEW g \in {0, 1}
      PROVE  Keeps(d, [Ask(d, "at", "ZADC") EXCEPT !.gps = g, !.gnrmc = 0, !.dis = 1])
  <2> DEFINE a == Ask(d, "at", "ZADC")
             e == [a EXCEPT !.gps = g, !.gnrmc = 0, !.dis = 1]
  <2>1. Keeps(d, a)
    BY AskKeeps, PlainHas
  <2> HIDE DEF a
  <2>2. 0 \in 0 .. MaxGnrmc
    BY ControlAssumption
  <2>3. a \in Device
    BY <2>1 DEF Keeps, Sound
  <2>4. e \in Device /\ Light(a, e)
    BY <2>2, <2>3 DEF Device, Light
  <2> HIDE DEF e
  <2>5. Keeps(a, e)
    BY <2>1, <2>4, Touched DEF Keeps
  <2>6. Keeps(d, e)
    BY <2>1, <2>5, KeepsTrans
  <2> QED
    BY <2>6 DEF e, a
<1>2. ASSUME NEW g \in {0, 1}, d.gnrmc # MaxGnrmc
      PROVE  Keeps(d, [[d EXCEPT !.gnrmc = @ + 1] EXCEPT !.gps = g])
  <2> DEFINE e == [[d EXCEPT !.gnrmc = @ + 1] EXCEPT !.gps = g]
  <2>1. d.gnrmc \in 0 .. MaxGnrmc
    BY <1>0 DEF Device
  <2>2. d.gnrmc + 1 \in 0 .. MaxGnrmc
    BY <1>2, <2>1, ControlAssumption
  <2>3. e \in Device /\ Light(d, e)
    BY <1>0, <2>2 DEF Device, Light
  <2> HIDE DEF e
  <2>4. Keeps(d, e)
    BY <2>3, Touched
  <2> QED
    BY <2>4 DEF e
<1>3. CASE d.gnrmc = MaxGnrmc
  <2>1. GNRMC(d) = {[Ask(d, "at", "ZADC") EXCEPT !.gps = g, !.gnrmc = 0, !.dis = 1] : g \in {0, 1}}
    BY <1>3 DEF GNRMC
  <2> QED
    BY <1>1, <2>1, Zenon
<1>4. CASE d.gnrmc # MaxGnrmc
  <2>1. GNRMC(d) = {[[d EXCEPT !.gnrmc = @ + 1] EXCEPT !.gps = g] : g \in {0, 1}}
    BY <1>4 DEF GNRMC
  <2> QED
    BY <1>2, <1>4, <2>1, Zenon
<1> QED
  BY <1>3, <1>4

LEMMA RestKeeps ==
  ASSUME NEW d, Sound(d), NEW frame, NEW w, Fits(w), NEW answer
  PROVE  \A x \in Rest(d, frame, w, answer) : Keeps(d, x)
PROOF
<1>1. Keeps(d, d)
  BY DEF Keeps
<1> QED
  BY <1>1, Answer, GnrmcKeeps DEF Rest

\* The modem reports its client: the device connects it.
LEMMA NewClient ==
  ASSUME NEW d, Sound(d)
  PROVE  Keeps(d, [Ask(d, "con", "HTTP_CON") EXCEPT !.creat = 1, !.dis = 0])
PROOF
<1> DEFINE s == queue_uart_send(d, "con")
           a == Ask(d, "con", "HTTP_CON")
           e == [a EXCEPT !.creat = 1, !.dis = 0]
<1>1. d \in Device /\ "con" \in Command /\ "HTTP_CON" \in AtState
  BY Words DEF Sound, AtState
<1>2. s \in Device /\ SameTimers(d, s)
  BY <1>1, SendIs
<1>3. a = [s EXCEPT !.at = "HTTP_CON"]
  BY DEF Ask
<1> HIDE DEF s, a
<1>4. a \in Device /\ SameTimers(d, a) /\ a.at = "HTTP_CON"
  BY <1>1, <1>2, <1>3 DEF Device, SameTimers
<1>5. e \in Device /\ SameTimers(d, e) /\ e.at = "HTTP_CON" /\ e.creat = 1
  BY <1>4 DEF Device, SameTimers
<1>6. \A k \in 1 .. 6 : SendState[k] # "HTTP_CON"
  BY States
<1> HIDE DEF e
<1>7. Keeps(d, e)
  BY <1>5, <1>6, TimersKept DEF Keeps, Sound, Contig, Created
<1> QED
  BY <1>7 DEF e, a

LEMMA UartReceive ==
  ASSUME NEW d, Sound(d), NEW frame, NEW w, Fits(w), NEW answer
  PROVE  \A x \in uart_receive(d, frame, w, answer) : Good(x)
PROOF
<1> DEFINE d1 == Listen(d, w)
           d2 == IF "CESQ" \in frame THEN nbiot_http_post(d1) ELSE d1
           c  == [Ask(d2, "con", "HTTP_CON") EXCEPT !.creat = 1, !.dis = 0]
           p  == [d2 EXCEPT !.dis = 1]
           i  == Ask(Disarm(d2, "wait_nb_con"), "at", "LED")
           R(e) == Rest(e, IF Blanks(d2, e, w) THEN {} ELSE frame, w, answer)
<1>1. uart_receive(d, frame, w, answer) =
        IF "CPIN" \in frame THEN {Ask(d2, "at", "WAIT")}
        ELSE IF "IP" \in frame THEN {i}
        ELSE IF "EHTTPCREAT" \in frame THEN {c}
        ELSE IF "EHTTPERR" \in frame THEN {p}
        ELSE IF "ERROR" \in frame THEN {Refused(d2)}
        ELSE IF "OK" \in frame THEN UNION {R(e) : e \in receive_ok(d2, w)}
        ELSE Rest(d2, frame, w, answer)
  BY DEF uart_receive
<1>2. Good(d1)
  BY ListenGood
<1> HIDE DEF d1
<1>3. Good(d2)
  BY <1>2, NbiotHttpPost, KeepsGood DEF Good
<1> HIDE DEF d2
<1>4. Sound(d2)
  BY <1>3 DEF Good
<1>5. Good(Ask(d2, "at", "WAIT"))
  BY <1>3, <1>4, AskKeeps, PlainHas, KeepsGood
<1>6. Good(i)
  <2>1. "wait_nb_con" \in Timer \ {"check_id", "restart_nb"}
    BY DEF Timer
  <2>2. Good(Disarm(d2, "wait_nb_con"))
    BY <1>3, <1>4, <2>1, Timers, KeepsGood
  <2> QED
    BY <2>2, AskKeeps, PlainHas, KeepsGood DEF Good
<1>7. Good(c)
  BY <1>3, <1>4, NewClient, KeepsGood
<1>8. Good(p)
  BY <1>3, <1>4, Fields, KeepsGood
<1>9. Good(Refused(d2))
  BY <1>3, <1>4, PowerOff, KeepsGood DEF Refused
<1>10. \A x \in Rest(d2, frame, w, answer) : Good(x)
  BY <1>3, <1>4, RestKeeps, KeepsGood
<1>11. \A e \in receive_ok(d2, w) : \A x \in R(e) : Good(x)
  <2>1. ASSUME NEW e \in receive_ok(d2, w) PROVE \A x \in R(e) : Good(x)
    <3>1. Good(e)
      BY <1>3, <1>4, <2>1, ReceiveOk, KeepsGood
    <3>2. \A x \in R(e) : Keeps(e, x)
      BY <3>1, RestKeeps DEF Good
    <3> QED
      BY <3>1, <3>2, KeepsGood
  <2> QED
    BY <2>1
<1>12. \A x \in UNION {R(e) : e \in receive_ok(d2, w)} : Good(x)
  BY <1>11
<1> HIDE DEF c, p, i, R
<1> QED
  BY <1>1, <1>5, <1>6, <1>7, <1>8, <1>9, <1>10, <1>12

-----------------------------------------------------------------------------
(* Wi-Fi and the timers.                                                   *)

\* Where there is an access point the device may stop watching the modem.
LEMMA ScanDone ==
  ASSUME NEW d, Sound(d)
  PROVE  \A x \in scan_done(d) : Keeps(d, x)
PROOF
<1> DEFINE S == {d} \cup {switch_to_wifi(x) : x \in IF WifiInRange THEN {d} ELSE {}}
           A(e) == Arm(e, "wait_con_wifi", 18000)
           f(e) == IF e.gps = 0 THEN [A(e) EXCEPT !.post = "AP_MAC"] ELSE e
<1>1. scan_done(d) = {f(e) : e \in S}
  BY DEF scan_done
<1>2. /\ {"wifistate", "restart_nb"} \subseteq Timer /\ 1000 \in Nat /\ 18000 \in Nat
      /\ "wait_con_wifi" \in Timer \ {"check_id", "restart_nb"}
  BY DEF Timer
<1>3. ASSUME WifiInRange PROVE Keeps(d, switch_to_wifi(d))
  <2>1. Sound(Repeat(d, "wifistate", 1000))
    BY <1>2, Timers DEF Keeps
  <2>2. Sound(switch_to_wifi(d))
    BY <1>2, <2>1, DisarmIs DEF switch_to_wifi
  <2> QED
    BY <1>3, <2>2, InRange DEF Keeps, Good
<1>4. \A e \in S : Keeps(d, e)
  BY <1>3 DEF Keeps
<1> HIDE DEF S
<1>5. ASSUME NEW e \in S PROVE Keeps(d, f(e))
  <2>1. Keeps(d, e)
    BY <1>4
  <2>2. Keeps(e, A(e))
    BY <1>2, <2>1, Timers DEF Keeps
  <2> HIDE DEF A
  <2>3. Keeps(A(e), [A(e) EXCEPT !.post = "AP_MAC"])
    BY <2>2, Fields DEF Keeps
  <2>4. Keeps(d, [A(e) EXCEPT !.post = "AP_MAC"])
    BY <2>1, <2>2, <2>3 DEF Keeps
  <2> QED
    BY <2>1, <2>4
<1> HIDE DEF f
<1> QED
  BY <1>1, <1>5

LEMMA CheckWifiState ==
  ASSUME NEW d, Sound(d), NEW w, Fits(w)
  PROVE  \A x \in Check_WifiState(d, w) : Keeps(d, x)
PROOF
<1> DEFINE q == Disarm(d, "check_id")
           e == Disarm(q, "wifistate")
           v == Disarm(d, "wifistate")
           h == Disarm(e, "wait_con_wifi")
           o == [e EXCEPT !.ota = TRUE]
<1>1. /\ "check_id" \in Timer
      /\ {"wifistate", "wait_con_wifi"} \subseteq Timer \ {"check_id", "restart_nb"}
  BY DEF Timer
<1>2. Check_WifiState(d, w) =
        IF ~w THEN {d, Ask(v, "at", "ZGMODE")}
        ELSE CASE d.post = "OTA"      -> {e, o}
               [] d.post = "CHECK_ID" -> {check_id(e, w)}
               [] d.post = "AP_MAC"   -> {http_post(h)}
               [] d.post = "IDLE"     -> {e}
  BY DEF Check_WifiState
<1>3. Keeps(d, v)
  BY <1>1, Timers
<1>4. Sound(q)
  BY <1>1, DisarmIs
<1> HIDE DEF v, q
<1>5. Keeps(d, Ask(v, "at", "ZGMODE"))
  BY <1>3, AskKeeps, PlainHas DEF Keeps
<1>6. Sound(e)
  BY <1>1, <1>4, DisarmIs
<1> HIDE DEF e
<1>7. Sound(o) /\ Sound(h) /\ Good(check_id(e, w))
  BY <1>1, <1>6, Fields, DisarmIs, CheckId DEF Keeps
<1> HIDE DEF o, h
<1>8. ASSUME w PROVE Good(e) /\ Good(o) /\ Good(http_post(h))
  BY <1>6, <1>7, <1>8, InRange, Post DEF Fits
<1>9. d.post \in {"IDLE", "OTA", "CHECK_ID", "AP_MAC"}
  BY DEF Sound, Device
<1>10. Keeps(d, d)
  BY DEF Keeps
<1>11. CASE ~w
  BY <1>2, <1>5, <1>10, <1>11
<1>12. CASE w
  BY <1>2, <1>7, <1>8, <1>9, <1>12 DEF Good, Keeps
<1> QED
  BY <1>11, <1>12 DEF Fits

LEMMA CheckUpdate ==
  ASSUME NEW d, Sound(d)
  PROVE  \A x \in check_update_firmware(d) : Keeps(d, x)
PROOF
<1>1. Keeps(tcp_client_init(d), [tcp_client_init(d) EXCEPT !.post = "OTA"])
  BY TcpClientInit, Fields DEF Keeps
<1>2. Keeps(d, [tcp_client_init(d) EXCEPT !.post = "OTA"])
  BY <1>1, TcpClientInit, KeepsTrans
<1>3. 100000 \in Nat
  OBVIOUS
<1>4. Keeps(d, Arm(d, "check_id", 100000))
  BY <1>3, Timers
<1> QED
  BY <1>2, <1>4 DEF check_update_firmware

\* A request over Wi-Fi can only end where there is an access point.
LEMMA PostCallback ==
  ASSUME NEW d, Sound(d), NEW w, Fits(w), WifiInRange
  PROVE  \A x \in post_callback(d, w) : Good(x)
PROOF
<1> DEFINE again(x) == Ask(x, "at", "ZGMODE")
           failed   == {again(d), again(again(d))}
           task     == {d, again(d)} \cup check_update_firmware(d)
           base     == {d} \cup check_update_firmware(d)
           records  == UNION {send_flash_mac(e, w, TRUE) : e \in base}
           other    == update_data(d, w)
                         \cup {CheckIdNext(d, w), CheckIdNext(Disarm(d, "delay_update"), w)}
           done     == {d} \cup failed
           left     == task \cup records \cup other
<1>1. post_callback(d, w) = done \cup {Disarm(e, "restart_nb") : e \in left}
  BY DEF post_callback
<1>2. "restart_nb" \in Timer /\ "delay_update" \in Timer
  BY DEF Timer
<1>3. ASSUME NEW x, Sound(x) PROVE Sound(again(x))
  BY <1>3, AskKeeps, PlainHas DEF Keeps
<1>4. Sound(again(d)) /\ Sound(again(again(d)))
  BY <1>3
<1> HIDE DEF again
<1>5. \A x \in done : Sound(x)
  BY <1>4
<1>6. \A x \in check_update_firmware(d) : Sound(x)
  BY CheckUpdate DEF Keeps
<1>7. \A e \in base : \A x \in send_flash_mac(e, w, TRUE) : Sound(x)
  BY <1>6, SendFlashMac DEF Good
<1>8. \A x \in records : Sound(x)
  BY <1>7
<1>9. \A x \in other : Sound(x)
  BY <1>2, UpdateData, CheckId, DisarmIs DEF Keeps, Good
<1>10. \A x \in task : Sound(x)
  BY <1>4, <1>6
<1> HIDE DEF done, task, records, other
<1>11. \A e \in left : Sound(Disarm(e, "restart_nb"))
  BY <1>2, <1>8, <1>9, <1>10, DisarmIs
<1> HIDE DEF left
<1>12. \A x \in post_callback(d, w) : Sound(x)
  BY <1>1, <1>5, <1>11
<1> QED
  BY <1>12, InRange

\* A timer that runs out, but for check_id, leaves the device watched; check_id
\* has restart_nb repeat.
LEMMA ExpiredGood ==
  ASSUME NEW d, Sound(d), NEW t \in Timer, t = "check_id" \/ Watched(d),
         NEW w, Fits(w)
  PROVE  \A x \in Expired(d, t, w) : Good(x)
PROOF
<1>1. CASE t = "check_id"
  BY <1>1, CheckId DEF Expired
<1>2. ASSUME t # "check_id" PROVE \A x \in Expired(d, t, w) : Keeps(d, x)
  <2>1. CASE t \in {"restart_nb", "err_restart"}
    BY <2>1, PowerOff DEF Expired
  <2>2. CASE t \in {"upload_data", "delay_update"}
    BY <2>2, UpdateData DEF Expired
  <2>3. CASE t = "delay_discon"
    BY <2>3, Ended DEF Expired
  <2>4. CASE t = "scan"
    BY <2>4, Fields DEF Expired, wifi_scan
  <2>5. CASE t = "wait_con_wifi"
    <3>1. Good(create_http(d, 3))
      BY CreateHttp
    <3>2. Keeps(d, ap_str_ascii_str(d, w))
      BY <3>1 DEF ap_str_ascii_str, Keeps, Good
    <3> QED
      BY <2>5, <3>2 DEF Expired
  <2>6. CASE t = "wait_nb_con"
    BY <2>6, Signal DEF Expired
  <2>7. CASE t = "wifistate"
    BY <2>7, CheckWifiState DEF Expired
  <2> QED
    BY <1>2, <2>1, <2>2, <2>3, <2>4, <2>5, <2>6, <2>7 DEF Timer
<1>3. ASSUME t # "check_id" PROVE Good(d)
  BY <1>3 DEF Good
<1> QED
  BY <1>1, <1>2, <1>3, KeepsGood

-----------------------------------------------------------------------------
(* The modem.                                                              *)

LEMMA ModemTypes ==
  ASSUME NEW m \in Modem
  PROVE  /\ Closed(m) \in Modem
         /\ \A n \in Reports(m) \cup {NoReport(m)} : n.modem \in Modem /\ n.cost \in {0, 1}
PROOF
<1>1. Closed(m) \in Modem
  BY DEF Closed, Modem
<1>2. /\ [m EXCEPT !.boot = "ip"] \in Modem /\ [m EXCEPT !.boot = "up"] \in Modem
      /\ \A q : [m EXCEPT !.owed = @ \ {q}] \in Modem
  BY DEF Modem
<1>3. \A n \in Starts(m) : n.modem \in Modem /\ n.cost \in {0, 1}
  BY <1>2 DEF Starts, Report
<1>4. NoReport(m).modem \in Modem /\ NoReport(m).cost \in {0, 1}
  BY DEF NoReport, Report
<1>5. \A q \in m.owed : \A a \in AnswersTo(q) :
        LET n == Report(m, "EHTTPNMIC", a, [m EXCEPT !.owed = @ \ {q}], 0)
        IN n.modem \in Modem /\ n.cost \in {0, 1}
  BY <1>2 DEF Report
<1>6. /\ \A n \in {Report(m, "EHTTPERR", "-", Closed(m), 1)} :
           n.modem \in Modem /\ n.cost \in {0, 1}
      /\ \A n \in {Report(m, "GNRMC", "-", m, 1)} : n.modem \in Modem /\ n.cost \in {0, 1}
  BY <1>1 DEF Report
<1>7. \A n \in Reports(m) : n.modem \in Modem /\ n.cost \in {0, 1}
  BY <1>3, <1>5, <1>6 DEF Reports
<1> QED
  BY <1>1, <1>4, <1>7

LEMMA ReplyTypes ==
  ASSUME TypeOK, NEW r \in Replies
  PROVE  r.modem \in Modem /\ r.line \in Seq(Command) /\ Cost(r) \in {0, 1}
PROOF
<1>1. line # << >> /\ line \in Seq(Command) /\ modem \in Modem
  BY DEF Replies, TypeOK
<1>2. Tail(line) \in Seq(Command) /\ <<"at">> \o Tail(line) \in Seq(Command)
  <2>1. Tail(line) \in Seq(Command) /\ <<"at">> \in Seq(Command)
    BY <1>1, Words
  <2> QED
    BY <2>1
<1>3. \A c : Accepted(c) \in Modem
  <2>1. TAKE c
  <2>2. Closed(modem) \in Modem
    BY <1>1, ModemTypes
  <2>3. [Closed(modem) EXCEPT !.radio = FALSE, !.owed = {}] \in Modem
    BY <2>2 DEF Modem
  <2>4. Reset \in Modem
    BY DEF Reset, Modem
  <2>5. /\ [modem EXCEPT !.client = "closed"] \in Modem
        /\ [modem EXCEPT !.client = "open"] \in Modem
        /\ [modem EXCEPT !.gnss = TRUE] \in Modem
    BY <1>1 DEF Modem
  <2>6. c \in {"get_tag", "send6", "apmac"} => [modem EXCEPT !.owed = {c}] \in Modem
    BY <1>1 DEF Modem
  <2> QED
    BY <1>1, <2>2, <2>3, <2>4, <2>5, <2>6 DEF Accepted
<1>4. \A y \in Accepts : y.modem \in Modem /\ y.line \in Seq(Command)
  <2>1. Accepted(Head(line)) \in Modem
    BY <1>3
  <2>2. << >> \in Seq(Command)
    OBVIOUS
  <2>3. \A f, l : Yes(f, l).modem = Accepted(Head(line)) /\ Yes(f, l).line = l
    BY DEF Yes
  <2>4. \A y \in Accepts :
          \E f, l : y = Yes(f, l) /\ l \in {Tail(line), <<"at">> \o Tail(line), << >>}
    BY DEF Accepts
  <2> TAKE y \in Accepts
  <2>5. PICK f, l : y = Yes(f, l) /\ l \in {Tail(line), <<"at">> \o Tail(line), << >>}
    BY <2>4
  <2>6. l \in Seq(Command)
    BY <1>2, <2>2, <2>5
  <2> QED
    BY <2>1, <2>3, <2>5, <2>6
<1>5. r \in Accepts \/ r = Refusal
  BY DEF Replies
<1>6. Refusal.modem \in Modem /\ Refusal.line \in Seq(Command)
  BY <1>1, <1>2 DEF Refusal
<1>7. Cost(r) \in {0, 1}
  BY DEF Cost
<1> QED
  BY <1>4, <1>5, <1>6, <1>7

-----------------------------------------------------------------------------
(* The inductive invariant.                                                *)

IInv == TypeOK /\ Good(dev) /\ (~WifiInRange => ~wifi)

LEMMA HandsOver ==
  ASSUME NEW x, Good(x), NEW rest \in Seq(Command), HandOver(x, rest)
  PROVE  Good(dev') /\ dev' \in Device /\ line' \in Seq(Command)
PROOF
<1>1. Keeps(x, [x EXCEPT !.out = << >>])
  BY Fields DEF Good
<1>2. Good([x EXCEPT !.out = << >>])
  BY <1>1, KeepsGood
<1>3. x.out \in Seq(Command)
  BY DEF Good, Sound, Device
<1>4. dev' = [x EXCEPT !.out = << >>] /\ line' \in {rest \o x.out, << >>}
  BY DEF HandOver
<1>5. Good(dev')
  BY <1>2, <1>4
<1>6. rest \o x.out \in Seq(Command) /\ << >> \in Seq(Command)
  BY <1>3
<1>7. line' \in Seq(Command)
  BY <1>4, <1>6
<1> QED
  BY <1>5, <1>7 DEF Good, Sound

LEMMA BootedGood == Good(Booted)
PROOF
<1>1. Ticks(30000) \in Int /\ Off \in Int /\ 0 \in 0 .. MaxGnrmc
  BY TicksIs, ControlAssumption DEF Off
<1>2. "NONE" \in AtState /\ << >> \in Seq(Command)
  BY DEF AtState
<1>3. Booted \in Device
  BY <1>1, <1>2 DEF Booted, Device
<1>4. \A k \in 1 .. 6 : SendState[k] # "NONE"
  BY States
<1>5. "NONE" \notin Sending
  BY States
<1>6. Contig(Booted) /\ Created(Booted)
  BY <1>4, <1>5 DEF Booted, Contig, Created
<1>7. Calm(Booted) /\ Watched(Booted)
  BY DEF Booted, Calm, Watched, Timer
<1> QED
  BY <1>3, <1>6, <1>7 DEF Good, Sound

LEMMA InitInv == Init => IInv
PROOF
<1> SUFFICES ASSUME Init PROVE IInv
  OBVIOUS
<1>1. Reset \in Modem
  BY DEF Reset, Modem
<1>2. 0 \in 0 .. MaxEvents /\ << >> \in Seq(Command)
  BY ControlAssumption
<1> QED
  BY <1>1, <1>2, BootedGood DEF Init, IInv, TypeOK, Good, Sound

\* Every step keeps the invariant.
LEMMA NextInv == IInv /\ [Next]_vars => IInv'
PROOF
<1> SUFFICES ASSUME IInv, [Next]_vars PROVE IInv'
  OBVIOUS
<1>0. /\ TypeOK /\ Good(dev) /\ Sound(dev) /\ Fits(wifi) /\ (~WifiInRange => ~wifi)
      /\ dev \in Device /\ line \in Seq(Command) /\ modem \in Modem
      /\ wifi \in BOOLEAN /\ events \in Nat /\ MaxEvents \in Nat
  BY ControlAssumption DEF IInv, Good, Sound, Fits, TypeOK
<1> DEFINE Bounded(e) == e \in Nat /\ e <= MaxEvents
<1>1. ASSUME Answered PROVE IInv'
  <2>1. PICK r \in Replies : \E n \in Reports(r.modem) \cup {NoReport(r.modem)} :
          /\ events' = events + Cost(r) + n.cost
          /\ events + Cost(r) + n.cost <= MaxEvents
          /\ modem' = n.modem
          /\ \E x \in uart_receive(dev, r.frame \cup n.frame, wifi, n.answer) :
               HandOver(x, r.line)
    BY <1>1 DEF Answered
  <2>2. PICK n \in Reports(r.modem) \cup {NoReport(r.modem)} :
          /\ events' = events + Cost(r) + n.cost
          /\ events + Cost(r) + n.cost <= MaxEvents
          /\ modem' = n.modem
          /\ \E x \in uart_receive(dev, r.frame \cup n.frame, wifi, n.answer) :
               HandOver(x, r.line)
    BY <2>1
  <2>3. PICK x \in uart_receive(dev, r.frame \cup n.frame, wifi, n.answer) :
          HandOver(x, r.line)
    BY <2>2
  <2>4. Good(x)
    BY <1>0, <2>3, UartReceive
  <2>5. r.modem \in Modem /\ r.line \in Seq(Command) /\ Cost(r) \in {0, 1}
    BY <1>0, ReplyTypes
  <2>6. n.modem \in Modem /\ n.cost \in {0, 1}
    BY <2>5, ModemTypes
  <2>7. Good(dev') /\ dev' \in Device /\ line' \in Seq(Command)
    BY <2>3, <2>4, <2>5, HandsOver
  <2>8. events' \in 0 .. MaxEvents
    BY <1>0, <2>2, <2>5, <2>6
  <2>9. wifi' = wifi
    BY <1>1 DEF Answered
  <2> QED
    BY <1>0, <2>2, <2>6, <2>7, <2>8, <2>9 DEF IInv, TypeOK
<1>2. ASSUME ModemStarts \/ ModemReports PROVE IInv'
  <2>1. PICK n \in Reports(modem) : Reported(n)
    BY <1>2 DEF ModemStarts, ModemReports, Reports
  <2>2. PICK x \in uart_receive(dev, n.frame, wifi, n.answer) : HandOver(x, line)
    BY <2>1 DEF Reported
  <2>3. Good(x)
    BY <1>0, <2>2, UartReceive
  <2>4. n.modem \in Modem /\ n.cost \in {0, 1}
    BY <1>0, ModemTypes
  <2>5. Good(dev') /\ dev' \in Device /\ line' \in Seq(Command)
    BY <1>0, <2>2, <2>3, HandsOver
  <2>6. events' = events + n.cost /\ events + n.cost <= MaxEvents
        /\ modem' = n.modem /\ wifi' = wifi
    BY <2>1 DEF Reported
  <2>7. events' \in 0 .. MaxEvents
    BY <1>0, <2>4, <2>6
  <2> QED
    BY <1>0, <2>4, <2>5, <2>6, <2>7 DEF IInv, TypeOK
<1>3. ASSUME FallSilent PROVE IInv'
  <2>1. [modem EXCEPT !.live = FALSE] \in Modem
    BY <1>0 DEF Modem
  <2>2. << >> \in Seq(Command)
    OBVIOUS
  <2> QED
    BY <1>0, <1>3, <2>1, <2>2 DEF FallSilent, IInv, TypeOK
<1>4. ASSUME WifiChanges PROVE IInv'
  <2>1. /\ WifiInRange /\ wifi' \in BOOLEAN /\ events < MaxEvents
        /\ events' = events + 1 /\ UNCHANGED <<dev, line, modem>>
    BY <1>0, <1>4 DEF WifiChanges
  <2>2. events' \in 0 .. MaxEvents
    BY <1>0, <2>1
  <2> QED
    BY <1>0, <2>1, <2>2 DEF IInv, TypeOK
\* What a handler of the device leaves, it hands over.
<1>5. ASSUME NEW x, Good(x), HandOver(x, line), wifi' = wifi \/ wifi' = FALSE,
             UNCHANGED <<modem, events>>
      PROVE  IInv'
  <2>1. Good(dev') /\ dev' \in Device /\ line' \in Seq(Command)
    BY <1>0, <1>5, HandsOver
  <2>2. wifi' \in BOOLEAN /\ (~WifiInRange => ~wifi')
    <3>1. CASE wifi' = wifi
      BY <1>0, <3>1
    <3>2. CASE wifi' = FALSE
      BY <3>2
    <3> QED
      BY <1>5, <3>1, <3>2
  <2>3. modem' \in Modem /\ events' \in 0 .. MaxEvents
    BY <1>0, <1>5 DEF TypeOK
  <2> QED
    BY <2>1, <2>2, <2>3 DEF IInv, TypeOK
<1>6. ASSUME NEW t \in Timer, Expire(t) PROVE IInv'
  <2> DEFINE d == [dev EXCEPT !.left[t] = dev.reload[t]]
  <2>1. dev.left[t] = 0
    BY <1>6 DEF Expire
  <2>2. dev.left \in [Timer -> Int] /\ dev.reload \in [Timer -> Int]
    BY <1>0 DEF Device
  <2>3. dev.reload[t] \in Int
    BY <2>2
  <2>4. d = SetTimer(dev, t, dev.reload[t], dev.reload[t])
    <3>1. [dev.reload EXCEPT ![t] = dev.reload[t]] = dev.reload
      BY <2>2
    <3>2. SetTimer(dev, t, dev.reload[t], dev.reload[t])
            = [dev EXCEPT !.left = [dev.left EXCEPT ![t] = dev.reload[t]],
                          !.reload = [dev.reload EXCEPT ![t] = dev.reload[t]]]
      BY <1>0 DEF SetTimer, Device
    <3>3. d = [dev EXCEPT !.left = [dev.left EXCEPT ![t] = dev.reload[t]],
                          !.reload = dev.reload]
      BY <1>0 DEF Device
    <3> QED
      BY <3>1, <3>2, <3>3
  <2> HIDE DEF d
  <2>5. /\ Sound(d)
        /\ Watched(dev) /\ (t \in {"check_id", "restart_nb"} => dev.reload[t] # Off)
             => Watched(d)
    BY <1>0, <2>3, <2>4, TimerSound
  <2>6. t = "restart_nb" /\ ~WifiInRange => dev.reload[t] # Off
    <3>1. Calm(dev) /\ 0 # Off
      BY <1>0 DEF Sound, Off
    <3> QED
      BY <2>1, <3>1 DEF Calm
  <2>7. t = "check_id" \/ Watched(d)
    <3>1. CASE WifiInRange
      BY <3>1 DEF Watched
    <3>2. CASE ~WifiInRange /\ t # "check_id"
      BY <1>0, <2>5, <2>6, <3>2 DEF Good
    <3> QED
      BY <3>1, <3>2
  <2>8. \A x \in Expired(d, t, wifi) : Good(x)
    BY <1>0, <2>5, <2>7, ExpiredGood
  <2>9. /\ \E x \in Expired(d, t, wifi) : HandOver(x, line)
        /\ UNCHANGED <<wifi, modem, events>>
    BY <1>6 DEF Expire, d
  <2> QED
    BY <1>5, <2>8, <2>9
<1>7. ASSUME PostEnds PROVE IInv'
  <2>1. PICK b \in BOOLEAN :
          \E x \in post_callback([dev EXCEPT !.posts = b], wifi) : HandOver(x, line)
    BY <1>7 DEF PostEnds
  <2>2. WifiInRange
    BY <1>0, <1>7 DEF PostEnds, Sound, Calm
  <2>3. Keeps(dev, [dev EXCEPT !.posts = b])
    BY <1>0, <2>2, Fields
  <2>4. \A x \in post_callback([dev EXCEPT !.posts = b], wifi) : Good(x)
    BY <1>0, <2>2, <2>3, PostCallback DEF Keeps
  <2> QED
    BY <1>5, <1>7, <2>1, <2>4 DEF PostEnds
<1>8. ASSUME Scanned PROVE IInv'
  <2> DEFINE d == [dev EXCEPT !.scan = FALSE]
  <2>1. Good(d)
    BY <1>0, Fields, KeepsGood
  <2>2. (\E x \in scan_done(d) : HandOver(x, line)) /\ UNCHANGED <<wifi, modem, events>>
    BY <1>8 DEF Scanned
  <2> HIDE DEF d
  <2>3. \A x \in scan_done(d) : Good(x)
    BY <2>1, ScanDone, KeepsGood DEF Good
  <2> QED
    BY <1>5, <2>2, <2>3
<1>9. ASSUME Gathered PROVE IInv'
  <2>1. Good(Deduplication(dev))
    BY <1>0, Signal, KeepsGood
  <2> QED
    BY <1>5, <1>9, <2>1 DEF Gathered
<1>10. ASSUME ota_finished_callback PROVE IInv'
  <2> DEFINE d == [dev EXCEPT !.ota = FALSE]
  <2>1. Good(d)
    BY <1>0, Fields, KeepsGood
  <2>2. HandOver(delay_power_off(d), line) /\ UNCHANGED <<wifi, modem, events>>
    BY <1>10 DEF ota_finished_callback
  <2> HIDE DEF d
  <2>3. Good(delay_power_off(d))
    BY <2>1, PowerOff, KeepsGood DEF Good
  <2> QED
    BY <1>5, <2>2, <2>3
<1>11. ASSUME Restart PROVE IInv'
  BY <1>0, <1>11, BootedGood DEF Restart, IInv, TypeOK, Good, Sound
<1>12. ASSUME Tick PROVE IInv'
  <2> DEFINE f == [t \in Timer |-> IF dev.left[t] = Off THEN Off ELSE dev.left[t] - 1]
             d == [dev EXCEPT !.left = f]
  <2>1. \A t \in Timer : dev.left[t] # 0 /\ dev.left[t] \in Int
    BY <1>0, <1>12 DEF Tick, Device
  <2>2. f \in [Timer -> Int] /\ \A t \in Timer : f[t] = Off <=> dev.left[t] = Off
    BY <2>1 DEF Off
  <2>3. dev' = d /\ UNCHANGED <<line, wifi, modem, events>>
    BY <1>0, <1>12 DEF Tick, Device
  <2> HIDE DEF f
  <2>4. /\ d \in Device /\ d.left = f /\ d.reload = dev.reload /\ d.posts = dev.posts
        /\ d.heard = dev.heard /\ d.at = dev.at /\ d.last = dev.last /\ d.dis = dev.dis
        /\ d.creat = dev.creat
    BY <1>0, <2>2 DEF Device
  <2> HIDE DEF d
  <2>5. Contig(d) /\ Created(d)
    BY <1>0, <2>4 DEF Sound, Contig, Created
  <2>6. Calm(d) /\ Watched(d)
    BY <1>0, <2>2, <2>4 DEF Good, Sound, Calm, Watched, Timer
  <2>7. Good(dev') /\ dev' \in Device
    BY <2>3, <2>4, <2>5, <2>6 DEF Good, Sound
  <2> QED
    BY <1>0, <2>3, <2>7 DEF IInv, TypeOK
<1>13. CASE UNCHANGED vars
  BY <1>13 DEF vars, IInv, TypeOK, Good, Sound, Contig, Created, Calm, Watched
<1> QED
  BY <1>1, <1>2, <1>3, <1>4, <1>6, <1>7, <1>8, <1>9, <1>10, <1>11, <1>12, <1>13 DEF Next

-----------------------------------------------------------------------------
(* The theorems.                                                           *)

LEMMA Invariant == Spec => []IInv
PROOF
  BY InitInv, NextInv, PTL DEF Spec

\* The device, the modem and the commands between them stay in their types,
\* whatever the order of answers, reports, timers and Wi-Fi.
THEOREM TypeCorrect == Spec => []TypeOK
PROOF
<1>1. IInv => TypeOK
  BY DEF IInv
<1> QED
  BY <1>1, Invariant, PTL

\* No use of the HTTP client comes between two parts of an upload.
THEOREM UploadContiguous == Spec => []Contiguous
PROOF
<1>1. IInv => Contiguous
  BY DEF IInv, Good, Sound, Contig, Contiguous
<1> QED
  BY <1>1, Invariant, PTL

\* The device takes no client for connected, and awaits no connection, before
\* the modem has reported one.
THEOREM ClientCreatedFirst == Spec => []CreatedFirst
PROOF
<1>1. IInv => CreatedFirst
  BY DEF IInv, Good, Sound, Created, CreatedFirst
<1> QED
  BY <1>1, Invariant, PTL

\* Without an access point one of the two timers that lead to a question or a
\* restart is always armed, once the modem has spoken.
THEOREM AlwaysAttended == Spec => []Attended
PROOF
<1>1. IInv => Attended
  BY DEF IInv, Good, Watched, Attended
<1> QED
  BY <1>1, Invariant, PTL
=============================================================================
