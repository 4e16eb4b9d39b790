-------------------------- MODULE HttpClient_proofs --------------------------
(***************************************************************************)
(* Proofs about HttpClient: its counter is right, and it keeps its promise *)
(* of one callback per request with an unbroken response, for any number   *)
(* of requests, of segments and any size of buffer.                        *)
(***************************************************************************)
EXTENDS HttpClient, FiniteSetTheorems, SequenceTheorems, TLAPS

Live(f) == {r \in Req : f[r] \in Pending}

\* A buffer that will be taken for a response holds all that has arrived, in
\* order: a segment it has no room for discards what came before it.
Unbroken ==
  \A r \in Req : Valid(r) =>
    Len(buffer[r]) = arrived[r] /\ \A k \in 1 .. Len(buffer[r]) : buffer[r][k] = k

Untold == [calls |-> 0, ok |-> FALSE, body |-> << >>]

\* The callback is the last thing that happens to a request.
NotToldYet == \A r \in Req : phase[r] # "freed" => told[r] = Untold

HInv == TypeOK /\ ParallelCounts /\ Unbroken /\ NotToldYet

PollType == checkTimer \in BOOLEAN /\ wifi_state \in 0 .. PollLimit

-----------------------------------------------------------------------------

\* What a change of one phase does to the number of live requests.
LEMMA LiveCount ==
  ASSUME NEW f \in [Req -> Phase], NEW r \in Req, NEW p \in Phase
  PROVE  LET g == [f EXCEPT ![r] = p] IN
         /\ Cardinality(Live(f)) \in Nat
         /\ (p \in Pending) = (f[r] \in Pending)
              => Cardinality(Live(g)) = Cardinality(Live(f))
         /\ p \in Pending /\ f[r] \notin Pending
              => Cardinality(Live(g)) = Cardinality(Live(f)) + 1
         /\ p \notin Pending /\ f[r] \in Pending
              => Cardinality(Live(g)) = Cardinality(Live(f)) - 1
<1> DEFINE g == [f EXCEPT ![r] = p]
<1>1. IsFiniteSet(Live(f))
  <2>1. Live(f) \in SUBSET Req
    BY DEF Live
  <2> QED
    BY <2>1, FS_Subset, HttpAssumption
<1>2. Cardinality(Live(f)) \in Nat
  BY <1>1, FS_CardinalityType
<1>3. ASSUME (p \in Pending) = (f[r] \in Pending) PROVE Live(g) = Live(f)
  BY <1>3 DEF Live
<1>4. ASSUME p \in Pending, f[r] \notin Pending
      PROVE  Live(g) = Live(f) \cup {r} /\ r \notin Live(f)
  BY <1>4 DEF Live
<1>5. ASSUME p \notin Pending, f[r] \in Pending
      PROVE  Live(g) = Live(f) \ {r} /\ r \in Live(f)
  BY <1>5 DEF Live
<1>6. ASSUME p \in Pending, f[r] \notin Pending
      PROVE  Cardinality(Live(g)) = Cardinality(Live(f)) + 1
  BY <1>1, <1>4, <1>6, FS_AddElement
<1>7. ASSUME p \notin Pending, f[r] \in Pending
      PROVE  Cardinality(Live(g)) = Cardinality(Live(f)) - 1
  BY <1>1, <1>5, <1>7, FS_RemoveElement
<1> QED
  BY <1>2, <1>3, <1>6, <1>7

\* The same for http_parallel.
LEMMA CountStep ==
  ASSUME TypeOK, ParallelCounts, NEW r \in Req, NEW p \in Phase,
         phase' = [phase EXCEPT ![r] = p],
         \/ (p \in Pending) = (phase[r] \in Pending) /\ http_parallel' = http_parallel
         \/ /\ p \in Pending /\ phase[r] \notin Pending
            /\ http_parallel' = http_parallel + 1
         \/ /\ p \notin Pending /\ phase[r] \in Pending
            /\ http_parallel' = http_parallel - 1
  PROVE  ParallelCounts'
<1>1. phase \in [Req -> Phase] /\ http_parallel = Cardinality(Live(phase))
  BY DEF TypeOK, ParallelCounts, Live
<1>2. http_parallel' = Cardinality(Live(phase'))
  BY <1>1, LiveCount
<1> QED
  BY <1>2 DEF ParallelCounts, Live

\* A request ends, with a response or with a failure.
LEMMA EndStep ==
  ASSUME HInv, NEW r \in Req, NEW ok \in BOOLEAN,
         phase[r] # "freed", http_finish(r, ok), free_request_args(r),
         http_parallel' = IF phase[r] = "idle" THEN (http_parallel - 1) + 1
                                               ELSE http_parallel - 1,
         UNCHANGED <<server, arrived>>, PollType'
  PROVE  HInv'
<1>1. TypeOK'
  <2>1. buffer[r] \in Seq(1 .. MaxSegments) /\ << >> \in Seq(1 .. MaxSegments)
        /\ Len(<< >>) = 0
    BY EmptySeq DEF HInv, TypeOK
  <2>2. told' \in [Req -> Report]
    <3>1. told[r].calls + 1 \in Nat
      BY DEF HInv, TypeOK, Report
    <3>2. [calls |-> told[r].calls + 1, ok |-> ok,
           body |-> IF ok THEN buffer[r] ELSE << >>] \in Report
      BY <2>1, <3>1 DEF Report
    <3> QED
      BY <3>2 DEF http_finish, HInv, TypeOK
  <2>3. buffer' = [buffer EXCEPT ![r] = << >>]
    BY DEF free_request_args
  <2>4. /\ buffer' \in [Req -> Seq(1 .. MaxSegments)]
        /\ \A q \in Req : Len(buffer'[q]) <= BUFFER_SIZE_MAX
    BY <2>1, <2>3, HttpAssumption DEF HInv, TypeOK
  <2>5. http_parallel' \in Int
    BY DEF HInv, TypeOK
  <2>6. /\ phase' \in [Req -> Phase] /\ post_data' \in [Req -> BOOLEAN]
        /\ discarded' \in [Req -> BOOLEAN] /\ unsent' \in [Req -> {0, 1}]
    BY DEF free_request_args, HInv, TypeOK, Phase
  <2> QED
    BY <2>2, <2>4, <2>5, <2>6 DEF HInv, TypeOK, PollType
<1>2. ParallelCounts'
  <2>1. phase' = [phase EXCEPT ![r] = "freed"] /\ "freed" \in Phase
        /\ "freed" \notin Pending /\ "idle" \notin Pending
    BY DEF free_request_args, Phase, Pending
  <2>2. CASE phase[r] = "idle"
    <3>1. http_parallel' = http_parallel
      BY <2>2 DEF HInv, TypeOK
    <3>2. ("freed" \in Pending) = (phase[r] \in Pending)
      BY <2>1, <2>2
    <3> QED
      BY <2>1, <3>1, <3>2, CountStep DEF HInv
  <2>3. CASE phase[r] # "idle"
    <3>1. phase[r] \in Pending
      BY <2>3 DEF HInv, TypeOK, Phase
    <3> QED
      BY <2>1, <2>3, <3>1, CountStep DEF HInv
  <2> QED
    BY <2>2, <2>3
<1>3. Unbroken'
  <2> SUFFICES ASSUME NEW q \in Req, Valid(q)'
               PROVE  /\ Len(buffer'[q]) = arrived'[q]
                      /\ \A k \in 1 .. Len(buffer'[q]) : buffer'[q][k] = k
    BY DEF Unbroken
  <2>1. q # r
    BY DEF Valid, free_request_args, HInv, TypeOK
  <2>2. buffer'[q] = buffer[q] /\ discarded'[q] = discarded[q] /\ arrived' = arrived
    BY <2>1 DEF free_request_args, HInv, TypeOK
  <2> QED
    BY <2>2 DEF Valid, HInv, Unbroken
<1>4. NotToldYet'
  BY DEF HInv, NotToldYet, TypeOK, http_finish, free_request_args
<1> QED
  BY <1>1, <1>2, <1>3, <1>4 DEF HInv

\* A request is made.
LEMMA StartStep ==
  ASSUME HInv, NEW r \in Req, http_request(r), UNCHANGED <<server, arrived>>, PollType'
  PROVE  HInv'
<1>0. "idle" \notin Pending /\ "dns" \in Pending /\ "connecting" \in Pending
      /\ Pending \subseteq Phase
  BY DEF Pending, Phase
<1>1. CASE http_finish(r, FALSE) /\ free_request_args(r)
           /\ http_parallel' = (http_parallel - 1) + 1
  BY <1>1, EndStep DEF http_request
<1>2. CASE /\ phase' \in {[phase EXCEPT ![r] = p] : p \in {"dns", "connecting"}}
           /\ post_data' \in {[post_data EXCEPT ![r] = b] : b \in BOOLEAN}
           /\ http_parallel' = http_parallel + 1
           /\ UNCHANGED <<buffer, discarded, unsent, told>>
  <2>1. PICK p \in {"dns", "connecting"} : phase' = [phase EXCEPT ![r] = p]
    BY <1>2
  <2>2. phase[r] = "idle" /\ p \in Pending
    BY <1>0 DEF http_request
  <2>3. ParallelCounts'
    BY <1>0, <1>2, <2>1, <2>2, CountStep DEF HInv
  <2>4. TypeOK'
    <3>1. phase' \in [Req -> Phase]
      BY <1>0, <2>1, <2>2 DEF HInv, TypeOK
    <3>2. post_data' \in [Req -> BOOLEAN]
      BY <1>2 DEF HInv, TypeOK
    <3>3. http_parallel' \in Int
      BY <1>2 DEF HInv, TypeOK
    <3> QED
      BY <1>2, <3>1, <3>2, <3>3 DEF HInv, TypeOK, PollType
  <2>5. Unbroken'
    BY <1>2 DEF HInv, Unbroken, Valid
  <2>6. NotToldYet'
    BY <1>2, <2>1, <2>2 DEF HInv, NotToldYet, TypeOK
  <2> QED
    BY <2>3, <2>4, <2>5, <2>6 DEF HInv
<1> QED
  BY <1>1, <1>2 DEF http_request

\* A step that only moves a live request between live phases.
LEMMA MoveStep ==
  ASSUME HInv, NEW r \in Req, NEW p \in Pending, phase[r] \in Pending,
         phase' = [phase EXCEPT ![r] = p],
         UNCHANGED <<http_parallel, told>>
  PROVE  phase' \in [Req -> Phase] /\ ParallelCounts' /\ NotToldYet'
<1>1. p \in Phase /\ "freed" \notin Pending
  BY DEF Phase, Pending
<1>2. phase' \in [Req -> Phase]
  BY <1>1 DEF HInv, TypeOK
<1>3. ParallelCounts'
  BY <1>1, CountStep DEF HInv
<1>4. NotToldYet'
  BY <1>1 DEF HInv, NotToldYet, TypeOK
<1> QED
  BY <1>2, <1>3, <1>4

\* A segment arrives: it is appended, or the buffer is discarded.
LEMMA ReceiveStep ==
  ASSUME HInv, NEW r \in Req, receive_callback(r)
  PROVE  HInv'
<1>1. /\ phase[r] \in {"open", "closing"} /\ arrived[r] < server[r]
      /\ arrived' = [arrived EXCEPT ![r] = @ + 1]
      /\ phase' = [phase EXCEPT ![r] = "closing"]
      /\ UNCHANGED <<post_data, unsent, http_parallel, pollVars, server, told>>
  BY DEF receive_callback
<1>2. phase[r] \in Pending /\ "closing" \in Pending
  BY <1>1 DEF Pending
<1>3. phase' \in [Req -> Phase] /\ ParallelCounts' /\ NotToldYet'
  BY <1>1, <1>2, MoveStep
<1>4. arrived[r] \in Nat /\ arrived'[r] = arrived[r] + 1 /\ arrived'[r] \in 1 .. MaxSegments
      /\ arrived' \in [Req -> 0 .. MaxSegments]
  <2>1. arrived[r] \in 0 .. MaxSegments /\ server[r] \in 1 .. MaxSegments
    BY DEF HInv, TypeOK
  <2>2. arrived[r] + 1 \in 1 .. MaxSegments
    BY <1>1, <2>1, HttpAssumption
  <2> QED
    BY <1>1, <2>1, <2>2 DEF HInv, TypeOK
<1>a. buffer \in [Req -> Seq(1 .. MaxSegments)] /\ discarded \in [Req -> BOOLEAN]
      /\ arrived \in [Req -> 0 .. MaxSegments]
  BY DEF HInv, TypeOK
<1>b. \A q \in Req : Len(buffer[q]) <= BUFFER_SIZE_MAX
  BY DEF HInv, TypeOK
<1>5. CASE /\ Len(buffer[r]) < BUFFER_SIZE_MAX
           /\ buffer' = [buffer EXCEPT ![r] = Append(@, arrived'[r])]
           /\ discarded' = discarded
  <2> DEFINE b == Append(buffer[r], arrived'[r])
  <2>1. /\ b \in Seq(1 .. MaxSegments) /\ Len(b) = Len(buffer[r]) + 1
        /\ Len(buffer[r]) \in Nat
        /\ \A k \in 1 .. Len(buffer[r]) : b[k] = buffer[r][k]
        /\ b[Len(buffer[r]) + 1] = arrived'[r]
    BY <1>4, <1>a, AppendProperties, LenProperties
  <2> HIDE DEF b
  <2>2. buffer'[r] = b /\ \A q \in Req : q # r => buffer'[q] = buffer[q]
    BY <1>5, <1>a DEF b
  <2>3. TypeOK'
    <3>1. buffer' \in [Req -> Seq(1 .. MaxSegments)]
      BY <1>5, <1>a, <2>1 DEF b
    <3>2. \A q \in Req : Len(buffer'[q]) <= BUFFER_SIZE_MAX
      BY <1>5, <1>b, <2>1, <2>2, HttpAssumption
    <3> QED
      BY <1>1, <1>3, <1>4, <1>5, <3>1, <3>2 DEF HInv, TypeOK, pollVars
  <2>4. Unbroken'
    <3> SUFFICES ASSUME NEW q \in Req, Valid(q)'
                 PROVE  /\ Len(buffer'[q]) = arrived'[q]
                        /\ \A k \in 1 .. Len(buffer'[q]) : buffer'[q][k] = k
      BY DEF Unbroken
    <3>1. CASE q # r
      <4>1. buffer'[q] = buffer[q] /\ discarded'[q] = discarded[q] /\ arrived'[q] = arrived[q]
        BY <1>1, <1>5, <1>a, <2>2, <3>1
      <4> QED
        BY <4>1 DEF Valid, HInv, Unbroken
    <3>2. CASE q = r /\ Len(buffer[r]) = 0
      <4>1. Head(b) = b[1] /\ b[1] = arrived'[r] /\ Len(b) = 1
        BY <2>1, <3>2, HeadTailProperties
      <4>2. Head(b) = 1
        BY <2>2, <3>2 DEF Valid
      <4>3. arrived'[r] = 1 /\ \A k \in 1 .. 1 : b[k] = k
        BY <4>1, <4>2
      <4> QED
        BY <2>2, <3>2, <4>1, <4>3
    <3>3. CASE q = r /\ Len(buffer[r]) # 0
      <4>1. Head(b) = buffer[r][1] /\ Head(buffer[r]) = buffer[r][1] /\ buffer[r] # << >>
        <5>1. Len(buffer[r]) > 0 /\ Len(b) > 0 /\ b # << >> /\ buffer[r] # << >>
          BY <2>1, <3>3, EmptySeq
        <5>2. Head(b) = b[1] /\ Head(buffer[r]) = buffer[r][1]
          BY <5>1, <2>1, <1>a
        <5> QED
          BY <5>1, <5>2, <2>1
      <4>2. Valid(r)
        BY <1>5, <2>2, <3>3, <4>1 DEF Valid
      <4>3. Len(buffer[r]) = arrived[r] /\ \A k \in 1 .. Len(buffer[r]) : buffer[r][k] = k
        BY <4>2 DEF HInv, Unbroken
      <4>4. Len(b) = arrived'[r]
        BY <1>4, <2>1, <4>3
      <4>5. ASSUME NEW k \in 1 .. Len(b) PROVE b[k] = k
        <5>1. CASE k \in 1 .. Len(buffer[r])
          BY <2>1, <4>3, <5>1
        <5>2. CASE k = Len(buffer[r]) + 1
          BY <1>4, <2>1, <4>3, <5>2
        <5> QED
          BY <2>1, <5>1, <5>2
      <4> QED
        BY <2>2, <3>3, <4>4, <4>5
    <3> QED
      BY <3>1, <3>2, <3>3
  <2> QED
    BY <1>3, <2>3, <2>4 DEF HInv
<1>6. CASE /\ discarded' = [discarded EXCEPT ![r] = buffer[r] # << >>]
           /\ buffer' = buffer
  <2>1. discarded' \in [Req -> BOOLEAN]
    BY <1>6, <1>a
  <2>2. TypeOK'
    BY <1>1, <1>3, <1>4, <1>6, <2>1 DEF HInv, TypeOK, pollVars
  <2>3. Unbroken'
    <3> SUFFICES ASSUME NEW q \in Req, Valid(q)'
                 PROVE  /\ Len(buffer'[q]) = arrived'[q]
                        /\ \A k \in 1 .. Len(buffer'[q]) : buffer'[q][k] = k
      BY DEF Unbroken
    <3>1. q # r
      BY <1>6, <1>a DEF Valid
    <3>2. buffer'[q] = buffer[q] /\ discarded'[q] = discarded[q] /\ arrived'[q] = arrived[q]
      BY <1>1, <1>6, <1>a, <3>1
    <3> QED
      BY <3>2 DEF Valid, HInv, Unbroken
  <2> QED
    BY <1>3, <2>2, <2>3 DEF HInv
<1> QED
  BY <1>5, <1>6 DEF receive_callback, Grow

\* Every callback of espconn keeps the invariant.
LEMMA EspconnStep ==
  ASSUME HInv, NEW r \in Req, Espconn(r)
  PROVE  HInv'
<1>0. PollType
  BY DEF HInv, TypeOK, PollType
<1>1. ASSUME phase[r] \in Pending, disconnect_callback(r) PROVE HInv'
  <2>1. phase[r] # "freed" /\ phase[r] # "idle"
    BY <1>1 DEF Pending
  <2>2. Valid(r) \in BOOLEAN
    BY DEF Valid
  <2>3. UNCHANGED <<server, arrived>> /\ PollType'
    BY <1>0, <1>1 DEF disconnect_callback, PollType, pollVars
  <2>4. http_finish(r, Valid(r)) /\ free_request_args(r) /\ http_parallel' = http_parallel - 1
    BY <1>1 DEF disconnect_callback
  <2> QED
    BY <2>1, <2>2, <2>3, <2>4, EndStep
<1>2. CASE dns_callback(r)
  <2>1. PollType' /\ UNCHANGED <<server, arrived>> /\ phase[r] = "dns"
    BY <1>0, <1>2 DEF dns_callback, PollType, pollVars
  <2>2. CASE dns_found(r) /\ http_parallel' = http_parallel
    <3>1. phase' \in [Req -> Phase] /\ ParallelCounts' /\ NotToldYet'
      BY <2>1, <2>2, MoveStep DEF dns_found, Pending
    <3>2. TypeOK'
      BY <2>1, <2>2, <3>1 DEF HInv, TypeOK, dns_found, PollType
    <3>3. Unbroken'
      BY <2>1, <2>2 DEF HInv, Unbroken, Valid, dns_found
    <3> QED
      BY <3>1, <3>2, <3>3 DEF HInv
  <2>3. CASE http_finish(r, FALSE) /\ free_request_args(r)
             /\ http_parallel' = http_parallel - 1
    BY <2>1, <2>3, EndStep
  <2> QED
    BY <1>2, <2>2, <2>3 DEF dns_callback
<1>3. CASE connect_callback(r)
  <2>1. phase' \in [Req -> Phase] /\ ParallelCounts' /\ NotToldYet'
    BY <1>3, MoveStep DEF connect_callback, Pending
  <2>2. TypeOK'
    BY <1>3, <2>1 DEF HInv, TypeOK, connect_callback, pollVars
  <2>3. Unbroken'
    BY <1>3 DEF HInv, Unbroken, Valid, connect_callback
  <2> QED
    BY <2>1, <2>2, <2>3 DEF HInv
<1>4. CASE sent_callback(r)
  <2>1. UNCHANGED <<phase, buffer, discarded, http_parallel, server, arrived, told>>
    BY <1>4 DEF sent_callback
  <2>2. TypeOK'
    <3>1. /\ post_data' \in [Req -> BOOLEAN] /\ unsent' \in [Req -> {0, 1}]
          /\ checkTimer' \in BOOLEAN
      BY <1>4 DEF HInv, TypeOK, sent_callback, pollVars
    <3>2. wifi_state' \in 0 .. PollLimit
      BY <1>4, HttpAssumption DEF HInv, TypeOK, sent_callback, pollVars
    <3> QED
      BY <2>1, <3>1, <3>2 DEF HInv, TypeOK
  <2>3. Unbroken' /\ NotToldYet' /\ ParallelCounts'
    BY <2>1 DEF HInv, Unbroken, Valid, NotToldYet, ParallelCounts
  <2> QED
    BY <2>2, <2>3 DEF HInv
<1>5. CASE receive_callback(r)
  BY <1>5, ReceiveStep
<1>6. CASE Disconnected(r) \/ error_callback(r)
  BY <1>1, <1>6 DEF Disconnected, error_callback, Pending
<1> QED
  BY <1>2, <1>3, <1>4, <1>5, <1>6 DEF Espconn

\* The invariant holds from the start.
LEMMA InitHInv == Init => HInv
<1> SUFFICES ASSUME Init PROVE HInv
  OBVIOUS
<1>1. TypeOK
  <2>1. << >> \in Seq(1 .. MaxSegments) /\ Len(<< >>) = 0
    BY EmptySeq
  <2>2. [calls |-> 0, ok |-> FALSE, body |-> << >>] \in Report
    BY <2>1 DEF Report
  <2>3. /\ phase \in [Req -> Phase] /\ post_data \in [Req -> BOOLEAN]
        /\ discarded \in [Req -> BOOLEAN] /\ unsent \in [Req -> {0, 1}]
        /\ checkTimer \in BOOLEAN
    BY DEF Init, Phase
  <2>4. /\ http_parallel \in Int /\ wifi_state \in 0 .. PollLimit
        /\ server \in [Req -> 1 .. MaxSegments]
        /\ arrived \in [Req -> 0 .. MaxSegments]
    BY HttpAssumption DEF Init
  <2>5. /\ buffer \in [Req -> Seq(1 .. MaxSegments)] /\ told \in [Req -> Report]
    BY <2>1, <2>2 DEF Init
  <2>6. \A r \in Req : Len(buffer[r]) <= BUFFER_SIZE_MAX
    BY <2>1, HttpAssumption DEF Init
  <2> QED
    BY <2>3, <2>4, <2>5, <2>6 DEF TypeOK
<1>2. ParallelCounts
  <2>1. {r \in Req : phase[r] \in Pending} = {}
    BY DEF Init, Pending
  <2> QED
    BY <2>1, FS_EmptySet DEF ParallelCounts, Init
<1>3. Unbroken /\ NotToldYet
  BY DEF Init, Unbroken, NotToldYet, Untold, Valid
<1> QED
  BY <1>1, <1>2, <1>3 DEF HInv

\* The invariant is kept by every step.
LEMMA NextHInv == HInv /\ [Next]_vars => HInv'
<1> SUFFICES ASSUME HInv, [Next]_vars PROVE HInv'
  OBVIOUS
<1>0. PollType
  BY DEF HInv, TypeOK, PollType
<1>1. ASSUME NEW r \in Req, http_post(r) PROVE HInv'
  <2>1. http_request(r) /\ UNCHANGED <<server, arrived>> /\ PollType'
    BY <1>0, <1>1 DEF http_post, PollType, pollVars
  <2> QED
    BY <2>1, StartStep
<1>2. ASSUME NEW r \in Req, Espconn(r) PROVE HInv'
  BY <1>2, EspconnStep
<1>3. ASSUME UNCHANGED <<reqVars, http_parallel, server, arrived, told>>, PollType'
      PROVE  HInv'
  BY <1>3 DEF HInv, TypeOK, PollType, reqVars, ParallelCounts, Unbroken, Valid, NotToldYet
<1>4. CASE switch_to_wifi
  BY <1>0, <1>3, <1>4 DEF switch_to_wifi, PollType
<1>5. CASE WifiDown
  <2>0. checkTimer' \in BOOLEAN
    BY <1>5 DEF WifiDown
  <2>a. wifi_state' \in 0 .. PollLimit
    BY <1>0, <1>5, HttpAssumption DEF WifiDown, PollType
  <2>1. PollType'
    BY <2>0, <2>a DEF PollType
  <2> QED
    BY <1>3, <1>5, <2>1 DEF WifiDown
<1>6. CASE WifiUp
  <2>0. checkTimer' \in BOOLEAN /\ UNCHANGED <<server, arrived>>
    BY <1>6 DEF WifiUp
  <2>a. wifi_state' \in 0 .. PollLimit
    BY <1>6, HttpAssumption DEF WifiUp
  <2>1. PollType' /\ UNCHANGED <<server, arrived>>
    BY <2>0, <2>a DEF PollType
  <2> QED
    BY <1>3, <1>6, <2>1, StartStep DEF WifiUp
<1>7. CASE UNCHANGED vars
  BY <1>0, <1>3, <1>7 DEF vars, pollVars, PollType
<1> QED
  BY <1>1, <1>2, <1>4, <1>5, <1>6, <1>7 DEF Next, Check_WifiState

-----------------------------------------------------------------------------

THEOREM Invariance == Spec => []HInv
  BY InitHInv, NextHInv, PTL DEF Spec

\* Every buffer stays within BUFFER_SIZE_MAX, whatever the server sends.
THEOREM TypeCorrect == Spec => []TypeOK
<1>1. HInv => TypeOK
  BY DEF HInv
<1> QED
  BY <1>1, Invariance, PTL

\* http_parallel is right for any number of requests.
THEOREM CountCorrect == Spec => []ParallelCounts
<1>1. HInv => ParallelCounts
  BY DEF HInv
<1> QED
  BY <1>1, Invariance, PTL

-----------------------------------------------------------------------------
(* The refinement. *)

\* The end of a request is the end of one, and of no other.
LEMMA EndMaps ==
  ASSUME HInv, NEW r \in Req, NEW ok \in BOOLEAN,
         phase[r] # "freed", ok => phase[r] \in Pending /\ Valid(r),
         http_finish(r, ok), free_request_args(r), UNCHANGED arrived
  PROVE  Promise!Next
<1>1. /\ phase' = [phase EXCEPT ![r] = "freed"]
      /\ told' = [told EXCEPT ![r] = [calls |-> told[r].calls + 1, ok |-> ok,
                                      body |-> IF ok THEN buffer[r] ELSE << >>]]
      /\ phase \in [Req -> Phase] /\ told \in [Req -> Report]
  BY DEF http_finish, free_request_args, HInv, TypeOK
<1>2. phase[r] = "idle" \/ phase[r] \in Pending
  BY <1>1 DEF Phase
<1>3. "freed" \notin Pending /\ "idle" \notin Pending
  BY DEF Pending
<1>4. life' = [life EXCEPT ![r] = IF ok THEN "answered" ELSE "failed"]
  BY <1>1, <1>3 DEF life
<1>5. given' = [given EXCEPT ![r] = IF ok THEN buffer[r] ELSE << >>]
  BY <1>1 DEF given
<1>6. CASE ~ok
  <2>1. told[r] = Untold
    BY DEF HInv, NotToldYet
  <2>2. given' = given
    <3>1. given[r] = << >> /\ given' = [given EXCEPT ![r] = << >>]
      BY <1>5, <1>6, <2>1 DEF given, Untold
    <3>2. given = [q \in Req |-> given[q]]
      BY DEF given
    <3> HIDE DEF given
    <3> QED
      BY <3>1, <3>2
  <2>3. life[r] \in {"idle", "pending"}
    BY <1>2, <1>3 DEF life
  <2> QED
    BY <1>4, <1>6, <2>2, <2>3 DEF Promise!Next, Promise!Fail
<1>7. CASE ok
  <2>1. Valid(r) /\ life[r] = "pending"
    BY <1>3, <1>7 DEF life
  <2>2. /\ buffer[r] \in Seq(1 .. MaxSegments) /\ buffer[r] # << >>
        /\ Len(buffer[r]) = arrived[r]
        /\ \A k \in 1 .. Len(buffer[r]) : buffer[r][k] = k
    BY <2>1 DEF HInv, TypeOK, Unbroken, Valid
  <2> DEFINE n == Len(buffer[r])
  <2>3. n \in 1 .. arrived[r]
    BY <2>2, EmptySeq, LenProperties
  <2>4. buffer[r] = [k \in 1 .. n |-> k]
    BY <2>2, LenProperties
  <2>5. given' = [given EXCEPT ![r] = [k \in 1 .. n |-> k]]
    BY <1>5, <1>7, <2>4
  <2> HIDE DEF n
  <2> QED
    BY <1>4, <1>7, <2>1, <2>3, <2>5 DEF Promise!Next, Promise!Answer
<1> QED
  BY <1>6, <1>7

\* A new request starts, or fails in the step that makes it.
LEMMA StartMaps ==
  ASSUME HInv, NEW r \in Req, http_request(r), UNCHANGED arrived
  PROVE  Promise!Next
<1>1. CASE http_finish(r, FALSE) /\ free_request_args(r)
  BY <1>1, EndMaps DEF http_request
<1>2. CASE /\ phase' \in {[phase EXCEPT ![r] = p] : p \in {"dns", "connecting"}}
           /\ UNCHANGED <<buffer, discarded, unsent, told>>
  <2>1. PICK p \in {"dns", "connecting"} : phase' = [phase EXCEPT ![r] = p]
    BY <1>2
  <2>2. phase[r] = "idle" /\ p \in Pending /\ p # "idle" /\ phase \in [Req -> Phase]
    BY DEF http_request, Pending, HInv, TypeOK
  <2>3. life' = [life EXCEPT ![r] = "pending"] /\ life[r] = "idle"
    BY <1>2, <2>1, <2>2 DEF life
  <2>4. given' = given
    BY <1>2 DEF given
  <2> QED
    BY <2>3, <2>4 DEF Promise!Next, Promise!Start
<1> QED
  BY <1>1, <1>2 DEF http_request

\* The callbacks of espconn map to a step or to none.
LEMMA EspconnMaps ==
  ASSUME HInv, NEW r \in Req, Espconn(r)
  PROVE  Promise!Next \/ UNCHANGED <<life, arrived, given>>
<1>0. phase \in [Req -> Phase]
  BY DEF HInv, TypeOK
<1>a. ASSUME NEW p \in Pending, phase[r] \in Pending, phase' = [phase EXCEPT ![r] = p],
             UNCHANGED told
      PROVE  UNCHANGED <<life, given>>
  <2>1. "idle" \notin Pending
    BY DEF Pending
  <2> QED
    BY <1>0, <1>a, <2>1 DEF life, given
<1>1. CASE dns_callback(r)
  <2>1. CASE dns_found(r)
    BY <1>1, <1>a, <2>1 DEF dns_callback, dns_found, Pending
  <2>2. CASE http_finish(r, FALSE) /\ free_request_args(r)
    BY <1>1, <2>2, EndMaps DEF dns_callback
  <2> QED
    BY <1>1, <2>1, <2>2 DEF dns_callback
<1>2. CASE connect_callback(r)
  BY <1>2, <1>a DEF connect_callback, Pending
<1>3. CASE sent_callback(r)
  BY <1>3 DEF sent_callback, life, given
<1>4. CASE receive_callback(r)
  <2>1. UNCHANGED <<life, given>>
    BY <1>4, <1>a DEF receive_callback, Pending
  <2>2. life[r] = "pending"
    BY <1>4 DEF receive_callback, life, Pending
  <2>3. arrived' = [arrived EXCEPT ![r] = @ + 1] /\ arrived[r] < MaxSegments
    <3>1. arrived[r] < server[r] /\ server[r] \in 1 .. MaxSegments
          /\ arrived[r] \in 0 .. MaxSegments
      BY <1>4 DEF receive_callback, HInv, TypeOK
    <3> QED
      BY <1>4, <3>1, HttpAssumption DEF receive_callback
  <2> QED
    BY <2>1, <2>2, <2>3 DEF Promise!Next, Promise!Hear
<1>5. CASE Disconnected(r) \/ error_callback(r)
  <2>1. phase[r] \in Pending /\ phase[r] # "freed" /\ disconnect_callback(r)
    BY <1>5 DEF Disconnected, error_callback, Pending
  <2>2. Valid(r) \in BOOLEAN
    BY DEF Valid
  <2> QED
    BY <2>1, <2>2, EndMaps DEF disconnect_callback
<1> QED
  BY <1>1, <1>2, <1>3, <1>4, <1>5 DEF Espconn

\* httpclient.c keeps its promise for any number of requests and segments.
THEOREM PromiseKept == Spec => ImplementsPromise
<1>1. Init => Promise!Init
  <2> SUFFICES ASSUME Init PROVE Promise!Init
    OBVIOUS
  <2> QED
    BY DEF Init, Promise!Init, life, given
<1>2. HInv /\ [Next]_vars => [Promise!Next]_<<life, arrived, given>>
  <2> SUFFICES ASSUME HInv, [Next]_vars
               PROVE  Promise!Next \/ UNCHANGED <<life, arrived, given>>
    OBVIOUS
  <2>1. ASSUME NEW r \in Req, http_post(r) PROVE Promise!Next
    BY <2>1, StartMaps DEF http_post
  <2>2. ASSUME NEW r \in Req, Espconn(r)
        PROVE  Promise!Next \/ UNCHANGED <<life, arrived, given>>
    BY <2>2, EspconnMaps
  <2>3. ASSUME UNCHANGED <<reqVars, arrived, told>> PROVE UNCHANGED <<life, arrived, given>>
    BY <2>3 DEF reqVars, life, given
  <2>4. CASE switch_to_wifi \/ WifiDown \/ UNCHANGED vars
    BY <2>3, <2>4 DEF switch_to_wifi, WifiDown, vars
  <2>5. CASE WifiUp
    BY <2>3, <2>5, StartMaps DEF WifiUp
  <2> QED
    BY <2>1, <2>2, <2>4, <2>5 DEF Next, Check_WifiState
<1> QED
  BY <1>1, <1>2, Invariance, PTL DEF Spec, ImplementsPromise, Promise!Spec
=============================================================================
