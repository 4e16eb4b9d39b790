----------------------------- MODULE HttpClient -----------------------------
(***************************************************************************)
(* app/main/httpclient.c: the life of each HTTP request from http_request  *)
(* to its user callback, over the callbacks espconn makes, and the poll of *)
(* tcpclient.c that waits for Wi-Fi and then makes a request.              *)
(*                                                                         *)
(* Callbacks run to completion on the event loop, so each is one step.  A  *)
(* user callback may make a new request before the finished one is freed;  *)
(* the two share no state but http_parallel, which is added to and         *)
(* subtracted from, so the new request is a step of its own.               *)
(*                                                                         *)
(* Responses are sequences of TCP segments, numbered from 1; every length  *)
(* is counted in segments.                                                 *)
(***************************************************************************)
EXTENDS Integers, Sequences, FiniteSets

CONSTANTS
  Req,              (* the requests made                                   *)
  MaxSegments,      (* bound: segments of a response                       *)
  BUFFER_SIZE_MAX,  (* segments the buffer may grow to                     *)
  PollLimit         (* polls before the wait for Wi-Fi ends, 18            *)

ASSUME HttpAssumption ==
  /\ IsFiniteSet(Req)
  /\ MaxSegments \in Nat /\ BUFFER_SIZE_MAX \in Nat /\ PollLimit \in Nat

VARIABLES
  phase,          (* how far espconn is with the request                   *)
  post_data,      (* req->post_data is still to be sent                    *)
  buffer,         (* req->buffer: the segments received                    *)
  discarded,      (* req->buffer[0] is 0 although segments follow          *)
  unsent,         (* espconn_send calls whose sent_callback is to come     *)
  http_parallel,
  checkTimer,     (* checkTimer_wifistate is armed                         *)
  wifi_state,     (* polls that found no IP address                        *)
  server,         (* environment: segments of the whole response           *)
  arrived,        (* history: segments that have arrived                   *)
  told            (* history: what the user callback was given             *)

reqVars  == <<phase, post_data, buffer, discarded, unsent>>
pollVars == <<checkTimer, wifi_state>>
vars     == <<reqVars, http_parallel, pollVars, server, arrived, told>>

Pending == {"dns", "connecting", "open", "closing"}
Phase   == {"idle", "freed"} \cup Pending
Report  == [calls : Nat, ok : BOOLEAN, body : Seq(1 .. MaxSegments)]

TypeOK ==
  /\ phase \in [Req -> Phase]
  /\ post_data \in [Req -> BOOLEAN]
  /\ buffer \in [Req -> Seq(1 .. MaxSegments)]
  /\ \A r \in Req : Len(buffer[r]) <= BUFFER_SIZE_MAX
  /\ discarded \in [Req -> BOOLEAN]
  /\ unsent \in [Req -> {0, 1}]
  /\ http_parallel \in Int
  /\ checkTimer \in BOOLEAN
  /\ wifi_state \in 0 .. PollLimit
  /\ server \in [Req -> 1 .. MaxSegments]
  /\ arrived \in [Req -> 0 .. MaxSegments]
  /\ told \in [Req -> Report]

Init ==
  /\ phase = [r \in Req |-> "idle"]
  /\ post_data = [r \in Req |-> FALSE]
  /\ buffer = [r \in Req |-> << >>]
  /\ discarded = [r \in Req |-> FALSE]
  /\ unsent = [r \in Req |-> 0]
  /\ http_parallel = 0
  /\ checkTimer = FALSE /\ wifi_state = 0
  /\ server \in [Req -> 1 .. MaxSegments]
  /\ arrived = [r \in Req |-> 0]
  /\ told = [r \in Req |-> [calls |-> 0, ok |-> FALSE, body |-> << >>]]

-----------------------------------------------------------------------------
(* The end of a request.                                                   *)

\* The user callback with a response, or with a failure.
http_finish(r, ok) ==
  told' = [told EXCEPT ![r] =
             [calls |-> @.calls + 1, ok |-> ok, body |-> IF ok THEN buffer[r] ELSE << >>]]

free_request_args(r) ==
  /\ phase' = [phase EXCEPT ![r] = "freed"]
  /\ post_data' = [post_data EXCEPT ![r] = FALSE]
  /\ buffer' = [buffer EXCEPT ![r] = << >>]
  /\ discarded' = [discarded EXCEPT ![r] = FALSE]
  /\ unsent' = [unsent EXCEPT ![r] = 0]

\* The buffer begins with "HTTP/1.": the first segment is there, unerased.
Valid(r) == buffer[r] # << >> /\ ~discarded[r] /\ Head(buffer[r]) = 1

\* A disconnect that trusts whatever the buffer holds.
DisconnectTrusts(r) ==
  /\ http_finish(r, buffer[r] # << >>)
  /\ http_parallel' = http_parallel - 1
  /\ free_request_args(r)
  /\ UNCHANGED <<pollVars, server, arrived>>

\* A disconnect that calls back for a response only.
DisconnectSilent(r) ==
  /\ IF Valid(r) THEN http_finish(r, TRUE) ELSE told' = told
  /\ http_parallel' = http_parallel - 1
  /\ free_request_args(r)
  /\ UNCHANGED <<pollVars, server, arrived>>

disconnect_callback(r) ==
  /\ http_finish(r, Valid(r))
  /\ http_parallel' = http_parallel - 1
  /\ free_request_args(r)
  /\ UNCHANGED <<pollVars, server, arrived>>

-----------------------------------------------------------------------------
(* The start of a request.                                                 *)

\* dns_callback with an address: the connection is opened.
dns_found(r) ==
  /\ phase' = [phase EXCEPT ![r] = "connecting"]
  /\ UNCHANGED <<post_data, buffer, discarded, unsent, told>>

\* A request that is not counted.
RequestNotCounted(r) ==
  /\ phase[r] = "idle"
  /\ post_data' \in {[post_data EXCEPT ![r] = b] : b \in BOOLEAN}
  /\ phase' \in {[phase EXCEPT ![r] = p] : p \in {"dns", "connecting"}}
  /\ UNCHANGED <<buffer, discarded, unsent, http_parallel, told>>

\* http_request, http_raw_request and, when espconn_gethostbyname answers at
\* once, dns_callback.  http_parallel is counted up last: a failure at once
\* has counted it down before.
http_request(r) ==
  /\ phase[r] = "idle"
  /\ \/ /\ phase' \in {[phase EXCEPT ![r] = p] : p \in {"dns", "connecting"}}
        /\ post_data' \in {[post_data EXCEPT ![r] = b] : b \in BOOLEAN}
        /\ http_parallel' = http_parallel + 1
        /\ UNCHANGED <<buffer, discarded, unsent, told>>
     \/ /\ http_finish(r, FALSE)
        /\ free_request_args(r)
        /\ http_parallel' = (http_parallel - 1) + 1

\* espconn's answer to a request for an address.
dns_callback(r) ==
  /\ phase[r] = "dns"
  /\ \/ dns_found(r) /\ http_parallel' = http_parallel
     \/ /\ http_finish(r, FALSE)
        /\ free_request_args(r)
        /\ http_parallel' = http_parallel - 1
  /\ UNCHANGED <<pollVars, server, arrived>>

-----------------------------------------------------------------------------
(* The connection.                                                         *)

\* The header is sent, unless its copy had no memory and an empty one has none
\* either: the connection is then open and nothing is ever asked over it.
connect_callback(r) ==
  /\ phase[r] = "connecting"
  /\ phase' = [phase EXCEPT ![r] = "open"]
  /\ unsent' \in {unsent, [unsent EXCEPT ![r] = 1]}
  /\ UNCHANGED <<post_data, buffer, discarded, http_parallel, pollVars, server,
                 arrived, told>>

\* The header is sent: the body follows, once.
sent_callback(r) ==
  /\ phase[r] \in {"open", "closing"} /\ unsent[r] > 0
  /\ IF post_data[r]
       THEN /\ post_data' = [post_data EXCEPT ![r] = FALSE]
            /\ UNCHANGED <<unsent, pollVars>>
       ELSE /\ unsent' = [unsent EXCEPT ![r] = 0]
            /\ checkTimer' = FALSE /\ wifi_state' = 0
            /\ post_data' = post_data
  /\ UNCHANGED <<phase, buffer, discarded, http_parallel, server, arrived, told>>

\* A receive that drops a segment and says nothing.
ReceiveSkips(r) ==
  /\ \/ /\ Len(buffer[r]) < BUFFER_SIZE_MAX
        /\ buffer' = [buffer EXCEPT ![r] = Append(@, arrived'[r])]
     \/ buffer' = buffer
  /\ discarded' = discarded

\* A buffer that may grow one segment too far.
GrowTooFar(r) ==
  /\ Len(buffer[r]) <= BUFFER_SIZE_MAX
  /\ buffer' = [buffer EXCEPT ![r] = Append(@, arrived'[r])]
  /\ discarded' = discarded

\* The buffer grows, unless it would be too long or no memory is left: then
\* what it holds is marked as discarded.
Grow(r) ==
  \/ /\ Len(buffer[r]) < BUFFER_SIZE_MAX
     /\ buffer' = [buffer EXCEPT ![r] = Append(@, arrived'[r])]
     /\ discarded' = discarded
  \/ /\ discarded' = [discarded EXCEPT ![r] = buffer[r] # << >>]
     /\ buffer' = buffer

\* Either way the connection is closed; what is on its way may still come.
receive_callback(r) ==
  /\ phase[r] \in {"open", "closing"} /\ arrived[r] < server[r]
  /\ arrived' = [arrived EXCEPT ![r] = @ + 1]
  /\ Grow(r)
  /\ phase' = [phase EXCEPT ![r] = "closing"]
  /\ UNCHANGED <<post_data, unsent, http_parallel, pollVars, server, told>>

\* espconn reports the end of the connection, ours or the server's.
Disconnected(r) == phase[r] \in {"open", "closing"} /\ disconnect_callback(r)

\* error_callback, whose own failure handling is FlashLog's ErrorTail.
error_callback(r) ==
  phase[r] \in {"connecting", "open", "closing"} /\ disconnect_callback(r)

-----------------------------------------------------------------------------
(* Who makes requests.                                                     *)

\* check_id, update_data and send_flash_mac, with Wi-Fi up.
http_post(r) == http_request(r) /\ UNCHANGED <<pollVars, server, arrived>>

switch_to_wifi ==
  /\ checkTimer' = TRUE
  /\ UNCHANGED <<reqVars, http_parallel, wifi_state, server, arrived, told>>

\* The poll finds an address and makes the request post_state names, or it
\* starts an update.
WifiUp ==
  /\ checkTimer /\ checkTimer' = FALSE /\ wifi_state' = 0
  /\ \/ \E r \in Req : http_request(r)
     \/ UNCHANGED <<reqVars, http_parallel, told>>
  /\ UNCHANGED <<server, arrived>>

\* The poll finds no address.  At the limit it gives up when NB is no better.
WifiDown ==
  /\ checkTimer
  /\ wifi_state' = IF wifi_state = PollLimit THEN 0 ELSE wifi_state + 1
  /\ checkTimer' \in IF wifi_state = PollLimit THEN BOOLEAN ELSE {TRUE}
  /\ UNCHANGED <<reqVars, http_parallel, server, arrived, told>>

Check_WifiState == WifiUp \/ WifiDown

Espconn(r) ==
  \/ dns_callback(r) \/ connect_callback(r) \/ sent_callback(r)
  \/ receive_callback(r) \/ Disconnected(r) \/ error_callback(r)

Next ==
  \/ \E r \in Req : http_post(r) \/ Espconn(r)
  \/ switch_to_wifi \/ Check_WifiState

Spec == Init /\ [][Next]_vars

\* espconn answers a question for an address, a connection it opens comes up or
\* fails, and one that receive_callback has closed is reported as closed.  Nothing
\* is assumed of an open one: no timer of the firmware watches it.
Fairness ==
  \A r \in Req :
    /\ WF_vars(dns_callback(r))
    /\ WF_vars(phase[r] = "connecting" /\ (connect_callback(r) \/ error_callback(r)))
    /\ WF_vars(phase[r] = "closing" /\ Disconnected(r))

FairSpec == Spec /\ Fairness

-----------------------------------------------------------------------------
(* Properties.                                                             *)

\* http_parallel is the number of requests under way, whatever the order of
\* DNS answers, errors and disconnects.
ParallelCounts ==
  http_parallel = Cardinality({r \in Req : phase[r] \in Pending})

\* httpclient.c implements its promise: one callback per request, with a
\* failure or an unbroken beginning of the response.
life == [r \in Req |->
           IF phase[r] = "idle" THEN "idle"
           ELSE IF phase[r] \in Pending THEN "pending"
           ELSE IF told[r].ok THEN "answered" ELSE "failed"]
given == [r \in Req |-> told[r].body]
Promise == INSTANCE HttpPromise WITH heard <- arrived
ImplementsPromise == Promise!Spec

\* The callback of every request runs, unless its connection stays open without a
\* segment, an error or an end from the server's side.  That is the only stage where
\* a request can wait for ever; once anything has come, it ends.
EveryRequestEnds ==
  \A r \in Req : phase[r] \in Pending ~> (told[r].calls = 1 \/ [](phase[r] = "open"))
=============================================================================
