---------------------------- MODULE HttpPromise ----------------------------
(***************************************************************************)
(* What httpclient.c promises the callers of http_request: the callback of *)
(* every request runs once at most, with a failure or with a response that *)
(* begins where the server's began and has no gap.                         *)
(***************************************************************************)
EXTENDS Naturals, Sequences

CONSTANTS Req, MaxSegments

VARIABLES
  life,   (* idle, pending, answered or failed                             *)
  heard,  (* the segments of the response that have arrived                *)
  given   (* the segments handed to the callback                           *)

Init ==
  /\ life = [r \in Req |-> "idle"]
  /\ heard = [r \in Req |-> 0]
  /\ given = [r \in Req |-> << >>]

Start(r) ==
  /\ life[r] = "idle"
  /\ life' = [life EXCEPT ![r] = "pending"]
  /\ UNCHANGED <<heard, given>>

Hear(r) ==
  /\ life[r] = "pending" /\ heard[r] < MaxSegments
  /\ heard' = [heard EXCEPT ![r] = @ + 1]
  /\ UNCHANGED <<life, given>>

Answer(r) ==
  /\ life[r] = "pending"
  /\ life' = [life EXCEPT ![r] = "answered"]
  /\ \E n \in 1 .. heard[r] : given' = [given EXCEPT ![r] = [k \in 1 .. n |-> k]]
  /\ heard' = heard

\* A request that finds no address fails in the step that starts it.
Fail(r) ==
  /\ life[r] \in {"idle", "pending"}
  /\ life' = [life EXCEPT ![r] = "failed"]
  /\ UNCHANGED <<heard, given>>

Next == \E r \in Req : Start(r) \/ Hear(r) \/ Answer(r) \/ Fail(r)

Spec == Init /\ [][Next]_<<life, heard, given>>
=============================================================================
