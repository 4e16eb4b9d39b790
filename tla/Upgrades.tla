------------------------------ MODULE Upgrades ------------------------------
(***************************************************************************)
(* What the download of firmware promises its user: an image is started    *)
(* only when it has been fetched as a whole since the last restart, what   *)
(* was ready is given up as soon as another is fetched into its place, and *)
(* a number is noted with every image that is complete: the number of the  *)
(* offer that stands then, whichever offer the image was fetched for.      *)
(***************************************************************************)
CONSTANT Version   (* versions, records with a number num                   *)

VARIABLES
  saved,     (* the number that outlives a restart                         *)
  offered,   (* the version offered last since the restart                 *)
  current,   (* the version of the image in use                            *)
  fetching,  (* the version that is being fetched, if there is one         *)
  ready      (* the version that the next restart may start, if any        *)

None == [type |-> 0, num |-> 0]

Init ==
  /\ saved = 0 /\ offered = None /\ current = None
  /\ fetching = {} /\ ready = {}

\* Any version may be offered at any time.
Offer == offered' \in Version /\ UNCHANGED <<saved, current, fetching, ready>>

\* What was ready is given up for what is fetched.
Begin ==
  /\ fetching = {} /\ fetching' = {offered} /\ ready' = {}
  /\ UNCHANGED <<saved, offered, current>>

Complete ==
  /\ fetching # {} /\ fetching' = {} /\ ready' = fetching
  /\ saved' = offered.num
  /\ UNCHANGED <<offered, current>>

Fail ==
  /\ fetching # {} /\ fetching' = {}
  /\ UNCHANGED <<saved, offered, current, ready>>

\* A restart on purpose starts what is ready; a crash does not.
Restart ==
  /\ current' \in {current} \cup ready
  /\ fetching' = {} /\ ready' = {} /\ offered' = None
  /\ saved' = saved

Next == Offer \/ Begin \/ Complete \/ Fail \/ Restart

Spec == Init /\ [][Next]_<<saved, offered, current, fetching, ready>>
=============================================================================
