---------------------------- MODULE ByteChannel ----------------------------
(***************************************************************************)
(* What the receive path of UART0 promises the AT command handler: once    *)
(* the handler is attached, the bytes it is given are, in order and        *)
(* without loss or repetition, the bytes the hardware accepted; before     *)
(* that, bytes may be thrown away from the front.                          *)
(***************************************************************************)
EXTENDS Naturals, Sequences

CONSTANT Byte

VARIABLES
  attached,  (* the receiver listens                                       *)
  in,        (* the bytes accepted and not thrown away                     *)
  out        (* the bytes handed over                                      *)

Init ==
  /\ attached = FALSE
  /\ in = << >>
  /\ out = << >>

Attach ==
  /\ attached' = TRUE
  /\ UNCHANGED <<in, out>>

Accept ==
  /\ \E b \in Byte : in' = Append(in, b)
  /\ UNCHANGED <<attached, out>>

Drop ==
  /\ ~attached
  /\ in # << >>
  /\ in' = Tail(in)
  /\ UNCHANGED <<attached, out>>

HandOver ==
  /\ attached
  /\ \E n \in Len(out) + 1 .. Len(in) : out' = SubSeq(in, 1, n)
  /\ UNCHANGED <<attached, in>>

Next == Attach \/ Accept \/ Drop \/ HandOver

Spec == Init /\ [][Next]_<<attached, in, out>>
=============================================================================
