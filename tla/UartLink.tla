------------------------------ MODULE UartLink ------------------------------
(***************************************************************************)
(* The receive path of UART0, from the wire to the AT command handler:     *)
(*                                                                         *)
(*   hardware FIFO -> uart0_rx_intr_handler -> event queue ->              *)
(*   uart_recvTask -> queue_uart_input -> receive callback                 *)
(*                                                                         *)
(* app/driver/uart.c (built with UART_BUFF_EN = 0) over QueueUart.  The    *)
(* task and the timer run to completion on the event loop, one at a time;  *)
(* the interrupt handler and the hardware step in between any two of their *)
(* steps, which is why uart_recvTask is split at each byte it reads.       *)
(***************************************************************************)
EXTENDS QueueUart

CONSTANTS
  FifoSize,               (* bytes the hardware FIFO holds, 128            *)
  UART_RXFIFO_FULL_THRHD, (* bytes that raise FULL: 256 & 0x7F = 0         *)
  uart_recvTaskQueueLen,  (* events the task's queue holds, 10             *)
  MaxBytes                (* bound: bytes accepted in one behaviour        *)

ASSUME UartLinkAssumption ==
  /\ FifoSize \in Nat \ {0}
  /\ UART_RXFIFO_FULL_THRHD \in Nat
  /\ uart_recvTaskQueueLen \in Nat \ {0}
  /\ MaxBytes \in Nat

VARIABLES
  fifo,      (* the receive FIFO                                           *)
  intRaw,    (* interrupts raised: UART_INT_RAW                            *)
  intEna,    (* interrupts enabled: UART_INT_ENA                           *)
  events,    (* events posted to uart_recvTask                             *)
  left,      (* bytes uart_recvTask has still to read, or Idle             *)
  attached,  (* uart_receive_callback_handle is set                        *)
  accepted   (* history: bytes the FIFO took and no one threw away         *)

hwVars    == <<fifo, intRaw, accepted>>
taskVars  == <<intEna, events, left>>
vars      == <<hwVars, taskVars, attached, queueVars>>

Idle == -1

RxInterrupt == {"FULL", "TOUT"}
Interrupt   == RxInterrupt \cup {"OVF"}

TypeOK ==
  /\ fifo \in Seq(Byte)
  /\ Len(fifo) <= FifoSize
  /\ intRaw \in SUBSET Interrupt
  /\ intEna \in SUBSET Interrupt
  /\ events \in 0 .. uart_recvTaskQueueLen
  /\ left \in Idle .. FifoSize
  /\ attached \in BOOLEAN
  /\ accepted \in Seq(Byte)
  /\ QueueTypeOK

\* uart_init has run; devicexx_app_apply_settings has not.
Init ==
  /\ fifo = << >>
  /\ intRaw = {}
  /\ intEna = Interrupt
  /\ events = 0
  /\ left = Idle
  /\ attached = FALSE
  /\ accepted = << >>
  /\ QueueInit

-----------------------------------------------------------------------------
(* The hardware. *)

ByteArrives(b) ==
  /\ Len(accepted) < MaxBytes
  /\ Len(fifo) < FifoSize
  /\ fifo' = Append(fifo, b)
  /\ accepted' = Append(accepted, b)
  /\ UNCHANGED <<intRaw, taskVars, attached, queueVars>>

Raise(i) ==
  /\ i \notin intRaw
  /\ intRaw' = intRaw \cup {i}
  /\ UNCHANGED <<fifo, accepted, taskVars, attached, queueVars>>

\* A byte for which the FIFO has no room is lost.
FifoOverflows == Len(fifo) = FifoSize /\ Raise("OVF")

\* FULL follows the level of the FIFO; an empty FIFO raises nothing.
FifoFull ==
  /\ fifo # << >>
  /\ Len(fifo) >= UART_RXFIFO_FULL_THRHD
  /\ Raise("FULL")

\* TOUT is raised while bytes sit in the FIFO and the line is silent.
LineIdle == fifo # << >> /\ Raise("TOUT")

-----------------------------------------------------------------------------
(* The driver. *)

\* A handler that leaves the receive interrupts on.
DisableNothing == intEna' = intEna

uart_rx_intr_disable == intEna' = intEna \ RxInterrupt

\* An enable that forgets the interrupt of a silent line.
EnableFullOnly == intEna' = intEna \cup {"FULL"}

uart_rx_intr_enable == intEna' = intEna \cup RxInterrupt

\* A post to a full queue is refused, and nobody looks at the result.
system_os_post ==
  events' = IF events < uart_recvTaskQueueLen THEN events + 1 ELSE events

Clear(i) == intRaw' = intRaw \ {i}

\* One interrupt is served per call, in the order of the handler's branches.
uart0_rx_intr_handler ==
  LET pending == intRaw \cap intEna
      Wake(i) == Clear(i) /\ uart_rx_intr_disable /\ system_os_post
  IN
  /\ \/ "FULL" \in pending /\ Wake("FULL")
     \/ "FULL" \notin pending /\ "TOUT" \in pending /\ Wake("TOUT")
     \/ pending = {"OVF"} /\ Clear("OVF") /\ UNCHANGED <<intEna, events>>
  /\ UNCHANGED <<fifo, accepted, left, attached, queueVars>>

\* The task takes an event and reads the FIFO's count, once.
uart_recvTaskStart ==
  /\ left = Idle
  /\ events > 0
  /\ events' = events - 1
  /\ left' = Len(fifo)
  /\ UNCHANGED <<hwVars, intEna, attached, queueVars>>

\* One turn of the loop.  Without a callback the byte is thrown away.
uart_recvTaskByte ==
  /\ left > 0
  /\ left' = left - 1
  /\ fifo' = Tail(fifo)
  /\ IF attached
       THEN /\ queue_uart_input(Head(fifo))
            /\ accepted' = accepted
       ELSE /\ accepted' = Tail(accepted)
            /\ UNCHANGED queueVars
  /\ UNCHANGED <<intRaw, intEna, events, attached>>

\* After the loop: clear both bits, whatever came meanwhile, and enable.
uart_recvTaskDone ==
  /\ left = 0
  /\ left' = Idle
  /\ intRaw' = intRaw \ RxInterrupt
  /\ uart_rx_intr_enable
  /\ UNCHANGED <<fifo, accepted, events, attached, queueVars>>

-----------------------------------------------------------------------------
(* The event loop's other work. *)

devicexx_app_apply_settings ==
  /\ left = Idle
  /\ ~attached
  /\ attached' = TRUE
  /\ queue_uart_receive_callback_register
  /\ UNCHANGED <<hwVars, taskVars>>

TimerFires ==
  /\ left = Idle
  /\ QueueTimerFires
  /\ UNCHANGED <<hwVars, taskVars, attached>>

TimePasses ==
  /\ QueueTimePasses
  /\ UNCHANGED <<hwVars, taskVars, attached>>

Hardware == \/ \E b \in Byte : ByteArrives(b)
            \/ FifoOverflows
            \/ FifoFull
            \/ LineIdle

recvTask == uart_recvTaskStart \/ uart_recvTaskByte \/ uart_recvTaskDone

Next ==
  \/ Hardware
  \/ uart0_rx_intr_handler
  \/ recvTask
  \/ devicexx_app_apply_settings
  \/ TimerFires
  \/ TimePasses

Spec == Init /\ [][Next]_vars

\* The hardware raises TOUT on a silent line, a raised and enabled interrupt
\* is taken, the event loop serves the task and due timers, the clock runs.
\* Nothing is assumed of the bytes' arrival.
Fairness ==
  /\ WF_vars(LineIdle)
  /\ WF_vars(uart0_rx_intr_handler)
  /\ WF_vars(recvTask)
  /\ WF_vars(TimerFires)
  /\ WF_vars(TimePasses)

FairSpec == Spec /\ Fairness

-----------------------------------------------------------------------------
(* Properties. *)

\* At any time the receive path is woken in exactly one way: by an enabled
\* interrupt, by one posted event, or by the running task.  So the event queue
\* never fills and system_os_post, whose result uart0_rx_intr_handler ignores,
\* never drops the wake-up that would leave the interrupts off for good.
OneWakeup ==
  \/ intEna = Interrupt /\ events = 0 /\ left = Idle
  \/ intEna = {"OVF"}   /\ events = 1 /\ left = Idle
  \/ intEna = {"OVF"}   /\ events = 0 /\ left # Idle

\* The bytes given to the AT handler, then those in the queue's buffer, then
\* those in the FIFO are the accepted bytes in the order they came: cutting
\* frames by timer and by length neither loses, repeats nor reorders a byte.
BytesInOrder == accepted = out \o data \o fifo

\* A frame is cut only by a full buffer or by a whole interval without a byte:
\* each byte re-arms queue_uart_timer_receive.
FramesWhole ==
  [][out' # out => \/ Len(out') = Len(out) + QUEUE_UART_BUFFER_LENGTH
                   \/ quiet = QUEUE_UART_INTERVAL]_vars

\* The receive path implements an ordered byte channel.
Channel == INSTANCE ByteChannel WITH in <- accepted
ImplementsChannel == Channel!Spec

\* Every byte accepted after the handler is attached reaches it, even when it
\* came while uart_recvTask was clearing the status bits.
EveryByteDelivered ==
  \A n \in 1 .. MaxBytes :
    (attached /\ Len(accepted) >= n) ~> (Len(out) >= n)
=============================================================================
