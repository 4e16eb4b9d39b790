----------------------------- MODULE QueueUart -----------------------------
(***************************************************************************)
(* app/main/queue_uart.c: cuts the byte stream of UART0 into frames.  A    *)
(* frame ends when no byte came for QUEUE_UART_INTERVAL_MS or when the     *)
(* buffer holds QUEUE_UART_BUFFER_LENGTH bytes.  Time is counted in ticks  *)
(* of any length that divides the interval.                                *)
(***************************************************************************)
EXTENDS Integers, Sequences

CONSTANTS
  Byte,                      (* the bytes the line can carry               *)
  QUEUE_UART_BUFFER_LENGTH,  (* 1024 in the build                          *)
  QUEUE_UART_INTERVAL        (* the 80 ms of the one-shot timer, in ticks  *)

ASSUME QueueUartAssumption ==
  /\ QUEUE_UART_BUFFER_LENGTH \in Nat \ {0}
  /\ QUEUE_UART_INTERVAL \in Nat \ {0}

VARIABLES
  callback,  (* queue_uart_receive_callback_handle is set                  *)
  data,      (* queue_uart_data[0 .. queue_uart_data_index - 1]            *)
  timer,     (* ticks before queue_uart_timer_receive is due, or Disarmed  *)
  quiet,     (* history: ticks since the last byte, at most the interval   *)
  out        (* history: every byte handed to the callback, in order       *)

queueVars == <<callback, data, timer, quiet, out>>

Disarmed == -1

QueueTypeOK ==
  /\ callback \in BOOLEAN
  /\ data \in Seq(Byte)
  /\ Len(data) < QUEUE_UART_BUFFER_LENGTH
  /\ timer \in Disarmed .. QUEUE_UART_INTERVAL
  /\ quiet \in 0 .. QUEUE_UART_INTERVAL
  /\ out \in Seq(Byte)

QueueInit ==
  /\ callback = FALSE
  /\ data = << >>
  /\ timer = Disarmed
  /\ quiet = 0
  /\ out = << >>

-----------------------------------------------------------------------------

queue_uart_receive_callback_register ==
  /\ callback' = TRUE
  /\ UNCHANGED <<data, timer, quiet, out>>

\* A tick that forgets to set the index back to 0.
TickKeepsIndex(buffer) ==
  /\ timer' = Disarmed
  /\ out' = IF callback /\ Len(buffer) \in 1 .. QUEUE_UART_BUFFER_LENGTH
              THEN out \o buffer ELSE out
  /\ data' = IF Len(buffer) < QUEUE_UART_BUFFER_LENGTH THEN buffer ELSE << >>

\* The end of a frame.  It runs from the timer and, when the buffer is full,
\* straight from queue_uart_input.
queue_uart_timer_receive_tick(buffer) ==
  /\ timer' = Disarmed
  /\ out' = IF callback /\ Len(buffer) \in 1 .. QUEUE_UART_BUFFER_LENGTH
              THEN out \o buffer ELSE out
  /\ data' = << >>

\* An input that arms the timer for the first byte of a frame only.
InputArmsOnce(b) ==
  LET buffer == Append(data, b) IN
  /\ IF Len(buffer) >= QUEUE_UART_BUFFER_LENGTH
       THEN queue_uart_timer_receive_tick(buffer)
       ELSE /\ data' = buffer
            /\ timer' = IF timer = Disarmed THEN QUEUE_UART_INTERVAL ELSE timer
            /\ out' = out
  /\ quiet' = 0
  /\ callback' = callback

\* An input that leaves a full buffer to the timer.
InputKeepsFull(b) ==
  LET buffer == Append(data, b) IN
  /\ IF Len(buffer) > QUEUE_UART_BUFFER_LENGTH
       THEN queue_uart_timer_receive_tick(buffer)
       ELSE /\ data' = buffer
            /\ timer' = QUEUE_UART_INTERVAL
            /\ out' = out
  /\ quiet' = 0
  /\ callback' = callback

queue_uart_input(b) ==
  LET buffer == Append(data, b) IN
  /\ IF Len(buffer) >= QUEUE_UART_BUFFER_LENGTH
       THEN queue_uart_timer_receive_tick(buffer)
       ELSE /\ data' = buffer
            /\ timer' = QUEUE_UART_INTERVAL
            /\ out' = out
  /\ quiet' = 0
  /\ callback' = callback

QueueTimerFires ==
  /\ timer = 0
  /\ queue_uart_timer_receive_tick(data)
  /\ UNCHANGED <<callback, quiet>>

\* One tick of the clock, which never stops.  A due timer waits for the event
\* loop.
QueueTimePasses ==
  /\ timer' = IF timer > 0 THEN timer - 1 ELSE timer
  /\ quiet' = IF quiet < QUEUE_UART_INTERVAL THEN quiet + 1 ELSE quiet
  /\ UNCHANGED <<callback, data, out>>
=============================================================================
