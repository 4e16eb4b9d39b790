-------------------------- MODULE UartLink_proofs --------------------------
(***************************************************************************)
(* Safety of the receive path of UART0, for every size of the FIFO, of the *)
(* event queue and of the frame buffer, and for every length of input.     *)
(***************************************************************************)
EXTENDS UartLink, SequenceTheorems, TLAPS

-----------------------------------------------------------------------------
(* Sequences. *)

\* Appending to the right part of a concatenation appends to the whole.
LEMMA AppendRight ==
  ASSUME NEW S, NEW s \in Seq(S), NEW t \in Seq(S), NEW x \in S
  PROVE  s \o Append(t, x) = Append(s \o t, x)
<1>1. Append(t, x) = t \o <<x>> /\ <<x>> \in Seq(S)
  BY AppendIsConcat
<1>2. Append(s \o t, x) = (s \o t) \o <<x>>
  BY AppendIsConcat, ConcatProperties
<1> QED
  BY <1>1, <1>2, ConcatAssociative

\* A nonempty sequence is its head followed by its tail.
LEMMA HeadThenTail ==
  ASSUME NEW S, NEW f \in Seq(S), f # << >>
  PROVE  /\ Head(f) \in S
         /\ Tail(f) \in Seq(S)
         /\ Len(Tail(f)) = Len(f) - 1
         /\ f = <<Head(f)>> \o Tail(f)
<1>1. Head(f) \in S /\ Tail(f) \in Seq(S) /\ Len(Tail(f)) = Len(f) - 1
  BY HeadTailProperties
<1>2. f = <<Head(f)>> \o Tail(f)
  <2>1. <<Head(f)>> \in Seq(S) /\ Len(<<Head(f)>>) = 1
    BY <1>1
  <2>2. Len(<<Head(f)>> \o Tail(f)) = Len(f)
    BY <1>1, <2>1, ConcatProperties, LenProperties
  <2>3. ASSUME NEW i \in 1 .. Len(f)
        PROVE  f[i] = (<<Head(f)>> \o Tail(f))[i]
    BY <1>1, <2>1, ConcatProperties, HeadTailProperties
  <2> QED
    BY <1>1, <2>1, <2>2, <2>3, ConcatProperties, SeqEqual
<1> QED
  BY <1>1, <1>2

\* Moving the first byte of the FIFO to the end of the buffer keeps the order.
LEMMA MoveByte ==
  ASSUME NEW S, NEW o \in Seq(S), NEW d \in Seq(S), NEW f \in Seq(S),
         f # << >>
  PROVE  (o \o d) \o f = (o \o Append(d, Head(f))) \o Tail(f)
<1> DEFINE h == <<Head(f)>>
<1>1. h \in Seq(S) /\ Tail(f) \in Seq(S) /\ f = h \o Tail(f) /\ Head(f) \in S
  BY HeadThenTail
<1>2. (o \o d) \o (h \o Tail(f)) = ((o \o d) \o h) \o Tail(f)
  BY <1>1, ConcatAssociative, ConcatProperties
<1>3. (o \o d) \o h = o \o Append(d, Head(f))
  <2>1. Append(d, Head(f)) = d \o h
    BY <1>1, AppendIsConcat
  <2>2. (o \o d) \o h = o \o (d \o h)
    BY <1>1, ConcatAssociative
  <2> QED
    BY <2>1, <2>2
<1> QED
  BY <1>1, <1>2, <1>3

-----------------------------------------------------------------------------
(* The invariant. *)

\* What OneWakeup and BytesInOrder rest on: the two callbacks are set together,
\* nothing is buffered before, the task never reads past the count it took,
\* and a pending timer measures the silence since the last byte.
LinkInv ==
  /\ callback = attached
  /\ ~attached => out = << >> /\ data = << >>
  /\ left <= Len(fifo)
  /\ timer # Disarmed => timer + quiet = QUEUE_UART_INTERVAL

IInv == TypeOK /\ OneWakeup /\ BytesInOrder /\ LinkInv

LEMMA InitIInv == Init => IInv
<1> SUFFICES ASSUME Init PROVE IInv
  OBVIOUS
<1> USE DEF Init, QueueInit
<1>1. TypeOK
  <2>1. << >> \in Seq(Byte) /\ Len(<< >>) = 0
    BY EmptySeq
  <2>2. callback \in BOOLEAN /\ attached \in BOOLEAN
    OBVIOUS
  <2>3. QueueTypeOK
    BY <2>1, <2>2, QueueUartAssumption DEF QueueTypeOK, Disarmed
  <2> QED
    BY <2>1, <2>2, <2>3, UartLinkAssumption DEF TypeOK, Idle
<1>2. OneWakeup
  BY DEF OneWakeup, Idle
<1>3. BytesInOrder
  <2>1. << >> \in Seq(Byte)
    BY EmptySeq
  <2>2. << >> \o << >> = << >>
    BY <2>1, ConcatEmptySeq
  <2> QED
    BY <2>2 DEF BytesInOrder
<1>4. LinkInv
  <2>1. Len(<< >>) = 0
    BY EmptySeq
  <2>2. callback = attached /\ out = << >> /\ data = << >>
    OBVIOUS
  <2>3. left <= Len(fifo) /\ timer = Disarmed
    BY <2>1 DEF Idle, Disarmed
  <2> QED
    BY <2>2, <2>3 DEF LinkInv
<1> QED
  BY <1>1, <1>2, <1>3, <1>4 DEF IInv

\* A byte given to the queue: either it is buffered and the timer re-armed, or
\* it completes a full frame.  In both cases it follows the earlier bytes.
LEMMA InputStep ==
  ASSUME QueueTypeOK, callback, NEW b \in Byte, queue_uart_input(b),
         NEW f \in Seq(Byte)
  PROVE  /\ QueueTypeOK'
         /\ callback'
         /\ timer' # Disarmed => timer' + quiet' = QUEUE_UART_INTERVAL
         /\ (out' \o data') \o f = (out \o Append(data, b)) \o f
<1> USE QueueUartAssumption DEF Disarmed
<1> DEFINE buffer == Append(data, b)
<1>1. buffer \in Seq(Byte) /\ Len(buffer) = Len(data) + 1 /\ Len(data) \in Nat
  BY AppendProperties, LenProperties DEF QueueTypeOK
<1>2. quiet' = 0 /\ callback' = callback
  BY DEF queue_uart_input
<1>3. out \in Seq(Byte) /\ callback = TRUE
  BY DEF QueueTypeOK
<1>4. CASE Len(buffer) >= QUEUE_UART_BUFFER_LENGTH
  <2>1. timer' = Disarmed /\ data' = << >> /\ out' = out \o buffer
    <3>1. queue_uart_timer_receive_tick(buffer)
      BY <1>4 DEF queue_uart_input
    <3>2. Len(buffer) \in 1 .. QUEUE_UART_BUFFER_LENGTH
      BY <1>1 DEF QueueTypeOK
    <3> QED
      BY <1>3, <3>1, <3>2 DEF queue_uart_timer_receive_tick
  <2>2. out' \in Seq(Byte) /\ << >> \in Seq(Byte) /\ Len(<< >>) = 0
    BY <1>1, <1>3, <2>1, ConcatProperties, EmptySeq
  <2>3. out' \o data' = out \o buffer
    BY <2>1, <2>2, ConcatEmptySeq
  <2>4. QueueTypeOK'
    BY <1>2, <1>3, <2>1, <2>2 DEF QueueTypeOK
  <2> QED
    BY <1>2, <1>3, <2>1, <2>3, <2>4
<1>5. CASE ~(Len(buffer) >= QUEUE_UART_BUFFER_LENGTH)
  <2>1. timer' = QUEUE_UART_INTERVAL /\ data' = buffer /\ out' = out
    BY <1>5 DEF queue_uart_input
  <2>2. QueueTypeOK'
    BY <1>1, <1>2, <1>3, <1>5, <2>1 DEF QueueTypeOK
  <2> QED
    BY <1>2, <1>3, <2>1, <2>2
<1> QED
  BY <1>4, <1>5

\* The timer's tick hands over the whole buffer.
LEMMA TimerStep ==
  ASSUME QueueTypeOK, ~callback => data = << >>, QueueTimerFires,
         NEW f \in Seq(Byte)
  PROVE  /\ QueueTypeOK'
         /\ callback' = callback
         /\ timer' = Disarmed
         /\ data' = << >>
         /\ out' = IF data = << >> THEN out ELSE out \o data
         /\ (out' \o data') \o f = (out \o data) \o f
<1> USE QueueUartAssumption DEF Disarmed
<1>1. data \in Seq(Byte) /\ out \in Seq(Byte) /\ Len(data) \in Nat
  BY LenProperties DEF QueueTypeOK
<1>2. << >> \in Seq(Byte) /\ Len(<< >>) = 0
  BY EmptySeq
<1>3. timer' = Disarmed /\ data' = << >> /\ callback' = callback
      /\ quiet' = quiet
  BY DEF QueueTimerFires, queue_uart_timer_receive_tick
<1>4. out' = IF data = << >> THEN out ELSE out \o data
  <2>1. CASE data = << >>
    BY <1>2, <2>1 DEF QueueTimerFires, queue_uart_timer_receive_tick
  <2>2. CASE data # << >>
    <3>1. callback /\ Len(data) > 0 /\ Len(data) <= QUEUE_UART_BUFFER_LENGTH
      BY <1>1, <2>2, EmptySeq DEF QueueTypeOK
    <3> QED
      BY <1>1, <2>2, <3>1 DEF QueueTimerFires, queue_uart_timer_receive_tick
  <2> QED
    BY <2>1, <2>2
<1>5. out \o data \in Seq(Byte) /\ out \o << >> = out
  BY <1>1, ConcatProperties, ConcatEmptySeq
<1>6. out' \in Seq(Byte) /\ out' \o data' = out \o data
  <2>1. (out \o data) \o << >> = out \o data
    BY <1>5, ConcatEmptySeq
  <2> QED
    BY <1>1, <1>3, <1>4, <1>5, <2>1
<1>7. QueueTypeOK'
  BY <1>2, <1>3, <1>6 DEF QueueTypeOK
<1> QED
  BY <1>3, <1>4, <1>6, <1>7

LEMMA NextIInv == IInv /\ [Next]_vars => IInv'
<1> SUFFICES ASSUME IInv, [Next]_vars PROVE IInv'
  OBVIOUS
<1> USE QueueUartAssumption, UartLinkAssumption
    DEF Idle, IInv, Interrupt, RxInterrupt
<1>0. /\ fifo \in Seq(Byte) /\ data \in Seq(Byte) /\ out \in Seq(Byte)
      /\ accepted \in Seq(Byte) /\ Len(fifo) \in Nat /\ out \o data \in Seq(Byte)
  BY LenProperties, ConcatProperties DEF TypeOK, QueueTypeOK
<1>a. ASSUME UNCHANGED queueVars PROVE QueueTypeOK'
  BY <1>a DEF queueVars, QueueTypeOK, TypeOK
<1>b. ASSUME UNCHANGED queueVars, UNCHANGED attached, left' <= Len(fifo')
      PROVE  LinkInv'
  BY <1>b DEF queueVars, LinkInv
<1>c. ASSUME UNCHANGED queueVars, UNCHANGED <<fifo, accepted>>
      PROVE  BytesInOrder'
  BY <1>c DEF queueVars, BytesInOrder
<1>d. left <= Len(fifo) /\ left \in Int /\ attached \in BOOLEAN
  BY <1>0 DEF LinkInv, TypeOK
<1>1. CASE UNCHANGED vars
  BY <1>0, <1>1, <1>a, <1>b, <1>c, <1>d
     DEF vars, hwVars, taskVars, TypeOK, OneWakeup
<1>2. ASSUME NEW b \in Byte, ByteArrives(b) PROVE IInv'
  <2> USE <1>2 DEF ByteArrives, taskVars
  <2>1. Append(fifo, b) \in Seq(Byte) /\ Len(Append(fifo, b)) = Len(fifo) + 1
        /\ Append(accepted, b) \in Seq(Byte)
    BY <1>0, AppendProperties
  <2>2. TypeOK'
    BY <1>0, <1>a, <2>1 DEF TypeOK
  <2>3. BytesInOrder'
    <3>1. (out \o data) \o Append(fifo, b) = Append((out \o data) \o fifo, b)
      BY <1>0, AppendRight
    <3> QED
      BY <3>1 DEF BytesInOrder, queueVars
  <2>4. OneWakeup'
    BY DEF OneWakeup
  <2>5. LinkInv'
    BY <1>0, <1>b, <1>d, <2>1
  <2> QED
    BY <2>2, <2>3, <2>4, <2>5
<1>3. ASSUME NEW i \in Interrupt, Raise(i) PROVE IInv'
  <2> USE <1>3 DEF Raise, taskVars
  <2>1. TypeOK'
    BY <1>0, <1>a DEF TypeOK
  <2>2. OneWakeup' /\ BytesInOrder' /\ LinkInv'
    BY <1>b, <1>c, <1>d DEF OneWakeup
  <2> QED
    BY <2>1, <2>2
<1>4. CASE uart0_rx_intr_handler
  <2> USE <1>4 DEF uart0_rx_intr_handler, uart_rx_intr_disable, Clear,
                   system_os_post
  <2>1. OneWakeup'
    BY DEF OneWakeup, TypeOK
  <2>2. intRaw' \in SUBSET Interrupt /\ intEna' \in SUBSET Interrupt
    BY DEF TypeOK
  <2>3. events' \in 0 .. uart_recvTaskQueueLen
    BY DEF TypeOK
  <2>4. TypeOK'
    BY <1>0, <1>a, <2>2, <2>3 DEF TypeOK
  <2>5. BytesInOrder' /\ LinkInv'
    BY <1>b, <1>c, <1>d
  <2> QED
    BY <2>1, <2>4, <2>5
<1>5. CASE uart_recvTaskStart
  <2> USE <1>5 DEF uart_recvTaskStart, hwVars
  <2>1. OneWakeup'
    BY <1>0 DEF OneWakeup, TypeOK
  <2>2. TypeOK'
    BY <1>0, <1>a DEF TypeOK
  <2>3. BytesInOrder' /\ LinkInv'
    BY <1>0, <1>b, <1>c, <1>d
  <2> QED
    BY <2>1, <2>2, <2>3
<1>6. CASE uart_recvTaskByte
  <2> USE <1>6 DEF uart_recvTaskByte
  <2>1. fifo # << >>
    BY <1>d, EmptySeq
  <2>2. /\ Head(fifo) \in Byte /\ Tail(fifo) \in Seq(Byte)
        /\ Len(Tail(fifo)) = Len(fifo) - 1
    BY <1>0, <2>1, HeadThenTail
  <2>3. OneWakeup'
    BY DEF OneWakeup, TypeOK
  <2>4. CASE attached
    <3>1. callback /\ QueueTypeOK /\ queue_uart_input(Head(fifo))
      BY <2>4 DEF LinkInv, TypeOK
    <3>2. /\ QueueTypeOK' /\ callback'
          /\ timer' # Disarmed => timer' + quiet' = QUEUE_UART_INTERVAL
          /\ (out' \o data') \o Tail(fifo)
               = (out \o Append(data, Head(fifo))) \o Tail(fifo)
      BY <2>2, <3>1, InputStep
    <3>3. TypeOK'
      BY <1>0, <1>d, <2>2, <2>4, <3>2 DEF TypeOK
    <3>4. BytesInOrder'
      <4>1. (out \o data) \o fifo
              = (out \o Append(data, Head(fifo))) \o Tail(fifo)
        BY <1>0, <2>1, MoveByte
      <4>2. accepted' = accepted /\ fifo' = Tail(fifo)
        BY <2>4
      <4> QED
        BY <3>2, <4>1, <4>2 DEF BytesInOrder
    <3>5. LinkInv'
      <4>1. callback' = callback /\ attached' = attached
        BY <3>1 DEF queue_uart_input
      <4>2. left' <= Len(fifo')
        BY <1>0, <1>d, <2>2
      <4> QED
        BY <2>4, <3>2, <4>1, <4>2 DEF LinkInv, Disarmed
    <3> QED
      BY <2>3, <3>3, <3>4, <3>5
  <2>5. CASE ~attached
    <3>1. accepted' = Tail(accepted) /\ UNCHANGED queueVars
      BY <2>5
    <3>2. out = << >> /\ data = << >>
      BY <2>5 DEF LinkInv
    <3>3. accepted = fifo
      BY <1>0, <3>2, ConcatEmptySeq DEF BytesInOrder
    <3>4. TypeOK'
      <4>1. accepted' \in Seq(Byte) /\ QueueTypeOK'
        BY <1>a, <2>2, <3>1, <3>3
      <4>2. /\ fifo' = Tail(fifo) /\ left' = left - 1 /\ left > 0
            /\ UNCHANGED <<intRaw, intEna, events, attached>>
        OBVIOUS
      <4> QED
        BY <1>0, <1>d, <2>2, <4>1, <4>2 DEF TypeOK
    <3>5. (<< >> \o << >>) \o Tail(fifo) = Tail(fifo)
      BY <1>0, <2>2, <3>2, ConcatEmptySeq
    <3>6. BytesInOrder'
      BY <3>1, <3>2, <3>3, <3>5 DEF BytesInOrder, queueVars
    <3>7. LinkInv'
      BY <1>0, <1>b, <1>d, <2>2, <3>1
    <3> QED
      BY <2>3, <3>4, <3>6, <3>7
  <2> QED
    BY <1>d, <2>4, <2>5
<1>7. CASE uart_recvTaskDone
  <2> USE <1>7 DEF uart_recvTaskDone, uart_rx_intr_enable
  <2>1. OneWakeup'
    BY DEF OneWakeup, TypeOK
  <2>2. intRaw' \in SUBSET Interrupt /\ intEna' \in SUBSET Interrupt
    BY DEF TypeOK
  <2>3. TypeOK'
    BY <1>0, <1>a, <2>2 DEF TypeOK
  <2>4. BytesInOrder' /\ LinkInv'
    BY <1>0, <1>b, <1>c, <1>d
  <2> QED
    BY <2>1, <2>3, <2>4
<1>8. CASE devicexx_app_apply_settings
  <2> USE <1>8 DEF devicexx_app_apply_settings, hwVars, taskVars,
                   queue_uart_receive_callback_register
  <2>1. QueueTypeOK' /\ attached' \in BOOLEAN
    BY DEF QueueTypeOK, TypeOK
  <2>2. TypeOK'
    BY <1>0, <2>1 DEF TypeOK
  <2>3. OneWakeup' /\ BytesInOrder'
    BY DEF OneWakeup, BytesInOrder
  <2>4. LinkInv'
    BY DEF LinkInv
  <2> QED
    BY <2>2, <2>3, <2>4
<1>9. CASE TimerFires
  <2> USE <1>9 DEF TimerFires, hwVars, taskVars
  <2>1. QueueTypeOK /\ (~callback => data = << >>) /\ QueueTimerFires
    BY DEF TypeOK, LinkInv
  <2>2. /\ QueueTypeOK' /\ callback' = callback /\ timer' = Disarmed
        /\ data' = << >>
        /\ out' = IF data = << >> THEN out ELSE out \o data
        /\ (out' \o data') \o fifo = (out \o data) \o fifo
    BY <1>0, <2>1, TimerStep
  <2>3. TypeOK'
    BY <2>2 DEF TypeOK
  <2>4. OneWakeup' /\ BytesInOrder'
    BY <2>2 DEF OneWakeup, BytesInOrder
  <2>5. LinkInv'
    BY <2>2 DEF LinkInv
  <2> QED
    BY <2>3, <2>4, <2>5
<1>10. CASE TimePasses
  <2> USE <1>10 DEF TimePasses, QueueTimePasses, hwVars, taskVars
  <2>1. /\ callback' = callback /\ data' = data /\ out' = out
        /\ quiet' \in 0 .. QUEUE_UART_INTERVAL
        /\ timer' \in Disarmed .. QUEUE_UART_INTERVAL
        /\ timer' # Disarmed => timer' + quiet' = QUEUE_UART_INTERVAL
    BY DEF TypeOK, QueueTypeOK, Disarmed, LinkInv
  <2>2. TypeOK'
    BY <2>1 DEF TypeOK, QueueTypeOK
  <2>3. OneWakeup' /\ BytesInOrder'
    BY DEF OneWakeup, BytesInOrder
  <2>4. LinkInv'
    BY <2>1 DEF LinkInv
  <2> QED
    BY <2>2, <2>3, <2>4
<1> QED
  BY <1>1, <1>2, <1>3, <1>4, <1>5, <1>6, <1>7, <1>8, <1>9, <1>10
     DEF Next, Hardware, recvTask, FifoOverflows, FifoFull, LineIdle

-----------------------------------------------------------------------------
(* The theorems. *)

\* The invariant holds in every reachable state.
THEOREM Invariance == Spec => []IInv
BY InitIInv, NextIInv, PTL DEF Spec

\* Every variable stays in its type: in particular the index of the frame
\* buffer never reaches its length between two steps.
THEOREM TypeCorrect == Spec => []TypeOK
<1>1. IInv => TypeOK
  BY DEF IInv
<1> QED
  BY <1>1, Invariance, PTL

\* system_os_post never meets a full queue, whatever the queue's length: the
\* receive path always has exactly one wake-up in flight.
THEOREM WakeupUnique == Spec => []OneWakeup
<1>1. IInv => OneWakeup
  BY DEF IInv
<1> QED
  BY <1>1, Invariance, PTL

\* No byte the FIFO accepted is lost, repeated or reordered on its way to the
\* AT handler.
THEOREM OrderKept == Spec => []BytesInOrder
<1>1. IInv => BytesInOrder
  BY DEF IInv
<1> QED
  BY <1>1, Invariance, PTL

\* A frame ends only when the buffer is full or the line was silent for
\* QUEUE_UART_INTERVAL.
THEOREM FramesAreWhole == Spec => FramesWhole
<1> DEFINE Cut == out' # out =>
                    \/ Len(out') = Len(out) + QUEUE_UART_BUFFER_LENGTH
                    \/ quiet = QUEUE_UART_INTERVAL
<1>1. IInv /\ [Next]_vars => [Cut]_vars
  <2> SUFFICES ASSUME IInv, Next, out' # out PROVE Cut
    BY DEF vars, queueVars
  <2> USE DEF IInv
  <2>1. CASE \/ Hardware \/ uart0_rx_intr_handler \/ TimePasses
             \/ devicexx_app_apply_settings
    BY <2>1 DEF Hardware, ByteArrives, FifoOverflows, FifoFull, LineIdle, Raise,
                uart0_rx_intr_handler, TimePasses, QueueTimePasses, queueVars,
                devicexx_app_apply_settings, queue_uart_receive_callback_register
  <2>2. CASE uart_recvTaskStart \/ uart_recvTaskDone
    BY <2>2 DEF uart_recvTaskStart, uart_recvTaskDone, queueVars
  <2>3. CASE uart_recvTaskByte
    <3> DEFINE buffer == Append(data, Head(fifo))
    <3>1. fifo # << >> /\ fifo \in Seq(Byte) /\ data \in Seq(Byte)
          /\ out \in Seq(Byte) /\ Len(data) \in Nat
      BY <2>3, EmptySeq, LenProperties
         DEF uart_recvTaskByte, LinkInv, TypeOK, QueueTypeOK, Idle
    <3>2. buffer \in Seq(Byte) /\ Len(buffer) = Len(data) + 1
      BY <3>1, HeadThenTail, AppendProperties
    <3>3. queue_uart_input(Head(fifo))
      BY <2>3 DEF uart_recvTaskByte, queueVars
    <3>4. /\ Len(buffer) >= QUEUE_UART_BUFFER_LENGTH
          /\ out' = out \o buffer
      BY <3>3 DEF queue_uart_input, queue_uart_timer_receive_tick
    <3>5. Len(buffer) = QUEUE_UART_BUFFER_LENGTH
      BY <3>1, <3>2, <3>4, QueueUartAssumption DEF TypeOK, QueueTypeOK
    <3> QED
      BY <3>1, <3>2, <3>4, <3>5, ConcatProperties
  <2>4. CASE TimerFires
    BY <2>4, QueueUartAssumption
       DEF TimerFires, QueueTimerFires, LinkInv, Disarmed, TypeOK, QueueTypeOK
  <2> QED
    BY <2>1, <2>2, <2>3, <2>4 DEF Next, recvTask
<1> QED
  BY <1>1, Invariance, PTL DEF Spec, FramesWhole

-----------------------------------------------------------------------------
(* Refinement. *)

\* The left part of a concatenation is a prefix of it.
LEMMA PrefixOfConcat ==
  ASSUME NEW S, NEW s \in Seq(S), NEW t \in Seq(S), s # << >>
  PROVE  /\ s = SubSeq(s \o t, 1, Len(s))
         /\ Len(s) \in 1 .. Len(s \o t)
<1>1. Len(s) \in Nat \ {0} /\ Len(t) \in Nat
  BY EmptySeq, LenProperties
<1>2. SubSeq(s \o t, 1, Len(s)) = SubSeq(s, 1, Len(s))
  BY <1>1, SubSeqOfConcat1
<1>3. Len(s \o t) = Len(s) + Len(t)
  BY ConcatProperties
<1> QED
  BY <1>1, <1>2, <1>3, SubSeqFull

\* More output from the same accepted bytes is a step of the channel.
LEMMA MoreOutIsHandOver ==
  ASSUME IInv', out \in Seq(Byte), attached, UNCHANGED <<attached, accepted>>,
         Len(out') > Len(out)
  PROVE  Channel!HandOver
<1>1. /\ out' \in Seq(Byte) /\ data' \in Seq(Byte) /\ fifo' \in Seq(Byte)
      /\ accepted' = (out' \o data') \o fifo'
  BY DEF IInv, TypeOK, QueueTypeOK, BytesInOrder
<1>2. Len(out) \in Nat /\ Len(out') \in Nat
  BY <1>1, LenProperties
<1>3. out' # << >>
  BY <1>2, EmptySeq
<1>4. data' \o fifo' \in Seq(Byte) /\ accepted = out' \o (data' \o fifo')
  BY <1>1, ConcatAssociative, ConcatProperties
<1>5. out' = SubSeq(accepted, 1, Len(out')) /\ Len(out') \in 1 .. Len(accepted)
  BY <1>1, <1>3, <1>4, PrefixOfConcat
<1>6. Len(out') \in Len(out) + 1 .. Len(accepted)
  BY <1>2, <1>5
<1> QED
  BY <1>5, <1>6 DEF Channel!HandOver

\* The interrupts, the task, the frame buffer and the timer together are an
\* ordered, lossless byte channel.
THEOREM Refinement == Spec => ImplementsChannel
<1> DEFINE A == <<attached, accepted, out>>
<1>1. Init => Channel!Init
  BY DEF Init, QueueInit, Channel!Init
<1>2. IInv /\ IInv' /\ [Next]_vars => [Channel!Next]_A
  <2> SUFFICES ASSUME IInv, IInv', Next, ~UNCHANGED A PROVE Channel!Next
    BY DEF vars, hwVars, queueVars
  <2>0. /\ out \in Seq(Byte) /\ data \in Seq(Byte) /\ fifo \in Seq(Byte)
        /\ Len(out) \in Nat /\ Len(data) \in Nat
        /\ attached = TRUE \/ attached = FALSE
    BY LenProperties DEF IInv, TypeOK, QueueTypeOK
  <2>1. ASSUME NEW b \in Byte, ByteArrives(b) PROVE Channel!Next
    BY <2>1 DEF ByteArrives, queueVars, Channel!Next, Channel!Accept
  <2>2. ASSUME NEW i, Raise(i) PROVE Channel!Next
    BY <2>2 DEF Raise, queueVars
  <2>3. CASE uart0_rx_intr_handler \/ uart_recvTaskStart \/ uart_recvTaskDone
             \/ TimePasses
    BY <2>3 DEF uart0_rx_intr_handler, uart_recvTaskStart, uart_recvTaskDone,
                TimePasses, QueueTimePasses, hwVars, queueVars
  <2>4. CASE uart_recvTaskByte
    <3>1. fifo # << >> /\ attached' = attached
      BY <2>4, EmptySeq DEF uart_recvTaskByte, IInv, LinkInv, TypeOK, Idle
    <3>2. CASE attached
      <4> DEFINE buffer == Append(data, Head(fifo))
      <4>1. queue_uart_input(Head(fifo)) /\ accepted' = accepted
        BY <2>4, <3>2 DEF uart_recvTaskByte
      <4>2. buffer \in Seq(Byte) /\ Len(buffer) = Len(data) + 1
        BY <2>0, <3>1, HeadThenTail, AppendProperties
      <4>3. out' # out
        BY <3>1, <4>1
      <4>4. out' = out \o buffer
        BY <4>1, <4>3 DEF queue_uart_input, queue_uart_timer_receive_tick
      <4>5. Len(out') > Len(out)
        BY <2>0, <4>2, <4>4, ConcatProperties
      <4> QED
        BY <2>0, <3>1, <3>2, <4>1, <4>5, MoreOutIsHandOver DEF Channel!Next
    <3>3. CASE ~attached
      <4>1. accepted' = Tail(accepted) /\ out' = out
        BY <2>4, <3>3 DEF uart_recvTaskByte, queueVars
      <4>2. out = << >> /\ data = << >>
        BY <3>3 DEF IInv, LinkInv
      <4>3. accepted = fifo
        BY <2>0, <4>2, ConcatEmptySeq DEF IInv, BytesInOrder
      <4> QED
        BY <3>1, <3>3, <4>1, <4>3 DEF Channel!Next, Channel!Drop
    <3> QED
      BY <2>0, <3>2, <3>3
  <2>5. CASE devicexx_app_apply_settings
    BY <2>5 DEF devicexx_app_apply_settings, hwVars,
                queue_uart_receive_callback_register, Channel!Next, Channel!Attach
  <2>6. CASE TimerFires
    <3>1. QueueTypeOK /\ (~callback => data = << >>) /\ QueueTimerFires
          /\ UNCHANGED <<attached, accepted>>
      BY <2>6 DEF TimerFires, hwVars, IInv, TypeOK, LinkInv
    <3>2. out' = IF data = << >> THEN out ELSE out \o data
      BY <2>0, <3>1, TimerStep
    <3>3. data # << >> /\ out' = out \o data
      BY <3>1, <3>2
    <3>4. attached
      BY <2>0, <3>3 DEF IInv, LinkInv
    <3>5. Len(out') > Len(out)
      BY <2>0, <3>3, ConcatProperties, EmptySeq
    <3> QED
      BY <2>0, <3>1, <3>4, <3>5, MoreOutIsHandOver DEF Channel!Next
  <2> QED
    BY <2>1, <2>2, <2>3, <2>4, <2>5, <2>6
       DEF Next, Hardware, recvTask, FifoOverflows, FifoFull, LineIdle
<1> QED
  BY <1>1, <1>2, Invariance, PTL DEF Spec, ImplementsChannel, Channel!Spec
=============================================================================
