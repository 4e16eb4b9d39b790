SPECIFICATION FairSpec
CONSTANTS
  Byte = {b1, b2}
  QUEUE_UART_BUFFER_LENGTH = 3
  QUEUE_UART_INTERVAL = 2
  FifoSize = 3
  UART_RXFIFO_FULL_THRHD = 0
  uart_recvTaskQueueLen = 2
  MaxBytes = 5
INVARIANTS TypeOK OneWakeup BytesInOrder
PROPERTIES FramesWhole ImplementsChannel EveryByteDelivered
