SPECIFICATION Spec
CONSTANTS
  PA_MAX_DATA_SIZE = 28
  BYTE = 32
  UART_RX_BUF_SIZE = 36
  Frames <- AnyFrames
  MaxFrames = 4
INVARIANTS PositionInFrame DeliveredSelfConsistent AcceptedDataInFrame FramesIntact
CHECK_DEADLOCK FALSE
