SPECIFICATION Spec
CONSTANTS
  NCPU = 2
  NPROC = 2
  INPUT_BUF = 2
  UART_TX_BUF_SIZE = 1
  FIFO = 2
  InWrap = 2
  TxWrap = 4
  TickRange = 3
  ReadSizes = {2}
  SleepArgs <- MCSleepArgs
  Workloads <- MCWorkloads
INVARIANTS
  InterruptsAsNested
  
  SleepersMustWait
  OutputNeverStalls

  
