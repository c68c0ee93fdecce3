SPECIFICATION Spec
CONSTANTS
  Tasks <- MCTasks
  LastUser = 3
  Drivers <- MCDrivers
  Killers <- MCKillers
  Calls <- MCCalls
  Sigs = {INT, ALRM}
  MaxPendcount = 2
  ANY = ANY
  NIL = NIL
VIEW View
SYMMETRY Alike
INVARIANTS
  TypeOK
  SendersQueued
  NoSenderCycle
  NoMissedMessage
  NoMissedInterrupt
  InterruptKept
  SignalsCounted
  MMTold
  HardwareNeverBlocks
  ReadyQueuesExact
  RunsHighest
  RequestKept
