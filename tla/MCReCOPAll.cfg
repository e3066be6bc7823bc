SPECIFICATION CoreFairSpec
CONSTANTS
  W = 2
  PmBits = 2
  DmBits = 1
  Programs <- MixedPrograms
  DmInitial = 3
  Signals = {FALSE, TRUE}
INVARIANTS CoreTypeOK FetchesPc
PROPERTIES ProgramUntouched InterruptWritesOne IrqServed
