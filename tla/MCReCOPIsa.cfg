SPECIFICATION CoreSpec
CONSTANTS
  W = 2
  PmBits = 2
  DmBits = 1
  Programs <- KeptPrograms
  DmInitial = 3
  Signals = {FALSE}
PROPERTIES ImplementsIsa
