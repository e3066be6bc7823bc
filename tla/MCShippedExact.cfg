SPECIFICATION SlotSpec
CONSTANTS
  W = 16
  PmBits = 5
  DmBits = 1
  Programs <- Shipped
  DmInitial = 16383
  Slots = 8
  Starts = {0}
  Signals = {FALSE, TRUE}
PROPERTIES CallsExact
