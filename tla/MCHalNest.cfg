\* Routines that enable and disable interrupts inside an interruptible one.
SPECIFICATION HalFairSpec
CONSTANTS
  ALT_MAX_FD = 6
  console = console
  disk = disk
  alt_dev_null = alt_dev_null
  NoDev = NoDev
  Devices = {console, alt_dev_null}
  FileSystems = {disk}
  Stdio <- ConsoleOut
  M = 6
  a = a
  b = b
  c = c
  Alarms = {a, b, c}
  ListHead = ListHead
  Delays = {0, 2}
  Periods = {1, 3}
  Rate = 2
  ALT_US = 4
  Times <- SomeTimes
  Unset = Unset
  StopsNext = FALSE
  ALT_NIRQ = 3
  CallsMasked = TRUE
INVARIANT NestsUpward
