\* 04: two processes that write messages of two sizes and do ioctls, at the
\* limits of the settings, and one of them reads.
CONSTANTS
  Readers = {p1}
  Writers = {p1, p2}
  BadBuffers = {p2}
  Cats = {}
  Minors = {0}
  Drivers = {"cdev"}
  DEV_MAX = 1
  BUF_LEN = 3
  Lens = {1, 2}
  Values = {"a"}
  Args = {3, 4, 1000, 1001}
SPECIFICATION IoctlSpec
INVARIANT IoctlTypeOK
PROPERTIES ResetTakesHold RefinesRegisters
