\* 04: one process, and a RESET that does not reset the speed to its default.
CONSTANTS
  Readers = {p1}
  Writers = {p1}
  BadBuffers = {}
  Cats = {}
  Minors = {0}
  Drivers = {"cdev"}
  DEV_MAX = 1
  BUF_LEN = 2
  Lens = {2}
  Values = {"a"}
  Args = {3, 1000}
SPECIFICATION IoctlSpec
INVARIANT ResetToDefaults
