\* 05: two of its devices and two processes that open them: a cat, and a
\* writer whose messages are of every size, as some are cut short by a fault,
\* until MaxOpens opens have been made of each device.
CONSTANTS
  Readers = {c}
  Writers = {p}
  BadBuffers = {p}
  Cats = {c}
  Minors = {0, 1}
  Drivers = {"cdev"}
  DEV_MAX = 2
  BUF_LEN = 3
  Lens = {2}
  Values = {"a"}
  MaxOpens = 2
SPECIFICATION AutoLiveSpec
INVARIANT OpenCountsOpens
PROPERTY CatEnds
CHECK_DEADLOCK FALSE
