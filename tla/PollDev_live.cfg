\* A reader that may not block and polls, and a writer: the liveness
\* properties, under the fairness of the scheduler, the mutex and the timer.
CONSTANTS
  Readers = {r1}
  Writers = {w1}
  NoProc = NoProc
  BUF_LEN = 2
  Lens = {0, 1, 2}
  Byte = {0}
  NonBlocking = {r1}
  Pollers = {r1}
  BadBuffers = {r1, w1}
  EventSets = {{"POLLIN"}}
  Timeouts = {"finite", "infinite"}
SPECIFICATION PollFairSpec
PROPERTIES PollinProgress PollReturns NonblockReadReturns
