\* A reader, a writer, and an O_NONBLOCK process that polls and reads, in a
\* buffer of two bytes; every pointer is good.
CONSTANTS
  Readers = {r1, p1}
  Writers = {w1}
  NoProc = NoProc
  BUF_LEN = 2
  Lens = {1, 3}
  Byte = {0}
  NonBlocking = {p1}
  Pollers = {p1}
  BadBuffers = {}
  EventSets = {{"POLLIN"}, {"POLLOUT"}}
  Timeouts = {"zero", "infinite"}
SPECIFICATION PollSpec
INVARIANTS PollTypeOK NoLostWakeup NoLostPollin NoLostPollout
