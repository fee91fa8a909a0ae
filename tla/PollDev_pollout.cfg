\* A writer that may pass a bad pointer, and a process that polls for space.
CONSTANTS
  Readers = {r1}
  Writers = {w1}
  NoProc = NoProc
  BUF_LEN = 1
  Lens = {1}
  Byte = {0}
  NonBlocking = {}
  Pollers = {r1}
  BadBuffers = {w1}
  EventSets = {{"POLLOUT"}}
  Timeouts = {"infinite"}
SPECIFICATION PollSpec
INVARIANT NoLostPollout
