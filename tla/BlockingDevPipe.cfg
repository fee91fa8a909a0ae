\* A process that only reads and one that opens the device O_RDWR, bytes of
\* two values; writes and reads of part of the buffer and of more
\* than fits; under the fairness of the scheduler and the mutex.
CONSTANTS
  Readers = {r1, rw}
  Writers = {rw}
  NoProc = NoProc
  BUF_LEN = 2
  Lens = {1, 3}
  Byte = {0, 1}
SPECIFICATION FairSpec
INVARIANTS TypeOK MutexHeld PositionsOrdered CopyInBounds NoLostWakeup OpenCountsExact
PROPERTIES RefinesPipe ReadProgress CallsReturn
