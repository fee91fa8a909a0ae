\* 02, 03 and 09: three nodes, one of them past the devices of 03, and two
\* processes that write messages of two sizes, one cut by the buffer, of which
\* one also reads.
CONSTANTS
  Readers = {p1}
  Writers = {p1, p2}
  BadBuffers = {}
  Cats = {}
  Minors = {0, 1, 2}
  Drivers = {"shared", "multibuf", "cdev"}
  DEV_MAX = 2
  BUF_LEN = 4
  Lens = {1, 4}
  Values = {"a"}
SPECIFICATION MsgSpec
INVARIANTS MsgTypeOK BytesInBounds
PROPERTY RefinesRegisters
