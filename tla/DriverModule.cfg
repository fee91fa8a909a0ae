\* Every driver, with two processes that open its devices; the one that makes
\* several devices makes NUM_DEVICES of them, as in the source.
CONSTANTS
  NUM_DEVICES = 3
  Drivers = {"char", "multibuf", "ioctl", "auto", "blocking", "poll", "ramdisk"}
  Users = {u1, u2}
  FreedReads = {"error"}
SPECIFICATION Spec
INVARIANTS TypeOK NoLeak ReleasedOnce NeedsHeld LiveComplete OpenFilesSafe
