\* Freed memory may have been cleared when it is read back.
CONSTANTS
  NUM_DEVICES = 2
  Drivers = {"blocking", "poll", "ramdisk"}
  Users = {u1, u2}
  FreedReads = {"error", "zero"}
SPECIFICATION Spec
INVARIANT LiveComplete
