\* 09 and 10: the modules are loaded and unloaded in any order and at once.
\* Either every call may fail and a process opens the devices, or an admin
\* unbinds and binds the driver.
CONSTANTS
  Examples = {"platform", "instance"}
  Users = {u1}
  Scenes = {{"init", "register", "probe", "open"}, {"admin"}}
  MaxCount = 0
SPECIFICATION LiveSpec
INVARIANTS BusTypeOK ProbedWhole ReleasedOnce NeedsHeld AllBound NothingLeft CountExact
PROPERTY CallsEnd
