--------------------------- MODULE PlatformTables ---------------------------
(***************************************************************************)
(* The code of 09-platform-driver and of 10-platform-instance, as lists of *)
(* what it does, one call after the other.                                 *)
(*                                                                         *)
(* A call of a module's init or exit is a pair of what is done and the     *)
(* device it is done to.  A step of probe or remove is a resource of the   *)
(* device, or a part of total_devices++ and of total_devices--.            *)
(***************************************************************************)
EXTENDS Integers, SequencesExt

\* "platform" is 09, one module with one device; "instance" is 10, a module
\* with the driver and one with two devices.
ModulesOf == [platform |-> {"drv"}, instance |-> {"drv", "setup"}]
DevicesOf == [platform |-> {0},     instance |-> {0, 1}]

All == -1  (* for what does not belong to one device                       *)

Attach(ds) == [i \in DOMAIN ds |-> <<"attach", ds[i]>>]
Detach(ds) == [i \in DOMAIN ds |-> <<"detach", ds[i]>>]

\* device_add puts a device on the bus and then looks for a driver.
AddDevice(d) == << <<"device_add", d>>, <<"attach", d>> >>

RemoveDevice(d) == << <<"device_del", d>>, <<"detach", d>> >>

\* platform_driver_register goes through the devices on the bus,
\* platform_driver_unregister through the devices of the driver.
AddDriver(ds)    == << <<"driver_add", All>> >> \o Attach(ds)
RemoveDriver(ds) == << <<"driver_del", All>>, <<"driver_wait", All>> >> \o Detach(ds)

-----------------------------------------------------------------------------
\* 10: platform-drv.c
instance_drv_init == << <<"region", All>>, <<"class", All>> >> \o AddDriver(<<0, 1>>)

\* Faulty: the class goes while the devices have their nodes in it.
instance_drv_cleanup_ClassFirst ==
  << <<"class", All>> >> \o RemoveDriver(<<0, 1>>) \o << <<"region", All>> >>

instance_drv_cleanup ==
  RemoveDriver(<<0, 1>>) \o << <<"class", All>>, <<"region", All>> >>

\* Faulty: the device numbers are kept when there is no class.
instance_drv_failed_Region(call) ==
  [todo |-> <<>>, ret |-> IF call[1] = "driver_add" THEN "ok" ELSE "error"]

\* How init goes on, and what it returns, when a call fails.  That
\* platform_driver_register has failed is not looked at.
instance_drv_failed(call) ==
  CASE call[1] = "region"     -> [todo |-> <<>>, ret |-> "error"]
    [] call[1] = "class"      -> [todo |-> << <<"region", All>> >>, ret |-> "error"]
    [] call[1] = "driver_add" -> [todo |-> <<>>, ret |-> "ok"]

instance_probe  == <<"dev", "buf", "cdev", "node", "load", "inc">>

\* Faulty: the device is still counted.
instance_remove_NoDec == <<"node", "cdev", "buf", "dev">>

\* platform_drv_remove, and then what devm_kzalloc has allocated.
instance_remove == <<"node", "cdev", "load", "dec", "buf", "dev">>

\* Faulty: a goto one label too far down.
instance_probe_failed_Label ==
  [dev |-> <<>>, buf |-> <<"dev">>, cdev |-> <<"buf", "dev">>,
   node |-> <<"buf", "dev">>]

\* Faulty: and one label too far up.
instance_probe_failed_Up ==
  [dev |-> <<>>, buf |-> <<"dev">>, cdev |-> <<"cdev", "buf", "dev">>,
   node |-> <<"cdev", "buf", "dev">>]

\* The labels of probe, by the step that has failed.
instance_probe_failed ==
  [dev |-> <<>>, buf |-> <<"dev">>, cdev |-> <<"buf", "dev">>,
   node |-> <<"cdev", "buf", "dev">>]

\* Faulty: only the first is registered.
setup_init_First == AddDevice(0)

\* 10: platform-setup.c
setup_init == AddDevice(0) \o AddDevice(1)

\* Faulty: the first device is unregistered twice.
setup_exit_Twice == RemoveDevice(0) \o RemoveDevice(0)

setup_exit == RemoveDevice(0) \o RemoveDevice(1)

\* platform_add_devices unregisters what it has registered when it fails; its
\* result is not looked at.
setup_failed(call) ==
  [todo |-> IF call[2] = 0 THEN <<>> ELSE RemoveDevice(0), ret |-> "ok"]

-----------------------------------------------------------------------------
\* 09: the module registers its driver and then a device of its own.
platform_init == AddDriver(<<0>>) \o AddDevice(0)
platform_exit == RemoveDevice(0) \o RemoveDriver(<<0>>)

platform_failed(call) ==
  [todo |-> IF call[1] = "driver_add" THEN <<>> ELSE RemoveDriver(<<0>>),
   ret |-> "error"]

platform_probe  == <<"dev", "region", "cdev">>

platform_remove == <<"cdev", "region", "dev">>

\* What probe releases itself, and then devm.
platform_probe_failed ==
  [dev |-> <<>>, region |-> <<"dev">>, cdev |-> <<"region", "dev">>]

-----------------------------------------------------------------------------
InitOf ==
  [platform |-> [drv |-> platform_init],
   instance |-> [drv |-> instance_drv_init, setup |-> setup_init]]

ExitOf ==
  [platform |-> [drv |-> platform_exit],
   instance |-> [drv |-> instance_drv_cleanup, setup |-> setup_exit]]

FailedOf(example, m, call) ==
  CASE example = "platform" -> platform_failed(call)
    [] m = "setup"          -> setup_failed(call)
    [] OTHER                -> instance_drv_failed(call)

ProbeOf  == [platform |-> platform_probe, instance |-> instance_probe]
RemoveOf == [platform |-> platform_remove, instance |-> instance_remove]
ProbeFailed ==
  [platform |-> platform_probe_failed, instance |-> instance_probe_failed]

\* Which resource makes a device available to open.
GateOf == [platform |-> "cdev", instance |-> "node"]

CountSteps == {"load", "inc", "dec"}
KindsOf(example) == ToSet(ProbeOf[example]) \ CountSteps

\* What a resource is built on.
Needs(kind) ==
  CASE kind = "cdev" -> {"dev", "region"}
    [] kind = "node" -> {"cdev", "class"}
    [] OTHER         -> {}
Base(example, kind, d) ==
  IF kind \in KindsOf(example) THEN <<kind, d>> ELSE <<kind, All>>
=============================================================================
