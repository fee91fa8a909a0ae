---------------------------- MODULE DriverTables ----------------------------
(***************************************************************************)
(* What the init and exit functions of the drivers acquire and release.    *)
(*                                                                         *)
(* Of each driver: the steps of its init function in order, what its error *)
(* path releases when a step fails, what its exit function releases, and   *)
(* the steps whose error code the error path reads from memory it has just *)
(* freed.  A resource is a pair of its kind and the number of the device   *)
(* it belongs to.                                                          *)
(***************************************************************************)
EXTENDS Integers, SequencesExt

CONSTANT NUM_DEVICES

ASSUME TablesAssumption == NUM_DEVICES \in Nat \ {0}

Of(i, kinds) == [k \in DOMAIN kinds |-> <<kinds[k], i>>]
Of0(kinds)   == Of(0, kinds)

-----------------------------------------------------------------------------
\* 02-char-device-driver and 03-char-dev-multibuf: register_chrdev does all.
chardev_init == [steps |-> Of0(<<"chrdev">>), unwind |-> << <<>> >>, freed |-> {}]
chardev_exit == Of0(<<"chrdev">>)

-----------------------------------------------------------------------------
\* 04-char-dev-ioctl: /dev/myioctl is made by hand, with mknod.
ioctl_init ==
  [steps  |-> Of0(<<"region", "dev", "cdev">>),
   unwind |-> << <<>>, Of0(<<"region">>), Of0(<<"dev", "region">>) >>,
   freed  |-> {}]

ioctl_exit == Of0(<<"cdev", "dev", "region">>)

-----------------------------------------------------------------------------
\* 05-char-dev-auto-node: NUM_DEVICES devices of one class.
init_device(i) == Of(i, <<"dev", "cdev", "node">>)

cleanup_device(i) == Of(i, <<"node", "cdev", "dev">>)

\* The k-th call of a loop over the devices that makes three for each.
DeviceAt(k) == (k - 1) \div 3
CallAt(k)   == ((k - 1) % 3) + 1

\* Faulty: the last device is left.
cleanup_devices_Short(up_to) ==
  [k \in 1..3 * (up_to - 1) |-> cleanup_device(DeviceAt(k))[CallAt(k)]]

cleanup_devices(up_to) ==
  [k \in 1..3 * Min({up_to, NUM_DEVICES}) |->
     cleanup_device(DeviceAt(k))[CallAt(k)]]

cleanup_class_and_devnum == Of0(<<"class", "region">>)

\* Faulty: a cdev that could not be added is deleted.
init_device_undo_Cdev(i) ==
  << <<>>, Of(i, <<"cdev", "dev">>), Of(i, <<"cdev", "dev">>) >>

\* What init_device(i) undoes itself when its first, second or third step
\* fails.
init_device_undo(i) == << <<>>, Of(i, <<"dev">>), Of(i, <<"cdev", "dev">>) >>

auto_init ==
  [steps  |-> Of0(<<"region", "class">>)
                \o [k \in 1..3 * NUM_DEVICES |-> init_device(DeviceAt(k))[CallAt(k)]],
   unwind |-> << <<>>, Of0(<<"region">>) >>
                \o [k \in 1..3 * NUM_DEVICES |->
                      init_device_undo(DeviceAt(k))[CallAt(k)]
                        \o cleanup_devices(DeviceAt(k)) \o cleanup_class_and_devnum],
   freed  |-> {}]

auto_exit == cleanup_devices(NUM_DEVICES) \o cleanup_class_and_devnum

-----------------------------------------------------------------------------
\* 06-char-dev-blocking: the last error path returns
\* PTR_ERR(my_device->device) after kfree(my_device).
blocking_init ==
  [steps  |-> Of0(<<"region", "class", "dev", "buffer", "cdev", "node">>),
   unwind |-> << <<>>,
                 Of0(<<"region">>),
                 Of0(<<"class", "region">>),
                 Of0(<<"dev", "class", "region">>),
                 Of0(<<"buffer", "dev", "class", "region">>),
                 Of0(<<"cdev", "buffer", "dev", "class", "region">>) >>,
   freed  |-> {6}]

\* Faulty: the device is freed before its cdev is deleted.
blocking_exit_Swapped ==
  Of0(<<"node", "buffer", "dev", "cdev", "class", "region">>)

blocking_exit == Of0(<<"node", "cdev", "buffer", "dev", "class", "region">>)

\* 07-char-dev-poll: a copy of the same code.
poll_init == blocking_init
poll_exit == blocking_exit

-----------------------------------------------------------------------------
\* 08-block-dev-ramdisk-basic: the error path of the fifth step returns
\* PTR_ERR(Device->gd) after kfree(Device).
ramdisk_init ==
  [steps  |-> Of0(<<"dev", "data", "major", "tag_set", "disk", "node">>),
   unwind |-> << <<>>,
                 Of0(<<"dev">>),
                 Of0(<<"data", "dev">>),
                 Of0(<<"major", "data", "dev">>),
                 Of0(<<"tag_set", "major", "data", "dev">>),
                 Of0(<<"disk", "tag_set", "major", "data", "dev">>) >>,
   freed  |-> {5}]

ramdisk_exit == Of0(<<"node", "disk", "tag_set", "major", "data", "dev">>)

-----------------------------------------------------------------------------
InitOf ==
  [char |-> chardev_init, multibuf |-> chardev_init,
   ioctl |-> ioctl_init, auto |-> auto_init, blocking |-> blocking_init,
   poll |-> poll_init, ramdisk |-> ramdisk_init]

ExitOf ==
  [char |-> chardev_exit, multibuf |-> chardev_exit,
   ioctl |-> ioctl_exit, auto |-> auto_exit, blocking |-> blocking_exit,
   poll |-> poll_exit, ramdisk |-> ramdisk_exit]

\* The drivers whose file operations have no .owner.
Unowned == {"char", "multibuf"}

\* Which resource makes a device available to open: its node in /dev, or what
\* registers its number where the node is made by hand.
GateOf(driver) ==
  CASE driver = "ioctl"     -> "cdev"
    [] driver \in Unowned  -> "chrdev"
    [] OTHER                -> "node"

\* What a resource is built on and refers to as long as it exists; the
\* region and the class are shared by all devices of a driver.
Base(kind, i) == <<kind, IF kind \in {"region", "class"} THEN 0 ELSE i>>

Needs ==
  {<<"cdev", "dev">>, <<"cdev", "region">>, <<"node", "class">>,
   <<"buffer", "dev">>, <<"node", "cdev">>,
   <<"data", "dev">>, <<"tag_set", "dev">>, <<"disk", "tag_set">>,
   <<"node", "disk">>, <<"node", "major">>, <<"node", "data">>}
=============================================================================
