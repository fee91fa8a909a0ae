---------------------------- MODULE PlatformBus ----------------------------
(***************************************************************************)
(* The platform bus under 09 and 10: modules that register drivers and     *)
(* devices load and unload beside each other, and the bus calls probe and  *)
(* remove.                                                                 *)
(*                                                                         *)
(* Of the driver core: the bus has a list of devices and the driver.  Who  *)
(* adds one looks for the other.  A device is probed and released under    *)
(* its lock, once.  A probe that fails leaves the device on the bus and    *)
(* fails neither registration.  A driver that goes waits for the probes    *)
(* that are under way.  "admin" writes the bind and unbind files in sysfs. *)
(***************************************************************************)
EXTENDS PlatformTables, FiniteSets

CONSTANTS
  Examples, (* which of 09 and 10 there is, of DOMAIN ModulesOf            *)
  Users,    (* processes that open the devices                             *)
  Scenes,   (* the sets of things that may happen together, of "init" (a   *)
            (* call fails before a module registers anything), "register", *)
            (* "probe" (these fail), "open" and "admin"                    *)
  MaxCount  (* bound: how far total_devices may have drifted when setup is *)
            (* loaded                                                      *)

ASSUME BusAssumption ==
  /\ Examples \subseteq DOMAIN ModulesOf
  /\ Scenes \subseteq SUBSET {"init", "register", "probe", "open", "admin"}
  /\ MaxCount \in Nat

Threads == {"drv", "setup", "admin"}

VARIABLES
  example, (* the one that is in use, of Examples                          *)
  scene,   (* what may happen in this behaviour, of Scenes                 *)
  module,  (* "unloaded", "coming", "live" or "going", of each module      *)
  todo,    (* the calls the init or exit of each module has still to make, *)
           (* and what an admin has                                        *)
  ret,     (* what init is to return                                       *)
  driver,  (* the driver is on the list of the bus                         *)
  bus,     (* the devices that are                                         *)
  bound,   (* the devices that have a driver                               *)
  lock,    (* the thread that holds the lock of each device                *)
  task,    (* what each thread does with the device it has locked          *)
  rest,    (* the steps of it that are left                                *)
  held,    (* the resources that are acquired                              *)
  total,   (* pdrv_data.total_devices                                      *)
  loaded,  (* the value of it each thread has loaded                       *)
  file,    (* the device each process has open                             *)
  spoilt   (* history: "failed" if something has failed, "setup" if it was *)
           (* the registration of 10's devices, "unbound" if an admin has  *)
           (* come in, "raced" if two threads counted at once              *)

sceneVars  == <<example, scene>>
moduleVars == <<module, todo, ret>>
taskVars   == <<bound, lock, task, rest>>
countVars  == <<total, loaded>>
busVars    == <<sceneVars, moduleVars, driver, bus, taskVars, held, countVars,
                file, spoilt>>

Modules == ModulesOf[example]
Devices == DevicesOf[example]
Kinds   == KindsOf(example)

NoOne == "nobody"
NoTask == [kind |-> "none", dev |-> All]

Next1(t) == Head(todo[t])
Advance(t) == todo' = [todo EXCEPT ![t] = Tail(@)]
Calls(t, what) == todo[t] # <<>> /\ task[t] = NoTask /\ Next1(t)[1] = what

Fails(what) == spoilt' = spoilt \cup what

-----------------------------------------------------------------------------
(* Modules                                                                 *)

Insmod(m) ==
  /\ module[m] = "unloaded"
  /\ m = "drv" \/ total \in -MaxCount..MaxCount
  /\ module' = [module EXCEPT ![m] = "coming"]
  /\ todo' = [todo EXCEPT ![m] = InitOf[example][m]]
  /\ ret' = [ret EXCEPT ![m] = "ok"]
  /\ total' = IF m = "drv" THEN 0 ELSE total
  /\ UNCHANGED <<driver, bus, taskVars, held, loaded, file, spoilt>>

InitReturns(m) ==
  /\ module[m] = "coming" /\ todo[m] = <<>> /\ task[m] = NoTask
  /\ module' = [module EXCEPT ![m] = IF ret[m] = "ok" THEN "live" ELSE "unloaded"]
  /\ UNCHANGED <<todo, ret, driver, bus, taskVars, held, countVars, file,
                 spoilt>>

\* .owner = THIS_MODULE: a file pins the module with the driver, not the one
\* with the devices.
Rmmod(m) ==
  /\ module[m] = "live"
  /\ m = "drv" => \A u \in Users : file[u] = All
  /\ module' = [module EXCEPT ![m] = "going"]
  /\ todo' = [todo EXCEPT ![m] = ExitOf[example][m]]
  /\ UNCHANGED <<ret, driver, bus, taskVars, held, countVars, file, spoilt>>

ExitReturns(m) ==
  /\ module[m] = "going" /\ todo[m] = <<>> /\ task[m] = NoTask
  /\ module' = [module EXCEPT ![m] = "unloaded"]
  /\ UNCHANGED <<todo, ret, driver, bus, taskVars, held, countVars, file,
                 spoilt>>

\* alloc_chrdev_region and class_create, and their opposites
Acquire(t) ==
  /\ module[t] = "coming" /\ ret[t] = "ok"
  /\ \E r \in {"region", "class"} : Calls(t, r) /\ held' = held \cup {<<r, All>>}
  /\ Advance(t)
  /\ UNCHANGED <<module, ret, driver, bus, taskVars, countVars, file, spoilt>>

Release(t) ==
  /\ module[t] = "going" \/ ret[t] = "error"
  /\ \E r \in {"region", "class"} : Calls(t, r) /\ held' = held \ {<<r, All>>}
  /\ Advance(t)
  /\ UNCHANGED <<module, ret, driver, bus, taskVars, countVars, file, spoilt>>

CallFails(t) ==
  /\ module[t] = "coming" /\ ret[t] = "ok"
  /\ \/ "init" \in scene /\ (Calls(t, "region") \/ Calls(t, "class"))
     \/ "register" \in scene /\ (Calls(t, "driver_add") \/ Calls(t, "device_add"))
  /\ todo' = [todo EXCEPT ![t] = FailedOf(example, t, Next1(t)).todo]
  /\ ret' = [ret EXCEPT ![t] = FailedOf(example, t, Next1(t)).ret]
  /\ Fails(IF t = "setup" THEN {"failed", "setup"} ELSE {"failed"})
  /\ UNCHANGED <<module, driver, bus, taskVars, held, countVars, file>>

-----------------------------------------------------------------------------
(* The driver core                                                         *)

DriverAdd(t) ==
  /\ Calls(t, "driver_add")
  /\ driver' = TRUE
  /\ Advance(t)
  /\ UNCHANGED <<module, ret, bus, taskVars, held, countVars, file, spoilt>>

\* The driver leaves the list, and its bind and unbind files go.
DriverDel(t) ==
  /\ Calls(t, "driver_del")
  /\ driver' = FALSE
  /\ Advance(t)
  /\ UNCHANGED <<module, ret, bus, taskVars, held, countVars, file, spoilt>>

\* klist_remove, and the removal of the files, wait for those who use them.
DriverWait(t) ==
  /\ Calls(t, "driver_wait")
  /\ \A o \in Threads \ {t} : task[o].kind \notin {"probe", "undo"}
  /\ todo["admin"] = <<>> /\ task["admin"] = NoTask
  /\ Advance(t)
  /\ UNCHANGED <<module, ret, driver, bus, taskVars, held, countVars, file,
                 spoilt>>

DeviceAdd(t) ==
  /\ Calls(t, "device_add")
  /\ bus' = bus \cup {Next1(t)[2]}
  /\ Advance(t)
  /\ UNCHANGED <<module, ret, driver, taskVars, held, countVars, file, spoilt>>

\* kill_device, under the lock of the device.  For a device that is not there
\* it follows a null pointer, and the call does not come back.
DeviceDel(t) ==
  /\ Calls(t, "device_del") /\ Next1(t)[2] \in bus
  /\ lock[Next1(t)[2]] = NoOne
  /\ bus' = bus \ {Next1(t)[2]}
  /\ Advance(t)
  /\ UNCHANGED <<module, ret, driver, taskVars, held, countVars, file, spoilt>>

MustProbe(d) == d \in bus /\ driver /\ d \notin bound

\* Faulty: the device is not locked.
Begin_NoLock(t, kind, d, steps) ==
  /\ task' = [task EXCEPT ![t] = [kind |-> kind, dev |-> d]]
  /\ rest' = [rest EXCEPT ![t] = steps]
  /\ UNCHANGED lock

Begin(t, kind, d, steps) ==
  /\ lock' = [lock EXCEPT ![d] = t]
  /\ task' = [task EXCEPT ![t] = [kind |-> kind, dev |-> d]]
  /\ rest' = [rest EXCEPT ![t] = steps]

\* __device_attach and __driver_attach: device_lock, a last look, probe
AttachProbes(t) ==
  /\ Calls(t, "attach")
  /\ LET d == Next1(t)[2] IN
       lock[d] = NoOne /\ MustProbe(d) /\ Begin(t, "probe", d, ProbeOf[example])
  /\ Advance(t)
  /\ UNCHANGED <<module, ret, driver, bus, bound, held, countVars, file,
                 spoilt>>

DetachReleases(t) ==
  /\ Calls(t, "detach")
  /\ LET d == Next1(t)[2] IN
       lock[d] = NoOne /\ d \in bound /\ Begin(t, "remove", d, RemoveOf[example])
  /\ Advance(t)
  /\ UNCHANGED <<module, ret, driver, bus, bound, held, countVars, file,
                 spoilt>>

\* There is nothing to do with the device.
Skips(t) ==
  /\ \/ Calls(t, "attach") /\ ~MustProbe(Next1(t)[2])
     \/ Calls(t, "detach") /\ Next1(t)[2] \notin bound
  /\ lock[Next1(t)[2]] = NoOne
  /\ Advance(t)
  /\ UNCHANGED <<module, ret, driver, bus, taskVars, held, countVars, file,
                 spoilt>>

-----------------------------------------------------------------------------
(* probe and remove                                                        *)

Step(t)  == Head(rest[t])
Steps(t) == rest' = [rest EXCEPT ![t] = Tail(@)]
Does(t, kinds, s) == task[t].kind \in kinds /\ rest[t] # <<>> /\ Step(t) \in s

ProbeStep(t) ==
  /\ Does(t, {"probe"}, Kinds)
  /\ held' = held \cup {<<Step(t), task[t].dev>>}
  /\ Steps(t)
  /\ UNCHANGED <<moduleVars, driver, bus, bound, lock, task, countVars, file,
                 spoilt>>

ProbeStepFails(t) ==
  /\ "probe" \in scene /\ Does(t, {"probe"}, Kinds)
  /\ task' = [task EXCEPT ![t].kind = "undo"]
  /\ rest' = [rest EXCEPT ![t] = ProbeFailed[example][Step(t)]]
  /\ Fails({"failed"})
  /\ UNCHANGED <<moduleVars, driver, bus, bound, lock, held, countVars, file>>

RemoveStep(t) ==
  /\ Does(t, {"undo", "remove"}, Kinds)
  /\ held' = held \ {<<Step(t), task[t].dev>>}
  /\ Steps(t)
  /\ UNCHANGED <<moduleVars, driver, bus, bound, lock, task, countVars, file,
                 spoilt>>

\* total_devices++ and total_devices-- have no lock of their own, and those
\* of different devices run at the same time.
CountLoad(t) ==
  /\ Does(t, {"probe", "remove"}, {"load"})
  /\ loaded' = [loaded EXCEPT ![t] = total]
  /\ spoilt' = IF \E o \in Threads : rest[o] # <<>> /\ Step(o) \in {"inc", "dec"}
                 THEN spoilt \cup {"raced"} ELSE spoilt
  /\ Steps(t)
  /\ UNCHANGED <<moduleVars, driver, bus, bound, lock, task, held, total, file>>

CountStore(t) ==
  /\ Does(t, {"probe", "remove"}, {"inc", "dec"})
  /\ total' = IF Step(t) = "inc" THEN loaded[t] + 1 ELSE loaded[t] - 1
  /\ loaded' = [loaded EXCEPT ![t] = 0]
  /\ Steps(t)
  /\ UNCHANGED <<moduleVars, driver, bus, bound, lock, task, held, file,
                 spoilt>>

BoundAfter(kind, d) ==
  IF kind = "probe" THEN bound \cup {d} ELSE bound \ {d}

TaskEnds(t) ==
  /\ task[t] # NoTask /\ rest[t] = <<>>
  /\ bound' = BoundAfter(task[t].kind, task[t].dev)
  /\ lock' = [lock EXCEPT ![task[t].dev] = NoOne]
  /\ task' = [task EXCEPT ![t] = NoTask]
  /\ UNCHANGED <<moduleVars, driver, bus, rest, held, countVars, file, spoilt>>

-----------------------------------------------------------------------------
(* sysfs, and the users of the devices                                     *)

AdminCalls ==
  /\ "admin" \in scene
  /\ driver /\ todo["admin"] = <<>> /\ task["admin"] = NoTask
  /\ \E d \in bus, what \in {"attach", "detach"} :
       todo' = [todo EXCEPT !["admin"] = << <<what, d>> >>]
  /\ spoilt' = spoilt \cup {"unbound"}
  /\ UNCHANGED <<module, ret, driver, bus, taskVars, held, countVars, file>>

Open(u) ==
  /\ "open" \in scene /\ file[u] = All
  /\ module["drv"] \in {"coming", "live"}
  /\ \E d \in Devices : <<GateOf[example], d>> \in held /\ file' = [file EXCEPT ![u] = d]
  /\ UNCHANGED <<moduleVars, driver, bus, taskVars, held, countVars, spoilt>>

Close(u) ==
  /\ file[u] # All
  /\ file' = [file EXCEPT ![u] = All]
  /\ UNCHANGED <<moduleVars, driver, bus, taskVars, held, countVars, spoilt>>

-----------------------------------------------------------------------------
Runs(t) ==
  \/ Acquire(t) \/ Release(t) \/ CallFails(t)
  \/ DriverAdd(t) \/ DriverDel(t) \/ DriverWait(t)
  \/ DeviceAdd(t) \/ DeviceDel(t)
  \/ AttachProbes(t) \/ DetachReleases(t) \/ Skips(t)
  \/ ProbeStep(t) \/ ProbeStepFails(t) \/ RemoveStep(t)
  \/ CountLoad(t) \/ CountStore(t) \/ TaskEnds(t)
  \/ InitReturns(t) \/ ExitReturns(t)

Init ==
  /\ example \in Examples /\ scene \in Scenes
  /\ module = [m \in Threads |-> "unloaded"]
  /\ todo = [t \in Threads |-> <<>>]
  /\ ret = [t \in Threads |-> "ok"]
  /\ driver = FALSE /\ bus = {} /\ bound = {}
  /\ lock = [d \in Devices |-> NoOne]
  /\ task = [t \in Threads |-> NoTask]
  /\ rest = [t \in Threads |-> <<>>]
  /\ held = {}
  /\ total = 0 /\ loaded = [t \in Threads |-> 0]
  /\ file = [u \in Users |-> All]
  /\ spoilt = {}

Next ==
  /\ \/ \E m \in Modules :
          Insmod(m) \/ Rmmod(m)
     \/ \E t \in Threads : Runs(t)
     \/ AdminCalls
     \/ \E u \in Users : Open(u) \/ Close(u)
  /\ UNCHANGED sceneVars

Spec == Init /\ [][Next]_busVars

\* A call that has begun goes on; the lock of a device is a mutex, which is
\* handed to a thread that has waited for it.
TakesLock(t) ==
  AttachProbes(t) \/ DetachReleases(t) \/ Skips(t) \/ DeviceDel(t)
LiveSpec ==
  /\ Spec
  /\ \A t \in Threads :
       /\ WF_busVars(Runs(t) /\ UNCHANGED sceneVars)
       /\ SF_busVars(TakesLock(t) /\ UNCHANGED sceneVars)

-----------------------------------------------------------------------------
(* Properties                                                              *)

Quiet == \A t \in Threads : task[t] = NoTask

\* The type invariant.
BusTypeOK ==
  /\ module \in [Threads -> {"unloaded", "coming", "live", "going"}]
  /\ bus \subseteq Devices /\ bound \subseteq Devices
  /\ lock \in [Devices -> Threads \cup {NoOne}]
  /\ \A t \in Threads : task[t] # NoTask =>
       task[t].kind \in {"probe", "undo", "remove"} /\ lock[task[t].dev] = t
  /\ held \subseteq (Kinds \X Devices) \cup ({"region", "class"} \X {All})
  /\ file \in [Users -> Devices \cup {All}]
  /\ total \in Int

\* A probe is done whole or not at all, and remove, with what devm releases
\* after it, leaves nothing of it, whoever probes and removes at the time.
ProbedWhole ==
  \A d \in Devices : lock[d] = NoOne =>
    {k \in Kinds : <<k, d>> \in held} = IF d \in bound THEN Kinds ELSE {}

\* Nothing is released that is not there, and no device is taken off the bus
\* that is not on it, unless platform-setup did not notice that it could not
\* register it.
ReleasedOnce ==
  \A t \in Threads :
    /\ Does(t, {"undo", "remove"}, Kinds) => <<Step(t), task[t].dev>> \in held
    /\ Calls(t, "device_del") /\ "setup" \notin spoilt => Next1(t)[2] \in bus

\* The device numbers and the class of the driver, the structure and the cdev
\* of each device, outlive what is built on them, while modules come and go.
NeedsHeld ==
  \A r \in held : \A k \in Needs(r[1]) : Base(example, k, r[2]) \in held

\* "The order of loading the two modules shows a difference in the output",
\* and only there: once both are live, and nothing has failed, every device
\* has its driver, also if they were loaded at the same time.
AllBound ==
  (\A m \in Modules : module[m] = "live") /\ Quiet /\ spoilt \subseteq {"raced"}
    => bound = Devices

\* With all modules unloaded, nothing is left of the driver or its devices.
NothingLeft ==
  (\A m \in Modules : module[m] = "unloaded") =>
    held = {} /\ bus = {} /\ ~driver /\ bound = {}

\* total_devices is the number of devices that have the driver, unless two
\* threads have counted at the same time.
CountExact ==
  example = "instance" /\ Quiet /\ "raced" \notin spoilt
    /\ module["drv"] # "unloaded" => total = Cardinality(bound)

\* Every load and unload comes to its end: the locks of the devices and the
\* wait for probes under way never close a circle.  The exception is the exit
\* of platform-setup after its registration has failed.
CallsEnd ==
  \A m \in {"drv", "setup"} :
    module[m] \in {"coming", "going"} ~>
      module[m] \in {"live", "unloaded"} \/ "setup" \in spoilt
=============================================================================
