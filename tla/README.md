# Verification of the ldd-sandbox drivers

The repository holds ten Linux kernel modules, each a lesson of a driver
course. This directory holds TLA+ models of them, TLC runs on small instances,
and proofs that the TLA+ proof system checks for instances of any size. The
kernel under the drivers is that of Ubuntu 22.04 (`Dockerfile`), version 5.15.

## 1. Inventory

| Part | State | Operations | Interaction |
|---|---|---|---|
| 01 hello-world | none | load, unload | none |
| 02 char-device-driver | one message, its size, no lock | open, read, write, release | all processes share the message; the module is not held by open files |
| 03 char-dev-multibuf | `DEV_MAX` messages, their sizes | the same, by minor number | as 02 |
| 04 char-dev-ioctl | message, `speed`, `mode`, no lock | the same, and seven ioctls | as 02; init and exit acquire and release kernel objects |
| 05 char-dev-auto-node | three devices, a message each, `open_count` | the same | init is a loop that undoes itself |
| 06 char-dev-blocking | buffer, two positions, counts of readers and writers, mutex, two wait queues | open, read that sleeps, write that wakes, release | processes meet at the mutex and the queues; signals interrupt them |
| 07 char-dev-poll | as 06 | as 06, `O_NONBLOCK`, poll | as 06; poll entries on both queues |
| 08 block-dev-ramdisk-basic | memory of the disk | requests from the block layer | requests run on several CPUs |
| 09 platform-driver | device made by probe | probe, remove, the operations of 02 | the platform bus calls the driver |
| 10 platform-instance | driver and devices in two modules | probe, remove, stub operations | two modules load and unload in any order |
| test programs, build, QEMU script | none | | user space and tools |

What is hard:

* **06 and 07**: every handler runs in any number of processes at once. The
  condition of `wait_event_interruptible` is evaluated *without* the mutex. The
  read loop unlocks, sleeps and locks again; wake-ups come after the unlock;
  a write that finds the buffer full discards the contents; copies from and to
  user space fail in the middle; signals interrupt. Correct means: the
  positions stay in order (the lengths are unsigned differences), no copy
  without data or space, no wake-up lost, the mutex held where it must be and
  nowhere else, the counts exact, bytes delivered once and in order.
* **init and exit of 02 to 08**: hand-written error paths, one for each step.
  Correct means: nothing leaks, nothing is released twice or before what is
  built on it, a live module is complete, an open file finds its device.
* **02, 03, 04, 05, 09**: a message and its size, shared without a lock. Reads
  and writes that overlap may mix messages, and the code does not say
  otherwise. Correct means: no byte outside of the buffer is touched even then;
  calls that no write overlaps read and store whole messages; a device never
  sees another's; a reader that reads to the end gets there.
* **04**: RESET clears four things one after the other beside SETs, reads and
  writes. **05**: opens count themselves without a lock.
* **08**: requests of any cut into bios and segments, on several CPUs, up to
  the last sector, with no lock. Correct means: each is transferred whole, and
  requests on different sectors do not disturb each other.
* **09 and 10**: two modules register a driver and its devices in any order or
  at once, the bus probes and removes, each step of a probe may fail, and files
  may be open when a device goes.

`PROJECT.json` lists these hazards one by one, with the line of each and the
properties that cover it.

## 2. Plan

1. `BlockingDev` (06), its liveness, its proofs, `LossyPipe` and the
   refinement.
2. `PollDev` (07), composed with the handlers of `BlockingDev`.
3. `DriverTables` and `DriverModule` (load and unload of 02 to 08).
4. `CharMsgDev` (02, 03, 09) and its proofs, `SafeRegisters` and the
   refinement.
5. `IoctlDev` (04) and `AutoNode` (05) over `CharMsgDev`, with their proofs.
6. `RamDisk` (08), which implements a safe register for each sector.
7. `PlatformTables` and `PlatformBus` (09, 10).
8. Proofs of the safety properties and refinements of all of them.

All of these are done: every invariant, action property and refinement a run
checks has a theorem (section 7), and so have two refinements no run asks for,
of 05 and of 07. Liveness is left to TLC.

## 3. Modules

| Module | Models | Contents |
|---|---|---|
| `BlockingDev` | 06, device operations | state, handlers, wait_event_interruptible, properties |
| `BlockingDevProofs` | | theorems about `BlockingDev`, and that it implements `LossyPipe` |
| `LossyPipe` | what 06 promises | abstract specification |
| `BlockingDevPipe` | | the refinement mapping, `RefinesPipe` |
| `PollDev` | 07, device operations | `BlockingDev` with `O_NONBLOCK`, `dev_poll` and the poll system call around it |
| `PollDevProofs` | | theorems about `PollDev` |
| `DriverTables` | init, error paths and exit of 02 to 08 | which resources each step acquires and each path releases |
| `DriverModule` | insmod, rmmod, open, close | the lifecycle of a module, over the tables |
| `DriverModuleProofs` | | theorems about `DriverModule` |
| `CharMsgDev` | 02, 03, 09, and the handlers 04 and 05 share with them | a message and its size, byte by byte, no lock |
| `SafeRegisters` | what memory without a lock promises | abstract specification |
| `MsgRegisters` | | the refinement mapping of `CharMsgDev`, `RefinesRegisters` |
| `CharMsgDevProofs` | | theorems about `CharMsgDev`, and that it implements `SafeRegisters` |
| `IoctlDev` | 04, device operations | `CharMsgDev` with `dev_ioctl` |
| `IoctlDevProofs` | | theorems about `IoctlDev`, and that it implements `SafeRegisters` |
| `AutoNode` | 05, device operations | `CharMsgDev` with `open_count` |
| `AutoRegisters` | | the refinement mapping of `AutoNode`, `RefinesAutoRegisters` |
| `AutoNodeProofs` | | theorems about `AutoNode`, and that it implements `SafeRegisters` |
| `RamDisk` | 08, requests | queue_rq, the loops over bios and segments, `RefinesSectors` |
| `MCRamDisk` | | the shapes of requests for TLC |
| `RamDiskProofs` | | theorems about `RamDisk`, and that it implements `SafeRegisters` |
| `PlatformTables` | init, exit, probe and remove of 09 and 10 | what they do, call by call |
| `PlatformBus` | the driver core, modules, sysfs, files | who calls probe and remove when |
| `PlatformBusProofs` | | theorems about `PlatformBus` |

Operators named `X_Y`, marked "Faulty" in their comment, are variants of the
definition `X` below them with a plausible bug. No specification uses them:
`PROJECT.json` says which property each one breaks, if it takes the place of
`X`.

### BlockingDev

`lock`, `buffer`, `read_pos`, `write_pos`, `readers`, `writers` and
`read_queue` are the fields of `struct myblock_dev`; `buffer_size` is the
constant `BUF_LEN`. No handler waits on `write_queue`, so that it has no
variable: its wake-up in `dev_read` is the step `ReadWake`, which changes
nothing of the device. (In 07 poll entries queue on it, and the same step wakes
them.) `pc` says where each process is; `len` and `got` are the length its call
asked for and what its read has copied out.

A step is a piece of a handler from one point where others can interfere to
the next. Under the mutex these are few, but one matters: has_data() of a
*waiting* reader is evaluated without it. So

* an unlocked has_data() is two steps, `CondLoad` and the step that uses
  `CondValue`, in either order of the two loads;
* a reset of the positions is two stores (`StoreZero`), in either order;
  `reset_left` says which are still to be made;
* `copy_from_user` and `write_pos += n` are one step: waiting readers look at
  the positions only, and the positions change last.

Each load and store is taken as indivisible, and those of one process as made
in some order that all others see; the barrier of `prepare_to_wait_event`
(`set_current_state`) and the one of `wake_up` on the other side justify it
where the wake-up is concerned.

`wait_event_interruptible` is the macro of `<linux/wait.h>`: evaluate
(`cond_first`), queue the entry (`WaitPrepare`), evaluate again (`cond`), sleep
(`asleep`), and from there again. A wake-up empties the queue
(`autoremove_wake_function`). A pending signal makes `WaitPrepare` unqueue the
entry and the wait fail with `-ERESTARTSYS`, but only if the condition is still
false (`CondFalseSignal`). `mutex_lock_interruptible` fails only if the mutex
is contended and a signal is pending (`Interrupted`).

Error returns are not told apart: what matters of them is what they leave
behind. A process has one file open at a time, in the mode the sets `Readers`
and `Writers` give it; a process that does several things at once is several
processes.

### LossyPipe

A pipe that all readers share: `Put` appends, `Take` takes a prefix. Its
capacity counts from the last time it was empty, as the buffer is not
circular, and a pipe filled to its capacity may drop all of its contents
(`Drop`). The mapping takes the bytes between the two positions for the pipe,
and none at all while a reset is under way: a reset takes effect when its
first store may be made.

### PollDev

07 is 06 with two additions. `ReadAgain` and `MayWait` are the `O_NONBLOCK`
test before the loop (it is made under the same lock as the first test of the
loop; a process that has come through it never finds the buffer empty before it
copies, so that the loop's own test is the same). `dev_poll` is a round of the
poll system call: two `poll_wait`, a lock, the mask, an unlock. Around it is
`do_poll`: entries are queued in the first round only, and not at all for a
timeout of zero; a process with no event sleeps until `triggered` (set by a
wake-up, and cleared when the sleep ends), a signal, or the time. The wake-ups
of 07 pass no key and so trigger every entry on the queue. `revents` keeps what
the last poll of a process reported until its next call ends: the properties
about "a read after a poll" need it.

### DriverTables and DriverModule

A driver is a list of steps, each of which acquires a resource, a list of
releases for each step that may fail, and the list of releases of exit.
`init_device` and the loops of 05 are written as functions of the index, like
the C code. Where the error path computes the error code from memory it has
freed (`freed`), the code is one of `FreedReads`.

`DriverModule` runs these lists, of any one of `Drivers`, one call at a time
beside processes that open and close the devices. A device can be opened as soon as its node exists (02,
03 and 04: its registration, as the node is made by hand), also while init is
running: the kernel takes a reference to a module that is coming, but not to one
that is going. `.owner = THIS_MODULE` makes rmmod fail while a file is open
(`Pinned`); 02 and 03 do not set it (`Unowned`). `early` is history: who has
opened a device while init had others still to make. In 06
and 07 the cdev is live before the node is made; that somebody opens it in
between with a node made by hand, and `device_create` then fails, is left out.

### CharMsgDev

`message` and `message_size` of each buffer are those of the source: one pair
in 02, arrays in 03, a field of the device in 04, 05 and 09. `driver` says
which of the three it is; a behaviour takes one of `Drivers` and keeps it. With
it go the minor numbers that can be opened (`HasCdev`: all of them, where
`register_chrdev` made the device) and those the handlers refuse (`NoDevice`:
only 03 has the test, and its open has not). `offset` is `f_pos`;
`len` is what the call copies at most; `left` and `data` are where its copy is.

Every use of `message_size` in the source is a load of its own, with others in
between. A read has three: it compares its position with the size (`ReadSize`),
compares it again with the length added (`ReadLimit`), and subtracts
(`ReadCut`); then it copies byte by byte and moves the position. If a shorter
message has come in between, the subtraction wraps: `copy_to_user` refuses a
length past `INT_MAX` and copies nothing (`Copyable`). If a longer one has, the
length is more than the call asked for: the copy still ends within the driver's
buffer, but runs past the end of the user's, where it may fault or not
(`CopyStops`). A write copies byte by byte, stores the size, loads it again for
the index of the NUL (`WriteIndex`), stores the NUL there, and returns the size
*as loaded again* after the printk. A compiler may join some of these loads,
which leaves out behaviours and adds none. A user pointer may fault
(`BadBuffers`) at any byte: `copy_to_user` stops there, `copy_from_user` clears
the rest, so that a write goes on with NULs (`WriteByte`) but stores the size of
what it has copied. A byte is a pair of a message and its place in it, which
tells apart everything that can be mixed up.

`clean` and `known` are history: the calls no other's write has overlapped, and
the devices whose contents follow from that. `DeviceOf` is what the user of a
driver takes for the device (02: "all devices use the same buffer"; 03: each its
own), `BufferOf` is what the code does.

### SafeRegisters

What the drivers promise is Lamport's safe register, with many writers: an
operation that no write overlaps behaves as if alone, another may read or leave
anything, but only in its own register. A read of one of `Loose`, once a write
has overlapped it, may also return more than it asked for, as the message devices
do when the size changes between the loads; copies of a sector never do.

It is a promise about `CharMsgDev` (registers are devices, operations are calls;
`MsgRegisters`, and `AutoRegisters` for 05, whose devices hold a message at
first) and about `RamDisk` (registers are sectors, operations are the copies of
a sector). A RESET of 04 is a write of the empty message.

### IoctlDev and AutoNode

Both extend `CharMsgDev` and take its actions unchanged. `dev_ioctl` of 04 is
one action for each command, but RESET, which is six: what the compiler may not
join, others can see in between. `touched` is history: the RESETs a SET has
overlapped. In 05 an open is a load and a store of `open_count`; `opened` and
`raced` are history. Its three init messages are one, `Default`: what a device
says of its own number no property looks at.

### RamDisk

`QueueRq` takes any request the block layer may pass for a disk of this
capacity: whole sectors within it, cut into bios and segments by one of
`Shapes`: for each bio, the sectors (counted from the first of the request) at
which its segments start, and the one at which its last segment ends. The two
loops are `NextBio` and `BioEnds`, `SegmentStarts` and
`SegmentEnds`; `memcpy` is one piece after the other (`CopyPiece`), a sector
being two of them or more. `done` and the history variables follow the request
through its sectors; the code has no such variable.

### PlatformTables and PlatformBus

`PlatformTables` has the drivers' code, as lists of calls; `PlatformBus` has the
driver core, as far as the drivers meet it: registering a device looks for the
driver and the other way round (`device_add`, `attach`), a device is probed or
released under its lock and after a last look, a driver that goes leaves the
list, waits for probes under way and releases its devices. It is external code,
modelled from how 09 and 10 use it; `map` says so. A thread is an insmod or
rmmod of one module, or an administrator who writes to `bind` and `unbind`. A
behaviour is about one `example`, 09 or 10, and one `scene`: what may happen in
it beside the loading and unloading. Both are variables that never change, so
that one instance covers the combinations `Scenes` names.

The result of `platform_add_devices` is not looked at by 10's `platform-setup`.
When it has failed, exit unregisters devices that are not registered:
`device_del` then follows a null pointer (`dev->p`), so that rmmod dies and the
module stays on its way out for ever. `DeviceDel` has no step for it.

What `devm_kzalloc` allocates is released after `remove`, or after a probe that
fails: `buf` and `dev` at the end of the lists. `total_devices++` is the two
steps `load` and `inc`. The order in which a driver meets the devices is that
of their numbers.

## 4. Runs

| Run | Instance | What it shows |
|---|---|---|
| `blocking` | 06: a reader and an O_RDWR process, 2 bytes of two values, lengths 1 and 3, faults; 124 thousand states, with fairness | `TypeOK`, `MutexHeld`, `PositionsOrdered`, `CopyInBounds`, `NoLostWakeup`, `OpenCountsExact`, `RefinesPipe`, `ReadProgress`, `CallsReturn` |
| `poll_safety` | 07: a blocking reader, a writer, an O_NONBLOCK process that polls and reads; 1.8 million states | `PollTypeOK`, `NoLostWakeup`, `NoLostPollin`, `NoLostPollout` |
| `poll_live` | 07: an O_NONBLOCK reader that polls, a writer, lengths 0, 1, 2, pointers that fault; 19 thousand states, with fairness | `PollinProgress`, `PollReturns`, `NonblockReadReturns` |
| `module_lifecycle` | 02 to 08, 05 with its 3 devices; 2 users | `TypeOK`, `NoLeak`, `ReleasedOnce`, `NeedsHeld`, `LiveComplete`, `OpenFilesSafe` |
| `messages` | 02, 03 and 09: 3 nodes, 2 devices, 2 writers, one of which reads, 4 bytes, lengths 1 and 4; 638 thousand states | `MsgTypeOK`, `BytesInBounds`, `RefinesRegisters` |
| `ioctl_dev` | 04: 2 writers, one of which reads, arguments at the limits, 3 bytes, lengths 1 and 2; 411 thousand states | `IoctlTypeOK`, `ResetTakesHold`, `RefinesRegisters` |
| `auto_opens` | 05: a cat and a writer with a bad pointer, 2 devices, 3 bytes, 2 opens of each; 172 thousand states, with fairness | `OpenCountsOpens`, `CatEnds` |
| `ramdisk` | 08: 2 CPUs, 2 sectors of 2 pieces, 4 shapes; 1.3 million states | `TransferredWhole`, `RefinesSectors` |
| `bus` | 09 and 10: every failure beside a user, or an administrator; 119 thousand states, with fairness | `BusTypeOK`, `ProbedWhole`, `ReleasedOnce`, `NeedsHeld`, `AllBound`, `NothingLeft`, `CountExact`, `CallsEnd` |
| `poll_pollout_lost` | 07: a writer with a bad pointer | finding: `NoLostPollout` is violated |
| `module_freed` | 06, 07 and 08: freed memory may be 0 | finding: `LiveComplete` is violated |
| `ioctl_reset_defaults` | 04: one process | finding: `ResetToDefaults` is violated |

Why the bounds are enough. A buffer of two bytes can be empty, part full and
full, and part read in each case; with lengths of part and of more than fits,
all branches of the handlers are taken. A reader that was woken loses its data
to the O_RDWR process, which also reads, or to the reset in its write; two
readers beside a writer are in `poll_safety`, whose handlers are the same ones,
and the theorems below need no bound on any of them. For the pipe, two bytes of
two values let order, loss and duplication be seen. A write of
nothing, which discards a full buffer like any other, is in `poll_live`. For poll, one blocking
reader, one writer and one poller have every pair of handlers beside a sleeping
poller. For 05 the loop of init has the length it has in the source.

For the message devices two processes that write make every pair of handlers
overlap; buffers of three and four bytes have messages shorter than the buffer
and cut by it, and the NUL at the last byte. Two sizes that lie two bytes apart
let the size grow and shrink between the loads of a read and of a write: lengths
that wrap, copies longer than the call asked for and a NUL at the size of
another's message all occur. Pointers that fault multiply the states by seven,
and are in `ioctl_dev`, over the same handlers, for `RefinesRegisters`, and in
`auto_opens`; a writer whose pointer faults leaves messages of every length, the
empty one included. In 05 the devices start with the longest message, and the
writer replaces it by shorter ones and back while the cat reads. Two devices and one minor number past them are what a
wrong index can confuse. Two opens of a device are what it takes to lose a
count, and a second device what it takes to count the wrong one. A disk of two
sectors has requests for the first, the last and both, in one segment, two
segments and two bios; two pieces to a sector let a copy be caught in the
middle. 10 has the two devices of the source.

Two bounds stand in guards: `MaxOpens` of `AutoNode`, as `open_count` only
grows; and `MaxCount` of `PlatformBus`: the devices are loaded again only while
`total_devices` has not drifted further than that, which it does by races that
lose a count. With `MaxCount = 0` a load starts from an exact count, and drifts
within. `Scenes` keeps failures and the administrator apart, as together they
only multiply; either is beside every order of loading and unloading. The other
variables are bounded by the sets of processes, the buffer and the disk.

`poll_safety` leaves failing copies out (`BadBuffers`), since with them
`NoLostPollout` does not hold: `poll_pollout_lost` is a small instance with
them, and `poll_live` and `blocking` have them too. `module_lifecycle`
takes what is left in freed memory to be the error pointer, as `module_freed`
shows what happens otherwise. Deadlock is checked in every run but `auto_opens`,
where nothing is left to do once the opens have run out and the files are
closed.

The three findings, each against a sentence of the repository:

* In 07 a write that finds the buffer full resets the positions and may then
  fail to copy; it returns without waking those that poll for space
  (`poll_pollout_lost`).
* 06, 07 and 08 read the error code of a failed init from memory they have just
  freed (`module_freed`).
* RESET of 04 sets the speed to 0, while the speed a device starts with, by the
  source its default, is 100; its README has RESET go back to the defaults
  (`ioctl_reset_defaults`). `ResetTakesHold` is the other question about RESET:
  that what the code stores also holds, beside others.

## 5. What else the models show

These are things the code does that a reader of it should know of, and that the
properties step around or state as exceptions. No run is about them.

* 06 never reports end of file: a process that reads until read returns 0, as
  the `cat` of 06's README does, waits for more once the device is drained. In
  the message devices the same `cat` ends (`CatEnds`).
* In 07 a read after a poll that reported POLLIN can still block: another
  reader may be faster, or a reset may come between.
* In the message devices, a read that a write overlaps may return more than it
  asked for, if the user's buffer is followed by memory that can be written.
* In 05 a device that is opened while init is still making the next one is
  freed under the open file if that fails: `early` in `OpenFilesSafe`.
* `platform-setup` of 10 stays loaded when registering its devices has failed,
  and `platform-drv` when registering its driver has: "setup" in `ReleasedOnce`
  and `CallsEnd`.
* In 09 and 10 a device that goes, by an unbind or with the module that
  registered it, is freed under the files that are open on it. An open file
  pins the module of the driver only.

## 6. Fairness

Liveness of 06 and 07 holds under `Fairness` and `PollFairness`, for each
process `p`:

* `WF(Run(p))`: a process in the kernel that can take a step takes one. The
  scheduler runs every runnable process. Calls are not fair: nobody need call
  anything. Signals and spurious wake-ups are not fair either.
* `SF(Acquire(p))`: a process that waits for the mutex gets it. Weak fairness
  is too little, as others may take it over and over; the kernel's mutex hands
  itself over to a first waiter that was passed by (`MUTEX_FLAG_HANDOFF`), which
  is what strong fairness says.
* `SF(PollTimeout(p))`, for poll: the deadline of a poll is absolute, so that a
  process woken over and over for the wrong event still times out.

`ReadProgress` has "unless the data goes away" on its right-hand side, and
needs it: the code serves readers in no order, and a reader can be overtaken
for ever.

`AutoFairness` of `AutoNode` is weak: a call that has begun goes on, as there
is no lock to wait for, and a cat calls read again, or close when it is told end
of file. Nobody else need call anything. `CatEnds` holds with a writer that
never stops, because a read that returns something moves the position, and no
size is ever larger than the buffer. It is a property of the handlers that 02 to
05 and 09 share.

`LiveSpec` of `PlatformBus` has `WF(Runs(t))` for a load, an unload or an
administrator's call that has begun, and `SF(TakesLock(t))` on the steps that
need the lock of a device, which is a `struct mutex` with the hand-off described
above. That anybody loads or unloads anything is not assumed, nor that a file is
ever closed.

## 7. Proofs

Every theorem is about all values of the constants that the assumptions named
in the modules allow: any number of processes, users or CPUs, any size of
buffer or disk. Where one needs more, it says so in its ASSUME, and the reason
is given here. Each inductive invariant was checked by TLC before it was proved.

### BlockingDevProofs

From `DevAssumption` of `BlockingDev`: `BUF_LEN > 0`, finite sets of processes
(for the counts).

| Theorem | Property |
|---|---|
| `Invariance` | `IInv`, the inductive invariant |
| `TypeCorrect` | `TypeOK`: the positions never leave the buffer |
| `MutualExclusion` | `MutexHeld` |
| `PositionsStayOrdered` | `PositionsOrdered` |
| `CopiesStayInBounds` | `CopyInBounds` |
| `WakeupsAreNotLost` | `NoLostWakeup` |
| `CountsAreExact` | `OpenCountsExact` |
| `ImplementsPipe` | `RefinesPipe` |

`IInv` is `DevInv`, with what is only true of 06 added: `TypeOK`, as 06 has no
other labels, and `MutexHeld`, as nobody else locks the mutex. `DevInv` leaves
both open, so that 07 has it as it is. Its parts are

* `ResetHeld`: a reset is under way exactly when a process is at one, which then
  holds the mutex (`Excluded`);
* `ResetZero`: outside a reset the positions are ordered, and inside one the
  position that is already stored is 0. This is why a half-made reset can be
  seen by an unlocked load and does no harm;
* `CopyInBounds`: what a handler has tested under the mutex is still so when it
  copies;
* `SeenInCond` and `QueuedWaits`: where a process that has made the first load
  of the condition, or has its entry queued, can be;
* `WakeInv`: `NoLostWakeup`, strengthened. It is not inductive as it stands,
  as a reader goes to sleep two steps after it has looked. `Unseen` says that a
  queued process is asleep, or has made a first load from which the condition
  will come out false although it is true. Then, if there is data, somebody is
  between storing it and the wake-up: the reader queued its entry *before* the
  first load, so what it missed was stored after, and is followed by a wake-up
  that finds the entry.

`ImplementsPipe` maps `ReadCopy` to `Take`, `WriteCopy` to `Put`, a `WriteCheck`
that begins a reset to `Drop`, the end of a call to `Finish` and every other
step to none. It needs `DevInv` where a copy must have data or space, and where
a reset must find no other under way. A failed `copy_from_user` writes past
`write_pos` only, which the pipe does not see (`FaultFinishes`).

### PollDevProofs

From `DevAssumption` and `PollAssumption`.

| Theorem | Property |
|---|---|
| `PollInvariance` | `PollInv`, the inductive invariant |
| `PollTypeCorrect` | `PollTypeOK` |
| `PollMutualExclusion` | `PollHeld`: `MutexHeld` with the mutex that `dev_poll` takes |
| `PollCopiesInBounds` | `CopyInBounds` |
| `ReadWakeupsAreNotLost` | `NoLostWakeup` |
| `PollinIsNotLost` | `NoLostPollin` |
| `PolloutIsNotLost` | `NoLostPollout`, if `Writers \cap BadBuffers = {}` |
| `PollCountsAreExact` | `OpenCountsExact` |
| `PollImplementsPipe` | `RefinesPipe` |

A step of 07 is a step of 06 that does nothing to a poll but trigger it, or a
step of a poll that does nothing to the device but lock its mutex, or
`ReadAgain` (`StepKinds`). So `DevInv` carries over. A poll sleeps two steps
after it has computed its mask: `PollinInv` speaks of all these steps
(`Unreported`), and holds because a poll that may sleep is on both queues before
it computes a mask, in all rounds (`Registered`), and who wakes the queue
triggers everyone on it. `PolloutInv` is the same for space; the hypothesis of
`PolloutIsNotLost` is what the finding `poll_pollout_lost` is about, and without
it the theorem is false.

### DriverModuleProofs

For any number of users, and of devices of 05 (`NUM_DEVICES > 0`).

| Theorem | Property |
|---|---|
| `ModuleInvariance` | `ModuleInv`, the inductive invariant |
| `ModuleTypeCorrect` | `TypeOK` |
| `NothingLeaks` | `NoLeak` |
| `ReleasesOnce` | `ReleasedOnce`, if `FreedReads = {"error"}` |
| `BasesOutlive` | `NeedsHeld`, the same |
| `LiveIsComplete` | `LiveComplete`, the same |
| `OpenFilesStaySafe` | `OpenFilesSafe`, the same |

First the tables are shown to be good (`GoodTables`): the steps of init acquire
nothing before its base (`Up`), and the error path of each step, and exit,
release exactly what is acquired then, once, what is built on something before
that (`Undoes`). In 02 to 04 and 06 to 08 each of them is the reverse of the
steps before it, whatever the steps are (`ReversedUndoes`); 05 does device by
device what it has acquired kind by kind, and is proved for any number of
devices. `ModuleInv` says that what is held is what the steps before the next
have acquired, and that what is still to be released undoes it.

`FreedReads = {"error"}` is that freed memory keeps what was in it, which is
what `kfree` does unless the kernel is built or booted to clear it: init then
returns the error. If it returns 0 the kernel takes a module that holds nothing
for loaded, and the four properties fail (finding `module_freed`). `NoLeak`
holds either way.

### CharMsgDevProofs, IoctlDevProofs and AutoNodeProofs

For every set of processes, every number of devices, every `BUF_LEN > 0`, all
lengths, values and ioctl arguments, from `MsgAssumption`, `IoctlAssumption` and
`AutoAssumption`:

| Theorem | Property |
|---|---|
| `MsgInvariance` | `MsgInv`, the inductive invariant of 02, 03 and 09 |
| `MsgTypeCorrect` | `MsgTypeOK` |
| `BytesStayInBounds` | `BytesInBounds` |
| `ImplementsRegisters` | `RefinesRegisters` |
| `IoctlInvariance` | `IoctlInv`, the inductive invariant of 04 |
| `SettingsStayInRange` | `IoctlTypeOK` |
| `IoctlBytesInBounds` | `BytesInBounds`, for 04 |
| `ResetAlwaysTakesHold` | `ResetTakesHold` |
| `IoctlImplementsRegisters` | `RefinesRegisters`, for 04 |
| `CountIsOfOpens` | `OpenCountsOpens` |
| `AutoBytesInBounds` | `BytesInBounds`, for 05 |
| `AutoImplementsRegisters` | `RefinesAutoRegisters` |

`BytesInBounds` is not inductive: what a call may copy follows from what it has
established about itself. `CallInv(p)` says it for each process: the buffer
exists; a read that has found its position below one size has it below
`BUF_LEN`, whatever the next loads find; a copy out ends before `BUF_LEN`,
as either load that gave its length was of a size below `BUF_LEN`; a copy in
has room for the NUL, and the index of the NUL, too, is such a size. A step changes the variables of one process and the shared buffer, and
`CallInv` of the others mentions the buffer nowhere (`SameCall`, `Frame`): this
is why no lock is needed for it. The lemmas about single handlers
(`HandlerInv`) are stated without the history variables and serve 04 as well,
whose invariant adds the labels of RESET.

For the refinement `RegInv` is added. Nobody writes the device of a clean call
but the call itself (`CleanInv`), so the buffer holds what a clean write has
stored so far (`WriteInv`), and what a clean read of a known device has copied
out is still what is there, and ends where its `len` or the message does
(`ReadInv`). A call is shown to be an operation of its register and a step in
the middle of it none (`Maps`), for the handlers of all drivers at once
(`RegStep`); 04 adds RESET, whose last part is a write of the empty message.

For `ResetTakesHold` the invariant `ResetInv` says what a RESET that no SET has
overlapped has already reset, and `ResetOrder` that it goes through its parts in
order. For `OpenCountsOpens`, `LoadedInv` says what a process that has loaded
the count knows: it is at most the opens that have ended, and still the count if
no other open of the device is under way. The bounds and the refinement of 05
are those of `CharMsgDev`, with the message each device holds at first and the
two steps of an open, which change nothing a call looks at.

### RamDiskProofs

From `DiskAssumption`: any disk with sectors of two pieces or more, any
`Shapes` whose bios and segments follow each other without gap or overlap
(`Covers`).

| Theorem | Property |
|---|---|
| `DiskInvariance` | `DiskInv`, the inductive invariant |
| `AlwaysTransferredWhole` | `TransferredWhole` |
| `ImplementsSectors` | `RefinesSectors` |

What is left of the two loops covers the rest of the request: the segments from
the current one on lead to the end of their bio, and the bios after it from
there to the end of the request (`AtSegment`). The sector of the current segment
is its place in the request, and `done` is that place in pieces, with what is
copied of the segment. It follows that no segment ends past the end of the
disk, which is why the code's check never fails, and that `done` is the whole
request at the end. Shapes are sequences of places rather than of lengths, as a
sum of lengths is defined by recursion, about which nothing can be proved here.

`SectorInv` is `RegInv` for sectors: in the middle of a sector, a clean write
has put its first pieces into it, and a clean read has taken its own from it.
That two CPUs are at different sectors is all that keeps them apart.

### PlatformBusProofs

For any number of users, any `Scenes` and any `MaxCount`.

| Theorem | Property |
|---|---|
| `BusInvariance` | `BusInv`, the inductive invariant |
| `BusTypeCorrect` | `BusTypeOK` |
| `ProbedWholeAlways` | `ProbedWhole` |
| `ReleasedOnceAlways` | `ReleasedOnce` |
| `NeedsAlwaysHeld` | `NeedsHeld` |
| `EveryDeviceBound` | `AllBound` |
| `UnloadedLeavesNothing` | `NothingLeft` |
| `CountIsExact` | `CountExact` |

The state of the bus follows from what the threads have still to do, and
`BusInv` says how:

* `TasksInv`: who probes or removes a device has its lock, and what the device
  holds is what the steps made so far have acquired, or those left have to
  release; a device that is not locked is whole or has nothing;
* `Programs`: what a load or unload has left to call is in order (`UpOrder`,
  `DownOrder`), and complete from where it is (`UpFollows`, `DownFollows`): a
  driver that is taken off the list is then waited for and its devices are
  released, a device that is added is then looked at. The end of any program
  keeps this, and so the proofs do not go through the positions in the lists;
* `DriverStage`: when the driver is on the list, and until when its probes may
  run; `OverStage`, that a device that is still bound once they are over is one
  that exit has still to release, is what `NeedsHeld` and `NothingLeft` rest on;
* `BusStage`: which devices are on the bus;
* `Reach`: a device on the bus, when the driver is on its list, is bound, or
  being probed, or still to be looked at by somebody. This is why neither order
  of loading misses a device: who comes second looks after he has put himself on
  the list;
* `CountStage`: `total_devices` counts the devices bound, less one that is being
  removed and more one that is being probed once its step is made (`Counted`),
  and a thread between load and store has loaded the present value.

### Only model-checked

Liveness is out of the prover's reach, with ENABLED and fairness: `ReadProgress`
and `CallsReturn` of 06, `PollinProgress`, `PollReturns` and
`NonblockReadReturns` of 07, `CatEnds` of 05, `CallsEnd` of 09 and 10. No run
states `RefinesPipe` for 07, whose mapping is that of 06, nor
`RefinesAutoRegisters` for 05, whose mapping is that of `RefinesRegisters`:
there the theorems stand alone.

## 8. Not modelled

* Printing, module parameters and metadata, the wording of messages.
* The memory model of the CPU, beyond the two loads and two stores above.
* The `printk` of `readers` and `writers` after the unlock (06 at 79, 203): the
  values are read without the mutex, and only printed.
* 32-bit wrap of `readers` and `writers`: it would take 2^31 open files.
* In the message devices: two processes that share one open file and so one
  position, `lseek` and `pread`. A process of the model has a file of its own,
  opened once at a time.
* The device operations of 10: stubs that return a constant. They are opened and
  closed in `PlatformBus`.
* 10's global `device_pcd`, which probes of two devices may store at the same
  time: it is tested right after it is stored, and the model relies on the compiler
  to keep it in a register from 143 to 144. This is the one place where it does.
* A second lookup order of the bus, deferred probing, and the `release` callback
  of the platform devices of 10, which only prints.
* What a process with an open file of 02 or 03 meets after rmmod: neither the
  code nor its documents promise anything (see the hazards).
* 01, which has no state, the tests, the build and the QEMU script.
