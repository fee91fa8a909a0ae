---------------------------- MODULE BlockingDev ----------------------------
(***************************************************************************)
(* 06-char-dev-blocking: the character device /dev/myblocking.             *)
(*                                                                         *)
(* Processes open the device, read and write it, and close it.  All of     *)
(* them share one struct myblock_dev: a linear buffer with a read and a    *)
(* write position, one mutex, and a wait queue for readers that found no   *)
(* data.  A step is a piece of a handler between two points at which       *)
(* another process can observe or change the shared state.                 *)
(*                                                                         *)
(* The condition of wait_event_interruptible is evaluated without the      *)
(* mutex.  has_data() then loads write_pos and read_pos one after the      *)
(* other, in an order the compiler picks, while another process may be     *)
(* storing them: the two loads, and the two stores of a reset, are steps   *)
(* of their own.                                                           *)
(***************************************************************************)
EXTENDS Integers, Sequences, FiniteSets

CONSTANTS
  Readers,   (* processes that open the device with FMODE_READ             *)
  Writers,   (* processes that open it with FMODE_WRITE; a process in both *)
             (* sets opens it O_RDWR                                       *)
  NoProc,    (* owner of a mutex nobody holds                              *)
  BUF_LEN,   (* buffer_size                                                *)
  Lens,      (* the len arguments the processes pass to read and write     *)
  Byte       (* the values of a byte; 0 is what a failed copy leaves       *)

Procs == Readers \cup Writers

ASSUME DevAssumption ==
  /\ NoProc \notin Procs
  /\ BUF_LEN \in Nat \ {0}
  /\ Lens \subseteq Nat
  /\ 0 \in Byte
  /\ IsFiniteSet(Procs)

VARIABLES
  lock,        (* owner of dev->lock                                       *)
  buffer,      (* dev->buffer                                              *)
  read_pos,    (* dev->read_pos                                            *)
  write_pos,   (* dev->write_pos                                           *)
  readers,     (* dev->readers                                             *)
  writers,     (* dev->writers                                             *)
  read_queue,  (* processes whose wait entry is on dev->read_queue         *)
  reset_left,  (* stores a "reset positions" has still to do               *)
  pc,          (* where each process is in the handler it runs             *)
  len,         (* the len argument of its call                             *)
  got,         (* bytes its read has copied to user space                  *)
  seen,        (* the first load of an unlocked has_data()                 *)
  signalled    (* processes with a signal pending                          *)

posVars   == <<buffer, read_pos, write_pos, reset_left>>
countVars == <<readers, writers>>
callVars  == <<len, got, seen>>
vars == <<lock, posVars, countVars, read_queue, pc, callVars, signalled>>

Positions == {"read_pos", "write_pos"}
NotSeen   == [pos |-> "none", val |-> 0]

\* A process that holds the mutex, outside of and inside dev_read/dev_write.
CountLabels == {"open_count", "release_count"}
ReadHeld    == {"read_check", "read_copy", "read_reset", "read_unlock"}
WriteHeld   == {"write_check", "write_reset", "write_copy", "write_unlock"}
Held        == CountLabels \cup ReadHeld \cup WriteHeld

\* A process inside wait_event_interruptible, which does not hold it.
CondLabels == {"cond_first", "cond", "cond_signal"}
WaitLabels == CondLabels \cup {"prepare", "asleep"}

ReadLabels  == {"read_lock", "read_wake"} \cup ReadHeld \cup WaitLabels
WriteLabels == {"write_lock", "write_wake"} \cup WriteHeld
Labels ==
  {"closed", "open", "open_lock", "release_lock"} \cup CountLabels
     \cup ReadLabels \cup WriteLabels

-----------------------------------------------------------------------------
has_data  == write_pos > read_pos
has_space == write_pos < BUF_LEN

\* Faulty: the length is not clamped.
Clamp_Missing(avail, n) == n

\* "if (bytes > len) bytes = len;"
Clamp(avail, n) == IF avail > n THEN n ELSE avail

Goto(p, label) == pc' = [pc EXCEPT ![p] = label]

\* mutex_lock, and the successful case of mutex_lock_interruptible.
mutex_lock(p, from, to) ==
  /\ pc[p] = from
  /\ lock = NoProc
  /\ lock' = p
  /\ Goto(p, to)

\* The call returns to user space, where a pending signal is delivered.
Return(p) ==
  /\ Goto(p, "open")
  /\ len' = [len EXCEPT ![p] = 0]
  /\ got' = [got EXCEPT ![p] = <<>>]
  /\ signalled' = signalled \ {p}

\* mutex_lock_interruptible fails: the mutex is contended and a signal is
\* pending.  The handler returns -ERESTARTSYS.
Interrupted(p, from) ==
  /\ pc[p] = from
  /\ lock # NoProc
  /\ p \in signalled
  /\ Return(p)
  /\ UNCHANGED <<lock, posVars, countVars, read_queue, seen>>

\* One of the two stores "read_pos = 0; write_pos = 0;" of a reset.
StoreZero(p, from, to) ==
  /\ pc[p] = from
  /\ \E f \in reset_left :
       /\ read_pos'   = IF f = "read_pos"  THEN 0 ELSE read_pos
       /\ write_pos'  = IF f = "write_pos" THEN 0 ELSE write_pos
       /\ reset_left' = reset_left \ {f}
       /\ Goto(p, IF reset_left \ {f} = {} THEN to ELSE from)
  /\ UNCHANGED <<lock, buffer, countVars, read_queue, callVars, signalled>>

-----------------------------------------------------------------------------
(* dev_open and dev_release                                                *)

CallOpen(p) ==
  /\ pc[p] = "closed"
  /\ Goto(p, "open_lock")
  /\ UNCHANGED <<lock, posVars, countVars, read_queue, callVars, signalled>>

OpenLock(p) ==
  /\ mutex_lock(p, "open_lock", "open_count")
  /\ UNCHANGED <<posVars, countVars, read_queue, callVars, signalled>>

OpenCount(p) ==
  /\ pc[p] = "open_count"
  /\ readers' = IF p \in Readers THEN readers + 1 ELSE readers
  /\ writers' = IF p \in Writers THEN writers + 1 ELSE writers
  /\ lock' = NoProc
  /\ Goto(p, "open")
  /\ UNCHANGED <<posVars, read_queue, callVars, signalled>>

CallClose(p) ==
  /\ pc[p] = "open"
  /\ Goto(p, "release_lock")
  /\ UNCHANGED <<lock, posVars, countVars, read_queue, callVars, signalled>>

ReleaseLock(p) ==
  /\ mutex_lock(p, "release_lock", "release_count")
  /\ UNCHANGED <<posVars, countVars, read_queue, callVars, signalled>>

\* Faulty: a release forgets the writers.
ReleaseCount_Writers(p) ==
  /\ pc[p] = "release_count"
  /\ readers' = IF p \in Readers THEN readers - 1 ELSE readers
  /\ lock' = NoProc
  /\ Goto(p, "closed")
  /\ UNCHANGED <<writers, posVars, read_queue, callVars, signalled>>

ReleaseCount(p) ==
  /\ pc[p] = "release_count"
  /\ readers' = IF p \in Readers THEN readers - 1 ELSE readers
  /\ writers' = IF p \in Writers THEN writers - 1 ELSE writers
  /\ lock' = NoProc
  /\ Goto(p, "closed")
  /\ UNCHANGED <<posVars, read_queue, callVars, signalled>>

-----------------------------------------------------------------------------
(* dev_read                                                                *)

CallRead(p) ==
  /\ p \in Readers
  /\ pc[p] = "open"
  /\ \E n \in Lens : len' = [len EXCEPT ![p] = n]
  /\ Goto(p, "read_lock")
  /\ UNCHANGED <<lock, posVars, countVars, read_queue, got, seen, signalled>>

\* The first mutex_lock_interruptible, and the one after a wait.
ReadLock(p) ==
  /\ mutex_lock(p, "read_lock", "read_check")
  /\ UNCHANGED <<posVars, countVars, read_queue, callVars, signalled>>

ReadInterrupted(p) == Interrupted(p, "read_lock")

\* Faulty: the reader waits with the mutex held.
ReadCheck_Locked(p) ==
  /\ pc[p] = "read_check"
  /\ Goto(p, IF has_data THEN "read_copy" ELSE "cond_first")
  /\ UNCHANGED <<lock, posVars, countVars, read_queue, callVars, signalled>>

\* while (!has_data(dev)) { mutex_unlock(&dev->lock); ...
ReadCheck(p) ==
  /\ pc[p] = "read_check"
  /\ \/ has_data  /\ Goto(p, "read_copy") /\ UNCHANGED lock
     \/ ~has_data /\ Goto(p, "cond_first") /\ lock' = NoProc
  /\ UNCHANGED <<posVars, countVars, read_queue, callVars, signalled>>

\* Faulty: every read resets the positions.
ReadCopy_Resets(p) ==
  LET n == Clamp(write_pos - read_pos, len[p]) IN
  /\ pc[p] = "read_copy"
  /\ got' = [got EXCEPT ![p] = [i \in 1..n |-> buffer[read_pos + i - 1]]]
  /\ read_pos' = read_pos + n
  /\ Goto(p, "read_reset") /\ reset_left' = Positions
  /\ UNCHANGED <<lock, buffer, write_pos, countVars, read_queue, len, seen,
                 signalled>>

\* copy_to_user of the bytes at read_pos, and read_pos += bytes_to_read;
\* the positions are reset when that emptied the buffer.
ReadCopy(p) ==
  LET n == Clamp(write_pos - read_pos, len[p]) IN
  /\ pc[p] = "read_copy"
  /\ got' = [got EXCEPT ![p] = [i \in 1..n |-> buffer[read_pos + i - 1]]]
  /\ read_pos' = read_pos + n
  /\ IF read_pos + n >= write_pos
       THEN Goto(p, "read_reset") /\ reset_left' = Positions
       ELSE Goto(p, "read_unlock") /\ UNCHANGED reset_left
  /\ UNCHANGED <<lock, buffer, write_pos, countVars, read_queue, len, seen,
                 signalled>>

\* Faulty: the error return leaves the mutex locked.
ReadFault_Locked(p) ==
  /\ pc[p] = "read_copy"
  /\ Clamp(write_pos - read_pos, len[p]) > 0
  /\ Return(p)
  /\ UNCHANGED <<lock, posVars, countVars, read_queue, seen>>

\* copy_to_user fails: -EFAULT.
ReadFault(p) ==
  /\ pc[p] = "read_copy"
  /\ Clamp(write_pos - read_pos, len[p]) > 0
  /\ lock' = NoProc
  /\ Return(p)
  /\ UNCHANGED <<posVars, countVars, read_queue, seen>>

ReadReset(p) == StoreZero(p, "read_reset", "read_unlock")

ReadUnlock(p) ==
  /\ pc[p] = "read_unlock"
  /\ lock' = NoProc
  /\ Goto(p, "read_wake")
  /\ UNCHANGED <<posVars, countVars, read_queue, callVars, signalled>>

\* wake_up_interruptible(&dev->write_queue): no handler ever waits on it.
ReadWake(p) ==
  /\ pc[p] = "read_wake"
  /\ Return(p)
  /\ UNCHANGED <<lock, posVars, countVars, read_queue, seen>>

-----------------------------------------------------------------------------
(* wait_event_interruptible(dev->read_queue, has_data(dev)), the macro of  *)
(* <linux/wait.h>: the condition is tried once before the wait entry is    *)
(* queued, and once more after each time it is queued.                     *)

\* The first of the two loads of an unlocked has_data().
CondLoad(p) ==
  /\ pc[p] \in CondLabels
  /\ seen[p] = NotSeen
  /\ \E f \in Positions :
       seen' = [seen EXCEPT ![p] =
                  [pos |-> f,
                   val |-> IF f = "read_pos" THEN read_pos ELSE write_pos]]
  /\ UNCHANGED <<lock, posVars, countVars, read_queue, pc, len, got,
                 signalled>>

\* The value of has_data() once the other position is loaded too.
CondValue(p) ==
  IF seen[p].pos = "read_pos" THEN write_pos > seen[p].val
                              ELSE seen[p].val > read_pos

\* Faulty: "if" for "while", a reader that was woken does not test again.
CondTrue_NoTest(p) ==
  /\ pc[p] \in CondLabels
  /\ seen[p] # NotSeen
  /\ CondValue(p)
  /\ read_queue' = read_queue \ {p}
  /\ seen' = [seen EXCEPT ![p] = NotSeen]
  /\ lock = NoProc /\ lock' = p
  /\ Goto(p, "read_copy")
  /\ UNCHANGED <<posVars, countVars, len, got, signalled>>

\* The condition is true: finish_wait unqueues the entry, 0 is returned and
\* dev_read goes back to its mutex_lock_interruptible.
CondTrue(p) ==
  /\ pc[p] \in CondLabels
  /\ seen[p] # NotSeen
  /\ CondValue(p)
  /\ read_queue' = read_queue \ {p}
  /\ seen' = [seen EXCEPT ![p] = NotSeen]
  /\ Goto(p, "read_lock")
  /\ UNCHANGED <<lock, posVars, countVars, len, got, signalled>>

\* The condition is false: queue the entry, or schedule().
CondFalse(p) ==
  /\ pc[p] \in {"cond_first", "cond"}
  /\ seen[p] # NotSeen
  /\ ~CondValue(p)
  /\ seen' = [seen EXCEPT ![p] = NotSeen]
  /\ Goto(p, IF pc[p] = "cond_first" THEN "prepare" ELSE "asleep")
  /\ UNCHANGED <<lock, posVars, countVars, read_queue, len, got, signalled>>

\* The condition is false and prepare_to_wait_event saw a signal:
\* dev_read returns -ERESTARTSYS.
CondFalseSignal(p) ==
  /\ pc[p] = "cond_signal"
  /\ seen[p] # NotSeen
  /\ ~CondValue(p)
  /\ seen' = [seen EXCEPT ![p] = NotSeen]
  /\ Return(p)
  /\ UNCHANGED <<lock, posVars, countVars, read_queue>>

\* Faulty: the process sleeps without testing the condition once more.
WaitPrepare_NoTest(p) ==
  /\ pc[p] = "prepare"
  /\ read_queue' = read_queue \cup {p}
  /\ Goto(p, "asleep")
  /\ UNCHANGED <<lock, posVars, countVars, callVars, signalled>>

\* prepare_to_wait_event: queue the entry, or unqueue it and report that a
\* signal is pending.
WaitPrepare(p) ==
  /\ pc[p] = "prepare"
  /\ \/ /\ p \notin signalled
        /\ read_queue' = read_queue \cup {p}
        /\ Goto(p, "cond")
     \/ /\ p \in signalled
        /\ read_queue' = read_queue \ {p}
        /\ Goto(p, "cond_signal")
  /\ UNCHANGED <<lock, posVars, countVars, callVars, signalled>>

\* schedule() returns: a wake-up unqueued the entry (and may have done so
\* before the process went to sleep), or a signal is pending.
WaitWoken(p) ==
  /\ pc[p] = "asleep"
  /\ p \notin read_queue \/ p \in signalled
  /\ Goto(p, "prepare")
  /\ UNCHANGED <<lock, posVars, countVars, read_queue, callVars, signalled>>

\* A spurious wake-up.
WaitSpurious(p) ==
  /\ pc[p] = "asleep"
  /\ Goto(p, "prepare")
  /\ UNCHANGED <<lock, posVars, countVars, read_queue, callVars, signalled>>

-----------------------------------------------------------------------------
(* dev_write                                                               *)

CallWrite(p) ==
  /\ p \in Writers
  /\ pc[p] = "open"
  /\ \E n \in Lens : len' = [len EXCEPT ![p] = n]
  /\ Goto(p, "write_lock")
  /\ UNCHANGED <<lock, posVars, countVars, read_queue, got, seen, signalled>>

WriteLock(p) ==
  /\ mutex_lock(p, "write_lock", "write_check")
  /\ UNCHANGED <<posVars, countVars, read_queue, callVars, signalled>>

WriteInterrupted(p) == Interrupted(p, "write_lock")

\* Faulty: a full buffer is reset for writing only.
WriteCheck_Half(p) ==
  /\ pc[p] = "write_check"
  /\ \/ has_space  /\ Goto(p, "write_copy") /\ UNCHANGED reset_left
     \/ ~has_space /\ Goto(p, "write_reset") /\ reset_left' = {"write_pos"}
  /\ UNCHANGED <<lock, buffer, read_pos, write_pos, countVars, read_queue,
                 callVars, signalled>>

\* if (!has_space(dev)): "Buffer full, reset positions".
WriteCheck(p) ==
  /\ pc[p] = "write_check"
  /\ \/ has_space  /\ Goto(p, "write_copy") /\ UNCHANGED reset_left
     \/ ~has_space /\ Goto(p, "write_reset") /\ reset_left' = Positions
  /\ UNCHANGED <<lock, buffer, read_pos, write_pos, countVars, read_queue,
                 callVars, signalled>>

WriteReset(p) == StoreZero(p, "write_reset", "write_copy")

\* The n bytes from write_pos on become data.
CopyIn(data, n) ==
  [i \in 0..BUF_LEN-1 |->
     IF i >= write_pos /\ i < write_pos + n THEN data[i - write_pos]
                                            ELSE buffer[i]]

\* copy_from_user to write_pos, and write_pos += bytes_to_write.
WriteCopy(p) ==
  LET n == Clamp(BUF_LEN - write_pos, len[p]) IN
  /\ pc[p] = "write_copy"
  /\ \E data \in [0..n-1 -> Byte] : buffer' = CopyIn(data, n)
  /\ write_pos' = write_pos + n
  /\ Goto(p, "write_unlock")
  /\ UNCHANGED <<lock, read_pos, reset_left, countVars, read_queue, callVars,
                 signalled>>

\* copy_from_user fails after some bytes and zeroes the rest: -EFAULT.
WriteFault(p) ==
  LET n == Clamp(BUF_LEN - write_pos, len[p]) IN
  /\ pc[p] = "write_copy"
  /\ n > 0
  /\ \E data \in [0..n-1 -> Byte], done \in 0..n-1 :
       /\ \A i \in done..n-1 : data[i] = 0
       /\ buffer' = CopyIn(data, n)
  /\ lock' = NoProc
  /\ Return(p)
  /\ UNCHANGED <<read_pos, write_pos, reset_left, countVars, read_queue, seen>>

\* Faulty: the write returns without a wake-up.
WriteUnlock_NoWake(p) ==
  /\ pc[p] = "write_unlock"
  /\ lock' = NoProc
  /\ Return(p)
  /\ UNCHANGED <<posVars, countVars, read_queue, seen>>

WriteUnlock(p) ==
  /\ pc[p] = "write_unlock"
  /\ lock' = NoProc
  /\ Goto(p, "write_wake")
  /\ UNCHANGED <<posVars, countVars, read_queue, callVars, signalled>>

\* Faulty: the wake-up goes to a queue on which nobody waits.
WakeReaders_Elsewhere == UNCHANGED read_queue

\* wake_up_interruptible(&dev->read_queue): every waiter is made runnable
\* and its entry unqueued (autoremove_wake_function).
WakeReaders == read_queue' = {}

WriteWake(p) ==
  /\ pc[p] = "write_wake"
  /\ WakeReaders
  /\ Return(p)
  /\ UNCHANGED <<lock, posVars, countVars, seen>>

-----------------------------------------------------------------------------
\* A signal (Ctrl+C, kill) reaches a process that is in read or write.
Signal(p) ==
  /\ pc[p] \in ReadLabels \cup WriteLabels
  /\ signalled' = signalled \cup {p}
  /\ UNCHANGED <<lock, posVars, countVars, read_queue, pc, callVars>>

Init ==
  /\ lock = NoProc
  /\ buffer = [i \in 0..BUF_LEN-1 |-> 0]
  /\ read_pos = 0 /\ write_pos = 0
  /\ readers = 0 /\ writers = 0
  /\ read_queue = {}
  /\ reset_left = {}
  /\ pc = [p \in Procs |-> "closed"]
  /\ len = [p \in Procs |-> 0]
  /\ got = [p \in Procs |-> <<>>]
  /\ seen = [p \in Procs |-> NotSeen]
  /\ signalled = {}

\* What the user space side and its environment may do at any time.
User(p) ==
  CallOpen(p) \/ CallClose(p) \/ CallRead(p) \/ CallWrite(p) \/ Signal(p)

Acquire(p) == OpenLock(p) \/ ReleaseLock(p) \/ ReadLock(p) \/ WriteLock(p)

dev_read(p) ==
  \/ ReadInterrupted(p) \/ ReadCheck(p) \/ ReadCopy(p) \/ ReadFault(p)
  \/ ReadReset(p) \/ ReadUnlock(p) \/ ReadWake(p)

wait_event(p) ==
  \/ CondLoad(p) \/ CondTrue(p) \/ CondFalse(p) \/ CondFalseSignal(p)
  \/ WaitPrepare(p) \/ WaitWoken(p)

dev_write(p) ==
  \/ WriteInterrupted(p) \/ WriteCheck(p) \/ WriteReset(p) \/ WriteCopy(p)
  \/ WriteFault(p) \/ WriteUnlock(p) \/ WriteWake(p)

\* What a process does by itself once it is in the kernel.
Run(p) ==
  OpenCount(p) \/ ReleaseCount(p) \/ dev_read(p) \/ wait_event(p) \/ dev_write(p)

Next == \E p \in Procs : User(p) \/ Acquire(p) \/ Run(p) \/ WaitSpurious(p)

\* The scheduler runs every runnable process, and a mutex is handed to a
\* process that keeps waiting for it (MUTEX_FLAG_HANDOFF): strong fairness.
Fairness == \A p \in Procs : WF_vars(Run(p)) /\ SF_vars(Acquire(p))

Spec     == Init /\ [][Next]_vars
FairSpec == Spec /\ Fairness
-----------------------------------------------------------------------------
(* Properties                                                              *)

\* The type invariant.
TypeOK ==
  /\ lock \in Procs \cup {NoProc}
  /\ buffer \in [0..BUF_LEN-1 -> Byte]
  /\ read_pos \in 0..BUF_LEN
  /\ write_pos \in 0..BUF_LEN
  /\ readers \in Int /\ writers \in Int
  /\ read_queue \subseteq Procs
  /\ reset_left \subseteq Positions
  /\ pc \in [Procs -> Labels]
  /\ len \in [Procs -> Lens \cup {0}]
  /\ got \in [Procs -> Seq(Byte)]
  /\ seen \in [Procs -> [pos : Positions \cup {"none"}, val : 0..BUF_LEN]]
  /\ signalled \subseteq Procs

\* The mutex is held in exactly the sections between mutex_lock and
\* mutex_unlock: no path through dev_read, with its unlock, sleep and relock
\* in a loop, and no error return leaves with it or unlocks it twice.
MutexHeld == \A p \in Procs : pc[p] \in Held <=> lock = p

\* Outside a reset the positions are ordered and within the buffer, so that
\* the unsigned "write_pos - read_pos" and "buffer_size - write_pos" never
\* wrap; a reset is the work of the holder of the mutex.
PositionsOrdered ==
  \/ reset_left = {} /\ read_pos <= write_pos /\ write_pos <= BUF_LEN
  \/ \E p \in Procs : lock = p /\ pc[p] \in {"read_reset", "write_reset"}

\* dev_read copies only when there is data, whatever happened between its
\* wake-up and its second lock: it never returns the 0 that means end of
\* file to a caller that asked for bytes.  dev_write copies only after it
\* has made space.
CopyInBounds ==
  \A p \in Procs :
    /\ pc[p] = "read_copy" => has_data
    /\ pc[p] = "write_copy" => has_space /\ reset_left = {}

\* A writer that published its bytes and has not called wake_up yet.
Publishing == \E q \in Procs : pc[q] \in {"write_unlock", "write_wake"}

\* No lost wake-up: dev_read tests the condition without the mutex, and yet
\* a reader is never asleep on the queue beside unread data unless a writer
\* is on its way to wake it.
NoLostWakeup ==
  \A p \in read_queue :
    pc[p] = "asleep" /\ reset_left = {} /\ has_data => Publishing

\* dev->readers and dev->writers count the open files of each mode.
Opened == {p \in Procs : pc[p] \notin {"closed", "open_lock", "open_count"}}
OpenCountsExact ==
  /\ readers = Cardinality(Opened \cap Readers)
  /\ writers = Cardinality(Opened \cap Writers)

\* A read that finds data, or is asleep when data arrives, returns unless the
\* data goes away (to another reader, or in a reset) before it gets to it.
ReadProgress ==
  \A p \in Readers :
    (pc[p] \in ReadLabels /\ has_data) ~> (pc[p] = "open" \/ ~has_data)

\* open, close and write never block for good: readers that sleep do so
\* without the mutex, and a writer never waits for space.
CallsReturn ==
  \A p \in Procs :
    pc[p] \in WriteLabels \cup CountLabels \cup {"open_lock", "release_lock"}
      ~> pc[p] \in {"open", "closed"}
=============================================================================
