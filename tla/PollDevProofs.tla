--------------------------- MODULE PollDevProofs ---------------------------
(***************************************************************************)
(* Proofs about PollDev, for any number of processes, any buffer and any   *)
(* events and timeouts: what 06 promises still holds with O_NONBLOCK and   *)
(* poll added, and poll loses no wake-up either.                           *)
(*                                                                         *)
(* A step is a step of BlockingDev, a read that returns -EAGAIN, or a step *)
(* of a poll.  The first two change nothing of a poll that is under way    *)
(* but whether it is triggered, and the third changes nothing of the       *)
(* device but who holds its mutex.                                         *)
(***************************************************************************)
EXTENDS PollDev, BlockingDevProofs

PollStep(p) ==
  \/ CallPoll(p) \/ PollWaitRead(p) \/ PollWaitWrite(p) \/ PollLock(p)
  \/ PollMask(p) \/ PollReturn(p) \/ PollSleep(p) \/ PollWoken(p)
  \/ PollSpurious(p) \/ PollTimeout(p) \/ PollSignal(p)

DeviceStep ==
  /\ [Next]_vars \/ \E p \in Procs : ReadAgain(p)
  /\ UNCHANGED <<callPoll, entryVars, timed_out>>
  /\ \A p \in Procs : pc'[p] \notin {"open", "closed"} => revents'[p] = revents[p]
  /\ triggered \subseteq triggered'
  /\ triggered' \subseteq triggered \cup read_pollers \cup write_pollers
  /\ revents' \in [Procs -> SUBSET Events]

\* A process leaves its wake-up when it has woken the pollers, and a copy
\* fails for a bad pointer only.
Wakes ==
  \A p \in Procs :
    pc[p] # pc'[p] =>
      /\ pc[p] = "write_wake" => read_pollers \subseteq triggered'
      /\ pc[p] = "read_wake"  => write_pollers \subseteq triggered'
      /\ pc[p] = "write_copy" => pc'[p] = "write_unlock" \/ p \in BadBuffers

-----------------------------------------------------------------------------
(* The inductive invariant                                                 *)

\* dev_poll computes its mask with the mutex held.
PollHeld == HeldIn({"poll_mask"})

\* Who is in poll called it, and who is in dev_write has the file open for
\* writing.
Roles ==
  \A p \in Procs : /\ pc[p] \in PollLabels => p \in Pollers
                   /\ pc[p] \in WriteLabels => p \in Writers

\* A poll that may sleep is on both queues before it looks at the device: in
\* its first round poll_wait puts it there, and it stays there.
Registered ==
  \A p \in Procs :
    pc[p] \in PollLabels /\ timeout[p] # "zero" =>
      /\ p \in read_pollers \/ (pc[p] = "poll_read_queue" /\ p \in qproc)
      /\ \/ p \in write_pollers
         \/ pc[p] \in {"poll_read_queue", "poll_write_queue"} /\ p \in qproc

\* A poll with no timeout does not sleep, and one that sleeps has no event.
ZeroTimed ==
  \A p \in Procs :
    pc[p] \in PollLabels /\ timeout[p] = "zero" =>
      p \in timed_out /\ pc[p] # "poll_sleep"
SleepEmpty == \A p \in Procs : pc[p] = "poll_sleep" => revents[p] = {}

\* A poll that has computed its mask, may sleep, has not been woken since and
\* will not report e.
Unreported(p, e) ==
  /\ pc[p] \in {"poll_test", "poll_sleep"}
  /\ timeout[p] # "zero"
  /\ e \in events[p] \ revents[p]
  /\ p \notin triggered

PollinInv ==
  \A p \in Procs :
    Unreported(p, "POLLIN") /\ reset_left = {} /\ has_data => Publishing

PolloutInv ==
  \A p \in Procs :
    Unreported(p, "POLLOUT") /\ reset_left = {} /\ has_space => Freeing

PollInv ==
  /\ DevInv
  /\ PollHeld
  /\ PollTypeOK
  /\ Roles
  /\ Registered
  /\ ZeroTimed
  /\ SleepEmpty
  /\ PollinInv

-----------------------------------------------------------------------------
(* The steps                                                               *)

LEMMA LabelsApart ==
  /\ PollLabels \cap Labels = {}
  /\ PollLabels \cap Held = {}
  /\ {"poll_mask"} \cap Labels = {}
  BY DEF PollLabels, RoundLabels, Labels, CountLabels, ReadLabels, WriteLabels,
     ReadHeld, WriteHeld, WaitLabels, CondLabels, Held

\* The handlers of the driver are those of 06, and a read that does not wait.
LEMMA HandlersOf06 ==
  ASSUME NEW p \in Procs, Handlers(p)
  PROVE  Run(p) \/ ReadAgain(p)
  BY DEF Handlers, Quiet, Run, dev_read, dev_write

LEMMA HandlerTriggers ==
  ASSUME NEW p \in Procs, Handlers(p)
  PROVE  /\ triggered \subseteq triggered'
         /\ triggered' \subseteq triggered \cup read_pollers \cup write_pollers
  BY DEF Handlers, WakePollers

\* Each of them moves nobody but the process that runs it.
LEMMA HandlerMoves ==
  ASSUME NEW p \in Procs, Run(p) \/ ReadAgain(p)
  PROVE  \E label \in Labels : pc' = [pc EXCEPT ![p] = label] \/ pc' = pc
  <1>1. CASE Run(p)
    BY <1>1, LabelMoves
  <1>2. CASE ReadAgain(p)
    BY <1>2 DEF ReadAgain, Return, Goto, Labels
  <1> QED  BY <1>1, <1>2

LEMMA HandlerForgets ==
  ASSUME PollTypeOK, NEW p \in Procs, Handlers(p), Forget(p)
  PROVE  /\ \A q \in Procs :
              pc'[q] \notin {"open", "closed"} => revents'[q] = revents[q]
         /\ revents' \in [Procs -> SUBSET Events]
  BY DEF Forget, PollTypeOK

LEMMA HandlerWakes ==
  ASSUME PollTypeOK, NEW p \in Procs, Handlers(p)
  PROVE  Wakes
  <1>1. pc \in [Procs -> Labels \cup PollLabels]
    BY DEF PollTypeOK
  <1>2. \A q \in Procs \ {p} : pc'[q] = pc[q]
    BY <1>1, HandlersOf06, HandlerMoves
  <1>3. CASE ReadWake(p) /\ WakePollers(write_pollers)
    BY <1>2, <1>3 DEF ReadWake, WakePollers, Wakes
  <1>4. CASE WriteWake(p) /\ WakePollers(read_pollers)
    BY <1>2, <1>4 DEF WriteWake, WakePollers, Wakes
  <1>5. CASE Quiet(p)
    <2>1. pc[p] \notin {"write_wake", "read_wake"}
      BY <1>5 DEF Quiet, ReadInterrupted, Interrupted, ReadAgain, ReadCheck,
         ReadCopy, ReadFault, ReadReset, StoreZero, ReadUnlock, wait_event,
         CondLoad, CondTrue, CondFalse, CondFalseSignal, WaitPrepare, WaitWoken,
         CondLabels, WriteInterrupted, WriteCheck, WriteReset, WriteCopy,
         WriteFault, WriteUnlock, OpenCount, ReleaseCount
    <2>2. pc[p] = "write_copy" => pc'[p] = "write_unlock" \/ p \in BadBuffers
      BY <1>1, <1>5
         DEF Quiet, ReadInterrupted, Interrupted, ReadAgain, ReadCheck,
         ReadCopy, ReadFault, ReadReset, StoreZero, ReadUnlock, wait_event,
         CondLoad, CondTrue, CondFalse, CondFalseSignal, WaitPrepare, WaitWoken,
         CondLabels, WriteInterrupted, WriteCheck, WriteReset, WriteCopy, Goto,
         WriteFault, WriteUnlock, OpenCount, ReleaseCount
    <2> QED  BY <1>2, <2>1, <2>2 DEF Wakes
  <1> QED  BY <1>3, <1>4, <1>5 DEF Handlers

\* What a process does of its own accord in 06 wakes nobody.
LEMMA UserWakes ==
  ASSUME PollTypeOK, NEW p \in Procs, User(p) \/ WaitSpurious(p) \/ Acquire(p)
  PROVE  Wakes
  BY DEF PollTypeOK, Wakes, User, CallOpen, CallClose, CallRead, CallWrite,
     Signal, WaitSpurious, Acquire, OpenLock, ReleaseLock, ReadLock, WriteLock,
     mutex_lock, Goto

\* The kinds of step there are.
LEMMA StepKinds ==
  ASSUME PollTypeOK, [PollNext]_allVars
  PROVE  (DeviceStep /\ Wakes) \/ \E p \in Procs : PollStep(p)
  <1>1. CASE UNCHANGED allVars
    BY <1>1 DEF allVars, vars, pollVars, DeviceStep, Wakes, callPoll, entryVars,
       PollTypeOK
  <1>2. ASSUME NEW p \in Procs, PollUser(p) \/ PollAcquire(p)
        PROVE  (DeviceStep /\ Wakes) \/ PollStep(p)
    <2>1. CASE PollStep(p)
      BY <2>1
    <2>2. CASE (User(p) \/ WaitSpurious(p) \/ Acquire(p)) /\ UNCHANGED pollVars
      BY <2>2, UserWakes DEF pollVars, callPoll, DeviceStep, Next, PollTypeOK
    <2> QED  BY <1>2, <2>1, <2>2 DEF PollUser, PollAcquire, PollStep
  <1>3. ASSUME NEW p \in Procs, PollRun(p) \/ PollTimeout(p)
        PROVE  (DeviceStep /\ Wakes) \/ PollStep(p)
    <2>1. CASE PollStep(p)
      BY <2>1
    <2>2. CASE /\ Handlers(p) /\ Forget(p)
               /\ UNCHANGED <<callPoll, entryVars, timed_out>>
      <3>1. [Next]_vars \/ ReadAgain(p)
        BY <2>2, HandlersOf06 DEF Next
      <3> QED
        BY <2>2, <3>1, HandlerTriggers, HandlerForgets, HandlerWakes
           DEF DeviceStep
    <2> QED  BY <1>3, <2>1, <2>2 DEF PollRun, PollStep
  <1> QED  BY <1>1, <1>2, <1>3 DEF PollNext

-----------------------------------------------------------------------------
(* The device, in the steps 06 does not have                               *)

\* A poll leaves the device alone, but for the mutex.
LEMMA PollStepFrame ==
  ASSUME PollTypeOK, NEW p \in Procs, PollStep(p)
  PROVE  /\ UNCHANGED <<posVars, countVars, read_queue, seen>>
         /\ pc[p] \in PollLabels \cup {"open"}
         /\ \E label \in PollLabels \cup {"open"} :
              pc' = [pc EXCEPT ![p] = label]
  <1> USE DEF PollTypeOK, Goto, Return, PollLabels, RoundLabels, devVars, callVars
  <1>1. CASE CallPoll(p)
    BY <1>1 DEF CallPoll
  <1>2. CASE PollWaitRead(p)
    BY <1>2 DEF PollWaitRead
  <1>3. CASE PollWaitWrite(p)
    BY <1>3 DEF PollWaitWrite
  <1>4. CASE PollLock(p)
    BY <1>4 DEF PollLock, mutex_lock
  <1>5. CASE PollMask(p)
    BY <1>5 DEF PollMask
  <1>6. CASE PollReturn(p)
    BY <1>6 DEF PollReturn
  <1>7. CASE PollSleep(p)
    BY <1>7 DEF PollSleep
  <1>8. CASE PollWoken(p) \/ PollSpurious(p) \/ PollTimeout(p)
    BY <1>8 DEF PollWoken, PollSpurious, PollTimeout, PollAgain
  <1>9. CASE PollSignal(p)
    <2>1. pc' = [pc EXCEPT ![p] = pc[p]]
      BY <1>9 DEF PollSignal
    <2> QED  BY <1>9, <2>1 DEF PollSignal
  <1> QED  BY <1>1, <1>2, <1>3, <1>4, <1>5, <1>6, <1>7, <1>8, <1>9 DEF PollStep

\* dev_poll locks and unlocks in turn, and so does a read that does not wait.
LEMMA PollStepMutex ==
  ASSUME PollTypeOK, PollHeld, NEW p \in Procs, PollStep(p) \/ ReadAgain(p)
  PROVE  PollHeld'
  <1> USE DevAssumption
      DEF PollTypeOK, Goto, Return, PollHeld, HeldIn, Held, ReadHeld, WriteHeld,
          CountLabels, devVars
  <1>1. CASE CallPoll(p)
    BY <1>1 DEF CallPoll
  <1>2. CASE PollWaitRead(p)
    BY <1>2 DEF PollWaitRead
  <1>3. CASE PollWaitWrite(p)
    BY <1>3 DEF PollWaitWrite
  <1>4. CASE PollLock(p)
    BY <1>4 DEF PollLock, mutex_lock
  <1>5. CASE PollMask(p)
    BY <1>5 DEF PollMask
  <1>6. CASE PollReturn(p)
    BY <1>6 DEF PollReturn
  <1>7. CASE PollSleep(p)
    BY <1>7 DEF PollSleep
  <1>8. CASE PollWoken(p) \/ PollSpurious(p) \/ PollTimeout(p)
    BY <1>8 DEF PollWoken, PollSpurious, PollTimeout, PollAgain
  <1>9. CASE PollSignal(p)
    BY <1>9 DEF PollSignal
  <1>10. CASE ReadAgain(p)
    BY <1>10 DEF ReadAgain
  <1> QED
    BY <1>1, <1>2, <1>3, <1>4, <1>5, <1>6, <1>7, <1>8, <1>9, <1>10 DEF PollStep

LEMMA PollStepDevType ==
  ASSUME DevType, NEW p \in Procs, PollStep(p) \/ ReadAgain(p)
  PROVE  DevType'
  <1> USE DEF DevType, Goto, Return, devVars, callVars, posVars, countVars
  <1>0. \E label : pc' = [pc EXCEPT ![p] = label] \/ pc' = pc
    BY DEF PollStep, CallPoll, PollWaitRead, PollWaitWrite, PollLock, mutex_lock,
       PollMask, PollReturn, PollSleep, PollWoken, PollSpurious, PollTimeout,
       PollAgain, PollSignal, ReadAgain
  <1>00. PcIsFunction'
    BY <1>0 DEF PcIsFunction
  <1> USE <1>00
  <1>1. CASE CallPoll(p)
    BY <1>1 DEF CallPoll
  <1>2. CASE PollWaitRead(p)
    BY <1>2 DEF PollWaitRead
  <1>3. CASE PollWaitWrite(p)
    BY <1>3 DEF PollWaitWrite
  <1>4. CASE PollLock(p)
    BY <1>4 DEF PollLock, mutex_lock
  <1>5. CASE PollMask(p)
    BY <1>5 DEF PollMask
  <1>6. CASE PollReturn(p)
    BY <1>6 DEF PollReturn
  <1>7. CASE PollSleep(p)
    BY <1>7 DEF PollSleep
  <1>8. CASE PollWoken(p) \/ PollSpurious(p) \/ PollTimeout(p)
    BY <1>8 DEF PollWoken, PollSpurious, PollTimeout, PollAgain
  <1>9. CASE PollSignal(p)
    BY <1>9 DEF PollSignal
  <1>10. CASE ReadAgain(p)
    BY <1>10 DEF ReadAgain
  <1> QED
    BY <1>1, <1>2, <1>3, <1>4, <1>5, <1>6, <1>7, <1>8, <1>9, <1>10 DEF PollStep

\* Neither changes the positions, and neither is in the middle of anything
\* the invariant of 06 is about.
LEMMA PollStepDev ==
  ASSUME DevInv, PollTypeOK, PollHeld, NEW p \in Procs,
         PollStep(p) \/ ReadAgain(p)
  PROVE  DevInv' /\ PollHeld'
  <1>1. DevType' /\ PollHeld'
    BY PollStepDevType, PollStepMutex DEF DevInv
  <1>2. Excluded'
    BY <1>1 DEF PollHeld, HeldIn, Excluded
  <1>3. /\ UNCHANGED <<posVars, countVars, read_queue, seen>>
        /\ pc[p] \in PollLabels \cup {"open", "read_check"}
        /\ \E label \in PollLabels \cup {"open"} :
             pc' = [pc EXCEPT ![p] = label]
    BY PollStepFrame DEF ReadAgain, Return, Goto
  <1> DEFINE Away == ResetLabels \cup CondLabels
               \cup {"read_copy", "write_copy", "prepare", "asleep",
                     "write_unlock", "write_wake"}
  <1>4. \A q \in Procs : /\ pc'[q] \in Away <=> pc[q] \in Away
                         /\ pc[q] \in Away => pc'[q] = pc[q]
    BY <1>3 DEF PollLabels, RoundLabels, PollTypeOK, ResetLabels, CondLabels
  <1>5. ResetHeld' /\ ResetZero' /\ CopyInBounds'
    BY <1>3, <1>4 DEF DevInv, ResetHeld, ResetZero, CopyInBounds, ResetLabels,
       posVars, has_data, has_space
  <1>6. SeenInCond' /\ QueuedWaits'
    BY <1>3, <1>4 DEF DevInv, DevType, SeenInCond, QueuedWaits, CondLabels
  <1>7. WakeInv'
    <2>1. Publishing' <=> Publishing
      BY <1>4 DEF Publishing
    <2>2. \A q \in read_queue : Unseen(q)' => Unseen(q)
      BY <1>3, <1>4 DEF DevInv, DevType, Unseen, posVars, CondLabels
    <2> QED
      BY <1>3, <2>1, <2>2 DEF DevInv, WakeInv, posVars, has_data
  <1> QED  BY <1>1, <1>2, <1>5, <1>6, <1>7 DEF DevInv

\* The invariant of 06 holds in 07.
LEMMA DevInvStep ==
  ASSUME DevInv, PollTypeOK, PollHeld, [PollNext]_allVars
  PROVE  DevInv' /\ PollHeld'
  <1>1. CASE [Next]_vars
    BY <1>1, DevStep, LabelsApart DEF PollHeld
  <1>2. ASSUME NEW p \in Procs, PollStep(p) \/ ReadAgain(p)
        PROVE  DevInv' /\ PollHeld'
    BY <1>2, PollStepDev
  <1> QED  BY <1>1, <1>2, StepKinds DEF DeviceStep

-----------------------------------------------------------------------------
(* A poll under way                                                        *)

\* A step of the device takes nobody into a poll, out of one or on in it.
LEMMA DeviceStepFrame ==
  ASSUME PollTypeOK, DeviceStep
  PROVE  \A p \in Procs :
           /\ pc'[p] \in PollLabels => pc'[p] = pc[p] /\ revents'[p] = revents[p]
           /\ pc[p] \in PollLabels => pc'[p] = pc[p]
  <1>1. pc \in [Procs -> Labels \cup PollLabels]
    BY DEF PollTypeOK
  <1>2. pc' = pc \/ \E p \in Procs, label \in Labels :
                      /\ pc[p] \in Labels
                      /\ pc' = [pc EXCEPT ![p] = label]
    <2>1. CASE UNCHANGED vars
      BY <2>1 DEF vars
    <2>2. ASSUME NEW p \in Procs,
                 User(p) \/ Acquire(p) \/ Run(p) \/ WaitSpurious(p)
          PROVE  pc' = pc \/ \E label \in Labels :
                               /\ pc[p] \in Labels
                               /\ pc' = [pc EXCEPT ![p] = label]
      <3>1. pc[p] \in Labels
        <4> USE DEF Labels, CountLabels, ReadLabels, WriteLabels, ReadHeld,
            WriteHeld, WaitLabels, CondLabels
        <4>1. CASE User(p)
          BY <4>1 DEF User, CallOpen, CallClose, CallRead, CallWrite, Signal
        <4>2. CASE Acquire(p)
          BY <4>2 DEF Acquire, OpenLock, mutex_lock, ReleaseLock, ReadLock,
             WriteLock
        <4>3. CASE OpenCount(p) \/ ReleaseCount(p) \/ WaitSpurious(p)
          BY <4>3 DEF OpenCount, ReleaseCount, WaitSpurious
        <4>4. CASE dev_read(p)
          BY <4>4 DEF dev_read, ReadInterrupted, Interrupted, ReadCheck,
             ReadCopy, ReadFault, ReadReset, StoreZero, ReadUnlock, ReadWake
        <4>5. CASE wait_event(p)
          BY <4>5 DEF wait_event, CondLoad, CondTrue, CondFalse,
             CondFalseSignal, WaitPrepare, WaitWoken
        <4>6. CASE dev_write(p)
          BY <4>6 DEF dev_write, WriteInterrupted, Interrupted, WriteCheck,
             WriteReset, StoreZero, WriteCopy, WriteFault, WriteUnlock,
             WriteWake
        <4> QED  BY <2>2, <4>1, <4>2, <4>3, <4>4, <4>5, <4>6 DEF Run
      <3> QED  BY <2>2, <3>1, LabelMoves
    <2>3. ASSUME NEW p \in Procs, ReadAgain(p)
          PROVE  \E label \in Labels : /\ pc[p] \in Labels
                                       /\ pc' = [pc EXCEPT ![p] = label]
      BY <2>3 DEF ReadAgain, Return, Goto, Labels, ReadLabels, ReadHeld
    <2> QED  BY <2>1, <2>2, <2>3 DEF DeviceStep, Next
  <1>3. \A p \in Procs : /\ pc'[p] \in PollLabels => pc'[p] = pc[p]
                         /\ pc[p] \in PollLabels => pc'[p] = pc[p]
    BY <1>1, <1>2, LabelsApart
  <1> QED
    BY <1>3 DEF DeviceStep, PollLabels, RoundLabels

LEMMA PollTypeStep ==
  ASSUME PollTypeOK, Roles, DevInv', [PollNext]_allVars
  PROVE  PollTypeOK'
  <1>0. DevType'
    BY DEF DevInv
  <1> USE <1>0 DEF PollTypeOK, DevType
  <1>1. CASE DeviceStep
    <2>1. pc' \in [Procs -> Labels \cup PollLabels]
      <3>1. CASE [Next]_vars
        BY <3>1, LabelStep
      <3>2. ASSUME NEW p \in Procs, ReadAgain(p)
            PROVE  pc' \in [Procs -> Labels \cup PollLabels]
        BY <3>2 DEF ReadAgain, Return, Goto, Labels
      <3> QED  BY <1>1, <3>1, <3>2 DEF DeviceStep
    <2> QED  BY <1>1, <2>1 DEF DeviceStep, callPoll, entryVars
  <1>2. ASSUME NEW p \in Procs, PollStep(p) PROVE PollTypeOK'
    <2>0. pc' \in [Procs -> Labels \cup PollLabels]
      BY <1>2, PollStepFrame DEF Labels
    <2> USE <2>0 DEF callPoll, entryVars, pollVars, Roles, PollLabels
    <2>1. CASE CallPoll(p)
      BY <2>1, PollAssumption DEF CallPoll
    <2>2. CASE PollWaitRead(p)
      BY <2>2 DEF PollWaitRead
    <2>3. CASE PollWaitWrite(p)
      BY <2>3 DEF PollWaitWrite
    <2>4. CASE PollLock(p)
      BY <2>4 DEF PollLock
    <2>5. CASE PollMask(p)
      BY <2>5 DEF PollMask, Mask
    <2>6. CASE PollReturn(p)
      BY <2>6 DEF PollReturn
    <2>7. CASE PollSleep(p)
      BY <2>7 DEF PollSleep
    <2>8. CASE PollWoken(p) \/ PollSpurious(p) \/ PollTimeout(p)
      BY <2>8 DEF PollWoken, PollSpurious, PollTimeout, PollAgain
    <2>9. CASE PollSignal(p)
      BY <2>9 DEF PollSignal
    <2> QED
      BY <1>2, <2>1, <2>2, <2>3, <2>4, <2>5, <2>6, <2>7, <2>8, <2>9 DEF PollStep
  <1> QED  BY <1>1, <1>2, StepKinds

\* Only CallPoll and CallWrite enter poll and dev_write.
LEMMA RolesStep ==
  ASSUME PollTypeOK, Roles, [PollNext]_allVars
  PROVE  Roles'
  <1> USE DEF PollTypeOK, Roles
  <1>1. CASE DeviceStep
    <2>1. \A p \in Procs : pc'[p] \in PollLabels => p \in Pollers
      BY <1>1, DeviceStepFrame
    <2>2. \A p \in Procs : pc'[p] \in WriteLabels => p \in Writers
      <3> USE DEF Goto, Return, WriteLabels, WriteHeld
      <3>1. CASE UNCHANGED vars
        BY <3>1 DEF vars
      <3>2. ASSUME NEW p \in Procs,
                   \/ User(p) \/ Acquire(p) \/ OpenCount(p) \/ ReleaseCount(p)
                   \/ WaitSpurious(p) \/ ReadAgain(p)
            PROVE  \A q \in Procs : pc'[q] \in WriteLabels => q \in Writers
        BY <3>2 DEF User, CallOpen, CallClose, CallRead, CallWrite, Signal,
           Acquire, OpenLock, mutex_lock, ReleaseLock, ReadLock, WriteLock,
           OpenCount, ReleaseCount, WaitSpurious, ReadAgain
      <3>3. ASSUME NEW p \in Procs, dev_read(p)
            PROVE  \A q \in Procs : pc'[q] \in WriteLabels => q \in Writers
        BY <3>3 DEF dev_read, ReadInterrupted, Interrupted, ReadCheck,
           ReadCopy, ReadFault, ReadReset, StoreZero, ReadUnlock, ReadWake
      <3>4. ASSUME NEW p \in Procs, wait_event(p)
            PROVE  \A q \in Procs : pc'[q] \in WriteLabels => q \in Writers
        BY <3>4 DEF wait_event, CondLoad, CondTrue, CondFalse,
           CondFalseSignal, WaitPrepare, WaitWoken
      <3>5. ASSUME NEW p \in Procs, dev_write(p)
            PROVE  \A q \in Procs : pc'[q] \in WriteLabels => q \in Writers
        BY <3>5 DEF dev_write, WriteInterrupted, Interrupted, WriteCheck,
           WriteReset, StoreZero, WriteCopy, WriteFault, WriteUnlock, WriteWake
      <3> QED  BY <1>1, <3>1, <3>2, <3>3, <3>4, <3>5 DEF DeviceStep, Next, Run
    <2> QED  BY <2>1, <2>2
  <1>2. ASSUME NEW p \in Procs, PollStep(p) PROVE Roles'
    <2>1. pc[p] = "open" => p \in Pollers
      BY <1>2 DEF PollStep, CallPoll, PollWaitRead, PollWaitWrite, PollLock,
         mutex_lock, PollMask, PollReturn, PollSleep, PollWoken, PollSpurious,
         PollTimeout, PollAgain, PollSignal, PollLabels, RoundLabels
    <2>2. p \in Pollers
      BY <1>2, <2>1, PollStepFrame
    <2>3. (PollLabels \cup {"open"}) \cap WriteLabels = {}
      BY DEF PollLabels, RoundLabels, WriteLabels, WriteHeld
    <2> QED  BY <1>2, <2>2, <2>3, PollStepFrame
  <1> QED  BY <1>1, <1>2, StepKinds

\* A poll stays on the queues it has joined until it returns.
LEMMA RegisteredStep ==
  ASSUME PollTypeOK, Registered, [PollNext]_allVars
  PROVE  Registered'
  <1> USE DEF PollTypeOK, Registered
  <1>1. CASE DeviceStep
    BY <1>1, DeviceStepFrame DEF DeviceStep, callPoll, entryVars
  <1>2. ASSUME NEW p \in Procs, PollStep(p) PROVE Registered'
    <2> USE DEF PollLabels, RoundLabels, Goto, Return, callPoll, entryVars,
        pollVars
    <2>1. CASE CallPoll(p)
      BY <2>1 DEF CallPoll
    <2>2. CASE PollWaitRead(p)
      BY <2>2 DEF PollWaitRead
    <2>3. CASE PollWaitWrite(p)
      BY <2>3 DEF PollWaitWrite
    <2>4. CASE PollLock(p)
      BY <2>4 DEF PollLock, mutex_lock
    <2>5. CASE PollMask(p)
      BY <2>5 DEF PollMask
    <2>6. CASE PollReturn(p)
      BY <2>6 DEF PollReturn
    <2>7. CASE PollSleep(p)
      BY <2>7 DEF PollSleep
    <2>8. CASE PollWoken(p) \/ PollSpurious(p) \/ PollTimeout(p)
      BY <2>8 DEF PollWoken, PollSpurious, PollTimeout, PollAgain
    <2>9. CASE PollSignal(p)
      BY <2>9 DEF PollSignal
    <2> QED
      BY <1>2, <2>1, <2>2, <2>3, <2>4, <2>5, <2>6, <2>7, <2>8, <2>9 DEF PollStep
  <1> QED  BY <1>1, <1>2, StepKinds

\* A poll sleeps only when it has no event and time left.
LEMMA SleepStep ==
  ASSUME PollTypeOK, ZeroTimed, SleepEmpty, [PollNext]_allVars
  PROVE  ZeroTimed' /\ SleepEmpty'
  <1> USE DEF PollTypeOK, ZeroTimed, SleepEmpty, PollLabels, RoundLabels
  <1>1. CASE DeviceStep
    BY <1>1, DeviceStepFrame DEF DeviceStep, callPoll, entryVars
  <1>2. ASSUME NEW p \in Procs, PollStep(p) PROVE ZeroTimed' /\ SleepEmpty'
    <2> USE DEF Goto, Return, callPoll, entryVars, pollVars
    <2>1. CASE CallPoll(p)
      BY <2>1 DEF CallPoll
    <2>2. CASE PollWaitRead(p)
      BY <2>2 DEF PollWaitRead
    <2>3. CASE PollWaitWrite(p)
      BY <2>3 DEF PollWaitWrite
    <2>4. CASE PollLock(p)
      BY <2>4 DEF PollLock, mutex_lock
    <2>5. CASE PollMask(p)
      BY <2>5 DEF PollMask
    <2>6. CASE PollReturn(p)
      BY <2>6 DEF PollReturn
    <2>7. CASE PollSleep(p)
      BY <2>7 DEF PollSleep
    <2>8. CASE PollWoken(p) \/ PollSpurious(p) \/ PollTimeout(p)
      BY <2>8 DEF PollWoken, PollSpurious, PollTimeout, PollAgain
    <2>9. CASE PollSignal(p)
      BY <2>9 DEF PollSignal
    <2> QED
      BY <1>2, <2>1, <2>2, <2>3, <2>4, <2>5, <2>6, <2>7, <2>8, <2>9 DEF PollStep
  <1> QED  BY <1>1, <1>2, StepKinds

-----------------------------------------------------------------------------
(* Wake-ups of polls                                                       *)

\* Only five steps of 06 change the positions, or begin or end a reset.
LEMMA OtherSteps ==
  ASSUME NEW p \in Procs, User(p) \/ Acquire(p) \/ Run(p) \/ WaitSpurious(p)
  PROVE  \/ ReadCopy(p) \/ ReadReset(p) \/ WriteReset(p) \/ WriteCopy(p)
         \/ WriteCheck(p) \/ UNCHANGED <<read_pos, write_pos, reset_left>>
  <1> USE DEF posVars
  <1>1. CASE User(p)
    BY <1>1 DEF User, CallOpen, CallClose, CallRead, CallWrite, Signal
  <1>2. CASE Acquire(p)
    BY <1>2 DEF Acquire, OpenLock, mutex_lock, ReleaseLock, ReadLock, WriteLock
  <1>3. CASE OpenCount(p) \/ ReleaseCount(p) \/ WaitSpurious(p)
    BY <1>3 DEF OpenCount, ReleaseCount, WaitSpurious
  <1>4. CASE dev_read(p)
    BY <1>4 DEF dev_read, ReadInterrupted, Interrupted, ReadCheck, ReadFault,
       ReadUnlock, ReadWake
  <1>5. CASE wait_event(p)
    BY <1>5 DEF wait_event, CondLoad, CondTrue, CondFalse, CondFalseSignal,
       WaitPrepare, WaitWoken
  <1>6. CASE dev_write(p)
    BY <1>6 DEF dev_write, WriteInterrupted, Interrupted, WriteFault,
       WriteUnlock, WriteWake
  <1> QED  BY <1>1, <1>2, <1>3, <1>4, <1>5, <1>6 DEF Run

\* Data appears when a writer has copied it in, and only then.
LEMMA DataAppears ==
  ASSUME DevInv, [Next]_vars, reset_left' = {}, has_data'
  PROVE  Publishing' \/ (reset_left = {} /\ has_data)
  <1> USE DEF DevInv, DevType, PcIsFunction, has_data, posVars
  <1>1. CASE UNCHANGED vars
    BY <1>1 DEF vars
  <1>2. ASSUME NEW p \in Procs, ReadCopy(p)
        PROVE  reset_left = {} /\ has_data
    BY <1>2, NoResetAtCopy DEF ReadCopy, CopyInBounds
  <1>3. ASSUME NEW p \in Procs, ReadReset(p) \/ WriteReset(p) PROVE FALSE
    BY <1>3, ResetStep
  <1>4. ASSUME NEW p \in Procs, WriteCopy(p) PROVE Publishing'
    BY <1>4 DEF WriteCopy, Goto, Publishing
  <1>5. ASSUME NEW p \in Procs, WriteCheck(p) PROVE reset_left = {} /\ has_data
    BY <1>5, ResetBegins DEF WriteCheck
  <1>6. ASSUME NEW p \in Procs, UNCHANGED <<read_pos, write_pos, reset_left>>
        PROVE  reset_left = {} /\ has_data
    BY <1>6
  <1>7. ASSUME NEW p \in Procs,
               User(p) \/ Acquire(p) \/ Run(p) \/ WaitSpurious(p)
        PROVE  \/ ReadCopy(p) \/ ReadReset(p) \/ WriteReset(p) \/ WriteCopy(p)
               \/ WriteCheck(p) \/ UNCHANGED <<read_pos, write_pos, reset_left>>
    BY <1>7, OtherSteps
  <1> QED  BY <1>1, <1>2, <1>3, <1>4, <1>5, <1>6, <1>7 DEF Next

\* Space appears when a reset has made it, or in a buffer somebody fills.
LEMMA SpaceAppears ==
  ASSUME DevInv, [Next]_vars, reset_left' = {}, has_space'
  PROVE  Freeing' \/ (reset_left = {} /\ has_space)
  <1> USE DEF DevInv, DevType, PcIsFunction, has_space, posVars
  <1>1. CASE UNCHANGED vars
    BY <1>1 DEF vars
  <1>2. ASSUME NEW p \in Procs, ReadCopy(p)
        PROVE  reset_left = {} /\ has_space
    BY <1>2, NoResetAtCopy DEF ReadCopy
  <1>3. ASSUME NEW p \in Procs, ReadReset(p) \/ WriteReset(p) PROVE Freeing'
    BY <1>3, ResetStep DEF Freeing, ReadReset, WriteReset, StoreZero
  <1>4. ASSUME NEW p \in Procs, WriteCopy(p) PROVE Freeing'
    BY <1>4 DEF WriteCopy, Goto, Freeing
  <1>5. ASSUME NEW p \in Procs, WriteCheck(p) PROVE reset_left = {} /\ has_space
    BY <1>5, ResetBegins DEF WriteCheck
  <1>6. ASSUME NEW p \in Procs, UNCHANGED <<read_pos, write_pos, reset_left>>
        PROVE  reset_left = {} /\ has_space
    BY <1>6
  <1>7. ASSUME NEW p \in Procs,
               User(p) \/ Acquire(p) \/ Run(p) \/ WaitSpurious(p)
        PROVE  \/ ReadCopy(p) \/ ReadReset(p) \/ WriteReset(p) \/ WriteCopy(p)
               \/ WriteCheck(p) \/ UNCHANGED <<read_pos, write_pos, reset_left>>
    BY <1>7, OtherSteps
  <1> QED  BY <1>1, <1>2, <1>3, <1>4, <1>5, <1>6, <1>7 DEF Next

\* Where the labels that announce a wake-up lead to.
LEMMA WayToWake ==
  ASSUME PollTypeOK, DeviceStep, NEW p \in Procs
  PROVE  /\ pc[p] = "write_copy"   => pc'[p] \in {"write_copy", "write_unlock", "open"}
         /\ pc[p] = "write_unlock" => pc'[p] \in {"write_unlock", "write_wake"}
         /\ pc[p] = "read_unlock"  => pc'[p] \in {"read_unlock", "read_wake"}
  <1> USE DEF PollTypeOK, Goto, Return
  <1>1. CASE UNCHANGED vars
    BY <1>1 DEF vars
  <1>2. ASSUME NEW q \in Procs, User(q) \/ Acquire(q) \/ OpenCount(q)
                 \/ ReleaseCount(q) \/ WaitSpurious(q) \/ ReadAgain(q)
        PROVE  pc[p] \in {"write_copy", "write_unlock", "read_unlock"} =>
                 pc'[p] = pc[p]
    BY <1>2 DEF User, CallOpen, CallClose, CallRead, CallWrite, Signal,
       Acquire, OpenLock, mutex_lock, ReleaseLock, ReadLock, WriteLock,
       OpenCount, ReleaseCount, WaitSpurious, ReadAgain
  <1>3. ASSUME NEW q \in Procs, dev_read(q)
        PROVE  /\ pc[p] \in {"write_copy", "write_unlock"} => pc'[p] = pc[p]
               /\ pc[p] = "read_unlock" => pc'[p] \in {"read_unlock", "read_wake"}
    BY <1>3 DEF dev_read, ReadInterrupted, Interrupted, ReadCheck,
       ReadCopy, ReadFault, ReadReset, StoreZero, ReadUnlock, ReadWake
  <1>4. ASSUME NEW q \in Procs, wait_event(q)
        PROVE  pc[p] \in {"write_copy", "write_unlock", "read_unlock"} =>
                 pc'[p] = pc[p]
    BY <1>4 DEF wait_event, CondLoad, CondTrue, CondFalse,
       CondFalseSignal, WaitPrepare, WaitWoken, CondLabels
  <1>5. ASSUME NEW q \in Procs, dev_write(q)
        PROVE  /\ pc[p] = "read_unlock" => pc'[p] = pc[p]
               /\ pc[p] = "write_copy" =>
                    pc'[p] \in {"write_copy", "write_unlock", "open"}
               /\ pc[p] = "write_unlock" =>
                    pc'[p] \in {"write_unlock", "write_wake"}
    BY <1>5 DEF dev_write, WriteInterrupted, Interrupted, WriteCheck,
       WriteReset, StoreZero, WriteCopy, WriteFault, WriteUnlock, WriteWake
  <1> QED  BY <1>1, <1>2, <1>3, <1>4, <1>5 DEF DeviceStep, Next, Run

\* A process stops publishing by waking the polls, and only by that.
LEMMA PublishingEnds ==
  ASSUME PollTypeOK, DeviceStep, Publishing, ~Publishing'
  PROVE  \E p \in Procs : pc[p] = "write_wake" /\ pc'[p] # pc[p]
  <1>1. PICK p \in Procs : pc[p] \in {"write_unlock", "write_wake"}
    BY DEF Publishing
  <1>2. pc'[p] \notin {"write_unlock", "write_wake"}
    BY DEF Publishing
  <1> QED  BY <1>1, <1>2, WayToWake

\* One that has made space stops by waking the polls for the queue it freed,
\* or by failing to copy from a bad pointer.
LEMMA FreeingEnds ==
  ASSUME PollTypeOK, DeviceStep, Freeing, ~Freeing'
  PROVE  \E p \in Procs : /\ pc[p] \in {"write_copy", "write_wake", "read_wake"}
                          /\ pc[p] = "write_copy" => pc'[p] = "open"
                          /\ pc'[p] # pc[p]
  <1>1. PICK p \in Procs :
          pc[p] \in {"read_unlock", "read_wake", "write_copy", "write_unlock",
                     "write_wake"}
    BY DEF Freeing
  <1>2. pc'[p] \notin {"read_unlock", "read_wake", "write_copy",
                       "write_unlock", "write_wake"}
    BY DEF Freeing
  <1> QED  BY <1>1, <1>2, WayToWake

\* What a step of the device leaves unreported was so before, and the poll is
\* on both queues.
LEMMA UnreportedKept ==
  ASSUME PollTypeOK, DeviceStep, Registered, NEW p \in Procs, NEW e,
         Unreported(p, e)'
  PROVE  Unreported(p, e) /\ p \in read_pollers /\ p \in write_pollers
  <1>1. pc'[p] = pc[p] /\ revents'[p] = revents[p]
    BY DeviceStepFrame DEF Unreported, PollLabels
  <1>2. Unreported(p, e)
    BY <1>1 DEF Unreported, DeviceStep, callPoll
  <1> QED  BY <1>2 DEF Unreported, Registered, PollLabels

\* A poll that computes its mask sees what there is, and no other step of a
\* poll adds to what it has not reported.
LEMMA PollStepUnreported ==
  ASSUME PollTypeOK, NEW p \in Procs, PollStep(p), NEW q \in Procs, NEW e,
         Unreported(q, e)'
  PROVE  Unreported(q, e) \/ (q = p /\ PollMask(p))
  <1> USE DEF PollTypeOK, Unreported, Goto, Return, callPoll, entryVars, pollVars
  <1>1. CASE CallPoll(p)
    BY <1>1 DEF CallPoll
  <1>2. CASE PollWaitRead(p)
    BY <1>2 DEF PollWaitRead
  <1>3. CASE PollWaitWrite(p)
    BY <1>3 DEF PollWaitWrite
  <1>4. CASE PollLock(p)
    BY <1>4 DEF PollLock, mutex_lock
  <1>5. CASE PollMask(p)
    BY <1>5 DEF PollMask
  <1>6. CASE PollReturn(p)
    BY <1>6 DEF PollReturn
  <1>7. CASE PollSleep(p)
    BY <1>7 DEF PollSleep
  <1>8. CASE PollWoken(p) \/ PollSpurious(p) \/ PollTimeout(p)
    BY <1>8 DEF PollWoken, PollSpurious, PollTimeout, PollAgain
  <1>9. CASE PollSignal(p)
    BY <1>9 DEF PollSignal
  <1> QED
    BY <1>1, <1>2, <1>3, <1>4, <1>5, <1>6, <1>7, <1>8, <1>9 DEF PollStep

\* A step of a poll neither begins nor ends a publication.
LEMMA PollStepOnTheWay ==
  ASSUME PollTypeOK, NEW p \in Procs, PollStep(p)
  PROVE  (Publishing' <=> Publishing) /\ (Freeing' <=> Freeing)
  <1> DEFINE Way == {"read_unlock", "read_wake", "write_copy", "write_unlock",
                     "write_wake"}
  <1>1. Way \cap (PollLabels \cup {"open"}) = {}
    BY DEF PollLabels, RoundLabels
  <1>2. \A q \in Procs : /\ pc'[q] \in Way <=> pc[q] \in Way
                         /\ pc[q] \in Way => pc'[q] = pc[q]
    BY <1>1, PollStepFrame DEF PollTypeOK
  <1> QED  BY <1>2 DEF Publishing, Freeing

\* No POLLIN is lost.  Data appears only in dev_write, which wakes the read
\* queue after it, and the poll was on the queue before it looked.
LEMMA PollinStep ==
  ASSUME PollTypeOK, DevInv, Registered, PollinInv, [PollNext]_allVars
  PROVE  PollinInv'
  <1> SUFFICES ASSUME NEW p \in Procs, Unreported(p, "POLLIN")',
                      reset_left' = {}, has_data'
               PROVE  Publishing'
    BY DEF PollinInv
  <1>1. CASE DeviceStep /\ Wakes
    <2>1. Unreported(p, "POLLIN") /\ p \in read_pollers
      BY <1>1, UnreportedKept
    <2>2. Publishing' \/ (reset_left = {} /\ has_data)
      <3>1. CASE [Next]_vars
        BY <3>1, DataAppears
      <3>2. ASSUME NEW q \in Procs, ReadAgain(q)
            PROVE  reset_left = {} /\ has_data
        BY <3>2 DEF ReadAgain, posVars, has_data
      <3> QED  BY <1>1, <3>1, <3>2 DEF DeviceStep
    <2>3. Publishing' \/ Publishing
      BY <2>1, <2>2 DEF PollinInv
    <2>4. ASSUME NEW q \in Procs, pc[q] = "write_wake", pc'[q] # pc[q]
          PROVE  FALSE
      BY <1>1, <2>1, <2>4 DEF Wakes, Unreported
    <2> QED  BY <1>1, <2>3, <2>4, PublishingEnds
  <1>2. ASSUME NEW q \in Procs, PollStep(q) PROVE Publishing'
    <2>1. reset_left = {} /\ has_data
      BY <1>2, PollStepFrame DEF posVars, has_data
    <2>2. CASE Unreported(p, "POLLIN")
      BY <1>2, <2>1, <2>2, PollStepOnTheWay DEF PollinInv
    <2>3. CASE q = p /\ PollMask(p)
      BY <2>1, <2>3 DEF PollMask, Mask, Unreported, PollTypeOK, callPoll, Events
    <2> QED  BY <1>2, <2>2, <2>3, PollStepUnreported
  <1> QED  BY <1>1, <1>2, StepKinds

\* No POLLOUT is lost either, if the pointers writers pass are good: a write
\* that has reset a full buffer and then fails wakes nobody.
LEMMA PolloutStep ==
  ASSUME Writers \cap BadBuffers = {},
         PollTypeOK, DevInv, Roles, Registered, PolloutInv, [PollNext]_allVars
  PROVE  PolloutInv'
  <1> SUFFICES ASSUME NEW p \in Procs, Unreported(p, "POLLOUT")',
                      reset_left' = {}, has_space'
               PROVE  Freeing'
    BY DEF PolloutInv
  <1>1. CASE DeviceStep /\ Wakes
    <2>1. Unreported(p, "POLLOUT") /\ p \in read_pollers /\ p \in write_pollers
      BY <1>1, UnreportedKept
    <2>2. Freeing' \/ (reset_left = {} /\ has_space)
      <3>1. CASE [Next]_vars
        BY <3>1, SpaceAppears
      <3>2. ASSUME NEW q \in Procs, ReadAgain(q)
            PROVE  reset_left = {} /\ has_space
        BY <3>2 DEF ReadAgain, posVars, has_space
      <3> QED  BY <1>1, <3>1, <3>2 DEF DeviceStep
    <2>3. Freeing' \/ Freeing
      BY <2>1, <2>2 DEF PolloutInv
    <2>4. ASSUME NEW q \in Procs, pc[q] \in {"write_wake", "read_wake"},
                 pc'[q] # pc[q]
          PROVE  FALSE
      BY <1>1, <2>1, <2>4 DEF Wakes, Unreported
    <2>5. ASSUME NEW q \in Procs, pc[q] = "write_copy", pc'[q] = "open"
          PROVE  FALSE
      <3>1. q \in Writers
        BY <2>5 DEF Roles, WriteLabels, WriteHeld
      <3> QED  BY <1>1, <2>5, <3>1 DEF Wakes
    <2> QED  BY <1>1, <2>3, <2>4, <2>5, FreeingEnds
  <1>2. ASSUME NEW q \in Procs, PollStep(q) PROVE Freeing'
    <2>1. reset_left = {} /\ has_space
      BY <1>2, PollStepFrame DEF posVars, has_space
    <2>2. CASE Unreported(p, "POLLOUT")
      BY <1>2, <2>1, <2>2, PollStepOnTheWay DEF PolloutInv
    <2>3. CASE q = p /\ PollMask(p)
      BY <2>1, <2>3 DEF PollMask, Mask, Unreported, PollTypeOK, callPoll, Events
    <2> QED  BY <1>2, <2>2, <2>3, PollStepUnreported
  <1> QED  BY <1>1, <1>2, StepKinds

-----------------------------------------------------------------------------
(* The theorems                                                            *)

LEMMA PollInvInit == PollInit => PollInv /\ PolloutInv
  <1> SUFFICES ASSUME PollInit PROVE PollInv /\ PolloutInv
    OBVIOUS
  <1>1. DevInv /\ TypeOK
    BY DevInit, TypeInit DEF PollInit
  <1>2. \A p \in Procs : pc[p] = "closed"
    BY DEF PollInit, Init
  <1>3. PollHeld
    BY <1>2, DevAssumption
       DEF PollInit, Init, PollHeld, HeldIn, Held, CountLabels, ReadHeld, WriteHeld
  <1>4. PollTypeOK
    BY <1>1 DEF PollInit, PollTypeOK, TypeOK
  <1>5. Roles /\ Registered /\ ZeroTimed /\ SleepEmpty
    BY <1>2 DEF Roles, Registered, ZeroTimed, SleepEmpty, PollLabels,
       RoundLabels, WriteLabels, WriteHeld
  <1>6. PollinInv /\ PolloutInv
    BY <1>2 DEF PollinInv, PolloutInv, Unreported
  <1> QED  BY <1>1, <1>3, <1>4, <1>5, <1>6 DEF PollInv

LEMMA PollInvStep == PollInv /\ [PollNext]_allVars => PollInv'
  <1> SUFFICES ASSUME PollInv, [PollNext]_allVars PROVE PollInv'
    OBVIOUS
  <1>1. DevInv' /\ PollHeld'
    BY DevInvStep DEF PollInv
  <1>2. PollTypeOK' /\ Roles'
    BY <1>1, PollTypeStep, RolesStep DEF PollInv
  <1>3. Registered' /\ ZeroTimed' /\ SleepEmpty'
    BY RegisteredStep, SleepStep DEF PollInv
  <1>4. PollinInv'
    BY PollinStep DEF PollInv
  <1> QED  BY <1>1, <1>2, <1>3, <1>4 DEF PollInv

\* The inductive invariant holds in every state of the driver with poll.
THEOREM PollInvariance == PollSpec => []PollInv
  BY PollInvInit, PollInvStep, PTL DEF PollSpec

\* Every variable has its type; a poll queues entries of pollers only, and
\* triggers nobody else.
THEOREM PollTypeCorrect == PollSpec => []PollTypeOK
  <1>1. PollInv => PollTypeOK
    BY DEF PollInv
  <1> QED  BY PollInvariance, <1>1, PTL

\* The mutex is held exactly in the critical sections of the handlers of 06
\* and in dev_poll while it computes its mask, and a read with O_NONBLOCK
\* gives it back.
THEOREM PollMutualExclusion == PollSpec => []PollHeld
  <1>1. PollInv => PollHeld
    BY DEF PollInv
  <1> QED  BY PollInvariance, <1>1, PTL

\* As in 06, a read copies only when there is data and a write only where
\* there is space.
THEOREM PollCopiesInBounds == PollSpec => []CopyInBounds
  <1>1. PollInv => CopyInBounds
    BY DEF PollInv, DevInv
  <1> QED  BY PollInvariance, <1>1, PTL

\* As in 06, a reader never sleeps in dev_read beside unread data that nobody
\* will wake it for.
THEOREM ReadWakeupsAreNotLost == PollSpec => []NoLostWakeup
  <1>1. PollInv => NoLostWakeup
    BY DEF PollInv, DevInv, WakeInv, Unseen, NoLostWakeup
  <1> QED  BY PollInvariance, <1>1, PTL

\* Nobody sleeps in poll waiting for data beside unread data, unless a writer
\* is on its way to wake it, although the mask is computed under the mutex
\* and the sleep begins after it is released.
THEOREM PollinIsNotLost == PollSpec => []NoLostPollin
  <1>1. PollInv => NoLostPollin
    <2> SUFFICES ASSUME PollInv, NEW p \in Pollers, PollAsleep(p),
                        "POLLIN" \in events[p], reset_left = {}, has_data
                 PROVE  Publishing
      BY DEF NoLostPollin
    <2>1. p \in Procs
      BY PollAssumption
    <2>2. Unreported(p, "POLLIN")
      BY <2>1 DEF PollInv, ZeroTimed, SleepEmpty, PollAsleep, Unreported,
         PollLabels, PollTypeOK
    <2> QED  BY <2>1, <2>2 DEF PollInv, PollinInv
  <1> QED  BY PollInvariance, <1>1, PTL

\* Nobody sleeps in poll waiting for space when there is space, unless someone
\* is on the way to wake it, as long as no writer passes a pointer that
\* faults.  Without that it is false: the buffer of a write that failed after
\* it had reset the positions is empty, and nobody has been told.
THEOREM PolloutIsNotLost ==
  ASSUME Writers \cap BadBuffers = {}
  PROVE  PollSpec => []NoLostPollout
  <1>1. PollInv /\ PolloutInv /\ [PollNext]_allVars => PolloutInv'
    BY PolloutStep DEF PollInv
  <1>2. PollInv /\ PolloutInv => NoLostPollout
    <2> SUFFICES ASSUME PollInv, PolloutInv, NEW p \in Pollers, PollAsleep(p),
                        "POLLOUT" \in events[p], reset_left = {}, has_space
                 PROVE  Freeing
      BY DEF NoLostPollout
    <2>1. p \in Procs
      BY PollAssumption
    <2>2. Unreported(p, "POLLOUT")
      BY <2>1 DEF PollInv, ZeroTimed, SleepEmpty, PollAsleep, Unreported,
         PollLabels, PollTypeOK
    <2> QED  BY <2>1, <2>2 DEF PolloutInv
  <1> QED
    BY PollInvInit, PollInvariance, <1>1, <1>2, PTL DEF PollSpec

\* As in 06, dev->readers and dev->writers are the numbers of files open for
\* reading and for writing: a poll opens and closes nothing.
THEOREM PollCountsAreExact == PollSpec => []OpenCountsExact
  <1>1. PollInit => OpenCountsExact
    BY CountInit DEF PollInit
  <1>2. PollInv /\ OpenCountsExact /\ [PollNext]_allVars => OpenCountsExact'
    <2> SUFFICES ASSUME PollInv, OpenCountsExact, [PollNext]_allVars
                 PROVE  OpenCountsExact'
      OBVIOUS
    <2>1. CASE [Next]_vars
      BY <2>1, CountStep DEF PollInv, DevInv
    <2>2. ASSUME NEW p \in Procs, PollStep(p) \/ ReadAgain(p)
          PROVE  OpenCountsExact'
      <3>1. /\ UNCHANGED countVars
            /\ pc[p] \notin Closed
            /\ \E label \in PollLabels \cup {"open"} :
                 pc' = [pc EXCEPT ![p] = label]
        BY <2>2, PollStepFrame
           DEF PollInv, ReadAgain, Return, Goto, Closed, PollLabels, RoundLabels
      <3>2. Opened' = Opened
        BY <3>1 DEF Opened, Closed, PollLabels, RoundLabels, PollInv, PollTypeOK
      <3> QED  BY <3>1, <3>2 DEF OpenCountsExact, countVars
    <2> QED  BY <2>1, <2>2, StepKinds DEF PollInv, DeviceStep
  <1> QED  BY <1>1, <1>2, PollInvariance, PTL DEF PollSpec

-----------------------------------------------------------------------------
(* The driver implements LossyPipe, as 06 does                             *)

\* A poll takes nothing out of the pipe and puts nothing in, and neither does
\* a read that does not wait.
LEMMA PollStepPipe ==
  ASSUME PollTypeOK, NEW p \in Procs, PollStep(p) \/ ReadAgain(p)
  PROVE  Pipe!Finish(p) \/ UNCHANGED Pipe!pipeVars
  <1>1. UNCHANGED <<Unread, Filled>>
    BY PollStepFrame, PipeUnchanged DEF ReadAgain
  <1>2. got' = got \/ got' = [got EXCEPT ![p] = <<>>]
    BY DEF PollStep, CallPoll, PollWaitRead, PollWaitWrite, PollLock, PollMask,
       PollReturn, PollSleep, PollWoken, PollSpurious, PollTimeout, PollAgain,
       PollSignal, ReadAgain, Return, devVars, callVars
  <1> QED  BY <1>1, <1>2 DEF Pipe!Finish, Pipe!pipeVars

\* /dev/mypoll is the pipe that /dev/myblocking is: neither O_NONBLOCK nor poll
\* loses a byte, or lets a read return one twice or out of order.
THEOREM PollImplementsPipe == PollSpec => RefinesPipe
  <1>1. PollInv /\ [PollNext]_allVars => [Pipe!Next]_Pipe!pipeVars
    <2> SUFFICES ASSUME PollInv, [PollNext]_allVars
                 PROVE  [Pipe!Next]_Pipe!pipeVars
      OBVIOUS
    <2>1. CASE [Next]_vars
      BY <2>1, PipeStep DEF PollInv
    <2>2. ASSUME NEW p \in Procs, PollStep(p) \/ ReadAgain(p)
          PROVE  [Pipe!Next]_Pipe!pipeVars
      BY <2>2, PollStepPipe DEF PollInv, Pipe!Next
    <2> QED  BY <2>1, <2>2, StepKinds DEF PollInv, DeviceStep
  <1>2. PollInit => Pipe!Init
    BY PipeInit DEF PollInit
  <1> QED
    BY <1>1, <1>2, PollInvariance, PTL DEF PollSpec, RefinesPipe, Pipe!Spec
=============================================================================
