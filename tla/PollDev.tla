------------------------------ MODULE PollDev ------------------------------
(***************************************************************************)
(* 07-char-dev-poll: the character device /dev/mypoll.                     *)
(*                                                                         *)
(* The driver is that of 06-char-dev-blocking with two things added: a     *)
(* read of a file opened O_NONBLOCK does not sleep, and dev_poll.  What it *)
(* has in common with BlockingDev is used from there.                      *)
(*                                                                         *)
(* dev_poll is one round of the poll system call, do_poll of the kernel:   *)
(* the first round queues an entry on both wait queues of the device, a    *)
(* process that got no event sleeps until an entry is woken or its time is *)
(* up, and then does another round.  Entries stay queued when they are     *)
(* woken; the wake-up sets pwq->triggered, so that one that comes between  *)
(* a round and the sleep is not lost.  The driver wakes with no key, that  *)
(* is, for every event.                                                    *)
(***************************************************************************)
EXTENDS BlockingDev

CONSTANTS
  NonBlocking, (* processes whose file has O_NONBLOCK                      *)
  Pollers,     (* processes that call poll                                 *)
  BadBuffers,  (* processes that may pass a user pointer that faults       *)
  EventSets,   (* the events they ask for                                  *)
  Timeouts     (* and for how long: "zero", "finite", "infinite"           *)

Events == {"POLLIN", "POLLOUT"}

ASSUME PollAssumption ==
  /\ NonBlocking \subseteq Procs
  /\ Pollers \subseteq Procs
  /\ BadBuffers \subseteq Procs
  /\ EventSets \subseteq SUBSET Events
  /\ Timeouts \subseteq {"zero", "finite", "infinite"}

VARIABLES
  events,        (* pfd.events of the poll a process does                  *)
  timeout,       (* its timeout                                            *)
  revents,       (* what its last poll reported, until its next call ends  *)
  qproc,         (* processes whose poll_table still queues entries        *)
  read_pollers,  (* poll entries on dev->read_queue                        *)
  write_pollers, (* poll entries on dev->write_queue                       *)
  triggered,     (* pwq->triggered                                         *)
  timed_out      (* timed_out of do_poll                                   *)

devVars   == <<lock, posVars, countVars, read_queue, callVars>>
callPoll  == <<events, timeout>>
entryVars == <<qproc, read_pollers, write_pollers>>
pollVars  == <<callPoll, revents, entryVars, triggered, timed_out>>
allVars   == <<vars, pollVars>>

RoundLabels == {"poll_read_queue", "poll_write_queue", "poll_lock", "poll_mask"}
PollLabels  == RoundLabels \cup {"poll_test", "poll_sleep"}

-----------------------------------------------------------------------------
(* dev_poll, and do_poll around it                                         *)

CallPoll(p) ==
  /\ p \in Pollers
  /\ pc[p] = "open"
  /\ \E ev \in EventSets, t \in Timeouts :
       /\ events' = [events EXCEPT ![p] = ev]
       /\ timeout' = [timeout EXCEPT ![p] = t]
       /\ qproc' = IF t = "zero" THEN qproc ELSE qproc \cup {p}
       /\ timed_out' = IF t = "zero" THEN timed_out \cup {p} ELSE timed_out
  /\ revents' = [revents EXCEPT ![p] = {}]
  /\ Goto(p, "poll_read_queue")
  /\ UNCHANGED <<devVars, signalled, read_pollers, write_pollers, triggered>>

\* poll_wait(filep, &dev->read_queue, wait)
PollWaitRead(p) ==
  /\ pc[p] = "poll_read_queue"
  /\ read_pollers' = read_pollers \cup ({p} \cap qproc)
  /\ Goto(p, "poll_write_queue")
  /\ UNCHANGED <<devVars, signalled, callPoll, revents, qproc, write_pollers,
                 triggered, timed_out>>

\* Faulty: a poll does not register on the write queue.
PollWaitWrite_Missing(p) ==
  /\ pc[p] = "poll_write_queue"
  /\ Goto(p, "poll_lock")
  /\ UNCHANGED <<devVars, signalled, pollVars>>

\* poll_wait(filep, &dev->write_queue, wait)
PollWaitWrite(p) ==
  /\ pc[p] = "poll_write_queue"
  /\ write_pollers' = write_pollers \cup ({p} \cap qproc)
  /\ Goto(p, "poll_lock")
  /\ UNCHANGED <<devVars, signalled, callPoll, revents, qproc, read_pollers,
                 triggered, timed_out>>

PollLock(p) ==
  /\ mutex_lock(p, "poll_lock", "poll_mask")
  /\ UNCHANGED <<posVars, countVars, read_queue, callVars, signalled, pollVars>>

\* The mask dev_poll computes under the mutex.
Mask == {e \in Events : \/ e = "POLLIN"  /\ has_data
                        \/ e = "POLLOUT" /\ has_space}

\* Faulty: dev_poll returns with the mutex locked if there is no event.
PollMask_Locked(p) ==
  /\ pc[p] = "poll_mask"
  /\ revents' = [revents EXCEPT ![p] = Mask \cap events[p]]
  /\ lock' = IF revents'[p] = {} THEN lock ELSE NoProc
  /\ Goto(p, "poll_test")
  /\ UNCHANGED <<posVars, countVars, read_queue, callVars, signalled, callPoll,
                 entryVars, triggered, timed_out>>

PollMask(p) ==
  /\ pc[p] = "poll_mask"
  /\ revents' = [revents EXCEPT ![p] = Mask \cap events[p]]
  /\ lock' = NoProc
  /\ Goto(p, "poll_test")
  /\ UNCHANGED <<posVars, countVars, read_queue, callVars, signalled, callPoll,
                 entryVars, triggered, timed_out>>

\* An event, a signal or the end of the time: poll_freewait unqueues the
\* entries and poll returns.  Its arguments and its pwq are gone.
PollReturn(p) ==
  /\ pc[p] = "poll_test"
  /\ revents[p] # {} \/ p \in signalled \/ p \in timed_out
  /\ read_pollers' = read_pollers \ {p}
  /\ write_pollers' = write_pollers \ {p}
  /\ qproc' = qproc \ {p}
  /\ timed_out' = timed_out \ {p}
  /\ triggered' = triggered \ {p}
  /\ events' = [events EXCEPT ![p] = {}]
  /\ timeout' = [timeout EXCEPT ![p] = "zero"]
  /\ Return(p)
  /\ UNCHANGED <<lock, posVars, countVars, read_queue, seen, revents>>

\* No event: later rounds queue nothing, and the process goes to sleep.
PollSleep(p) ==
  /\ pc[p] = "poll_test"
  /\ revents[p] = {} /\ p \notin signalled /\ p \notin timed_out
  /\ qproc' = qproc \ {p}
  /\ Goto(p, "poll_sleep")
  /\ UNCHANGED <<devVars, signalled, callPoll, revents, read_pollers,
                 write_pollers, triggered, timed_out>>

\* The sleep ends, and another round begins.
PollAgain(p) ==
  /\ pc[p] = "poll_sleep"
  /\ triggered' = triggered \ {p}
  /\ Goto(p, "poll_read_queue")
  /\ UNCHANGED <<devVars, signalled, callPoll, revents, entryVars>>

PollWoken(p) ==
  /\ p \in triggered \/ p \in signalled
  /\ PollAgain(p)
  /\ UNCHANGED timed_out

PollSpurious(p) == PollAgain(p) /\ UNCHANGED timed_out

PollTimeout(p) ==
  /\ timeout[p] = "finite"
  /\ PollAgain(p)
  /\ timed_out' = timed_out \cup {p}

PollSignal(p) ==
  /\ pc[p] \in PollLabels
  /\ signalled' = signalled \cup {p}
  /\ UNCHANGED <<devVars, pc, pollVars>>

-----------------------------------------------------------------------------
(* What this driver's dev_read and dev_write add to those of BlockingDev   *)

\* O_NONBLOCK and no data: -EAGAIN.
ReadAgain(p) ==
  /\ p \in NonBlocking
  /\ pc[p] = "read_check"
  /\ ~has_data
  /\ lock' = NoProc
  /\ Return(p)
  /\ UNCHANGED <<posVars, countVars, read_queue, seen>>

\* Faulty: O_NONBLOCK is not looked at.
MayWait_Always(p) == TRUE

MayWait(p) == p \in NonBlocking => has_data

\* The handlers that wake nobody.
Quiet(p) ==
  \/ ReadInterrupted(p) \/ ReadAgain(p) \/ (MayWait(p) /\ ReadCheck(p))
  \/ ReadCopy(p) \/ (p \in BadBuffers /\ ReadFault(p)) \/ ReadReset(p)
  \/ ReadUnlock(p)
  \/ wait_event(p)
  \/ WriteInterrupted(p) \/ WriteCheck(p) \/ WriteReset(p) \/ WriteCopy(p)
  \/ (p \in BadBuffers /\ WriteFault(p)) \/ WriteUnlock(p)
  \/ OpenCount(p) \/ ReleaseCount(p)

\* Faulty: only the processes in dev_read are woken.
WakePollers_None(queue) == UNCHANGED triggered

\* wake_up_interruptible of a queue: its poll entries are triggered.
WakePollers(queue) == triggered' = triggered \cup queue

Handlers(p) ==
  \/ Quiet(p)     /\ UNCHANGED triggered
  \/ ReadWake(p)  /\ WakePollers(write_pollers)
  \/ WriteWake(p) /\ WakePollers(read_pollers)

\* A call that ends is no longer "the next call after a poll".
Forget(p) ==
  revents' = IF pc'[p] \in {"open", "closed"} THEN [revents EXCEPT ![p] = {}]
                                              ELSE revents

PollRun(p) ==
  \/ Handlers(p) /\ Forget(p) /\ UNCHANGED <<callPoll, entryVars, timed_out>>
  \/ PollWaitRead(p) \/ PollWaitWrite(p) \/ PollMask(p) \/ PollReturn(p)
  \/ PollSleep(p) \/ PollWoken(p)

PollAcquire(p) == (Acquire(p) /\ UNCHANGED pollVars) \/ PollLock(p)

PollUser(p) ==
  \/ (User(p) \/ WaitSpurious(p)) /\ UNCHANGED pollVars
  \/ CallPoll(p) \/ PollSignal(p) \/ PollSpurious(p)

PollInit ==
  /\ Init
  /\ events = [p \in Procs |-> {}]
  /\ timeout = [p \in Procs |-> "zero"]
  /\ revents = [p \in Procs |-> {}]
  /\ qproc = {}
  /\ read_pollers = {} /\ write_pollers = {}
  /\ triggered = {}
  /\ timed_out = {}

PollNext ==
  \E p \in Procs : PollUser(p) \/ PollAcquire(p) \/ PollRun(p) \/ PollTimeout(p)

\* As for BlockingDev.  The deadline of a poll is absolute: a process that
\* keeps going to sleep does so, sooner or later, after it.
PollFairness ==
  \A p \in Procs : /\ WF_allVars(PollRun(p))
                   /\ SF_allVars(PollAcquire(p))
                   /\ SF_allVars(PollTimeout(p))

PollSpec     == PollInit /\ [][PollNext]_allVars
PollFairSpec == PollSpec /\ PollFairness

-----------------------------------------------------------------------------
(* Properties                                                              *)

\* The type invariant.
PollTypeOK ==
  /\ lock \in Procs \cup {NoProc}
  /\ read_pos \in 0..BUF_LEN /\ write_pos \in 0..BUF_LEN
  /\ read_queue \subseteq Procs
  /\ pc \in [Procs -> Labels \cup PollLabels]
  /\ events \in [Procs -> SUBSET Events]
  /\ timeout \in [Procs -> {"zero", "finite", "infinite"}]
  /\ revents \in [Procs -> SUBSET Events]
  /\ qproc \subseteq Pollers /\ timed_out \subseteq Pollers
  /\ read_pollers \subseteq Pollers /\ write_pollers \subseteq Pollers
  /\ triggered \subseteq Pollers

\* A process asleep in poll that nobody has woken.
PollAsleep(p) == pc[p] = "poll_sleep" /\ p \notin triggered

\* No lost POLLIN: nobody sleeps in poll waiting for data beside unread data,
\* unless a writer is on its way to wake it.
NoLostPollin ==
  \A p \in Pollers :
    PollAsleep(p) /\ "POLLIN" \in events[p] /\ reset_left = {} /\ has_data
      => Publishing

\* A process that has made, or is about to make, space and has not called
\* wake_up yet.
Freeing ==
  \E q \in Procs :
    pc[q] \in {"read_unlock", "read_wake", "write_copy", "write_unlock",
               "write_wake"}

\* No lost POLLOUT: nobody sleeps in poll waiting for space when there is
\* space, unless someone is on the way to wake it.  Space comes from a read
\* that drains the buffer, which wakes the write queue, and from a write that
\* finds it full, which wakes the read queue only.
NoLostPollout ==
  \A p \in Pollers :
    PollAsleep(p) /\ "POLLOUT" \in events[p] /\ reset_left = {} /\ has_space
      => Freeing

\* A poll for data returns if there is data for long enough.
PollinProgress ==
  \A p \in Pollers :
    (pc[p] \in PollLabels /\ "POLLIN" \in events[p] /\ has_data)
      ~> (pc[p] = "open" \/ ~has_data)

\* A poll with a timeout returns, whatever the others do to the device.
PollReturns ==
  \A p \in Pollers :
    (pc[p] \in PollLabels /\ timeout[p] # "infinite") ~> pc[p] = "open"

\* A read of a file opened O_NONBLOCK returns.
NonblockReadReturns ==
  \A p \in NonBlocking : pc[p] \in ReadLabels ~> pc[p] = "open"
=============================================================================
