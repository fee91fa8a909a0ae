------------------------- MODULE BlockingDevProofs -------------------------
(***************************************************************************)
(* Proofs about BlockingDev, for any number of processes, any buffer and   *)
(* any lengths: the type invariant, mutual exclusion and the bounds of     *)
(* every copy, that no wake-up is lost, and that it implements LossyPipe.  *)
(***************************************************************************)
EXTENDS BlockingDevPipe, FiniteSetTheorems, SequenceTheorems, TLAPS

-----------------------------------------------------------------------------
(* The inductive invariant                                                 *)
(*                                                                         *)
(* 07-char-dev-poll runs the same handlers, among others of its own, which *)
(* are at labels this driver does not have and take the mutex too.  DevInv *)
(* is the part of the invariant that also holds there: it leaves open      *)
(* which labels there are and who else may hold the mutex.                 *)

PcIsFunction == pc = [p \in Procs |-> pc[p]]

\* TypeOK without the labels.
DevType ==
  /\ lock \in Procs \cup {NoProc}
  /\ buffer \in [0..BUF_LEN-1 -> Byte]
  /\ read_pos \in 0..BUF_LEN
  /\ write_pos \in 0..BUF_LEN
  /\ readers \in Int /\ writers \in Int
  /\ read_queue \subseteq Procs
  /\ reset_left \subseteq Positions
  /\ PcIsFunction
  /\ len \in [Procs -> Lens \cup {0}]
  /\ got \in [Procs -> Seq(Byte)]
  /\ seen \in [Procs -> [pos : Positions \cup {"none"}, val : 0..BUF_LEN]]
  /\ signalled \subseteq Procs

\* A process in a critical section holds the mutex.
Excluded == \A p \in Procs : pc[p] \in Held => lock = p

\* MutexHeld, in a driver with critical sections at some other labels.
HeldIn(Others) == \A p \in Procs : pc[p] \in Held \cup Others <=> lock = p

\* A reset is under way exactly when the holder of the mutex is in one.
ResetLabels == {"read_reset", "write_reset"}
ResetHeld ==
  /\ \A p \in Procs : pc[p] \in ResetLabels => reset_left # {}
  /\ reset_left # {} => \E p \in Procs : pc[p] \in ResetLabels

\* The positions are ordered outside a reset, and a position a reset has
\* already stored is 0.
ResetZero ==
  /\ reset_left = {} => read_pos <= write_pos
  /\ reset_left = {"write_pos"} => read_pos = 0
  /\ reset_left = {"read_pos"} => write_pos = 0

\* A process between the two loads of a has_data() is evaluating the
\* condition; one on the read queue is in wait_event_interruptible, past the
\* first evaluation.
SeenInCond == \A p \in Procs : seen[p] # NotSeen => pc[p] \in CondLabels
QueuedWaits == \A p \in read_queue : pc[p] \in {"prepare", "cond", "asleep"}

\* What a process on the read queue may have seen of unread data without
\* knowing it: the condition is about to be false, or was, and yet there is
\* data.  A writer that has put it there has not called wake_up yet.
Unseen(p) ==
  \/ pc[p] = "asleep"
  \/ pc[p] = "cond" /\ seen[p] # NotSeen /\ seen[p].pos = "read_pos"
       /\ write_pos <= seen[p].val
  \/ pc[p] = "cond" /\ seen[p] # NotSeen /\ seen[p].pos # "read_pos"
       /\ write_pos > seen[p].val

WakeInv ==
  \A p \in read_queue :
    reset_left = {} /\ has_data /\ Unseen(p) => Publishing

DevInv ==
  /\ DevType
  /\ Excluded
  /\ ResetHeld
  /\ ResetZero
  /\ CopyInBounds
  /\ SeenInCond
  /\ QueuedWaits
  /\ WakeInv

IInv == DevInv /\ TypeOK /\ MutexHeld

-----------------------------------------------------------------------------
(* Type correctness                                                        *)

\* "if (bytes > len) bytes = len;" never asks for more than there is.
LEMMA ClampBounds ==
  ASSUME NEW avail \in Nat, NEW n \in Nat
  PROVE  Clamp(avail, n) \in Nat /\ Clamp(avail, n) <= avail
  BY DEF Clamp

\* dev_write changes bytes of the buffer, and nothing else of it.
LEMMA CopyInType ==
  ASSUME DevType, NEW n \in Nat, write_pos + n <= BUF_LEN,
         NEW data \in [0..n-1 -> Byte]
  PROVE  CopyIn(data, n) \in [0..BUF_LEN-1 -> Byte]
  <1> SUFFICES ASSUME NEW i \in 0..BUF_LEN-1
               PROVE  CopyIn(data, n)[i] \in Byte
    BY DEF CopyIn
  <1>1. CASE i >= write_pos /\ i < write_pos + n
    <2>1. i - write_pos \in 0..n-1
      BY <1>1, DevAssumption DEF DevType
    <2> QED  BY <1>1, <2>1 DEF CopyIn
  <1>2. CASE ~(i >= write_pos /\ i < write_pos + n)
    BY <1>2 DEF CopyIn, DevType
  <1> QED  BY <1>1, <1>2

\* What dev_read copies out is a sequence of bytes of the buffer.
LEMMA CopyOutType ==
  ASSUME DevType, NEW n \in Int, read_pos + n <= BUF_LEN
  PROVE  [i \in 1..n |-> buffer[read_pos + i - 1]] \in Seq(Byte)
  <1> DEFINE s == [i \in 1..n |-> buffer[read_pos + i - 1]]
  <1>1. \A i \in 1..n : read_pos + i - 1 \in 0..BUF_LEN-1
    BY DevAssumption DEF DevType
  <1>2. \A i \in 1..n : buffer[read_pos + i - 1] \in Byte
    BY <1>1 DEF DevType
  <1>3. CASE n \in Nat
    BY <1>2, <1>3
  <1>4. CASE n < 0
    <2>1. 1..n = 1..0  BY <1>4
    <2>2. s \in [1..0 -> Byte]  BY <1>2, <2>1
    <2> QED  BY <2>2
  <1> QED  BY <1>3, <1>4

LEMMA TypeInit == Init => TypeOK
  BY DevAssumption DEF Init, TypeOK, NotSeen, Labels, Positions

LEMMA LenType ==
  ASSUME DevType, NEW p \in Procs
  PROVE  len[p] \in Nat
  <1>1. len[p] \in Lens \cup {0}  BY DEF DevType
  <1>2. CASE len[p] \in Lens
    <2>1. Lens \subseteq Nat  BY DevAssumption
    <2> QED  BY <1>2, <2>1
  <1>3. CASE len[p] = 0
    BY <1>3
  <1> QED  BY <1>1, <1>2, <1>3

\* A process goes from one label of this driver to another.
LEMMA LabelMoves ==
  ASSUME NEW p \in Procs, User(p) \/ Acquire(p) \/ Run(p) \/ WaitSpurious(p)
  PROVE  \E label \in Labels : pc' = [pc EXCEPT ![p] = label] \/ pc' = pc
  <1> USE DEF Goto, Return, Labels, CountLabels, ReadHeld, WriteHeld,
      ReadLabels, WriteLabels, WaitLabels, CondLabels
  <1>1. CASE User(p)
    BY <1>1 DEF User, CallOpen, CallClose, CallRead, CallWrite, Signal
  <1>2. CASE Acquire(p)
    BY <1>2 DEF Acquire, OpenLock, mutex_lock, ReleaseLock, ReadLock,
       WriteLock
  <1>3. CASE OpenCount(p) \/ ReleaseCount(p)
    BY <1>3 DEF OpenCount, ReleaseCount
  <1>4. CASE dev_read(p)
    BY <1>4 DEF dev_read, ReadInterrupted, Interrupted, ReadCheck, ReadCopy,
       ReadFault, ReadReset, StoreZero, ReadUnlock, ReadWake
  <1>5. CASE wait_event(p)
    BY <1>5 DEF wait_event, CondLoad, CondTrue, CondFalse, CondFalseSignal,
       WaitPrepare, WaitWoken
  <1>6. CASE dev_write(p)
    BY <1>6 DEF dev_write, WriteInterrupted, Interrupted, WriteCheck,
       WriteReset, StoreZero, WriteCopy, WriteFault, WriteUnlock, WriteWake
  <1>7. CASE WaitSpurious(p)
    BY <1>7 DEF WaitSpurious
  <1> QED  BY <1>1, <1>2, <1>3, <1>4, <1>5, <1>6, <1>7 DEF Run

LEMMA LabelStep ==
  ASSUME NEW All, Labels \subseteq All, pc \in [Procs -> All], [Next]_vars
  PROVE  pc' \in [Procs -> All]
  <1>1. pc' = pc \/ \E p \in Procs, label \in Labels :
                       pc' = [pc EXCEPT ![p] = label]
    BY LabelMoves DEF Next, vars
  <1> QED  BY <1>1

LEMMA PcStep ==
  ASSUME PcIsFunction, [Next]_vars
  PROVE  PcIsFunction'
  <1>1. pc' = pc \/ \E p \in Procs, label \in Labels :
                       pc' = [pc EXCEPT ![p] = label]
    BY LabelMoves DEF Next, vars
  <1>2. CASE pc' = pc
    BY <1>2 DEF PcIsFunction
  <1>3. ASSUME NEW p \in Procs, NEW label \in Labels,
               pc' = [pc EXCEPT ![p] = label]
        PROVE  PcIsFunction'
    BY <1>3 DEF PcIsFunction
  <1> QED  BY <1>1, <1>2, <1>3

\* The bytes dev_read copies, and its new position, are within the buffer.
LEMMA ReadCopyType ==
  ASSUME DevType, NEW p \in Procs, ReadCopy(p)
  PROVE  DevType'
  <1> DEFINE n == Clamp(write_pos - read_pos, len[p])
             s == [i \in 1..n |-> buffer[read_pos + i - 1]]
  <1>1. len[p] \in Nat
    BY LenType
  <1>2. n \in Int /\ read_pos + n \in 0..BUF_LEN
    BY <1>1, DevAssumption DEF Clamp, DevType
  <1>3. s \in Seq(Byte)
    BY <1>2, CopyOutType
  <1>4. got' = [got EXCEPT ![p] = s] /\ read_pos' = read_pos + n
    BY DEF ReadCopy
  <1>5. got' \in [Procs -> Seq(Byte)] /\ read_pos' \in 0..BUF_LEN
    BY <1>2, <1>3, <1>4 DEF DevType
  <1>6. PcIsFunction'
    BY PcStep DEF DevType, Next, Run, dev_read
  <1>7. reset_left' \subseteq Positions
    BY DEF ReadCopy, DevType, Positions
  <1> QED  BY <1>5, <1>6, <1>7 DEF ReadCopy, DevType, countVars

\* The bytes dev_write copies are within the buffer.
LEMMA WriteBounds ==
  ASSUME DevType, NEW p \in Procs
  PROVE  LET n == Clamp(BUF_LEN - write_pos, len[p])
         IN  n \in Nat /\ write_pos + n <= BUF_LEN
  <1>1. BUF_LEN - write_pos \in Nat /\ len[p] \in Nat
    BY LenType, DevAssumption DEF DevType
  <1>2. BUF_LEN \in Nat /\ write_pos \in Nat
    BY DevAssumption DEF DevType
  <1> QED  BY <1>1, <1>2, ClampBounds

LEMMA WriteCopyType ==
  ASSUME DevType, NEW p \in Procs, WriteCopy(p)
  PROVE  DevType'
  <1> DEFINE n == Clamp(BUF_LEN - write_pos, len[p])
  <1>1. n \in Nat /\ write_pos + n <= BUF_LEN
    BY WriteBounds
  <1>2. PICK data \in [0..n-1 -> Byte] : buffer' = CopyIn(data, n)
    BY DEF WriteCopy
  <1>3. buffer' \in [0..BUF_LEN-1 -> Byte]
    BY <1>1, <1>2, CopyInType
  <1>4. write_pos' \in 0..BUF_LEN
    BY <1>1, DevAssumption DEF WriteCopy, DevType
  <1>5. PcIsFunction'
    BY PcStep DEF DevType, Next, Run, dev_write
  <1> QED  BY <1>3, <1>4, <1>5 DEF WriteCopy, DevType, countVars, callVars

LEMMA WriteFaultType ==
  ASSUME DevType, NEW p \in Procs, WriteFault(p)
  PROVE  DevType'
  <1> DEFINE n == Clamp(BUF_LEN - write_pos, len[p])
  <1>1. n \in Nat /\ write_pos + n <= BUF_LEN
    BY WriteBounds
  <1>2. PICK data \in [0..n-1 -> Byte] : buffer' = CopyIn(data, n)
    BY DEF WriteFault
  <1>3. buffer' \in [0..BUF_LEN-1 -> Byte]
    BY <1>1, <1>2, CopyInType
  <1>4. PcIsFunction'
    BY PcStep DEF DevType, Next, Run, dev_write
  <1>5. len' \in [Procs -> Lens \cup {0}] /\ got' \in [Procs -> Seq(Byte)]
    BY DEF WriteFault, Return, DevType
  <1> QED  BY <1>3, <1>4, <1>5 DEF WriteFault, Return, DevType, countVars

\* Every step keeps the types.
LEMMA TypeStep == DevType /\ [Next]_vars => DevType'
  <1> SUFFICES ASSUME DevType, [Next]_vars PROVE DevType'
    OBVIOUS
  <1>0. PcIsFunction'
    BY PcStep DEF DevType
  <1> USE <1>0, DevAssumption DEF DevType, Return, CondLabels, Positions, NotSeen, posVars, countVars, callVars
  <1>1. CASE UNCHANGED vars
    BY <1>1 DEF vars, posVars, countVars, callVars
  <1>2. ASSUME NEW p \in Procs, User(p)
        PROVE  DevType'
    <2>1. CASE CallOpen(p)
      BY <2>1 DEF CallOpen
    <2>2. CASE CallClose(p)
      BY <2>2 DEF CallClose
    <2>3. CASE CallRead(p)
      BY <2>3 DEF CallRead
    <2>4. CASE CallWrite(p)
      BY <2>4 DEF CallWrite
    <2>5. CASE Signal(p)
      BY <2>5 DEF Signal
    <2> QED  BY <1>2, <2>1, <2>2, <2>3, <2>4, <2>5 DEF User
  <1>3. ASSUME NEW p \in Procs, Acquire(p)
        PROVE  DevType'
    BY <1>3 DEF Acquire, OpenLock, mutex_lock, ReleaseLock, ReadLock,
       WriteLock
  <1>4. ASSUME NEW p \in Procs, OpenCount(p) \/ ReleaseCount(p)
        PROVE  DevType'
    <2>1. CASE OpenCount(p)
      BY <2>1 DEF OpenCount
    <2>2. CASE ReleaseCount(p)
      BY <2>2 DEF ReleaseCount
    <2> QED  BY <1>4, <2>1, <2>2
  <1>5. ASSUME NEW p \in Procs, dev_read(p)
        PROVE  DevType'
    <2>1. CASE ReadInterrupted(p)
      BY <2>1 DEF ReadInterrupted, Interrupted
    <2>2. CASE ReadCheck(p)
      BY <2>2 DEF ReadCheck
    <2>3. CASE ReadCopy(p)
      BY <2>3, ReadCopyType
    <2>4. CASE ReadFault(p)
      BY <2>4 DEF ReadFault
    <2>5. CASE ReadReset(p)
      <3>1. read_pos' \in {0, read_pos} /\ write_pos' \in {0, write_pos}
        BY <2>5 DEF ReadReset, StoreZero
      <3>2. read_pos' \in 0..BUF_LEN /\ write_pos' \in 0..BUF_LEN
        BY <3>1
      <3>3. reset_left' \subseteq Positions
        BY <2>5 DEF ReadReset, StoreZero
      <3> QED  BY <2>5, <3>2, <3>3, SMTT(30) DEF ReadReset, StoreZero
    <2>6. CASE ReadUnlock(p)
      BY <2>6 DEF ReadUnlock
    <2>7. CASE ReadWake(p)
      BY <2>7 DEF ReadWake
    <2> QED  BY <1>5, <2>1, <2>2, <2>3, <2>4, <2>5, <2>6, <2>7 DEF dev_read
  <1>6. ASSUME NEW p \in Procs, wait_event(p)
        PROVE  DevType'
    <2>1. CASE CondLoad(p)
      BY <2>1 DEF CondLoad
    <2>2. CASE CondTrue(p)
      BY <2>2 DEF CondTrue
    <2>3. CASE CondFalse(p)
      BY <2>3 DEF CondFalse
    <2>4. CASE CondFalseSignal(p)
      BY <2>4 DEF CondFalseSignal
    <2>5. CASE WaitPrepare(p)
      BY <2>5 DEF WaitPrepare
    <2>6. CASE WaitWoken(p)
      BY <2>6 DEF WaitWoken
    <2> QED  BY <1>6, <2>1, <2>2, <2>3, <2>4, <2>5, <2>6 DEF wait_event
  <1>7. ASSUME NEW p \in Procs, dev_write(p)
        PROVE  DevType'
    <2>1. CASE WriteInterrupted(p)
      BY <2>1 DEF WriteInterrupted, Interrupted
    <2>2. CASE WriteCheck(p)
      BY <2>2 DEF WriteCheck
    <2>3. CASE WriteReset(p)
      BY <2>3 DEF WriteReset, StoreZero
    <2>4. CASE WriteCopy(p)
      BY <2>4, WriteCopyType
    <2>5. CASE WriteFault(p)
      BY <2>5, WriteFaultType
    <2>6. CASE WriteUnlock(p)
      BY <2>6 DEF WriteUnlock
    <2>7. CASE WriteWake(p)
      BY <2>7 DEF WriteWake, WakeReaders
    <2> QED  BY <1>7, <2>1, <2>2, <2>3, <2>4, <2>5, <2>6, <2>7 DEF dev_write
  <1>8. ASSUME NEW p \in Procs, WaitSpurious(p)
        PROVE  DevType'
    BY <1>8 DEF WaitSpurious
  <1> QED  BY <1>1, <1>2, <1>3, <1>4, <1>5, <1>6, <1>7, <1>8 DEF Next, Run

-----------------------------------------------------------------------------
(* The inductive invariant, a conjunct at a time                           *)

\* A reset has both stores before it, one, or none; a position it has stored
\* is 0.
LEMMA StoreZeroStep ==
  ASSUME DevType, ResetZero, NEW p \in Procs, NEW from, NEW to,
         StoreZero(p, from, to)
  PROVE  \/ /\ reset_left' = {} /\ read_pos' = 0 /\ write_pos' = 0
            /\ pc' = [pc EXCEPT ![p] = to]
         \/ /\ reset_left' = {"read_pos"} /\ write_pos' = 0
            /\ pc' = pc
         \/ /\ reset_left' = {"write_pos"} /\ read_pos' = 0
            /\ pc' = pc
  <1>1. PICK f \in reset_left :
          /\ read_pos'   = IF f = "read_pos"  THEN 0 ELSE read_pos
          /\ write_pos'  = IF f = "write_pos" THEN 0 ELSE write_pos
          /\ reset_left' = reset_left \ {f}
          /\ pc' = [pc EXCEPT ![p] = IF reset_left' = {} THEN to ELSE from]
    BY DEF StoreZero, Goto
  <1>2. pc[p] = from /\ PcIsFunction
    BY DEF StoreZero, DevType
  <1>3. reset_left' # {} => pc' = pc
    BY <1>1, <1>2 DEF PcIsFunction
  <1>4. reset_left = Positions \/ reset_left = {"read_pos"}
          \/ reset_left = {"write_pos"}
    <2>1. reset_left \subseteq {"read_pos", "write_pos"} /\ reset_left # {}
      BY <1>1 DEF DevType, Positions
    <2>2. CASE "read_pos" \notin reset_left
      <3>1. reset_left = {"write_pos"}  BY <2>1, <2>2
      <3> QED  BY <3>1
    <2>3. CASE "write_pos" \notin reset_left
      <3>1. reset_left = {"read_pos"}  BY <2>1, <2>3
      <3> QED  BY <3>1
    <2>4. CASE "read_pos" \in reset_left /\ "write_pos" \in reset_left
      <3>1. reset_left = {"read_pos", "write_pos"}  BY <2>1, <2>4
      <3> QED  BY <3>1 DEF Positions
    <2> QED  BY <2>2, <2>3, <2>4
  <1>5. f = "read_pos" \/ f = "write_pos"
    BY <1>1, <1>4 DEF Positions
  <1>6. CASE reset_left = Positions /\ f = "read_pos"
    <2>1. reset_left' = {"write_pos"}  BY <1>1, <1>6 DEF Positions
    <2> QED  BY <1>1, <1>3, <1>6, <2>1
  <1>7. CASE reset_left = Positions /\ f = "write_pos"
    <2>1. reset_left' = {"read_pos"}  BY <1>1, <1>7 DEF Positions
    <2> QED  BY <1>1, <1>3, <1>7, <2>1
  <1>8. CASE reset_left = {"read_pos"}
    <2>1. f = "read_pos" /\ reset_left' = {}  BY <1>1, <1>8
    <2> QED  BY <1>1, <1>8, <2>1 DEF ResetZero
  <1>9. CASE reset_left = {"write_pos"}
    <2>1. f = "write_pos" /\ reset_left' = {}  BY <1>1, <1>9
    <2> QED  BY <1>1, <1>9, <2>1 DEF ResetZero
  <1> QED  BY <1>4, <1>5, <1>6, <1>7, <1>8, <1>9

LEMMA ResetStep ==
  ASSUME DevType, ResetZero, NEW p \in Procs, ReadReset(p) \/ WriteReset(p)
  PROVE  \/ /\ reset_left' = {} /\ read_pos' = 0 /\ write_pos' = 0
            /\ pc' = [pc EXCEPT ![p] = IF pc[p] = "read_reset"
                                         THEN "read_unlock" ELSE "write_copy"]
         \/ /\ reset_left' = {"read_pos"} /\ write_pos' = 0
            /\ pc' = pc
         \/ /\ reset_left' = {"write_pos"} /\ read_pos' = 0
            /\ pc' = pc
  <1>1. CASE ReadReset(p)
    <2>1. StoreZero(p, "read_reset", "read_unlock") /\ pc[p] = "read_reset"
      BY <1>1 DEF ReadReset, StoreZero
    <2> QED  BY <2>1, StoreZeroStep
  <1>2. CASE WriteReset(p)
    <2>1. StoreZero(p, "write_reset", "write_copy") /\ pc[p] = "write_reset"
      BY <1>2 DEF WriteReset, StoreZero
    <2> QED  BY <2>1, StoreZeroStep
  <1> QED  BY <1>1, <1>2

LEMMA ResetBegins ==
  Positions # {} /\ Positions # {"read_pos"} /\ Positions # {"write_pos"}
  BY DEF Positions

\* A read moves read_pos up to write_pos at the most, and then resets.
LEMMA ReadCopyStep ==
  ASSUME DevType, CopyInBounds, NEW p \in Procs, ReadCopy(p)
  PROVE  /\ read_pos' \in Nat /\ read_pos <= read_pos' /\ write_pos' = write_pos
         /\ \/ read_pos' < write_pos' /\ reset_left' = reset_left
            \/ reset_left' = Positions
  <1> DEFINE n == Clamp(write_pos - read_pos, len[p])
  <1>1. len[p] \in Nat /\ read_pos \in Nat /\ write_pos \in Nat
    BY LenType, DevAssumption DEF DevType
  <1>2. write_pos - read_pos \in Nat
    BY <1>1 DEF ReadCopy, CopyInBounds, has_data
  <1>3. n \in Nat
    BY <1>1, <1>2, ClampBounds
  <1> QED  BY <1>1, <1>3 DEF ReadCopy

\* Nobody resets while a handler is at its copy.
LEMMA NoResetAtCopy ==
  ASSUME Excluded, ResetHeld, NEW p \in Procs, pc[p] = "read_copy"
  PROVE  reset_left = {}
  <1> SUFFICES ASSUME NEW q \in Procs, pc[q] \in ResetLabels PROVE FALSE
    BY DEF ResetHeld
  <1> QED  BY DEF Excluded, Held, ReadHeld, WriteHeld, ResetLabels

LEMMA ResetKeepsZero ==
  ASSUME DevType, ResetZero, NEW p \in Procs, ReadReset(p) \/ WriteReset(p)
  PROVE  ResetZero'
  BY ResetStep DEF ResetZero

LEMMA ReadCopyKeepsZero ==
  ASSUME DevType, Excluded, ResetHeld, CopyInBounds, NEW p \in Procs,
         ReadCopy(p)
  PROVE  ResetZero'
  <1>1. reset_left = {}
    BY NoResetAtCopy DEF ReadCopy
  <1>2. write_pos \in Nat
    BY DEF DevType
  <1> QED  BY <1>1, <1>2, ReadCopyStep, ResetBegins DEF ResetZero

\* After a reset there is space: BUF_LEN is not 0.
LEMMA WriteResetMakesSpace ==
  ASSUME DevType, Excluded, ResetZero, NEW p \in Procs, WriteReset(p)
  PROVE  CopyInBounds'
  <1>1. pc[p] = "write_reset" /\ lock = p
    BY DEF WriteReset, StoreZero, Excluded, Held, WriteHeld
  <1>2. \A q \in Procs \ {p} : pc[q] # "read_copy" /\ pc[q] # "write_copy"
    BY <1>1 DEF Excluded, Held, WriteHeld, ReadHeld
  <1>3. PcIsFunction /\ BUF_LEN > 0
    BY DevAssumption DEF DevType
  <1>4. CASE reset_left' = {} /\ write_pos' = 0
               /\ pc' = [pc EXCEPT ![p] = "write_copy"]
    BY <1>2, <1>3, <1>4 DEF PcIsFunction, CopyInBounds, has_space
  <1>5. CASE pc' = pc
    BY <1>1, <1>2, <1>5 DEF CopyInBounds
  <1> QED  BY <1>1, <1>4, <1>5, ResetStep

\* A reset leaves no data behind, and so nothing to wake up for.
LEMMA ResetKeepsWake ==
  ASSUME DevType, ResetZero, NEW p \in Procs, ReadReset(p) \/ WriteReset(p)
  PROVE  WakeInv'
  <1>1. reset_left' # {} \/ ~has_data'
    BY ResetStep DEF has_data
  <1> QED  BY <1>1 DEF WakeInv

\* The condition is false, and there is data: it came after the first load,
\* from a writer that is still to wake the queue.
LEMMA CondFalseKeepsWake ==
  ASSUME DevType, QueuedWaits, WakeInv, NEW p \in Procs, CondFalse(p)
  PROVE  WakeInv'
  <1> SUFFICES ASSUME NEW q \in read_queue, reset_left = {}, has_data, Unseen(q)'
               PROVE  Publishing'
    BY DEF WakeInv, CondFalse, posVars, has_data
  <1>1. read_pos \in Int /\ write_pos \in Int /\ seen[p].val \in Int
    BY DEF DevType
  <1>2. Unseen(q)
    <2>1. CASE q # p
      BY <2>1 DEF CondFalse, Goto, Unseen, posVars, DevType, PcIsFunction
    <2>2. CASE q = p
      <3>1. pc[p] = "cond" /\ seen[p] # NotSeen /\ ~CondValue(p)
        BY <2>2 DEF CondFalse, QueuedWaits
      <3> QED  BY <1>1, <2>2, <3>1 DEF CondValue, Unseen, has_data
    <2> QED  BY <2>1, <2>2
  <1>3. Publishing
    BY <1>2 DEF WakeInv
  <1> QED  BY <1>3 DEF Publishing, CondFalse, Goto, DevType,
     PcIsFunction

\* Every handler unlocks what it locked, on every path.
LEMMA MutexStep ==
  ASSUME DevType, NEW Others, Others \cap Labels = {}, HeldIn(Others),
         [Next]_vars
  PROVE  HeldIn(Others)'
  <1> \A label \in
           {"closed", "open", "open_lock", "release_lock", "read_lock",
            "read_wake", "write_lock", "write_wake", "cond_first", "cond",
            "cond_signal", "prepare", "asleep"} \cup Held : label \notin Others
    BY DEF Labels, Held, ReadLabels, WriteLabels, WaitLabels, CondLabels
  <1> USE DevAssumption DEF DevType, PcIsFunction, HeldIn, Goto, Return, Held,
     CountLabels, ReadHeld, WriteHeld, CondLabels
  <1>1. CASE UNCHANGED vars
    BY <1>1 DEF vars, posVars, countVars, callVars
  <1>2. ASSUME NEW p \in Procs, User(p)
        PROVE  HeldIn(Others)'
    BY <1>2 DEF User, CallOpen, CallClose, CallRead, CallWrite, Signal
  <1>3. ASSUME NEW p \in Procs, Acquire(p)
        PROVE  HeldIn(Others)'
    BY <1>3 DEF Acquire, OpenLock, mutex_lock, ReleaseLock, ReadLock,
       WriteLock
  <1>4. ASSUME NEW p \in Procs, OpenCount(p) \/ ReleaseCount(p)
        PROVE  HeldIn(Others)'
    BY <1>4 DEF OpenCount, ReleaseCount
  <1>5. ASSUME NEW p \in Procs, dev_read(p)
        PROVE  HeldIn(Others)'
    <2>1. CASE ReadInterrupted(p)
      BY <2>1 DEF ReadInterrupted, Interrupted
    <2>2. CASE ReadCheck(p)
      BY <2>2 DEF ReadCheck
    <2>3. CASE ReadCopy(p)
      BY <2>3 DEF ReadCopy
    <2>4. CASE ReadFault(p)
      BY <2>4 DEF ReadFault
    <2>5. CASE ReadReset(p)
      BY <2>5 DEF ReadReset, StoreZero
    <2>6. CASE ReadUnlock(p)
      BY <2>6 DEF ReadUnlock
    <2>7. CASE ReadWake(p)
      BY <2>7 DEF ReadWake
    <2> QED  BY <1>5, <2>1, <2>2, <2>3, <2>4, <2>5, <2>6, <2>7 DEF dev_read
  <1>6. ASSUME NEW p \in Procs, wait_event(p)
        PROVE  HeldIn(Others)'
    BY <1>6 DEF wait_event, CondLoad, CondTrue, CondFalse, CondFalseSignal,
       WaitPrepare, WaitWoken
  <1>7. ASSUME NEW p \in Procs, dev_write(p)
        PROVE  HeldIn(Others)'
    <2>1. CASE WriteInterrupted(p)
      BY <2>1 DEF WriteInterrupted, Interrupted
    <2>2. CASE WriteCheck(p)
      BY <2>2 DEF WriteCheck
    <2>3. CASE WriteReset(p)
      BY <2>3 DEF WriteReset, StoreZero
    <2>4. CASE WriteCopy(p)
      BY <2>4 DEF WriteCopy
    <2>5. CASE WriteFault(p)
      BY <2>5 DEF WriteFault
    <2>6. CASE WriteUnlock(p)
      BY <2>6 DEF WriteUnlock
    <2>7. CASE WriteWake(p)
      BY <2>7 DEF WriteWake, WakeReaders
    <2> QED  BY <1>7, <2>1, <2>2, <2>3, <2>4, <2>5, <2>6, <2>7 DEF dev_write
  <1>8. ASSUME NEW p \in Procs, WaitSpurious(p)
        PROVE  HeldIn(Others)'
    BY <1>8 DEF WaitSpurious
  <1> QED  BY <1>1, <1>2, <1>3, <1>4, <1>5, <1>6, <1>7, <1>8 DEF Next, Run

\* Only the holder of the mutex resets the positions.
LEMMA ResetHeldStep == DevInv /\ [Next]_vars => ResetHeld'
  <1> SUFFICES ASSUME DevInv, [Next]_vars PROVE ResetHeld'
    OBVIOUS
  <1> USE DevAssumption DEF DevInv, DevType, PcIsFunction, Excluded, Goto, Return, Held,
     CountLabels, ReadHeld, WriteHeld, CondLabels, ResetHeld, ResetLabels,
     Positions, posVars
  <1>1. CASE UNCHANGED vars
    BY <1>1 DEF vars, posVars, countVars, callVars
  <1>2. ASSUME NEW p \in Procs, User(p)
        PROVE  ResetHeld'
    BY <1>2 DEF User, CallOpen, CallClose, CallRead, CallWrite, Signal
  <1>3. ASSUME NEW p \in Procs, Acquire(p)
        PROVE  ResetHeld'
    BY <1>3 DEF Acquire, OpenLock, mutex_lock, ReleaseLock, ReadLock,
       WriteLock
  <1>4. ASSUME NEW p \in Procs, OpenCount(p) \/ ReleaseCount(p)
        PROVE  ResetHeld'
    BY <1>4 DEF OpenCount, ReleaseCount
  <1>5. ASSUME NEW p \in Procs, dev_read(p)
        PROVE  ResetHeld'
    <2>1. CASE ReadInterrupted(p)
      BY <2>1 DEF ReadInterrupted, Interrupted
    <2>2. CASE ReadCheck(p)
      BY <2>2 DEF ReadCheck
    <2>3. CASE ReadCopy(p)
      BY <2>3 DEF ReadCopy
    <2>4. CASE ReadFault(p)
      BY <2>4 DEF ReadFault
    <2>5. CASE ReadReset(p)
      BY <2>5 DEF ReadReset, StoreZero
    <2>6. CASE ReadUnlock(p)
      BY <2>6 DEF ReadUnlock
    <2>7. CASE ReadWake(p)
      BY <2>7 DEF ReadWake
    <2> QED  BY <1>5, <2>1, <2>2, <2>3, <2>4, <2>5, <2>6, <2>7 DEF dev_read
  <1>6. ASSUME NEW p \in Procs, wait_event(p)
        PROVE  ResetHeld'
    BY <1>6 DEF wait_event, CondLoad, CondTrue, CondFalse, CondFalseSignal,
       WaitPrepare, WaitWoken
  <1>7. ASSUME NEW p \in Procs, dev_write(p)
        PROVE  ResetHeld'
    <2>1. CASE WriteInterrupted(p)
      BY <2>1 DEF WriteInterrupted, Interrupted
    <2>2. CASE WriteCheck(p)
      BY <2>2 DEF WriteCheck
    <2>3. CASE WriteReset(p)
      BY <2>3 DEF WriteReset, StoreZero
    <2>4. CASE WriteCopy(p)
      BY <2>4 DEF WriteCopy
    <2>5. CASE WriteFault(p)
      BY <2>5 DEF WriteFault
    <2>6. CASE WriteUnlock(p)
      BY <2>6 DEF WriteUnlock
    <2>7. CASE WriteWake(p)
      BY <2>7 DEF WriteWake, WakeReaders
    <2> QED  BY <1>7, <2>1, <2>2, <2>3, <2>4, <2>5, <2>6, <2>7 DEF dev_write
  <1>8. ASSUME NEW p \in Procs, WaitSpurious(p)
        PROVE  ResetHeld'
    BY <1>8 DEF WaitSpurious
  <1> QED  BY <1>1, <1>2, <1>3, <1>4, <1>5, <1>6, <1>7, <1>8 DEF Next, Run

\* A reset leaves both positions at 0, in whichever order it stores them.
LEMMA ResetZeroStep == DevInv /\ [Next]_vars => ResetZero'
  <1> SUFFICES ASSUME DevInv, [Next]_vars PROVE ResetZero'
    OBVIOUS
  <1> USE DevAssumption DEF DevInv, DevType, PcIsFunction, Excluded, Goto, Return, Held,
     CountLabels, ReadHeld, WriteHeld, CondLabels, ResetHeld, ResetLabels,
     ResetZero, CopyInBounds, has_data, has_space, posVars
  <1>1. CASE UNCHANGED vars
    BY <1>1 DEF vars, posVars, countVars, callVars
  <1>2. ASSUME NEW p \in Procs, User(p)
        PROVE  ResetZero'
    BY <1>2 DEF User, CallOpen, CallClose, CallRead, CallWrite, Signal
  <1>3. ASSUME NEW p \in Procs, Acquire(p)
        PROVE  ResetZero'
    BY <1>3 DEF Acquire, OpenLock, mutex_lock, ReleaseLock, ReadLock,
       WriteLock
  <1>4. ASSUME NEW p \in Procs, OpenCount(p) \/ ReleaseCount(p)
        PROVE  ResetZero'
    BY <1>4 DEF OpenCount, ReleaseCount
  <1>5. ASSUME NEW p \in Procs, dev_read(p)
        PROVE  ResetZero'
    <2>1. CASE ReadInterrupted(p)
      BY <2>1 DEF ReadInterrupted, Interrupted
    <2>2. CASE ReadCheck(p)
      BY <2>2 DEF ReadCheck
    <2>3. CASE ReadCopy(p)
      BY <2>3, ReadCopyKeepsZero
    <2>4. CASE ReadFault(p)
      BY <2>4 DEF ReadFault
    <2>5. CASE ReadReset(p)
      BY <2>5, ResetKeepsZero
    <2>6. CASE ReadUnlock(p)
      BY <2>6 DEF ReadUnlock
    <2>7. CASE ReadWake(p)
      BY <2>7 DEF ReadWake
    <2> QED  BY <1>5, <2>1, <2>2, <2>3, <2>4, <2>5, <2>6, <2>7 DEF dev_read
  <1>6. ASSUME NEW p \in Procs, wait_event(p)
        PROVE  ResetZero'
    BY <1>6 DEF wait_event, CondLoad, CondTrue, CondFalse, CondFalseSignal,
       WaitPrepare, WaitWoken
  <1>7. ASSUME NEW p \in Procs, dev_write(p)
        PROVE  ResetZero'
    <2>1. CASE WriteInterrupted(p)
      BY <2>1 DEF WriteInterrupted, Interrupted
    <2>2. CASE WriteCheck(p)
      BY <2>2, ResetBegins DEF WriteCheck
    <2>3. CASE WriteReset(p)
      BY <2>3, ResetKeepsZero
    <2>4. CASE WriteCopy(p)
      <3>1. write_pos <= write_pos' /\ write_pos' \in Nat
        BY <2>4, WriteBounds DEF WriteCopy
      <3>2. read_pos' = read_pos /\ reset_left' = reset_left /\ reset_left = {}
        BY <2>4 DEF WriteCopy
      <3>3. read_pos <= write_pos
        BY <3>2
      <3>4. reset_left' = {}
        BY <3>2
      <3> QED  BY <3>1, <3>2, <3>3, <3>4
    <2>5. CASE WriteFault(p)
      BY <2>5 DEF WriteFault
    <2>6. CASE WriteUnlock(p)
      BY <2>6 DEF WriteUnlock
    <2>7. CASE WriteWake(p)
      BY <2>7 DEF WriteWake, WakeReaders
    <2> QED  BY <1>7, <2>1, <2>2, <2>3, <2>4, <2>5, <2>6, <2>7 DEF dev_write
  <1>8. ASSUME NEW p \in Procs, WaitSpurious(p)
        PROVE  ResetZero'
    BY <1>8 DEF WaitSpurious
  <1> QED  BY <1>1, <1>2, <1>3, <1>4, <1>5, <1>6, <1>7, <1>8 DEF Next, Run

\* What a handler has checked under the mutex stays true until it copies.
LEMMA CopyStep == DevInv /\ [Next]_vars => CopyInBounds'
  <1> SUFFICES ASSUME DevInv, [Next]_vars PROVE CopyInBounds'
    OBVIOUS
  <1> USE DevAssumption DEF DevInv, DevType, PcIsFunction, Excluded, Goto, Return, Held,
     CountLabels, ReadHeld, WriteHeld, CondLabels, ResetHeld, ResetLabels,
     ResetZero, CopyInBounds, has_data, has_space, Positions, posVars, Clamp
  <1>1. CASE UNCHANGED vars
    BY <1>1 DEF vars, posVars, countVars, callVars
  <1>2. ASSUME NEW p \in Procs, User(p)
        PROVE  CopyInBounds'
    BY <1>2 DEF User, CallOpen, CallClose, CallRead, CallWrite, Signal
  <1>3. ASSUME NEW p \in Procs, Acquire(p)
        PROVE  CopyInBounds'
    BY <1>3 DEF Acquire, OpenLock, mutex_lock, ReleaseLock, ReadLock,
       WriteLock
  <1>4. ASSUME NEW p \in Procs, OpenCount(p) \/ ReleaseCount(p)
        PROVE  CopyInBounds'
    BY <1>4 DEF OpenCount, ReleaseCount
  <1>5. ASSUME NEW p \in Procs, dev_read(p)
        PROVE  CopyInBounds'
    <2>1. CASE ReadInterrupted(p)
      BY <2>1 DEF ReadInterrupted, Interrupted
    <2>2. CASE ReadCheck(p)
      BY <2>2 DEF ReadCheck
    <2>3. CASE ReadCopy(p)
      BY <2>3 DEF ReadCopy
    <2>4. CASE ReadFault(p)
      BY <2>4 DEF ReadFault
    <2>5. CASE ReadReset(p)
      BY <2>5 DEF ReadReset, StoreZero
    <2>6. CASE ReadUnlock(p)
      BY <2>6 DEF ReadUnlock
    <2>7. CASE ReadWake(p)
      BY <2>7 DEF ReadWake
    <2> QED  BY <1>5, <2>1, <2>2, <2>3, <2>4, <2>5, <2>6, <2>7 DEF dev_read
  <1>6. ASSUME NEW p \in Procs, wait_event(p)
        PROVE  CopyInBounds'
    BY <1>6 DEF wait_event, CondLoad, CondTrue, CondFalse, CondFalseSignal,
       WaitPrepare, WaitWoken
  <1>7. ASSUME NEW p \in Procs, dev_write(p)
        PROVE  CopyInBounds'
    <2>1. CASE WriteInterrupted(p)
      BY <2>1 DEF WriteInterrupted, Interrupted
    <2>2. CASE WriteCheck(p)
      BY <2>2 DEF WriteCheck
    <2>3. CASE WriteReset(p)
      BY <2>3, WriteResetMakesSpace
    <2>4. CASE WriteCopy(p)
      BY <2>4 DEF WriteCopy
    <2>5. CASE WriteFault(p)
      BY <2>5 DEF WriteFault
    <2>6. CASE WriteUnlock(p)
      BY <2>6 DEF WriteUnlock
    <2>7. CASE WriteWake(p)
      BY <2>7 DEF WriteWake, WakeReaders
    <2> QED  BY <1>7, <2>1, <2>2, <2>3, <2>4, <2>5, <2>6, <2>7 DEF dev_write
  <1>8. ASSUME NEW p \in Procs, WaitSpurious(p)
        PROVE  CopyInBounds'
    BY <1>8 DEF WaitSpurious
  <1> QED  BY <1>1, <1>2, <1>3, <1>4, <1>5, <1>6, <1>7, <1>8 DEF Next, Run

\* The first load is forgotten when the evaluation of the condition ends.
LEMMA SeenStep == DevInv /\ [Next]_vars => SeenInCond'
  <1> SUFFICES ASSUME DevInv, [Next]_vars PROVE SeenInCond'
    OBVIOUS
  <1> USE DevAssumption DEF DevInv, DevType, PcIsFunction, Excluded, Goto, Return, Held,
     CountLabels, ReadHeld, WriteHeld, CondLabels, SeenInCond, callVars
  <1>1. CASE UNCHANGED vars
    BY <1>1 DEF vars, posVars, countVars, callVars
  <1>2. ASSUME NEW p \in Procs, User(p)
        PROVE  SeenInCond'
    BY <1>2 DEF User, CallOpen, CallClose, CallRead, CallWrite, Signal
  <1>3. ASSUME NEW p \in Procs, Acquire(p)
        PROVE  SeenInCond'
    BY <1>3 DEF Acquire, OpenLock, mutex_lock, ReleaseLock, ReadLock,
       WriteLock
  <1>4. ASSUME NEW p \in Procs, OpenCount(p) \/ ReleaseCount(p)
        PROVE  SeenInCond'
    BY <1>4 DEF OpenCount, ReleaseCount
  <1>5. ASSUME NEW p \in Procs, dev_read(p)
        PROVE  SeenInCond'
    BY <1>5 DEF dev_read, ReadInterrupted, Interrupted, ReadCheck, ReadCopy,
       ReadFault, ReadReset, StoreZero, ReadUnlock, ReadWake
  <1>6. ASSUME NEW p \in Procs, wait_event(p)
        PROVE  SeenInCond'
    BY <1>6 DEF wait_event, CondLoad, CondTrue, CondFalse, CondFalseSignal,
       WaitPrepare, WaitWoken
  <1>7. ASSUME NEW p \in Procs, dev_write(p)
        PROVE  SeenInCond'
    BY <1>7 DEF dev_write, WriteInterrupted, Interrupted, WriteCheck,
       WriteReset, StoreZero, WriteCopy, WriteFault, WriteUnlock, WriteWake,
       WakeReaders
  <1>8. ASSUME NEW p \in Procs, WaitSpurious(p)
        PROVE  SeenInCond'
    BY <1>8 DEF WaitSpurious
  <1> QED  BY <1>1, <1>2, <1>3, <1>4, <1>5, <1>6, <1>7, <1>8 DEF Next, Run

\* A process leaves the read queue before it leaves the wait.
LEMMA QueuedStep == DevInv /\ [Next]_vars => QueuedWaits'
  <1> SUFFICES ASSUME DevInv, [Next]_vars PROVE QueuedWaits'
    OBVIOUS
  <1> USE DevAssumption DEF DevInv, DevType, PcIsFunction, Excluded, Goto, Return, Held,
     CountLabels, ReadHeld, WriteHeld, CondLabels, QueuedWaits
  <1>1. CASE UNCHANGED vars
    BY <1>1 DEF vars, posVars, countVars, callVars
  <1>2. ASSUME NEW p \in Procs, User(p)
        PROVE  QueuedWaits'
    BY <1>2 DEF User, CallOpen, CallClose, CallRead, CallWrite, Signal
  <1>3. ASSUME NEW p \in Procs, Acquire(p)
        PROVE  QueuedWaits'
    BY <1>3 DEF Acquire, OpenLock, mutex_lock, ReleaseLock, ReadLock,
       WriteLock
  <1>4. ASSUME NEW p \in Procs, OpenCount(p) \/ ReleaseCount(p)
        PROVE  QueuedWaits'
    BY <1>4 DEF OpenCount, ReleaseCount
  <1>5. ASSUME NEW p \in Procs, dev_read(p)
        PROVE  QueuedWaits'
    BY <1>5 DEF dev_read, ReadInterrupted, Interrupted, ReadCheck, ReadCopy,
       ReadFault, ReadReset, StoreZero, ReadUnlock, ReadWake
  <1>6. ASSUME NEW p \in Procs, wait_event(p)
        PROVE  QueuedWaits'
    BY <1>6 DEF wait_event, CondLoad, CondTrue, CondFalse, CondFalseSignal,
       WaitPrepare, WaitWoken
  <1>7. ASSUME NEW p \in Procs, dev_write(p)
        PROVE  QueuedWaits'
    BY <1>7 DEF dev_write, WriteInterrupted, Interrupted, WriteCheck,
       WriteReset, StoreZero, WriteCopy, WriteFault, WriteUnlock, WriteWake,
       WakeReaders
  <1>8. ASSUME NEW p \in Procs, WaitSpurious(p)
        PROVE  QueuedWaits'
    BY <1>8 DEF WaitSpurious
  <1> QED  BY <1>1, <1>2, <1>3, <1>4, <1>5, <1>6, <1>7, <1>8 DEF Next, Run

\* No wake-up is lost.  Data appears only in dev_write, which wakes the queue
\* after it; a process joins the queue before it loads the positions; and a
\* load of old positions is a load from before the write.
LEMMA WakeStep == DevInv /\ [Next]_vars => WakeInv'
  <1> SUFFICES ASSUME DevInv, [Next]_vars PROVE WakeInv'
    OBVIOUS
  <1> USE DevAssumption DEF DevInv, DevType, PcIsFunction, Excluded, Goto, Return, Held,
     CountLabels, ReadHeld, WriteHeld, CondLabels, ResetHeld, ResetLabels,
     ResetZero, CopyInBounds, SeenInCond, QueuedWaits, WakeInv, Unseen,
     Publishing, has_data, has_space, Positions, posVars, callVars, Clamp
  <1>1. CASE UNCHANGED vars
    BY <1>1 DEF vars, posVars, countVars, callVars
  <1>2. ASSUME NEW p \in Procs, User(p)
        PROVE  WakeInv'
    <2>1. CASE CallOpen(p)
      BY <2>1 DEF CallOpen
    <2>2. CASE CallClose(p)
      BY <2>2 DEF CallClose
    <2>3. CASE CallRead(p)
      BY <2>3 DEF CallRead
    <2>4. CASE CallWrite(p)
      BY <2>4 DEF CallWrite
    <2>5. CASE Signal(p)
      BY <2>5 DEF Signal
    <2> QED  BY <1>2, <2>1, <2>2, <2>3, <2>4, <2>5 DEF User
  <1>3. ASSUME NEW p \in Procs, Acquire(p)
        PROVE  WakeInv'
    <2>1. CASE OpenLock(p)
      BY <2>1 DEF OpenLock, mutex_lock
    <2>2. CASE ReleaseLock(p)
      BY <2>2 DEF ReleaseLock, mutex_lock
    <2>3. CASE ReadLock(p)
      BY <2>3 DEF ReadLock, mutex_lock
    <2>4. CASE WriteLock(p)
      BY <2>4 DEF WriteLock, mutex_lock
    <2> QED  BY <1>3, <2>1, <2>2, <2>3, <2>4 DEF Acquire
  <1>4. ASSUME NEW p \in Procs, OpenCount(p) \/ ReleaseCount(p)
        PROVE  WakeInv'
    <2>1. CASE OpenCount(p)
      BY <2>1 DEF OpenCount
    <2>2. CASE ReleaseCount(p)
      BY <2>2 DEF ReleaseCount
    <2> QED  BY <1>4, <2>1, <2>2
  <1>5. ASSUME NEW p \in Procs, dev_read(p)
        PROVE  WakeInv'
    <2>1. CASE ReadInterrupted(p)
      BY <2>1 DEF ReadInterrupted, Interrupted
    <2>2. CASE ReadCheck(p)
      BY <2>2 DEF ReadCheck
    <2>3. CASE ReadCopy(p)
      BY <2>3 DEF ReadCopy
    <2>4. CASE ReadFault(p)
      BY <2>4 DEF ReadFault
    <2>5. CASE ReadReset(p)
      BY <2>5, ResetKeepsWake
    <2>6. CASE ReadUnlock(p)
      BY <2>6 DEF ReadUnlock
    <2>7. CASE ReadWake(p)
      BY <2>7 DEF ReadWake
    <2> QED  BY <1>5, <2>1, <2>2, <2>3, <2>4, <2>5, <2>6, <2>7 DEF dev_read
  <1>6. ASSUME NEW p \in Procs, wait_event(p)
        PROVE  WakeInv'
    <2>1. CASE CondLoad(p)
      <3>1. \A q \in read_queue : has_data /\ Unseen(q)' => Unseen(q)
        BY <2>1 DEF CondLoad
      <3> QED  BY <2>1, <3>1 DEF CondLoad
    <2>2. CASE CondTrue(p)
      BY <2>2 DEF CondTrue, CondValue
    <2>3. CASE CondFalse(p)
      BY <2>3, CondFalseKeepsWake
    <2>4. CASE CondFalseSignal(p)
      BY <2>4 DEF CondFalseSignal, CondValue
    <2>5. CASE WaitPrepare(p)
      <3>1. seen[p] = NotSeen
        BY <2>5 DEF WaitPrepare
      <3>2. \A q \in read_queue' : Unseen(q)' => q \in read_queue /\ Unseen(q)
        BY <2>5, <3>1 DEF WaitPrepare
      <3> QED  BY <2>5, <3>2 DEF WaitPrepare
    <2>6. CASE WaitWoken(p)
      BY <2>6 DEF WaitWoken
    <2> QED  BY <1>6, <2>1, <2>2, <2>3, <2>4, <2>5, <2>6 DEF wait_event
  <1>7. ASSUME NEW p \in Procs, dev_write(p)
        PROVE  WakeInv'
    <2>1. CASE WriteInterrupted(p)
      BY <2>1 DEF WriteInterrupted, Interrupted
    <2>2. CASE WriteCheck(p)
      BY <2>2 DEF WriteCheck
    <2>3. CASE WriteReset(p)
      BY <2>3, ResetKeepsWake
    <2>4. CASE WriteCopy(p)
      BY <2>4 DEF WriteCopy
    <2>5. CASE WriteFault(p)
      BY <2>5 DEF WriteFault
    <2>6. CASE WriteUnlock(p)
      BY <2>6 DEF WriteUnlock
    <2>7. CASE WriteWake(p)
      BY <2>7 DEF WriteWake, WakeReaders
    <2> QED  BY <1>7, <2>1, <2>2, <2>3, <2>4, <2>5, <2>6, <2>7 DEF dev_write
  <1>8. ASSUME NEW p \in Procs, WaitSpurious(p)
        PROVE  WakeInv'
    BY <1>8 DEF WaitSpurious
  <1> QED  BY <1>1, <1>2, <1>3, <1>4, <1>5, <1>6, <1>7, <1>8 DEF Next, Run

LEMMA DevInit == Init => DevInv
  <1> SUFFICES ASSUME Init PROVE DevInv
    OBVIOUS
  <1>1. DevType
    BY TypeInit DEF DevType, PcIsFunction, TypeOK
  <1>2. Excluded /\ ResetHeld /\ CopyInBounds /\ SeenInCond
    BY DevAssumption DEF Init, Excluded, Held, CountLabels, ReadHeld, WriteHeld,
       ResetHeld, ResetLabels, CopyInBounds, SeenInCond
  <1>3. ResetZero /\ QueuedWaits /\ WakeInv
    BY DEF Init, ResetZero, QueuedWaits, WakeInv
  <1> QED  BY <1>1, <1>2, <1>3 DEF DevInv

LEMMA DevStep ==
  ASSUME DevInv, NEW Others, Others \cap Labels = {}, HeldIn(Others),
         [Next]_vars
  PROVE  DevInv' /\ HeldIn(Others)'
  <1>1. DevType' /\ HeldIn(Others)'
    BY TypeStep, MutexStep DEF DevInv
  <1>2. Excluded'
    BY <1>1 DEF HeldIn, Excluded
  <1> QED
    BY <1>1, <1>2, ResetHeldStep, ResetZeroStep, CopyStep, SeenStep,
       QueuedStep, WakeStep DEF DevInv

LEMMA InductiveInit == Init => IInv
  <1> SUFFICES ASSUME Init PROVE IInv
    OBVIOUS
  <1>1. TypeOK
    BY TypeInit
  <1>2. MutexHeld
    BY DevAssumption DEF Init, MutexHeld, Held, CountLabels, ReadHeld, WriteHeld
  <1> QED  BY <1>1, <1>2, DevInit DEF IInv

LEMMA InductiveStep == IInv /\ [Next]_vars => IInv'
  <1> SUFFICES ASSUME IInv, [Next]_vars PROVE IInv'
    OBVIOUS
  <1>1. DevInv' /\ HeldIn({})'
    BY DevStep DEF IInv, MutexHeld, HeldIn
  <1>2. pc' \in [Procs -> Labels]
    BY LabelStep DEF IInv, TypeOK
  <1> QED  BY <1>1, <1>2 DEF IInv, DevInv, DevType, PcIsFunction, TypeOK, MutexHeld, HeldIn

-----------------------------------------------------------------------------
(* The theorems                                                            *)

\* The inductive invariant holds in every state.
THEOREM Invariance == Spec => []IInv
  BY InductiveInit, InductiveStep, PTL DEF Spec

\* Every variable has its type in every state: in particular the positions
\* stay within the buffer, whatever lengths the callers pass.
THEOREM TypeCorrect == Spec => []TypeOK
  <1>1. IInv => TypeOK
    BY DEF IInv
  <1> QED  BY Invariance, <1>1, PTL

\* dev_open, dev_read, dev_write and dev_release hold the mutex exactly in
\* their critical sections.
THEOREM MutualExclusion == Spec => []MutexHeld
  <1>1. IInv => MutexHeld
    BY DEF IInv
  <1> QED  BY Invariance, <1>1, PTL

\* Outside a reset by the holder of the mutex, read_pos <= write_pos <=
\* buffer_size.
THEOREM PositionsStayOrdered == Spec => []PositionsOrdered
  <1>1. IInv => PositionsOrdered
    <2> SUFFICES ASSUME IInv PROVE PositionsOrdered
      OBVIOUS
    <2>1. CASE reset_left = {}
      BY <2>1 DEF IInv, DevInv, ResetZero, TypeOK, PositionsOrdered
    <2>2. CASE reset_left # {}
      BY <2>2 DEF IInv, DevInv, ResetHeld, ResetLabels, MutexHeld, Held, ReadHeld,
         WriteHeld, PositionsOrdered
    <2> QED  BY <2>1, <2>2
  <1> QED  BY Invariance, <1>1, PTL

\* A read copies only when there is data and a write only where there is
\* space, however many processes were woken for the same bytes.
THEOREM CopiesStayInBounds == Spec => []CopyInBounds
  <1>1. IInv => CopyInBounds
    BY DEF IInv, DevInv
  <1> QED  BY Invariance, <1>1, PTL

\* A reader never sleeps beside unread data that nobody will wake it for,
\* although has_data() is evaluated without the mutex.
THEOREM WakeupsAreNotLost == Spec => []NoLostWakeup
  <1>1. IInv => NoLostWakeup
    BY DEF IInv, DevInv, WakeInv, Unseen, NoLostWakeup
  <1> QED  BY Invariance, <1>1, PTL

-----------------------------------------------------------------------------
(* The counts of open files                                                *)

Closed == {"closed", "open_lock", "open_count"}

\* Only the counting sections of dev_open and dev_release change who has the
\* device open, and the counts.
LEMMA OpenedUnchanged ==
  ASSUME DevType, NEW p \in Procs,
         \/ User(p) \/ Acquire(p) \/ dev_read(p) \/ wait_event(p)
         \/ dev_write(p) \/ WaitSpurious(p)
  PROVE  Opened' = Opened /\ UNCHANGED countVars
  <1> SUFFICES /\ \A q \in Procs : pc'[q] \in Closed <=> pc[q] \in Closed
               /\ UNCHANGED countVars
    BY DEF Opened, Closed
  <1> USE DEF DevType, PcIsFunction, Goto, Return, Closed, countVars
  <1>1. CASE User(p)
    BY <1>1 DEF User, CallOpen, CallClose, CallRead, CallWrite, Signal
  <1>2. CASE Acquire(p)
    BY <1>2 DEF Acquire, OpenLock, mutex_lock, ReleaseLock, ReadLock,
       WriteLock
  <1>3. CASE dev_read(p)
    BY <1>3 DEF dev_read, ReadInterrupted, Interrupted, ReadCheck, ReadCopy,
       ReadFault, ReadReset, StoreZero, ReadUnlock, ReadWake
  <1>4. CASE wait_event(p)
    <2>1. CASE CondLoad(p)
      BY <2>1 DEF CondLoad, CondLabels
    <2>2. CASE CondTrue(p)
      BY <2>2 DEF CondTrue, CondLabels
    <2>3. CASE CondFalse(p)
      BY <2>3 DEF CondFalse, CondLabels
    <2>4. CASE CondFalseSignal(p)
      BY <2>4 DEF CondFalseSignal, CondLabels
    <2>5. CASE WaitPrepare(p)
      BY <2>5 DEF WaitPrepare, CondLabels
    <2>6. CASE WaitWoken(p)
      BY <2>6 DEF WaitWoken, CondLabels
    <2> QED  BY <1>4, <2>1, <2>2, <2>3, <2>4, <2>5, <2>6 DEF wait_event
  <1>5. CASE dev_write(p)
    BY <1>5 DEF dev_write, WriteInterrupted, Interrupted, WriteCheck,
       WriteReset, StoreZero, WriteCopy, WriteFault, WriteUnlock, WriteWake
  <1>6. CASE WaitSpurious(p)
    BY <1>6 DEF WaitSpurious
  <1> QED  BY <1>1, <1>2, <1>3, <1>4, <1>5, <1>6

LEMMA FiniteOpened ==
  ASSUME NEW S, S \subseteq Procs
  PROVE  IsFiniteSet(Opened \cap S) /\ Cardinality(Opened \cap S) \in Nat
  <1>1. Opened \cap S \subseteq Procs
    OBVIOUS
  <1>2. IsFiniteSet(Opened \cap S)
    BY <1>1, FS_Subset, DevAssumption
  <1> QED  BY <1>2, FS_CardinalityType

\* Opening or closing a file changes the cardinality by one, or not at all
\* if the file does not have the mode.
LEMMA OpenOne ==
  ASSUME NEW S, S \subseteq Procs, NEW p \in Procs, p \notin Opened,
         Opened' = Opened \cup {p}
  PROVE  Cardinality(Opened' \cap S) =
           IF p \in S THEN Cardinality(Opened \cap S) + 1
                      ELSE Cardinality(Opened \cap S)
  <1>1. CASE p \in S
    <2>1. Opened' \cap S = (Opened \cap S) \cup {p}
      BY <1>1
    <2> QED  BY <1>1, <2>1, FiniteOpened, FS_AddElement
  <1>2. CASE p \notin S
    <2>1. Opened' \cap S = Opened \cap S
      BY <1>2
    <2> QED  BY <1>2, <2>1
  <1> QED  BY <1>1, <1>2

LEMMA CloseOne ==
  ASSUME NEW S, S \subseteq Procs, NEW p \in Procs, p \in Opened,
         Opened' = Opened \ {p}
  PROVE  Cardinality(Opened' \cap S) =
           IF p \in S THEN Cardinality(Opened \cap S) - 1
                      ELSE Cardinality(Opened \cap S)
  <1>1. CASE p \in S
    <2>1. Opened' \cap S = (Opened \cap S) \ {p}
      BY <1>1
    <2> QED  BY <1>1, <2>1, FiniteOpened, FS_RemoveElement
  <1>2. CASE p \notin S
    <2>1. Opened' \cap S = Opened \cap S
      BY <1>2
    <2> QED  BY <1>2, <2>1
  <1> QED  BY <1>1, <1>2

LEMMA CountStep == DevType /\ OpenCountsExact /\ [Next]_vars => OpenCountsExact'
  <1> SUFFICES ASSUME DevType, OpenCountsExact, [Next]_vars
               PROVE  OpenCountsExact'
    OBVIOUS
  <1> Readers \subseteq Procs /\ Writers \subseteq Procs
    BY DEF Procs
  <1>1. CASE UNCHANGED vars
    BY <1>1 DEF vars, countVars, OpenCountsExact, Opened
  <1>2. ASSUME NEW p \in Procs,
               \/ User(p) \/ Acquire(p) \/ dev_read(p) \/ wait_event(p)
               \/ dev_write(p) \/ WaitSpurious(p)
        PROVE  OpenCountsExact'
    <2>1. Opened' = Opened /\ UNCHANGED countVars
      BY <1>2, OpenedUnchanged
    <2> QED  BY <2>1 DEF OpenCountsExact, countVars
  <1>3. ASSUME NEW p \in Procs, OpenCount(p) PROVE OpenCountsExact'
    <2>1. p \notin Opened /\ Opened' = Opened \cup {p}
      BY <1>3 DEF OpenCount, Goto, Opened, DevType, PcIsFunction
    <2> QED  BY <1>3, <2>1, OpenOne DEF OpenCount, OpenCountsExact
  <1>4. ASSUME NEW p \in Procs, ReleaseCount(p) PROVE OpenCountsExact'
    <2>1. p \in Opened /\ Opened' = Opened \ {p}
      BY <1>4 DEF ReleaseCount, Goto, Opened, DevType, PcIsFunction
    <2> QED  BY <1>4, <2>1, CloseOne DEF ReleaseCount, OpenCountsExact
  <1> QED  BY <1>1, <1>2, <1>3, <1>4 DEF Next, Run

LEMMA CountInit == Init => OpenCountsExact
  <1> SUFFICES ASSUME Init PROVE OpenCountsExact
    OBVIOUS
  <1>1. Opened = {}
    BY DEF Init, Opened
  <1> QED  BY <1>1, FS_EmptySet DEF Init, OpenCountsExact

\* dev->readers and dev->writers are the numbers of files open for reading
\* and for writing, whatever happens to the calls made on them.
THEOREM CountsAreExact == Spec => []OpenCountsExact
  <1>1. Init => OpenCountsExact
    BY CountInit
  <1>2. IInv => DevType
    BY DEF IInv, DevInv
  <1> QED  BY <1>1, <1>2, CountStep, Invariance, PTL DEF Spec

-----------------------------------------------------------------------------
(* The driver implements LossyPipe                                         *)

\* The unread bytes are a sequence, as long as the positions are apart.
LEMMA UnreadSeq ==
  ASSUME DevInv
  PROVE  /\ Unread \in Seq(Byte)
         /\ reset_left = {} =>
              /\ write_pos - read_pos \in Nat
              /\ Len(Unread) = write_pos - read_pos
              /\ \A i \in 1..write_pos - read_pos :
                   Unread[i] = buffer[read_pos + i - 1]
  <1>1. CASE reset_left = {}
    <2> DEFINE n == write_pos - read_pos
    <2>1. n \in Nat /\ read_pos + n <= BUF_LEN
      BY <1>1, DevAssumption DEF DevInv, DevType, ResetZero
    <2>2. Unread = [i \in 1..n |-> buffer[read_pos + i - 1]]
      BY <1>1 DEF Unread
    <2>3. [i \in 1..n |-> buffer[read_pos + i - 1]] \in Seq(Byte)
      BY <2>1, CopyOutType DEF DevInv
    <2>4. Len([i \in 1..n |-> buffer[read_pos + i - 1]]) = n
      BY <2>1
    <2> QED  BY <2>1, <2>2, <2>3, <2>4
  <1>2. CASE reset_left # {}
    BY <1>2 DEF Unread
  <1> QED  BY <1>1, <1>2

\* A handler that keeps the buffer and the positions keeps the pipe.
LEMMA PipeUnchanged ==
  ASSUME UNCHANGED posVars
  PROVE  UNCHANGED <<Unread, Filled>>
  BY DEF posVars, Unread, Filled

\* A read takes the oldest bytes, and one that takes them all frees the
\* buffer.  A read of no bytes takes none.
LEMMA ReadTakes ==
  ASSUME DevInv, NEW p \in Procs, ReadCopy(p)
  PROVE  Pipe!Take(p) \/ Pipe!Finish(p)
  <1> DEFINE n == Clamp(write_pos - read_pos, len[p])
             s == [i \in 1..n |-> buffer[read_pos + i - 1]]
  <1>1. reset_left = {} /\ has_data
    BY NoResetAtCopy DEF ReadCopy, DevInv, CopyInBounds
  <1>2. /\ read_pos \in Nat /\ write_pos \in Nat /\ len[p] \in Nat
        /\ write_pos - read_pos \in Nat /\ write_pos - read_pos > 0
        /\ write_pos <= BUF_LEN /\ BUF_LEN \in Nat
    BY <1>1, LenType, DevAssumption DEF DevInv, DevType, has_data
  <1>3. n \in Nat /\ n <= write_pos - read_pos
    BY <1>2, ClampBounds
  <1>4. /\ Unread \in Seq(Byte)
        /\ Len(Unread) = write_pos - read_pos
        /\ \A i \in 1..write_pos - read_pos :
             Unread[i] = buffer[read_pos + i - 1]
    BY <1>1, UnreadSeq
  <1>5. s \in Seq(Byte) /\ Len(s) = n
    <2> HIDE DEF n
    <2>1. read_pos + n <= BUF_LEN
      BY <1>2, <1>3
    <2> QED  BY <1>3, <2>1, CopyOutType DEF DevInv
  <1>6. /\ got' = [got EXCEPT ![p] = s]
        /\ buffer' = buffer /\ write_pos' = write_pos
        /\ read_pos' = read_pos + n
        /\ IF read_pos + n >= write_pos THEN reset_left' = Positions
                                        ELSE reset_left' = reset_left
    BY DEF ReadCopy
  <1> HIDE DEF n
  <1>7. CASE n = 0
    <2>1. s = <<>>
      BY <1>7, <1>5, EmptySeq
    <2>2. UNCHANGED posVars
      BY <1>2, <1>6, <1>7 DEF posVars
    <2> QED  BY <1>6, <2>1, <2>2, PipeUnchanged DEF Pipe!Finish
  <1>8. CASE n > 0
    <2>1. n \in 1..Len(Unread)
      BY <1>3, <1>4, <1>8
    <2>2. s = SubSeq(Unread, 1, n)
      <3>1. /\ SubSeq(Unread, 1, n) \in Seq(Byte)
            /\ Len(SubSeq(Unread, 1, n)) = n
            /\ \A i \in 1..n : SubSeq(Unread, 1, n)[i] = Unread[i]
        BY <1>4, <2>1, SubSeqProperties, ElementOfSeq
      <3>2. \A i \in 1..n : s[i] = Unread[i]
        BY <1>3, <1>4
      <3> QED  BY <1>5, <3>1, <3>2, SeqEqual
    <2>3. Unread' = SubSeq(Unread, n + 1, Len(Unread))
      <3>1. CASE n = write_pos - read_pos
        <4>1. Unread' = <<>>
          BY <1>2, <1>6, <3>1, ResetBegins DEF Unread
        <4> QED  BY <1>2, <1>4, <3>1, <4>1, SubSeqEmpty
      <3>2. CASE n < write_pos - read_pos
        <4> DEFINE m == write_pos - read_pos - n
                   t == SubSeq(Unread, n + 1, Len(Unread))
        <4>1. Unread' = [i \in 1..m |-> buffer[read_pos + n + i - 1]]
          <5>1. reset_left' = {} /\ write_pos' - read_pos' = m
            BY <1>1, <1>2, <1>3, <1>6, <3>2
          <5> QED  BY <1>6, <5>1 DEF Unread
        <4>2. /\ t \in Seq(Byte) /\ Len(t) = m
              /\ \A i \in 1..m : t[i] = Unread[n + i]
          <5>1. /\ Len(Unread) \in Int /\ n + 1 \in Int
                /\ n + 1 <= Len(Unread)
                /\ Len(Unread) - (n + 1) + 1 = m
            BY <1>2, <1>3, <1>4, <3>2
          <5>2. \A i \in n + 1..Len(Unread) : Unread[i] \in Byte
            BY <1>3, <1>4, ElementOfSeq
          <5>3. \A i \in 1..m : n + 1 + i - 1 = n + i
            BY <1>3
          <5> QED  BY <5>1, <5>2, <5>3, SubSeqProperties
        <4>3. t = [i \in 1..m |-> t[i]]
          BY <4>2, LenProperties
        <4>4. ASSUME NEW i \in 1..m
              PROVE  t[i] = buffer[read_pos + n + i - 1]
          <5>1. /\ n + i \in 1..write_pos - read_pos
                /\ read_pos + (n + i) - 1 = read_pos + n + i - 1
            BY <1>2, <1>3, <3>2
          <5>2. t[i] = Unread[n + i]
            BY <4>2
          <5> QED  BY <1>4, <5>1, <5>2
        <4> QED  BY <4>1, <4>3, <4>4
      <3> QED  BY <1>2, <1>3, <3>1, <3>2
    <2>4. Filled' = IF n = Len(Unread) THEN 0 ELSE Filled
      BY <1>1, <1>2, <1>3, <1>4, <1>6, ResetBegins DEF Filled
    <2> QED  BY <1>6, <2>1, <2>2, <2>3, <2>4 DEF Pipe!Take
  <1> QED  BY <1>3, <1>7, <1>8

\* A write adds its bytes at the end, as many as there is space for.
LEMMA WritePuts ==
  ASSUME DevInv, NEW p \in Procs, WriteCopy(p)
  PROVE  Pipe!Put
  <1> DEFINE n == Clamp(BUF_LEN - write_pos, len[p])
  <1>1. reset_left = {}
    BY DEF WriteCopy, DevInv, CopyInBounds
  <1>2. PICK data \in [0..n-1 -> Byte] : buffer' = CopyIn(data, n)
    BY DEF WriteCopy
  <1>3. n \in Nat /\ write_pos + n <= BUF_LEN
    BY WriteBounds DEF DevInv
  <1>4. /\ write_pos' = write_pos + n /\ read_pos' = read_pos
        /\ reset_left' = {} /\ got' = got
    BY <1>1 DEF WriteCopy, callVars
  <1>5. /\ read_pos \in Nat /\ write_pos \in Nat /\ BUF_LEN \in Nat
        /\ buffer \in [0..BUF_LEN-1 -> Byte]
    BY DevAssumption DEF DevInv, DevType
  <1> DEFINE m == write_pos - read_pos
             d == [i \in 1..n |-> data[i - 1]]
  <1> HIDE DEF n
  <1>6. /\ Unread \in Seq(Byte) /\ m \in Nat /\ Len(Unread) = m
        /\ \A i \in 1..m : Unread[i] = buffer[read_pos + i - 1]
    BY <1>1, UnreadSeq
  <1>7. d \in [1..n -> Byte]
    <2>1. \A i \in 1..n : i - 1 \in 0..n-1
      BY <1>3
    <2> QED  BY <2>1
  <1>8. d \in Seq(Byte) /\ Len(d) = n
    BY <1>3, <1>7
  <1>9. Unread' = [i \in 1..m + n |-> buffer'[read_pos + i - 1]]
    <2>1. write_pos' - read_pos' = m + n
      BY <1>3, <1>4, <1>5
    <2> QED  BY <1>4, <2>1 DEF Unread
  <1>10. Unread' = Unread \o d
    <2> HIDE DEF d
    <2>1. /\ Unread \o d \in Seq(Byte) /\ Len(Unread \o d) = m + n
          /\ \A i \in 1..m + n :
               (Unread \o d)[i] = IF i <= m THEN Unread[i] ELSE d[i - m]
      BY <1>6, <1>8, ConcatProperties
    <2>2. ASSUME NEW i \in 1..m + n
          PROVE  buffer'[read_pos + i - 1] = (Unread \o d)[i]
      <3>1. read_pos + i - 1 \in 0..BUF_LEN-1
        BY <1>3, <1>5, <1>6
      <3>2. CASE i <= m
        <4>1. buffer'[read_pos + i - 1] = buffer[read_pos + i - 1]
          BY <1>2, <1>3, <1>5, <3>1, <3>2 DEF CopyIn
        <4> QED  BY <1>3, <1>6, <2>1, <3>2, <4>1
      <3>3. CASE i > m
        <4>1. buffer'[read_pos + i - 1] = data[read_pos + i - 1 - write_pos]
          BY <1>2, <1>3, <1>5, <1>6, <3>1, <3>3 DEF CopyIn
        <4>2. i - m \in 1..n /\ read_pos + i - 1 - write_pos = i - m - 1
          BY <1>3, <1>5, <1>6, <3>3
        <4>3. (Unread \o d)[i] = d[i - m]
          BY <1>3, <1>6, <2>1, <3>3
        <4>4. d[i - m] = data[i - m - 1]
          BY <4>2 DEF d
        <4> QED  BY <4>1, <4>2, <4>3, <4>4
      <3>4. i <= m \/ i > m
        BY <1>3, <1>6
      <3> QED  BY <3>2, <3>3, <3>4
    <2>3. Unread \o d = [i \in 1..m + n |-> (Unread \o d)[i]]
      BY <2>1, LenProperties
    <2> QED  BY <1>9, <2>2, <2>3
  <1>11. Filled = write_pos /\ Filled' = write_pos + n
    BY <1>1, <1>4 DEF Filled
  <1>12. n \in 0..BUF_LEN - Filled
    BY <1>3, <1>5, <1>11
  <1> QED  BY <1>4, <1>7, <1>10, <1>11, <1>12 DEF Pipe!Put

\* A reset of the positions begins by dropping what is unread; its stores are
\* no step of the pipe.
LEMMA ResetDrops ==
  ASSUME DevInv, NEW p \in Procs, WriteCheck(p)
  PROVE  Pipe!Drop \/ UNCHANGED Pipe!pipeVars
  <1>1. CASE UNCHANGED reset_left
    BY <1>1, PipeUnchanged DEF WriteCheck, posVars, callVars, Pipe!pipeVars
  <1>2. CASE ~has_space /\ reset_left' = Positions
    <2>1. reset_left = {}
      <3> SUFFICES ASSUME NEW q \in Procs, pc[q] \in ResetLabels PROVE FALSE
        BY DEF DevInv, ResetHeld
      <3> QED
        BY DEF WriteCheck, DevInv, Excluded, Held, ReadHeld, WriteHeld,
           ResetLabels
    <2>2. Filled = BUF_LEN
      BY <1>2, <2>1, DevAssumption DEF Filled, has_space, DevInv, DevType
    <2>3. Unread' = <<>> /\ Filled' = 0
      BY <1>2, ResetBegins DEF Unread, Filled
    <2> QED  BY <2>2, <2>3 DEF Pipe!Drop, WriteCheck, callVars
  <1> QED  BY <1>1, <1>2 DEF WriteCheck

LEMMA ResetStutters ==
  ASSUME DevInv, NEW p \in Procs, ReadReset(p) \/ WriteReset(p)
  PROVE  UNCHANGED Pipe!pipeVars
  <1>1. reset_left # {}
    BY DEF ReadReset, WriteReset, StoreZero
  <1>2. got' = got
    BY DEF ReadReset, WriteReset, StoreZero, callVars
  <1>3. Unread = <<>> /\ Filled = 0
    BY <1>1 DEF Unread, Filled
  <1>4. CASE reset_left' # {}
    BY <1>2, <1>3, <1>4 DEF Unread, Filled, Pipe!pipeVars
  <1>5. CASE reset_left' = {} /\ read_pos' = 0 /\ write_pos' = 0
    <2>1. Unread' = [i \in 1..0 |-> buffer'[0 + i - 1]] /\ Filled' = 0
      BY <1>5 DEF Unread, Filled
    <2>2. Unread' = <<>>
      BY <2>1
    <2> QED  BY <1>2, <1>3, <2>1, <2>2 DEF Pipe!pipeVars
  <1> QED  BY <1>4, <1>5, ResetStep DEF DevInv

\* A copy from user space that fails leaves the unread bytes as they were.
LEMMA FaultFinishes ==
  ASSUME DevInv, NEW p \in Procs, WriteFault(p)
  PROVE  Pipe!Finish(p)
  <1> DEFINE n == Clamp(BUF_LEN - write_pos, len[p])
  <1>1. reset_left = {}
    BY DEF WriteFault, DevInv, CopyInBounds
  <1>2. PICK data \in [0..n-1 -> Byte] : buffer' = CopyIn(data, n)
    BY DEF WriteFault
  <1>3. /\ write_pos' = write_pos /\ read_pos' = read_pos
        /\ reset_left' = {} /\ got' = [got EXCEPT ![p] = <<>>]
    BY <1>1 DEF WriteFault, Return
  <1>4. /\ read_pos \in Nat /\ write_pos \in Nat /\ BUF_LEN \in Nat
        /\ write_pos <= BUF_LEN
    BY DevAssumption DEF DevInv, DevType
  <1> HIDE DEF n
  <1>5. ASSUME NEW i \in 1..write_pos - read_pos
        PROVE  buffer'[read_pos + i - 1] = buffer[read_pos + i - 1]
    <2>1. read_pos + i - 1 \in 0..BUF_LEN-1 /\ read_pos + i - 1 < write_pos
      BY <1>4
    <2> QED  BY <1>2, <1>4, <2>1 DEF CopyIn
  <1>6. Unread' = Unread
    <2>1. Unread = [i \in 1..write_pos - read_pos |-> buffer[read_pos + i - 1]]
      BY <1>1 DEF Unread
    <2>2. Unread' = [i \in 1..write_pos - read_pos |-> buffer'[read_pos + i - 1]]
      BY <1>3 DEF Unread
    <2> QED  BY <1>5, <2>1, <2>2
  <1> QED  BY <1>1, <1>3, <1>6 DEF Pipe!Finish, Filled

\* A step of the driver is a step of the pipe, or none.
LEMMA PipeStep ==
  ASSUME DevInv, [Next]_vars
  PROVE  [Pipe!Next]_Pipe!pipeVars
  <1> USE DEF Pipe!Next, Pipe!pipeVars
  <1>1. CASE UNCHANGED vars
    BY <1>1, PipeUnchanged DEF vars, callVars
  <1>2. ASSUME UNCHANGED posVars, UNCHANGED got
        PROVE  [Pipe!Next]_Pipe!pipeVars
    BY <1>2, PipeUnchanged
  <1>3. ASSUME UNCHANGED posVars, NEW p \in Procs, Return(p)
        PROVE  [Pipe!Next]_Pipe!pipeVars
    BY <1>3, PipeUnchanged DEF Return, Pipe!Finish
  <1>4. ASSUME NEW p \in Procs, User(p) \/ Acquire(p)
        PROVE  [Pipe!Next]_Pipe!pipeVars
    BY <1>2, <1>4 DEF User, CallOpen, CallClose, CallRead, CallWrite, Signal,
       Acquire, OpenLock, ReleaseLock, ReadLock, WriteLock, callVars
  <1>5. ASSUME NEW p \in Procs,
               OpenCount(p) \/ ReleaseCount(p) \/ WaitSpurious(p)
        PROVE  [Pipe!Next]_Pipe!pipeVars
    BY <1>2, <1>5 DEF OpenCount, ReleaseCount, WaitSpurious, callVars
  <1>6. ASSUME NEW p \in Procs, wait_event(p)
        PROVE  [Pipe!Next]_Pipe!pipeVars
    BY <1>2, <1>3, <1>6 DEF wait_event, CondLoad, CondTrue, CondFalse,
       CondFalseSignal, WaitPrepare, WaitWoken, callVars
  <1>7. ASSUME NEW p \in Procs, dev_read(p)
        PROVE  [Pipe!Next]_Pipe!pipeVars
    <2>1. CASE ReadCopy(p)
      BY <2>1, ReadTakes
    <2>2. CASE ReadReset(p)
      BY <2>2, ResetStutters
    <2>3. CASE ReadInterrupted(p) \/ ReadFault(p) \/ ReadWake(p)
      BY <1>3, <2>3 DEF ReadInterrupted, Interrupted, ReadFault, ReadWake
    <2>4. CASE ReadCheck(p) \/ ReadUnlock(p)
      BY <1>2, <2>4 DEF ReadCheck, ReadUnlock, callVars
    <2> QED  BY <1>7, <2>1, <2>2, <2>3, <2>4 DEF dev_read
  <1>8. ASSUME NEW p \in Procs, dev_write(p)
        PROVE  [Pipe!Next]_Pipe!pipeVars
    <2>1. CASE WriteCheck(p)
      BY <2>1, ResetDrops
    <2>2. CASE WriteReset(p)
      BY <2>2, ResetStutters
    <2>3. CASE WriteCopy(p)
      BY <2>3, WritePuts
    <2>4. CASE WriteFault(p)
      BY <2>4, FaultFinishes
    <2>5. CASE WriteInterrupted(p) \/ WriteWake(p)
      BY <1>3, <2>5 DEF WriteInterrupted, Interrupted, WriteWake
    <2>6. CASE WriteUnlock(p)
      BY <1>2, <2>6 DEF WriteUnlock, callVars
    <2> QED  BY <1>8, <2>1, <2>2, <2>3, <2>4, <2>5, <2>6 DEF dev_write
  <1> QED  BY <1>1, <1>4, <1>5, <1>6, <1>7, <1>8 DEF Next, Run

LEMMA PipeInit == Init => Pipe!Init
  <1> SUFFICES ASSUME Init PROVE Pipe!Init
    OBVIOUS
  <1>1. Unread = [i \in 1..0 |-> buffer[0 + i - 1]]
    BY DEF Init, Unread
  <1>2. Unread = <<>>
    BY <1>1
  <1> QED  BY <1>2 DEF Init, Pipe!Init, Filled

\* /dev/myblocking is a first-in first-out pipe of bytes, whatever its readers
\* and writers do and whichever copies fail: every step of a handler is a step
\* of LossyPipe or one that its users cannot see.
THEOREM ImplementsPipe == Spec => RefinesPipe
  <1>1. IInv /\ [Next]_vars => [Pipe!Next]_Pipe!pipeVars
    BY PipeStep DEF IInv
  <1> QED  BY PipeInit, <1>1, Invariance, PTL DEF Spec, RefinesPipe, Pipe!Spec
=============================================================================
