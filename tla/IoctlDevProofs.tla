--------------------------- MODULE IoctlDevProofs ---------------------------
(***************************************************************************)
(* Proofs about IoctlDev, for any number of processes, devices, bytes and  *)
(* arguments: the ranges of the settings, that a RESET takes hold, that    *)
(* its memset stays within the buffer, and that 04 implements the          *)
(* registers of MsgRegisters.                                              *)
(***************************************************************************)
EXTENDS IoctlDev, CharMsgDevProofs

-----------------------------------------------------------------------------
(* The inductive invariant                                                 *)

\* A RESET that no SET has overlapped keeps what it has reset.
ResetInv ==
  \A p \in Procs \ touched :
    /\ pc[p] \in {"reset_mode", "reset_size", "reset_buffer"} => speed = 0
    /\ pc[p] \in {"reset_size", "reset_buffer"} => mode = 0

IoctlInv == IInv /\ IoctlTypeOK /\ ResetInv

\* A RESET comes to a label only from the one before it, and ends only after
\* the last.
ResetOrder(p) ==
  /\ pc'[p] = "reset_mode" => pc[p] = "reset_mode" \/ speed' = 0
  /\ pc'[p] = "reset_size" =>
       \/ pc[p] = "reset_size"
       \/ pc[p] = "reset_mode" /\ mode' = 0
  /\ pc'[p] = "reset_buffer" => pc[p] \in {"reset_size", "reset_buffer"}
  /\ ResetEnds(p) => pc[p] = "reset_buffer"

-----------------------------------------------------------------------------
(* What a step does to a RESET and to the settings                         *)

\* The handlers that IoctlDev shares with the other devices do no RESET.
LEMMA SharedOrder ==
  ASSUME IInv, NEW p \in Procs,
         CallOpen(p) \/ CallClose(p) \/ dev_read(p) \/ dev_write(p)
  PROVE  \A q \in Procs : ResetOrder(q)
  <1> USE DEF Goto, Return
  <1>1. /\ \A q \in Procs \ {p} : pc'[q] = pc[q]
        /\ pc[p] \notin ResetLabels /\ pc'[p] \notin ResetLabels
    <2> USE DEF IInv, Types, ResetLabels
    <2>1. CASE CallOpen(p)  BY <2>1 DEF CallOpen
    <2>2. CASE CallClose(p)  BY <2>2 DEF CallClose
    <2>3. CASE dev_read(p)
      BY <2>3
      DEF dev_read, CallRead, MayRead, ReadSize, ReadEof, ReadLimit, ReadCut,
          ReadByte, ReadReturn
    <2>4. CASE dev_write(p)
      BY <2>4
      DEF dev_write, CallWrite, WriteByte, WriteFault, WriteSize, WriteIndex,
          WriteNul, WriteReturn
    <2> QED  BY <2>1, <2>2, <2>3, <2>4
  <1> QED  BY <1>1 DEF ResetOrder, ResetEnds, Resetting, ResetLabels

LEMMA IoctlOrder ==
  ASSUME IInv, NEW p \in Procs, dev_ioctl(p)
  PROVE  \A q \in Procs : ResetOrder(q)
  <1> USE DEF Goto, Return, IInv, Types, ResetOrder, ResetEnds, Resetting,
              ResetLabels, MayIoctl
  <1>1. CASE NotTty(p)  BY <1>1 DEF NotTty
  <1>2. CASE Fault(p)  BY <1>2 DEF Fault
  <1>3. CASE SetSpeed(p)  BY <1>3 DEF SetSpeed
  <1>4. CASE SetMode(p)  BY <1>4 DEF SetMode
  <1>5. CASE Get(p)  BY <1>5 DEF Get
  <1>6. CASE CallReset(p)  BY <1>6 DEF CallReset
  <1>7. CASE ResetSpeed(p)  BY <1>7 DEF ResetSpeed
  <1>8. CASE ResetMode(p)  BY <1>8 DEF ResetMode
  <1>9. CASE ResetSize(p)  BY <1>9 DEF ResetSize
  <1>10. CASE ResetBuffer(p)  BY <1>10 DEF ResetBuffer
  <1>11. CASE ResetReturn(p)  BY <1>11 DEF ResetReturn
  <1> QED
    BY <1>1, <1>2, <1>3, <1>4, <1>5, <1>6, <1>7, <1>8, <1>9, <1>10, <1>11
    DEF dev_ioctl

\* dev_ioctl stores a setting only within its range.
LEMMA SettingsInRange ==
  ASSUME speed \in 0..MAX_SPEED, mode \in 0..MAX_MODE, NEW p \in Procs,
         dev_ioctl(p)
  PROVE  speed' \in 0..MAX_SPEED /\ mode' \in 0..MAX_MODE
  <1>1. 0 \in 0..MAX_SPEED /\ 0 \in 0..MAX_MODE
    BY DEF MAX_SPEED, MAX_MODE
  <1>2. CASE SetSpeed(p)
    <2>1. \A v \in Args : ~BadSpeed(v) => v \in 0..MAX_SPEED
      BY IoctlAssumption DEF BadSpeed, MAX_SPEED
    <2> QED  BY <1>2, <2>1 DEF SetSpeed
  <1>3. CASE SetMode(p)
    <2>1. \A v \in Args : ~BadMode(v) => v \in 0..MAX_MODE
      BY IoctlAssumption DEF BadMode, MAX_MODE
    <2> QED  BY <1>3, <2>1 DEF SetMode
  <1> QED
    BY <1>1, <1>2, <1>3
    DEF dev_ioctl, NotTty, Fault, Get, CallReset, ResetSpeed, ResetMode,
        ResetSize, ResetBuffer, ResetReturn

-----------------------------------------------------------------------------
(* What a step does to the message                                         *)

\* A step of a RESET before its memset is that of a call on its buffer.
LEMMA ResetStepInv ==
  ASSUME IInv, NEW p \in Procs,
         CallReset(p) \/ ResetSpeed(p) \/ ResetMode(p) \/ ResetSize(p)
  PROVE  IInv'
  <1> USE DEF CallReset, ResetSpeed, ResetMode, ResetSize, Goto, userVars,
              bufVars, callVars
  <1>1. Types'
    <2>1. 0 \in 0..BUF_LEN - 1 /\ BUF_LEN \in Nat /\ NoRet \in Int
      BY MsgAssumption DEF NoRet
    <2>2. 0 \in Nat /\ <<>> \in Seq(Byte)
      OBVIOUS
    <2> USE DEF IInv, Types, AllLabels, WriteLabels
    <2>3. CASE CallReset(p)  BY <2>1, <2>2, <2>3
    <2>4. CASE ResetSpeed(p)  BY <2>1, <2>4
    <2>5. CASE ResetMode(p)  BY <2>1, <2>5
    <2>6. CASE ResetSize(p)  BY <2>1, <2>6
    <2> QED  BY <2>3, <2>4, <2>5, <2>6
  <1>2. \A q \in Procs \ {p} : SameCall(q)
    BY DEF IInv, Types, SameCall
  <1>3. Buf(p)' \in Buffers
    <2>1. UNCHANGED <<driver, minor>>
      OBVIOUS
    <2>2. /\ minor[p] \in Minors \cup {0} /\ HasCdev(minor[p])
          /\ driver \in Drivers
      BY DEF IInv, Types, CallInv
    <2>3. ~NoDevice(minor[p])
      BY <2>2, IoctlAssumption DEF NoDevice
    <2>4. BufferOf(minor[p]) \in Buffers
      BY <2>2, <2>3, BufferExists
    <2> QED  BY <2>1, <2>4 DEF Buf, BufferOf
  <1>4. CallInv(p)'
    <2>1. /\ pc'[p] \in {"reset_speed", "reset_mode", "reset_size",
                         "reset_buffer"}
          /\ pc'[p] = "reset_buffer" => left'[p] <= BUF_LEN
      BY MsgAssumption DEF IInv, Types
    <2> QED  BY <1>3, <2>1, CdevStays DEF CallInv
  <1> QED  BY <1>1, <1>2, <1>4, Frame DEF IInv

\* The memset starts at the first byte and ends with the last.
LEMMA ResetBufferInv ==
  ASSUME IInv, NEW p \in Procs, ResetBuffer(p)
  PROVE  IInv'
  <1> USE DEF ResetBuffer
  <1>1. /\ Buf(p) \in Buffers /\ left[p] \in Nat /\ left[p] > 0
        /\ left[p] <= BUF_LEN
    BY DEF IInv, Types, CallInv, Calling, Writing, WriteLabels
  <1>2. BUF_LEN - left[p] \in 0..BUF_LEN - 1
    BY <1>1, MsgAssumption
  <1>3. message' \in [Buffers -> [0..BUF_LEN - 1 -> Byte]]
    <2>1. NUL \in Byte  BY DEF Byte
    <2> QED  BY <1>1, <1>2, <2>1, StoreType
  <1>4. left' \in [Procs -> Nat] /\ left'[p] <= BUF_LEN
    BY <1>1, MsgAssumption DEF IInv, Types
  <1>5. Types'
    BY <1>3, <1>4 DEF IInv, Types
  <1>6. CallInv(p)'
    <2>1. pc'[p] = "reset_buffer" /\ Buf(p)' \in Buffers
      BY <1>1 DEF Buf, BufferOf
    <2> QED  BY <1>4, <2>1, CdevStays DEF CallInv
  <1>7. \A q \in Procs \ {p} : SameCall(q)
    BY DEF IInv, Types, SameCall
  <1> QED  BY <1>5, <1>6, <1>7, Frame DEF IInv

LEMMA IoctlReturnsInv ==
  ASSUME IInv, NEW p \in Procs,
         \/ NotTty(p) \/ Fault(p) \/ SetSpeed(p) \/ SetMode(p) \/ Get(p)
         \/ ResetReturn(p)
  PROVE  IInv'
  <1>1. /\ 0 \in Int /\ -ENOTTY \in Int /\ -EFAULT \in Int /\ -EINVAL \in Int
        /\ <<>> \in Seq(Byte)
    BY DEF ENOTTY, EFAULT, EINVAL
  <1>2. offset \in [Procs -> Nat]  BY DEF IInv, Types
  <1>3. PICK r \in Int : Return(p, r, <<>>)
    BY <1>1 DEF NotTty, Fault, SetSpeed, SetMode, Get, ResetReturn
  <1>4. UNCHANGED <<driver, message, message_size, minor, offset>>
    BY DEF NotTty, Fault, SetSpeed, SetMode, Get, ResetReturn, userVars, bufVars
  <1> QED  BY <1>1, <1>2, <1>3, <1>4, ReturnInv

-----------------------------------------------------------------------------
(* What a step is to the registers of MsgRegisters                         *)

\* An ioctl other than RESET is none of them.
LEMMA IoctlReg ==
  ASSUME IInv, IInv', RegInv, History, NEW p \in Procs,
         NotTty(p) \/ Fault(p) \/ SetSpeed(p) \/ SetMode(p) \/ Get(p)
  PROVE  RegStep(p)
  <1>1. PICK r \in {0, -ENOTTY, -EFAULT, -EINVAL} : Return(p, r, <<>>)
    BY DEF NotTty, Fault, SetSpeed, SetMode, Get
  <1>2. pc[p] = "open" /\ UNCHANGED <<bufVars, minor, offset>>
    BY DEF NotTty, Fault, SetSpeed, SetMode, Get, MayIoctl, userVars
  <1>3. ~Calling(p)
    BY <1>2 DEF Calling, Reading, Writing, ReadLabels, WriteLabels
  <1>4. /\ StepOf(p) /\ WriteInv(p)' /\ ReadInv(p)'
        /\ ~Calling(p)' /\ data'[p] = <<>> /\ ret'[p] = r
    BY <1>1, <1>2, ReturnStep
  <1>5. r \notin Nat \ {0}
    BY DEF ENOTTY, EFAULT, EINVAL
  <1> QED  BY <1>3, <1>4, <1>5, MapForget DEF RegStep

\* A RESET clears the settings before it comes to the message.
LEMMA ResetSettingsReg ==
  ASSUME IInv, IInv', RegInv, History, NEW p \in Procs,
         CallReset(p) \/ ResetSpeed(p) \/ ResetMode(p)
  PROVE  RegStep(p)
  <1> USE DEF CallReset, ResetSpeed, ResetMode
  <1>1. /\ \A q \in Procs \ {p} : SameCall(q) /\ ret'[q] = ret[q]
        /\ UNCHANGED bufVars /\ minor' = minor
    BY DEF IInv, Types, SameCall, Goto, userVars, bufVars, callVars
  <1>2. StepOf(p)
    BY <1>1, StepAlone
  <1>3. ~Calling(p)
    BY DEF MayIoctl, Calling, Reading, Writing, ReadLabels, WriteLabels
  <1>4. data'[p] = <<>> /\ ret'[p] = NoRet
    <2>1. WriteInv(p)
      BY DEF RegInv
    <2> QED  BY <2>1 DEF IInv, Types, callVars, WriteInv
  <1>5. pc'[p] \in {"reset_speed", "reset_mode", "reset_size"}
    BY DEF IInv, Types, Goto
  <1>6. WriteInv(p)' /\ ReadInv(p)'
    BY <1>4, <1>5 DEF WriteInv, ReadInv
  <1>7. CASE CallReset(p)
    <2>1. ~Calling(p)'
      BY <1>7 DEF IInv, Types, Goto, Calling, Reading, Writing, ReadLabels, WriteLabels
    <2>2. ret'[p] \notin Nat \ {0}
      BY <1>4 DEF NoRet
    <2> QED  BY <1>2, <1>3, <1>4, <1>6, <2>1, <2>2, MapForget DEF RegStep
  <1>8. CASE ResetSpeed(p)
    <2>1. ~Calling(p)'
      BY <1>8 DEF IInv, Types, Goto, Calling, Reading, Writing, ReadLabels, WriteLabels
    <2>2. ret'[p] \notin Nat \ {0}
      BY <1>4 DEF NoRet
    <2> QED  BY <1>2, <1>3, <1>4, <1>6, <2>1, <2>2, MapForget DEF RegStep
  <1>9. CASE ResetMode(p)
    <2>1. Writing(p)'
      BY <1>9 DEF IInv, Types, Goto, Writing, WriteLabels
    <2> QED  BY <1>2, <1>3, <1>4, <1>6, <2>1, MapBeginWrite DEF RegStep
  <1> QED  BY <1>7, <1>8, <1>9

\* To the message a RESET is a write of the empty one: its size becomes 0, ...
LEMMA ResetSizeReg ==
  ASSUME IInv, IInv', RegInv, History, NEW p \in Procs, ResetSize(p)
  PROVE  RegStep(p)
  <1>1. /\ pc[p] = "reset_size" /\ Goto(p, "reset_buffer")
        /\ message_size' = [message_size EXCEPT ![Buf(p)] = 0]
        /\ left' = [left EXCEPT ![p] = BUF_LEN]
        /\ UNCHANGED <<driver, message, minor, offset, len, data, ret>>
    BY DEF ResetSize
  <1>2. /\ pc'[p] = "reset_buffer"
        /\ \A q \in Procs \ {p} : pc'[q] = pc[q] /\ left'[q] = left[q]
    BY <1>1 DEF Goto, IInv, Types
  <1>3. Writing(p) /\ Writing(p)' /\ Calling(p)
    BY <1>1, <1>2 DEF Writing, Calling, WriteLabels
  <1>4. StepOf(p) /\ message_size'[Buf(p)] = 0
    BY <1>1, <1>2, <1>3, StepSizes
  <1>5. clean' = clean /\ Buf(p)' = Buf(p) /\ WriteInv(p)
    BY <1>3, <1>4, CleanAfter, DeviceKept DEF RegInv
  <1>6. WriteInv(p)'
    BY <1>1, <1>2, <1>4, <1>5 DEF WriteInv
  <1>7. ReadInv(p)' /\ data'[p] = data[p] /\ ret'[p] = ret[p]
    BY <1>1, <1>2 DEF ReadInv
  <1> QED  BY <1>3, <1>4, <1>6, <1>7, MapInside DEF RegStep

\* ... then its bytes go, ...
LEMMA ResetBufferReg ==
  ASSUME IInv, IInv', RegInv, History, NEW p \in Procs, ResetBuffer(p)
  PROVE  RegStep(p)
  <1> DEFINE i == BUF_LEN - left[p]
  <1>1. /\ pc[p] = "reset_buffer" /\ Store(p, i, NUL)
        /\ left' = [left EXCEPT ![p] = @ - 1]
        /\ UNCHANGED <<driver, message_size, pc, minor, offset, len, data, ret>>
    BY DEF ResetBuffer
  <1>2. Writing(p) /\ Writing(p)' /\ Calling(p)
    BY <1>1 DEF Writing, Calling, WriteLabels
  <1>3. \A q \in Procs \ {p} : left'[q] = left[q]
    BY <1>1 DEF IInv, Types
  <1>4. StepOf(p)
    <2> HIDE DEF i
    <2> QED  BY <1>1, <1>2, <1>3, StepStores
  <1>5. clean' = clean /\ Buf(p)' = Buf(p) /\ WriteInv(p)
    BY <1>2, <1>4, CleanAfter, DeviceKept DEF RegInv
  <1>6. WriteInv(p)'
    BY <1>1, <1>5 DEF WriteInv
  <1>7. ReadInv(p)' /\ data'[p] = data[p] /\ ret'[p] = ret[p]
    BY <1>1 DEF ReadInv
  <1> QED  BY <1>2, <1>4, <1>6, <1>7, MapInside DEF RegStep

\* ... and it returns 0.
LEMMA ResetReturnReg ==
  ASSUME IInv, IInv', RegInv, History, NEW p \in Procs, ResetReturn(p)
  PROVE  RegStep(p)
  <1>1. /\ pc[p] = "reset_buffer" /\ Return(p, 0, <<>>)
        /\ UNCHANGED <<bufVars, minor, offset>>
    BY DEF ResetReturn, userVars
  <1>2. Writing(p) /\ Calling(p)
    BY <1>1 DEF Writing, Calling, WriteLabels
  <1>3. /\ StepOf(p) /\ WriteInv(p)' /\ ReadInv(p)'
        /\ ~Calling(p)' /\ data'[p] = <<>> /\ ret'[p] = 0
    BY <1>1, ReturnStep
  <1>4. ASSUME p \in clean
        PROVE  ret'[p] = Len(data[p]) /\ Message(Buf(p))' = data[p]
    <2>1. data[p] = <<>> /\ message_size[Buf(p)] = 0
      BY <1>1, <1>4 DEF RegInv, WriteInv
    <2>2. Len(data[p]) = 0 /\ Stored(p, Len(data[p]))
      BY <2>1 DEF Stored
    <2>3. Message(Buf(p)) = data[p]
      BY <1>2, <2>1, <2>2, StoredMessage
    <2>4. Message(Buf(p))' = Message(Buf(p))
      <3>1. Buf(p)' = Buf(p)
        BY <1>2, <1>3, DeviceKept
      <3> QED  BY <1>1, <3>1 DEF Message, bufVars
    <2> QED  BY <1>3, <2>2, <2>3, <2>4
  <1> QED  BY <1>2, <1>3, <1>4, MapEndWrite DEF RegStep

LEMMA IoctlRegisterStep ==
  ASSUME IInv, RegInv, IoctlNext
  PROVE  IInv' /\ RegInv' /\ [Register!Next]_Register!registerVars
  <1>1. PICK p \in Procs : ioctl_fops(p)
    BY DEF IoctlNext
  <1>2. History
    BY DEF IoctlNext
  <1>3. CASE CallOpen(p) \/ CallClose(p) \/ dev_read(p) \/ dev_write(p)
    BY <1>2, <1>3, HandlerInv, HandlerReg
  <1>4. CASE dev_ioctl(p)
    <2>1. IInv'
      BY <1>4, ResetStepInv, ResetBufferInv, IoctlReturnsInv DEF dev_ioctl
    <2>2. RegStep(p)
      BY <1>2, <1>4, <2>1, IoctlReg, ResetSettingsReg, ResetSizeReg, ResetBufferReg,
         ResetReturnReg
      DEF dev_ioctl
    <2> QED  BY <1>2, <2>1, <2>2, RegFrame, MapsNext DEF RegStep
  <1> QED  BY <1>1, <1>3, <1>4 DEF ioctl_fops

-----------------------------------------------------------------------------
(* Theorems                                                                *)

\* Every step of 04 is one of these.
LEMMA StepCases ==
  ASSUME IInv, IoctlNext
  PROVE  /\ IInv'
         /\ \A q \in Procs : ResetOrder(q)
         /\ speed \in 0..MAX_SPEED /\ mode \in 0..MAX_MODE =>
              speed' \in 0..MAX_SPEED /\ mode' \in 0..MAX_MODE
  <1>1. PICK p \in Procs : ioctl_fops(p)
    BY DEF IoctlNext
  <1>2. CASE /\ CallOpen(p) \/ CallClose(p) \/ dev_read(p) \/ dev_write(p)
             /\ UNCHANGED <<speed, mode>>
    BY <1>2, HandlerInv, SharedOrder
  <1>3. CASE dev_ioctl(p)
    <2>1. IInv'
      BY <1>3, ResetStepInv, ResetBufferInv, IoctlReturnsInv DEF dev_ioctl
    <2> QED  BY <1>3, <2>1, IoctlOrder, SettingsInRange
  <1> QED  BY <1>1, <1>2, <1>3 DEF ioctl_fops

\* IoctlInv is inductive.
THEOREM IoctlInvariance == IoctlSpec => []IoctlInv
  <1>1. IoctlInit => IoctlInv
    <2> SUFFICES ASSUME IoctlInit  PROVE IoctlInv
      OBVIOUS
    <2>1. IInv  BY InvInit DEF IoctlInit
    <2>2. IoctlTypeOK
      BY DEF IoctlInit, IoctlTypeOK, MAX_SPEED, MAX_MODE, DefaultSpeed,
             DefaultMode
    <2>3. ResetInv
      BY DEF IoctlInit, MsgInit, NoCalls, ResetInv
    <2> QED  BY <2>1, <2>2, <2>3 DEF IoctlInv
  <1>2. IoctlInv /\ [IoctlNext]_ioctlVars => IoctlInv'
    <2> SUFFICES ASSUME IoctlInv, [IoctlNext]_ioctlVars  PROVE IoctlInv'
      OBVIOUS
    <2>1. CASE IoctlNext
      <3>1. IInv' /\ \A q \in Procs : ResetOrder(q)
        BY <2>1, StepCases DEF IoctlInv
      <3>2. IoctlTypeOK'
        BY <2>1, StepCases DEF IoctlInv, IoctlTypeOK, IoctlNext
      <3>3. ResetInv'
        <4> SUFFICES ASSUME NEW p \in Procs, p \notin touched',
                            pc'[p] \in {"reset_mode", "reset_size",
                                        "reset_buffer"}
                     PROVE  /\ speed' = 0
                            /\ pc'[p] \in {"reset_size", "reset_buffer"} =>
                                 mode' = 0
          BY DEF ResetInv
        <4>1. Resetting(p)'  BY DEF Resetting, ResetLabels
        <4>2. /\ p \notin touched
              /\ speed' \in {speed, 0} /\ mode' \in {mode, 0}
          BY <2>1, <4>1 DEF IoctlNext
        <4>3. ResetOrder(p)  BY <3>1
        <4> QED  BY <4>2, <4>3 DEF ResetOrder, IoctlInv, ResetInv
      <3> QED  BY <3>1, <3>2, <3>3 DEF IoctlInv
    <2>2. CASE UNCHANGED ioctlVars
      BY <2>2
      DEF ioctlVars, msgVars, bufVars, callVars, historyVars, IoctlInv, IInv,
          Types, CallInv, Calling, Reading, Writing, Buf, BufferOf, HasCdev,
          IoctlTypeOK, ResetInv, Resetting
    <2> QED  BY <2>1, <2>2
  <1> QED  BY <1>1, <1>2, PTL DEF IoctlSpec

\* dev_ioctl keeps the speed and the mode within the ranges it tests.
THEOREM SettingsStayInRange == IoctlSpec => []IoctlTypeOK
  BY IoctlInvariance, PTL DEF IoctlInv

\* Neither the read and write of 04 nor the memset of RESET leaves the buffer
\* of the device.
THEOREM IoctlBytesInBounds == IoctlSpec => []BytesInBounds
  BY IoctlInvariance, InvBounds, PTL DEF IoctlInv

\* A RESET returns with the speed and the mode 0 unless a SET came while it
\* was under way, whatever else ran at the same time.
THEOREM ResetAlwaysTakesHold == IoctlSpec => ResetTakesHold
  <1> DEFINE Holds == \A p \in Procs \ touched :
                        ResetEnds(p) => speed = 0 /\ mode = 0
  <1>1. IoctlInv /\ [IoctlNext]_ioctlVars => [Holds]_ioctlVars
    <2> SUFFICES ASSUME IoctlInv, IoctlNext  PROVE Holds
      OBVIOUS
    <2>1. \A q \in Procs : ResetOrder(q)
      BY StepCases DEF IoctlInv
    <2> QED  BY <2>1 DEF ResetOrder, IoctlInv, ResetInv
  <1> HIDE DEF Holds
  <1>2. IoctlSpec => [][Holds]_ioctlVars
    BY <1>1, IoctlInvariance, PTL DEF IoctlSpec
  <1> QED  BY <1>2 DEF ResetTakesHold, Holds

\* 04 implements a safe register for each device, RESET being a write of the
\* empty message, and no other ioctl touches one.
THEOREM IoctlImplementsRegisters == IoctlSpec => RefinesRegisters
  <1>1. IoctlInit => IInv /\ RegInv /\ Register!Init
    BY InvInit, RegInit DEF IoctlInit
  <1>2. IInv /\ RegInv /\ [IoctlNext]_ioctlVars =>
          IInv' /\ RegInv' /\ [Register!Next]_Register!registerVars
    <2> SUFFICES ASSUME IInv, RegInv, [IoctlNext]_ioctlVars
                 PROVE  IInv' /\ RegInv' /\ [Register!Next]_Register!registerVars
      OBVIOUS
    <2>1. CASE IoctlNext
      BY <2>1, IoctlRegisterStep
    <2>2. CASE UNCHANGED ioctlVars
      <3>1. IInv'
        BY <2>2
        DEF ioctlVars, msgVars, bufVars, callVars, historyVars, IInv, Types, CallInv,
            Calling, Reading, Writing, Buf, BufferOf, HasCdev
      <3>2. UNCHANGED msgVars
        BY <2>2 DEF ioctlVars
      <3> QED  BY <3>1, <3>2, RegStutter
    <2> QED  BY <2>1, <2>2
  <1> QED  BY <1>1, <1>2, PTL DEF IoctlSpec, RefinesRegisters, Register!Spec
=============================================================================
