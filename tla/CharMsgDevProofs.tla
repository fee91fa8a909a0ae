-------------------------- MODULE CharMsgDevProofs --------------------------
(***************************************************************************)
(* Proofs about CharMsgDev, for any number of processes, devices and       *)
(* bytes: the type invariant, that no handler leaves its buffer, and that  *)
(* the devices implement the registers of MsgRegisters.                    *)
(***************************************************************************)
EXTENDS MsgRegisters, TLAPS

-----------------------------------------------------------------------------
(* The inductive invariant.  The labels include those of the dev_ioctl of  *)
(* IoctlDev and of the dev_open of AutoNode, which add their actions to    *)
(* these.                                                                  *)

AllLabels ==
  {"closed", "open", "open_store", "reset_speed", "reset_mode"}
    \cup ReadLabels \cup WriteLabels

Types ==
  /\ driver \in Drivers
  /\ message \in [Buffers -> [0..BUF_LEN - 1 -> Byte]]
  /\ message_size \in [Buffers -> 0..BUF_LEN - 1]
  /\ pc \in [Procs -> AllLabels]
  /\ minor \in [Procs -> Minors \cup {0}]
  /\ offset \in [Procs -> Nat]
  /\ len \in [Procs -> Nat] /\ left \in [Procs -> Nat]
  /\ data \in [Procs -> Seq(Byte)]
  /\ ret \in [Procs -> Int]

\* What a process that is in a call has established.
CallInv(p) ==
  /\ HasCdev(minor[p])
  /\ Calling(p) => Buf(p) \in Buffers
  /\ pc[p] \in {"read_size", "read_limit", "read_cut"} => data[p] = <<>>
  /\ pc[p] \in {"read_limit", "read_cut"} => offset[p] < BUF_LEN
  /\ pc[p] = "read_copy" => offset[p] + Len(data[p]) + left[p] < BUF_LEN
  /\ pc[p] = "write_copy" =>
       Len(data[p]) <= len[p] /\ left[p] <= len[p] /\ len[p] < BUF_LEN
  /\ pc[p] = "write_nul" => left[p] < BUF_LEN
  /\ pc[p] = "reset_buffer" => left[p] <= BUF_LEN

IInv == Types /\ \A p \in Procs : CallInv(p)

\* A step of one process leaves what the others have established.
SameCall(q) ==
  /\ driver' = driver
  /\ pc'[q] = pc[q] /\ minor'[q] = minor[q] /\ offset'[q] = offset[q]
  /\ len'[q] = len[q] /\ left'[q] = left[q] /\ data'[q] = data[q]

LEMMA Frame ==
  ASSUME \A q \in Procs : CallInv(q), NEW p \in Procs, CallInv(p)',
         \A q \in Procs \ {p} : SameCall(q)
  PROVE  \A q \in Procs : CallInv(q)'
  <1> SUFFICES ASSUME NEW q \in Procs \ {p}  PROVE CallInv(q)'
    OBVIOUS
  <1>1. CallInv(q) /\ SameCall(q)  OBVIOUS
  <1> QED
    BY <1>1
    DEF CallInv, SameCall, Calling, Reading, Writing, Buf, BufferOf, HasCdev

\* A file stays on a node that has its cdev.
LEMMA CdevStays ==
  ASSUME IInv, NEW p \in Procs, UNCHANGED <<driver, minor>>
  PROVE  HasCdev(minor[p])'
  BY DEF IInv, CallInv, HasCdev

LEMMA MinNat ==
  ASSUME NEW a \in Nat, NEW b \in Nat
  PROVE  Min({a, b}) \in Nat /\ Min({a, b}) <= a /\ Min({a, b}) <= b
  <1>1. \E x \in {a, b} : \A y \in {a, b} : x <= y
    <2>1. CASE a <= b  BY <2>1
    <2>2. CASE b <= a  BY <2>2
    <2> QED  BY <2>1, <2>2
  <1> QED  BY <1>1 DEF Min

\* A minor number that is not refused has a buffer.
LEMMA BufferExists ==
  ASSUME NEW m \in Minors \cup {0}, ~NoDevice(m), HasCdev(m),
         driver \in Drivers
  PROVE  BufferOf(m) \in Buffers
  <1>1. DEV_MAX \in Nat \ {0} /\ Minors \subseteq Nat
    BY MsgAssumption
  <1>2. CASE driver = "shared"
    BY <1>1, <1>2 DEF BufferOf, Buffers
  <1>3. CASE driver = "multibuf"
    BY <1>1, <1>3 DEF BufferOf, Buffers, NoDevice
  <1>4. CASE driver = "cdev"
    BY <1>1, <1>4 DEF BufferOf, Buffers, HasCdev
  <1> QED  BY <1>2, <1>3, <1>4, MsgAssumption

LEMMA InvInit == MsgInit => IInv
  <1> SUFFICES ASSUME MsgInit  PROVE IInv
    OBVIOUS
  <1> USE DEF MsgInit, Cleared, NoCalls
  <1>1. NUL \in Byte  BY DEF Byte
  <1>2. BUF_LEN \in Nat \ {0} /\ NoRet \in Int  BY MsgAssumption DEF NoRet
  <1>3. Types
    <2>1. message \in [Buffers -> [0..BUF_LEN - 1 -> Byte]]  BY <1>1
    <2>2. message_size \in [Buffers -> 0..BUF_LEN - 1]  BY <1>2
    <2>3. data \in [Procs -> Seq(Byte)]  OBVIOUS
    <2>4. pc \in [Procs -> AllLabels] /\ minor \in [Procs -> Minors \cup {0}]
      BY DEF AllLabels
    <2>5. /\ offset \in [Procs -> Nat] /\ len \in [Procs -> Nat]
          /\ left \in [Procs -> Nat]
      OBVIOUS
    <2>6. ret \in [Procs -> Int]  BY <1>2
    <2> QED  BY <2>1, <2>2, <2>3, <2>4, <2>5, <2>6 DEF Types
  <1>4. ASSUME NEW p \in Procs  PROVE CallInv(p)
    <2>1. HasCdev(minor[p])  BY MsgAssumption DEF HasCdev
    <2> QED
      BY <2>1
      DEF CallInv, Calling, Reading, Writing, ReadLabels, WriteLabels
  <1> QED  BY <1>3, <1>4 DEF IInv

-----------------------------------------------------------------------------
(* open and close                                                          *)

LEMMA OpenInv ==
  ASSUME IInv, NEW p \in Procs, CallOpen(p)
  PROVE  IInv'
  <1> USE DEF CallOpen, Goto, bufVars, callVars
  <1>1. Types'  BY DEF IInv, Types, AllLabels
  <1>2. pc'[p] = "open"  BY DEF IInv, Types
  <1>3. CallInv(p)'
    <2>1. HasCdev(minor[p])'  BY DEF IInv, Types, HasCdev
    <2> QED
      BY <1>2, <2>1
      DEF CallInv, Calling, Reading, Writing, ReadLabels, WriteLabels
  <1>4. \A q \in Procs \ {p} : SameCall(q)  BY DEF IInv, Types, SameCall
  <1> QED  BY <1>1, <1>3, <1>4, Frame DEF IInv

LEMMA CloseInv ==
  ASSUME IInv, NEW p \in Procs, CallClose(p)
  PROVE  IInv'
  <1> USE DEF CallClose, Goto, bufVars
  <1>1. Types'
    <2>1. NoRet \in Int  BY DEF NoRet
    <2> QED  BY <2>1 DEF IInv, Types, AllLabels
  <1>2. pc'[p] = "closed"  BY DEF IInv, Types
  <1>3. CallInv(p)'
    <2>1. HasCdev(minor[p])'  BY MsgAssumption DEF IInv, Types, HasCdev
    <2> QED
      BY <1>2, <2>1
      DEF CallInv, Calling, Reading, Writing, ReadLabels, WriteLabels
  <1>4. \A q \in Procs \ {p} : SameCall(q)  BY DEF IInv, Types, SameCall
  <1> QED  BY <1>1, <1>3, <1>4, Frame DEF IInv

\* A call that returns an integer and has read some bytes.
LEMMA ReturnInv ==
  ASSUME IInv, NEW p \in Procs, NEW r \in Int, NEW d \in Seq(Byte),
         Return(p, r, d), UNCHANGED <<driver, message, message_size, minor>>,
         offset' \in [Procs -> Nat],
         \A q \in Procs \ {p} : offset'[q] = offset[q]
  PROVE  IInv'
  <1> USE DEF Return, Goto
  <1>1. Types'  BY DEF IInv, Types, AllLabels
  <1>2. pc'[p] = "open"  BY DEF IInv, Types
  <1>3. CallInv(p)'
    BY <1>2, CdevStays DEF CallInv, Calling, Reading, Writing, ReadLabels, WriteLabels
  <1>4. \A q \in Procs \ {p} : SameCall(q)  BY DEF IInv, Types, SameCall
  <1> QED  BY <1>1, <1>3, <1>4, Frame DEF IInv
-----------------------------------------------------------------------------
(* read                                                                    *)

LEMMA CallReadInv ==
  ASSUME IInv, NEW p \in Procs, CallRead(p)
  PROVE  IInv'
  <1> USE DEF CallRead, Goto, bufVars
  <1>1. PICK l \in Lens : len' = [len EXCEPT ![p] = l]
    OBVIOUS
  <1>2. l \in Nat  BY MsgAssumption
  <1>3. Types'
    <2>1. NoRet \in Int  BY DEF NoRet
    <2> QED  BY <1>1, <1>2, <2>1 DEF IInv, Types, AllLabels, ReadLabels
  <1>4. pc'[p] = "read_size" /\ data'[p] = <<>>  BY DEF IInv, Types
  <1>5. Buf(p)' \in Buffers
    <2>1. /\ minor[p] \in Minors \cup {0} /\ ~NoDevice(minor[p])
          /\ HasCdev(minor[p]) /\ driver \in Drivers
      BY DEF IInv, Types, CallInv, MayRead
    <2> QED  BY <2>1, BufferExists DEF Buf, BufferOf
  <1>6. CallInv(p)'
    BY <1>4, <1>5, CdevStays DEF CallInv
  <1>7. \A q \in Procs \ {p} : SameCall(q)
    BY <1>1 DEF IInv, Types, SameCall
  <1> QED  BY <1>3, <1>6, <1>7, Frame DEF IInv

LEMMA ReadSizeInv ==
  ASSUME IInv, NEW p \in Procs, ReadSize(p)
  PROVE  IInv'
  <1> DEFINE size == message_size[Buf(p)]
  <1> USE DEF ReadSize, Goto, bufVars, callVars
  <1>1. /\ pc[p] = "read_size" /\ data[p] = <<>> /\ Buf(p) \in Buffers
        /\ size \in 0..BUF_LEN - 1 /\ offset[p] < size
        /\ offset[p] \in Nat /\ BUF_LEN \in Nat
    BY MsgAssumption
    DEF IInv, Types, CallInv, Calling, Reading, ReadLabels
  <1>2. Types'  BY DEF IInv, Types, AllLabels, ReadLabels
  <1>3. /\ pc'[p] = "read_limit" /\ data'[p] = <<>> /\ offset'[p] = offset[p]
        /\ Buf(p)' = Buf(p)
    BY <1>1 DEF IInv, Types, Buf, BufferOf
  <1>4. offset'[p] < BUF_LEN
    BY <1>1, <1>3
  <1>5. CallInv(p)'
    BY <1>1, <1>3, <1>4, CdevStays DEF CallInv, Buffers
  <1>6. \A q \in Procs \ {p} : SameCall(q)
    BY DEF IInv, Types, SameCall
  <1> QED  BY <1>2, <1>5, <1>6, Frame DEF IInv

\* What a read knows between its loads of the size.
LEMMA ReadFacts ==
  ASSUME IInv, NEW p \in Procs, pc[p] \in {"read_limit", "read_cut"}
  PROVE  /\ Buf(p) \in Buffers /\ data[p] = <<>>
         /\ message_size[Buf(p)] \in 0..BUF_LEN - 1 /\ BUF_LEN \in Nat
         /\ offset[p] \in Nat /\ offset[p] < BUF_LEN /\ len[p] \in Nat
  BY MsgAssumption
  DEF IInv, Types, CallInv, Calling, Reading, ReadLabels

\* A read that begins to copy n bytes.
LEMMA CopyBeginsInv ==
  ASSUME IInv, NEW p \in Procs, pc[p] \in {"read_limit", "read_cut"},
         NEW n \in Nat, offset[p] + n < BUF_LEN, Goto(p, "read_copy"),
         left' = [left EXCEPT ![p] = n],
         UNCHANGED <<bufVars, minor, offset, len, data, ret>>
  PROVE  IInv'
  <1> USE DEF Goto, bufVars
  <1>1. Types'  BY DEF IInv, Types, AllLabels, ReadLabels
  <1>2. /\ pc'[p] = "read_copy" /\ data'[p] = <<>> /\ left'[p] = n
        /\ offset'[p] = offset[p] /\ Buf(p)' = Buf(p)
    BY ReadFacts DEF IInv, Types, Buf, BufferOf
  <1>3. offset'[p] + Len(data'[p]) + left'[p] < BUF_LEN
    <2>1. Len(data'[p]) = 0  BY <1>2
    <2> QED  BY <1>2, <2>1, ReadFacts
  <1>4. CallInv(p)'
    BY <1>2, <1>3, ReadFacts, CdevStays DEF CallInv, Buffers
  <1>5. \A q \in Procs \ {p} : SameCall(q)
    BY DEF IInv, Types, SameCall
  <1> QED  BY <1>1, <1>4, <1>5, Frame DEF IInv

LEMMA ReadLimitInv ==
  ASSUME IInv, NEW p \in Procs, ReadLimit(p)
  PROVE  IInv'
  <1> DEFINE size == message_size[Buf(p)]
  <1>1. pc[p] = "read_limit" /\ UNCHANGED <<bufVars, minor, offset, len, data, ret>>
    BY DEF ReadLimit
  <1>2. CASE offset[p] + len[p] > size
    <2>1. Goto(p, "read_cut") /\ UNCHANGED left
      BY <1>2 DEF ReadLimit
    <2> USE <1>1, <2>1 DEF Goto, bufVars
    <2>2. Types'  BY DEF IInv, Types, AllLabels, ReadLabels
    <2>3. /\ pc'[p] = "read_cut" /\ data'[p] = <<>> /\ offset'[p] = offset[p]
          /\ Buf(p)' = Buf(p)
      BY ReadFacts DEF IInv, Types, Buf, BufferOf
    <2>4. CallInv(p)'
      BY <2>3, ReadFacts, CdevStays DEF CallInv, Buffers
    <2>5. \A q \in Procs \ {p} : SameCall(q)
      BY DEF IInv, Types, SameCall
    <2> QED  BY <2>2, <2>4, <2>5, Frame DEF IInv
  <1>3. CASE ~(offset[p] + len[p] > size)
    <2>1. Goto(p, "read_copy") /\ left' = [left EXCEPT ![p] = len[p]]
      BY <1>3 DEF ReadLimit
    <2>2. len[p] \in Nat /\ offset[p] + len[p] < BUF_LEN
      BY <1>1, <1>3, ReadFacts
    <2> QED  BY <1>1, <2>1, <2>2, CopyBeginsInv
  <1> QED  BY <1>2, <1>3

LEMMA ReadCutInv ==
  ASSUME IInv, NEW p \in Procs, ReadCut(p)
  PROVE  IInv'
  <1> DEFINE n == Copyable(message_size[Buf(p)] - offset[p])
  <1>1. /\ pc[p] = "read_cut" /\ Goto(p, "read_copy")
        /\ left' = [left EXCEPT ![p] = n]
        /\ UNCHANGED <<bufVars, minor, offset, len, data, ret>>
    BY DEF ReadCut
  <1>2. n \in Nat /\ offset[p] + n < BUF_LEN
    BY <1>1, ReadFacts DEF Copyable
  <1> HIDE DEF n
  <1> QED  BY <1>1, <1>2, CopyBeginsInv

LEMMA ReadByteInv ==
  ASSUME IInv, NEW p \in Procs, ReadByte(p)
  PROVE  IInv'
  <1> DEFINE byte == message[Buf(p)][offset[p] + Len(data[p])]
  <1> USE DEF ReadByte, bufVars
  <1>1. /\ pc[p] = "read_copy" /\ data[p] \in Seq(Byte)
        /\ offset[p] + Len(data[p]) + left[p] < BUF_LEN
        /\ offset[p] \in Nat /\ left[p] \in Nat \ {0} /\ BUF_LEN \in Nat
        /\ Buf(p) \in Buffers
    BY MsgAssumption
    DEF IInv, Types, CallInv, Calling, Reading, ReadLabels
  <1>2. byte \in Byte
    <2>1. offset[p] + Len(data[p]) \in 0..BUF_LEN - 1
      BY <1>1
    <2>2. message[Buf(p)] \in [0..BUF_LEN - 1 -> Byte]
      BY <1>1 DEF IInv, Types
    <2> QED  BY <2>1, <2>2
  <1>3. data' = [data EXCEPT ![p] = Append(@, byte)]
    OBVIOUS
  <1> HIDE DEF byte
  <1>4. /\ Append(data[p], byte) \in Seq(Byte)
        /\ Len(Append(data[p], byte)) = Len(data[p]) + 1
    BY <1>1, <1>2
  <1>5. Types'
    <2>1. data' \in [Procs -> Seq(Byte)]  BY <1>3, <1>4 DEF IInv, Types
    <2>2. left' \in [Procs -> Nat]  BY <1>1 DEF IInv, Types
    <2> QED  BY <2>1, <2>2 DEF IInv, Types
  <1>6. /\ pc'[p] = "read_copy" /\ Buf(p)' \in Buffers
        /\ offset'[p] + Len(data'[p]) + left'[p] < BUF_LEN
    BY <1>1, <1>3, <1>4 DEF IInv, Types, Buf, BufferOf
  <1>7. CallInv(p)'
    BY <1>6, CdevStays DEF CallInv
  <1>8. \A q \in Procs \ {p} : SameCall(q)
    BY <1>3 DEF IInv, Types, SameCall
  <1> QED  BY <1>5, <1>7, <1>8, Frame DEF IInv

LEMMA ReadEndsInv ==
  ASSUME IInv, NEW p \in Procs,
         ReadNoDevice(p) \/ ReadEof(p) \/ ReadReturn(p)
  PROVE  IInv'
  <1> USE DEF bufVars
  <1>1. /\ -ENODEV \in Int /\ 0 \in Int
        /\ <<>> \in Seq(Byte)
        /\ offset \in [Procs -> Nat]
    <2>1. -ENODEV \in Int  BY DEF ENODEV
    <2>2. <<>> \in Seq(Byte)  OBVIOUS
    <2> QED  BY <2>1, <2>2 DEF IInv, Types
  <1>2. CASE ReadNoDevice(p)
    BY <1>1, <1>2, ReturnInv DEF ReadNoDevice
  <1>3. CASE ReadEof(p)
    BY <1>1, <1>3, ReturnInv DEF ReadEof
  <1>4. CASE ReadReturn(p)
    <2>1. data[p] \in Seq(Byte) /\ Len(data[p]) \in Nat
      BY DEF IInv, Types
    <2>2. /\ offset' \in [Procs -> Nat]
          /\ \A q \in Procs \ {p} : offset'[q] = offset[q]
      BY <1>1, <1>4, <2>1 DEF ReadReturn
    <2> QED  BY <1>4, <2>1, <2>2, ReturnInv DEF ReadReturn
  <1> QED  BY <1>2, <1>3, <1>4

-----------------------------------------------------------------------------
(* write                                                                   *)

\* "if (len > BUF_LEN - 1) len = BUF_LEN - 1;"
LEMMA WriteLenBounds ==
  ASSUME NEW l \in Nat
  PROVE  WriteLen(l) \in Nat /\ WriteLen(l) < BUF_LEN
  <1>1. BUF_LEN - 1 \in Nat  BY MsgAssumption
  <1>2. WriteLen(l) \in Nat /\ WriteLen(l) <= BUF_LEN - 1
    BY <1>1, MinNat DEF WriteLen
  <1> QED  BY <1>2, MsgAssumption

\* The bytes of a message are a sequence.
LEMMA MessageSeq ==
  ASSUME NEW n \in Nat, NEW v, NEW S, \A i \in 1..n : <<v, i>> \in S
  PROVE  /\ [i \in 1..n |-> <<v, i>>] \in Seq(S)
         /\ Len([i \in 1..n |-> <<v, i>>]) = n
  <1> DEFINE f == [i \in 1..n |-> <<v, i>>]
  <1>1. f \in [1..n -> S]  OBVIOUS
  <1>2. DOMAIN f = 1..n  OBVIOUS
  <1> HIDE DEF f
  <1>3. f \in Seq(S) /\ Len(f) = n  BY <1>1, <1>2
  <1> QED  BY <1>3 DEF f

LEMMA CallWriteInv ==
  ASSUME IInv, NEW p \in Procs, CallWrite(p)
  PROVE  IInv'
  <1> USE DEF CallWrite, Goto, bufVars
  <1>1. PICK l \in Lens, v \in Values :
          /\ len' = [len EXCEPT ![p] = WriteLen(l)]
          /\ left' = [left EXCEPT ![p] = WriteLen(l)]
          /\ data' = [data EXCEPT ![p] = [i \in 1..WriteLen(l) |-> <<v, i>>]]
    OBVIOUS
  <1> DEFINE n == WriteLen(l)
             s == [i \in 1..n |-> <<v, i>>]
  <1>2. n \in Nat /\ n < BUF_LEN
    BY WriteLenBounds, MsgAssumption
  <1>3. s \in Seq(Byte) /\ Len(s) = n
    <2> HIDE DEF n
    <2>1. \A i \in 1..n : i \in 1..BUF_LEN
      BY <1>2, MsgAssumption
    <2>2. \A i \in 1..n : <<v, i>> \in Byte
      BY <2>1 DEF Byte
    <2> QED  BY <1>2, <2>2, MessageSeq
  <1> HIDE DEF n, s
  <1>4. /\ len' = [len EXCEPT ![p] = n] /\ left' = [left EXCEPT ![p] = n]
        /\ data' = [data EXCEPT ![p] = s]
    BY <1>1 DEF n, s
  <1>5. Types'
    <2>1. NoRet \in Int  BY DEF NoRet
    <2> QED  BY <1>2, <1>3, <1>4, <2>1 DEF IInv, Types, AllLabels, WriteLabels
  <1>6. /\ pc'[p] = "write_copy"
        /\ len'[p] = n /\ left'[p] = n /\ Len(data'[p]) = n
    BY <1>3, <1>4 DEF IInv, Types
  <1>7. Buf(p)' \in Buffers
    <2>1. /\ minor[p] \in Minors \cup {0} /\ ~NoDevice(minor[p])
          /\ HasCdev(minor[p]) /\ driver \in Drivers
      BY DEF IInv, Types, CallInv
    <2> QED  BY <2>1, BufferExists DEF Buf, BufferOf
  <1>8. CallInv(p)'
    <2>1. Len(data'[p]) <= len'[p] /\ left'[p] <= len'[p] /\ len'[p] < BUF_LEN
      <3> HIDE DEF CallWrite
      <3> QED  BY <1>2, <1>6
    <2> QED  BY <1>6, <1>7, <2>1, CdevStays DEF CallInv
  <1>9. \A q \in Procs \ {p} : SameCall(q)
    BY <1>4 DEF IInv, Types, SameCall
  <1> QED  BY <1>5, <1>8, <1>9, Frame DEF IInv

\* What a write knows while it copies.
LEMMA WriteFacts ==
  ASSUME IInv, NEW p \in Procs, pc[p] = "write_copy"
  PROVE  /\ Buf(p) \in Buffers /\ data[p] \in Seq(Byte)
         /\ Len(data[p]) \in Nat /\ len[p] \in Nat /\ left[p] \in Nat
         /\ Len(data[p]) <= len[p] /\ left[p] <= len[p] /\ len[p] < BUF_LEN
  BY DEF IInv, Types, CallInv, Calling, Writing, WriteLabels

\* And later, of its buffer and the size that is there.
LEMMA SizeFacts ==
  ASSUME IInv, NEW p \in Procs, Writing(p)
  PROVE  /\ Buf(p) \in Buffers /\ data[p] \in Seq(Byte) /\ Len(data[p]) \in Nat
         /\ message_size[Buf(p)] \in 0..BUF_LEN - 1 /\ left[p] \in Nat
         /\ BUF_LEN \in Nat
         /\ pc[p] = "write_nul" => left[p] < BUF_LEN
  BY MsgAssumption DEF IInv, Types, CallInv, Calling

\* A byte stored within the buffer keeps the type of the message.
LEMMA StoreType ==
  ASSUME IInv, NEW p \in Procs, NEW i \in 0..BUF_LEN - 1, NEW byte \in Byte,
         Buf(p) \in Buffers, Store(p, i, byte)
  PROVE  message' \in [Buffers -> [0..BUF_LEN - 1 -> Byte]]
  BY DEF Store, IInv, Types

LEMMA WriteByteInv ==
  ASSUME IInv, NEW p \in Procs, WriteByte(p)
  PROVE  IInv'
  <1> DEFINE i == len[p] - left[p]
             byte == IF i < Len(data[p]) THEN data[p][i + 1] ELSE NUL
  <1> USE DEF WriteByte
  <1>1. /\ Buf(p) \in Buffers /\ data[p] \in Seq(Byte)
        /\ Len(data[p]) \in Nat /\ len[p] \in Nat /\ left[p] \in Nat
        /\ Len(data[p]) <= len[p] /\ left[p] <= len[p] /\ len[p] < BUF_LEN
    BY WriteFacts
  <1>2. i \in 0..BUF_LEN - 1
    BY <1>1, MsgAssumption
  <1>3. byte \in Byte
    <2>1. CASE i < Len(data[p])
      <3>1. i + 1 \in 1..Len(data[p])  BY <1>1, <1>2, <2>1
      <3> HIDE DEF i
      <3>2. data[p][i + 1] \in Byte  BY <1>1, <3>1
      <3> QED  BY <2>1, <3>2
    <2>2. CASE ~(i < Len(data[p]))
      BY <2>2 DEF Byte
    <2> QED  BY <2>1, <2>2
  <1>4. Store(p, i, byte)
    OBVIOUS
  <1> HIDE DEF i, byte
  <1>5. message' \in [Buffers -> [0..BUF_LEN - 1 -> Byte]]
    BY <1>1, <1>2, <1>3, <1>4, StoreType
  <1>6. Types'  BY <1>1, <1>5 DEF IInv, Types
  <1>7. CallInv(p)'
    <2>1. /\ pc'[p] = "write_copy" /\ Buf(p)' \in Buffers
          /\ left'[p] <= len[p] /\ len'[p] = len[p] /\ data'[p] = data[p]
      BY <1>1 DEF IInv, Types, Buf, BufferOf
    <2> QED  BY <1>1, <2>1, CdevStays DEF CallInv
  <1>8. \A q \in Procs \ {p} : SameCall(q)
    BY DEF IInv, Types, SameCall
  <1> QED  BY <1>6, <1>7, <1>8, Frame DEF IInv

LEMMA WriteFaultInv ==
  ASSUME IInv, NEW p \in Procs, WriteFault(p)
  PROVE  IInv'
  <1> DEFINE i == len[p] - left[p]
             s == SubSeq(data[p], 1, i)
  <1> USE DEF WriteFault, bufVars
  <1>1. /\ Buf(p) \in Buffers /\ data[p] \in Seq(Byte)
        /\ Len(data[p]) \in Nat /\ len[p] \in Nat /\ left[p] \in Nat
        /\ Len(data[p]) <= len[p] /\ left[p] <= len[p] /\ len[p] < BUF_LEN
    BY WriteFacts
  <1>2. i \in Nat /\ i < Len(data[p])
    BY <1>1
  <1>3. data' = [data EXCEPT ![p] = s]
    OBVIOUS
  <1>4. s \in Seq(Byte) /\ Len(s) = i
    <2> HIDE DEF i
    <2> QED  BY <1>1, <1>2
  <1> HIDE DEF s
  <1>5. Types'  BY <1>3, <1>4 DEF IInv, Types
  <1>6. CallInv(p)'
    <2>1. /\ pc'[p] = "write_copy" /\ Buf(p)' \in Buffers
          /\ left'[p] = left[p] /\ len'[p] = len[p] /\ Len(data'[p]) = i
      BY <1>1, <1>3, <1>4 DEF IInv, Types, Buf, BufferOf
    <2>2. Len(data'[p]) <= len'[p]
      BY <1>1, <2>1
    <2> QED  BY <1>1, <2>1, <2>2, CdevStays DEF CallInv
  <1>7. \A q \in Procs \ {p} : SameCall(q)
    BY <1>3 DEF IInv, Types, SameCall
  <1> QED  BY <1>5, <1>6, <1>7, Frame DEF IInv

LEMMA WriteSizeInv ==
  ASSUME IInv, NEW p \in Procs, WriteSize(p)
  PROVE  IInv'
  <1> USE DEF WriteSize, Goto, callVars
  <1>1. /\ Buf(p) \in Buffers
        /\ Len(data[p]) \in Nat /\ len[p] \in Nat /\ left[p] \in Nat
        /\ Len(data[p]) <= len[p] /\ left[p] <= len[p] /\ len[p] < BUF_LEN
    BY WriteFacts
  <1>2. Len(data[p]) \in 0..BUF_LEN - 1
    BY <1>1, MsgAssumption
  <1>3. Types'  BY <1>1, <1>2 DEF IInv, Types, AllLabels, WriteLabels
  <1>4. CallInv(p)'
    <2>1. pc'[p] = "write_index" /\ Buf(p)' \in Buffers
      BY <1>1 DEF IInv, Types, Buf, BufferOf
    <2> QED  BY <1>1, <2>1, CdevStays DEF CallInv
  <1>5. \A q \in Procs \ {p} : SameCall(q)
    BY DEF IInv, Types, SameCall
  <1> QED  BY <1>3, <1>4, <1>5, Frame DEF IInv

LEMMA WriteIndexInv ==
  ASSUME IInv, NEW p \in Procs, WriteIndex(p)
  PROVE  IInv'
  <1> USE DEF WriteIndex, Goto, bufVars
  <1>1. /\ Writing(p) /\ Buf(p) \in Buffers
        /\ message_size[Buf(p)] \in Nat /\ message_size[Buf(p)] < BUF_LEN
    <2>1. Writing(p)  BY DEF Writing, WriteLabels
    <2> QED  BY <2>1, SizeFacts
  <1>2. Types'  BY <1>1 DEF IInv, Types, AllLabels, WriteLabels
  <1>3. CallInv(p)'
    <2>1. /\ pc'[p] = "write_nul" /\ Buf(p)' \in Buffers
          /\ left'[p] = message_size[Buf(p)]
      BY <1>1 DEF IInv, Types, Buf, BufferOf, Buffers
    <2> QED  BY <1>1, <2>1, CdevStays DEF CallInv
  <1>4. \A q \in Procs \ {p} : SameCall(q)
    BY DEF IInv, Types, SameCall
  <1> QED  BY <1>2, <1>3, <1>4, Frame DEF IInv

LEMMA WriteNulInv ==
  ASSUME IInv, NEW p \in Procs, WriteNul(p)
  PROVE  IInv'
  <1> USE DEF WriteNul, Goto
  <1>1. Buf(p) \in Buffers /\ left[p] \in 0..BUF_LEN - 1 /\ NUL \in Byte
    <2>1. Writing(p)  BY DEF Writing, WriteLabels
    <2> QED  BY <2>1, SizeFacts DEF Byte
  <1>2. message' \in [Buffers -> [0..BUF_LEN - 1 -> Byte]]
    BY <1>1, StoreType
  <1>3. Types'  BY <1>2 DEF IInv, Types, AllLabels, WriteLabels
  <1>4. CallInv(p)'
    <2>1. pc'[p] = "write_ret" /\ Buf(p)' \in Buffers
      BY <1>1 DEF IInv, Types, Buf, BufferOf
    <2> QED  BY <2>1, CdevStays DEF CallInv
  <1>5. \A q \in Procs \ {p} : SameCall(q)
    BY DEF IInv, Types, SameCall
  <1> QED  BY <1>3, <1>4, <1>5, Frame DEF IInv

LEMMA WriteEndsInv ==
  ASSUME IInv, NEW p \in Procs, WriteNoDevice(p) \/ WriteReturn(p)
  PROVE  IInv'
  <1> USE DEF bufVars
  <1>1. /\ -ENODEV \in Int
        /\ <<>> \in Seq(Byte)
        /\ offset \in [Procs -> Nat]
    <2>1. -ENODEV \in Int  BY DEF ENODEV
    <2>2. <<>> \in Seq(Byte)  OBVIOUS
    <2> QED  BY <2>1, <2>2 DEF IInv, Types
  <1>2. CASE WriteNoDevice(p)
    BY <1>1, <1>2, ReturnInv DEF WriteNoDevice
  <1>3. CASE WriteReturn(p)
    <2>1. message_size[Buf(p)] \in Int
      BY <1>3, MsgAssumption
      DEF WriteReturn, IInv, Types, CallInv, Calling, Writing, WriteLabels
    <2> QED  BY <1>1, <1>3, <2>1, ReturnInv DEF WriteReturn
  <1> QED  BY <1>2, <1>3

-----------------------------------------------------------------------------
\* Every handler of every driver keeps the invariant.
LEMMA HandlerInv ==
  ASSUME IInv, NEW p \in Procs,
         \/ CallOpen(p) \/ CallClose(p) \/ ReadNoDevice(p) \/ WriteNoDevice(p)
         \/ dev_read(p) \/ dev_write(p)
  PROVE  IInv'
  BY OpenInv, CloseInv, CallReadInv, ReadSizeInv, ReadLimitInv, ReadCutInv,
     ReadByteInv, ReadEndsInv, CallWriteInv, WriteByteInv, WriteFaultInv,
     WriteSizeInv, WriteIndexInv, WriteNulInv, WriteEndsInv
  DEF dev_read, dev_write

-----------------------------------------------------------------------------
(* Theorems                                                                *)

\* The drivers have no ioctl, and their calls return a length or -ENODEV.
NoIoctl ==
  /\ pc \in [Procs -> {"closed", "open"} \cup ReadLabels \cup WriteLabels]
  /\ ret \in [Procs -> Nat \cup {NoRet, -ENODEV}]

History_OK == clean \subseteq Procs /\ known \subseteq Buffers

MsgInv == IInv /\ NoIoctl /\ History_OK

LEMMA NoIoctlInv ==
  ASSUME IInv, NoIoctl, NEW p \in Procs, Handlers(p)
  PROVE  NoIoctl'
  <1> USE DEF NoIoctl, Goto, ReadLabels, WriteLabels
  <1> DEFINE Rets == Nat \cup {NoRet, -ENODEV}
  <1>1. NoRet \in Rets /\ -ENODEV \in Rets /\ 0 \in Rets
    OBVIOUS
  <1>2. CASE CallOpen(p)  BY <1>2 DEF CallOpen
  <1>3. CASE CallClose(p)  BY <1>1, <1>3 DEF CallClose
  <1>4. ASSUME NEW r \in Rets, NEW d, Return(p, r, d)  PROVE NoIoctl'
    BY <1>4 DEF Return
  <1>5. CASE ReadNoDevice(p)  BY <1>1, <1>4, <1>5 DEF ReadNoDevice
  <1>6. CASE WriteNoDevice(p)  BY <1>1, <1>4, <1>6 DEF WriteNoDevice
  <1>7. CASE dev_read(p)
    <2>1. CASE CallRead(p)  BY <1>1, <2>1 DEF CallRead
    <2>2. CASE ReadSize(p)  BY <2>2 DEF ReadSize
    <2>3. CASE ReadEof(p)  BY <1>1, <1>4, <2>3 DEF ReadEof
    <2>4. CASE ReadByte(p)  BY <2>4 DEF ReadByte
    <2>5. CASE ReadReturn(p)
      <3>1. Len(data[p]) \in Rets  BY DEF IInv, Types
      <3> QED  BY <1>4, <2>5, <3>1 DEF ReadReturn
    <2>6. CASE ReadLimit(p)  BY <2>6 DEF ReadLimit
    <2>7. CASE ReadCut(p)  BY <2>7 DEF ReadCut
    <2> QED  BY <1>7, <2>1, <2>2, <2>3, <2>4, <2>5, <2>6, <2>7 DEF dev_read
  <1>8. CASE dev_write(p)
    <2>1. CASE CallWrite(p)  BY <1>1, <2>1 DEF CallWrite
    <2>2. CASE WriteByte(p)  BY <2>2 DEF WriteByte
    <2>3. CASE WriteFault(p)  BY <2>3 DEF WriteFault
    <2>4. CASE WriteSize(p)  BY <2>4 DEF WriteSize
    <2>5. CASE WriteNul(p)  BY <2>5 DEF WriteNul
    <2>6. CASE WriteReturn(p)
      <3>1. message_size[Buf(p)] \in Rets
        BY <2>6, MsgAssumption
        DEF WriteReturn, IInv, Types, CallInv, Calling, Writing
      <3> QED  BY <1>4, <2>6, <3>1 DEF WriteReturn
    <2>7. CASE WriteIndex(p)  BY <2>7 DEF WriteIndex
    <2> QED  BY <1>8, <2>1, <2>2, <2>3, <2>4, <2>5, <2>6, <2>7 DEF dev_write
  <1> QED
    BY <1>2, <1>3, <1>5, <1>6, <1>7, <1>8
    DEF Handlers, Read, Write, multibuf_read, multibuf_write, platform_read,
        platform_write

\* MsgInv is inductive.
THEOREM MsgInvariance == MsgSpec => []MsgInv
  <1>1. MsgInit => MsgInv
    <2> SUFFICES ASSUME MsgInit  PROVE NoIoctl /\ History_OK
      BY InvInit DEF MsgInv
    <2> QED  BY DEF MsgInit, NoCalls, NoIoctl, History_OK
  <1>2. MsgInv /\ [MsgNext]_msgVars => MsgInv'
    <2> SUFFICES ASSUME MsgInv, [MsgNext]_msgVars  PROVE MsgInv'
      OBVIOUS
    <2>1. CASE MsgNext
      <3>1. PICK p \in Procs : Handlers(p)  BY <2>1 DEF MsgNext
      <3>2. IInv'
        BY <3>1, HandlerInv
        DEF MsgInv, Handlers, Read, Write, multibuf_read, multibuf_write,
            platform_read, platform_write
      <3>3. NoIoctl'  BY <3>1, NoIoctlInv DEF MsgInv
      <3>4. History_OK'
        BY <2>1 DEF MsgNext, History, History_OK, Buffers
      <3> QED  BY <3>2, <3>3, <3>4 DEF MsgInv
    <2>2. CASE UNCHANGED msgVars
      BY <2>2
      DEF msgVars, bufVars, callVars, historyVars, MsgInv, IInv, Types, CallInv,
          NoIoctl, History_OK, Calling, Reading, Writing, Buf, BufferOf, HasCdev
    <2> QED  BY <2>1, <2>2
  <1> QED  BY <1>1, <1>2, PTL DEF MsgSpec

\* Every variable keeps its type, for any number of processes and devices and
\* any length of buffers and calls.
THEOREM MsgTypeCorrect == MsgSpec => []MsgTypeOK
  <1>1. MsgInv => MsgTypeOK
    <2> SUFFICES ASSUME MsgInv  PROVE MsgTypeOK
      OBVIOUS
    <2>1. message_size \in [Buffers -> Nat]
      BY MsgAssumption DEF MsgInv, IInv, Types
    <2> QED
      BY <2>1 DEF MsgInv, IInv, Types, NoIoctl, History_OK, MsgTypeOK
  <1> QED  BY <1>1, MsgInvariance, PTL

\* The sizes, the buffers and what a call has still to copy bound each other.
LEMMA InvBounds == IInv => BytesInBounds
  <1> SUFFICES ASSUME IInv  PROVE BytesInBounds
    OBVIOUS
  <1>1. \A b \in Buffers : message_size[b] < BUF_LEN
    BY MsgAssumption DEF IInv, Types
  <1>2. \A p \in Procs : CallInv(p)
    BY DEF IInv
  <1> QED  BY <1>1, <1>2 DEF CallInv, BytesInBounds

\* dev_read and dev_write of 02, 03 and 09 never touch a byte outside of the
\* buffer of the device, nor a buffer outside of the array, whatever calls run
\* at once, however they fault, and whatever size each of the loads of
\* message_size in a read or a write finds.
THEOREM BytesStayInBounds == MsgSpec => []BytesInBounds
  BY MsgInvariance, InvBounds, PTL DEF MsgInv

-----------------------------------------------------------------------------
(* The registers of MsgRegisters.  What they hold at a step depends on what *)
(* the calls that are clean have done so far.                               *)

\* No call that is clean runs beside another's write of its device.
CleanInv ==
  \A p \in clean :
    /\ Calling(p)
    /\ \A q \in Procs \ {p} : ~(Writing(q) /\ DeviceOf(q) = DeviceOf(p))

KnownInv == \A p \in Procs : Writing(p) => DeviceOf(p) \notin known

\* The first n bytes of what p writes are in its buffer.
Stored(p, n) ==
  \A i \in 1..Len(data[p]) : i <= n => message[Buf(p)][i - 1] = data[p][i]

WriteInv(p) ==
  /\ pc[p] \in {"reset_speed", "reset_mode", "reset_size", "reset_buffer"} =>
       data[p] = <<>> /\ ret[p] = NoRet
  /\ p \in clean =>
       /\ pc[p] = "write_copy" => Stored(p, len[p] - left[p])
       /\ pc[p] \in {"write_index", "write_nul", "write_ret"} =>
            message_size[Buf(p)] = Len(data[p]) /\ Stored(p, Len(data[p]))
       /\ pc[p] = "write_nul" => left[p] = Len(data[p])
       /\ pc[p] = "reset_buffer" => message_size[Buf(p)] = 0

\* Unless a write comes, every load of the size finds that of the message.
ReadInv(p) ==
  p \in clean /\ DeviceOf(p) \in known =>
    LET size == message_size[Buf(p)]
        end  == offset[p] + Len(data[p]) + left[p] IN
    /\ pc[p] \in {"read_limit", "read_cut"} => offset[p] < size
    /\ pc[p] = "read_cut" => offset[p] + len[p] > size
    /\ pc[p] = "read_copy" =>
         /\ Len(data[p]) + left[p] <= len[p]
         /\ \A i \in 1..Len(data[p]) :
              data[p][i] = message[Buf(p)][offset[p] + i - 1]
         /\ end <= size
         /\ end = size \/ Len(data[p]) + left[p] = len[p]

RegInv ==
  /\ clean \subseteq Procs /\ known \subseteq Buffers
  /\ CleanInv /\ KnownInv
  /\ \A p \in Procs : WriteInv(p) /\ ReadInv(p)

\* What a step of p leaves to the others.
StepOf(p) ==
  /\ driver' = driver
  /\ \A q \in Procs \ {p} : SameCall(q) /\ ret'[q] = ret[q]
  /\ Calling(p) => minor'[p] = minor[p]
  /\ \A b \in Buffers : ~(Writing(p) /\ b = Buf(p)) =>
       message'[b] = message[b] /\ message_size'[b] = message_size[b]

LEMMA DeviceIsBuffer ==
  ASSUME IInv, NEW p \in Procs, Calling(p)
  PROVE  DeviceOf(p) = Buf(p) /\ DeviceOf(p) \in Buffers
  BY DEF IInv, CallInv, DeviceOf, Buf, BufferOf

LEMMA OthersKeep ==
  ASSUME NEW p \in Procs, StepOf(p), NEW q \in Procs \ {p}
  PROVE  /\ Writing(q)' = Writing(q) /\ Reading(q)' = Reading(q)
         /\ Calling(q)' = Calling(q)
         /\ DeviceOf(q)' = DeviceOf(q) /\ Buf(q)' = Buf(q)
  BY DEF StepOf, SameCall, Writing, Reading, Calling, DeviceOf, Buf, BufferOf

LEMMA DeviceKept ==
  ASSUME NEW p \in Procs, StepOf(p), Calling(p)
  PROVE  DeviceOf(p)' = DeviceOf(p) /\ Buf(p)' = Buf(p)
  BY DEF StepOf, DeviceOf, Buf, BufferOf

\* Which contents are known after a step of p.
LEMMA KnownAfter ==
  ASSUME IInv, IInv', RegInv, History, NEW p \in Procs, StepOf(p)
  PROVE  /\ ~Writing(p) /\ ~Writing(p)' => known' = known
         /\ Writing(p) /\ Writing(p)' => known' = known
         /\ ~Writing(p) /\ Writing(p)' => known' = known \ {DeviceOf(p)'}
         /\ Writing(p) /\ ~Writing(p)' =>
              known' = IF p \in clean THEN known \cup {DeviceOf(p)} ELSE known
  <1> DEFINE Before(b) == {q \in Procs : Writing(q) /\ DeviceOf(q) = b}
             After(b)  == \A q \in Procs : ~(Writing(q)' /\ DeviceOf(q)' = b)
  <1>1. known' = {b \in Buffers :
          After(b) /\ IF Before(b) = {} THEN b \in known ELSE Before(b) \subseteq clean}
    BY DEF History
  <1>2. \A b \in known : Before(b) = {}
    BY DEF RegInv, KnownInv
  <1>3. \A b \in Buffers, q \in Procs \ {p} :
          (Writing(q) /\ DeviceOf(q) = b)' <=> q \in Before(b)
    BY OthersKeep
  <1>4. known \subseteq Buffers
    BY DEF RegInv
  <1>5. CASE ~Writing(p)
    <2>1. \A b \in Buffers : p \notin Before(b)
      BY <1>5
    <2>2. \A b \in Buffers : After(b) <=> Before(b) = {} /\ ~(Writing(p) /\ DeviceOf(p) = b)'
      BY <1>3, <2>1
    <2>3. known' = {b \in known : ~(Writing(p) /\ DeviceOf(p) = b)'}
      <3> HIDE DEF Before, After
      <3> QED  BY <1>1, <1>2, <1>4, <2>2
    <2> QED  BY <1>5, <2>3
  <1>6. CASE Writing(p)
    <2>1. DeviceOf(p) \in Buffers /\ p \in Before(DeviceOf(p)) /\ DeviceOf(p) \notin known
          /\ DeviceOf(p)' = DeviceOf(p)
      BY <1>6, DeviceIsBuffer, DeviceKept DEF RegInv, KnownInv, Calling
    <2>2. \A b \in Buffers \ {DeviceOf(p)} : p \notin Before(b) /\ ~(DeviceOf(p) = b)'
      BY <2>1
    <2>3. \A b \in Buffers \ {DeviceOf(p)} : After(b) <=> Before(b) = {}
      BY <1>3, <2>2
    <2>4. \A b \in Buffers \ {DeviceOf(p)} : b \in known' <=> b \in known
      <3> HIDE DEF Before, After
      <3> QED  BY <1>1, <1>2, <2>3
    <2>5. CASE Writing(p)'
      <3>1. ~After(DeviceOf(p))
        BY <2>1, <2>5
      <3>2. DeviceOf(p) \notin known'
        BY <1>1, <3>1
      <3> QED  BY <1>1, <1>4, <1>6, <2>1, <2>4, <2>5, <3>2
    <2>6. CASE ~Writing(p)'
      <3>1. After(DeviceOf(p)) <=> Before(DeviceOf(p)) \subseteq {p}
        BY <1>3, <2>1, <2>6
      <3>2. DeviceOf(p) \in known' <=> After(DeviceOf(p)) /\ Before(DeviceOf(p)) \subseteq clean
        <4> HIDE DEF Before, After
        <4> QED  BY <1>1, <2>1
      <3>3. p \in clean => Before(DeviceOf(p)) \subseteq {p}
        BY DEF RegInv, CleanInv
      <3>4. DeviceOf(p) \in known' <=> p \in clean
        <4> HIDE DEF Before, After
        <4> QED  BY <2>1, <3>1, <3>2, <3>3
      <3>5. known' \subseteq Buffers
        BY <1>1
      <3> QED  BY <1>4, <1>6, <2>1, <2>4, <2>6, <3>4, <3>5
    <2> QED  BY <2>5, <2>6
  <1> QED  BY <1>5, <1>6

\* Which calls are clean after a step of p.
LEMMA CleanAfter ==
  ASSUME RegInv, History, NEW p \in Procs, StepOf(p)
  PROVE  /\ ~Calling(p) /\ ~Calling(p)' => clean' = clean
         /\ Writing(p) /\ Writing(p)' => clean' = clean
         /\ Reading(p) /\ Reading(p)' => clean' = clean
         /\ \A q \in Procs \ {p} : q \in clean' => q \in clean
         /\ Calling(p) /\ p \in clean' => p \in clean
         /\ CleanInv'
  <1>1. clean' = {q \in Procs :
          /\ Calling(q)'
          /\ Calling(q) => q \in clean
          /\ \A r \in Procs \ {q} : ~(Writing(r) /\ DeviceOf(r) = DeviceOf(q))'}
    BY DEF History
  <1>2. \A q \in Procs \ {p} : q \in clean' => q \in clean
    BY <1>1, OthersKeep
  <1>3. CleanInv'
    BY <1>1 DEF CleanInv
  <1>4. ASSUME Writing(p)' = Writing(p), Calling(p)' = Calling(p)
        PROVE  clean' = clean
    <2>1. \A q \in Procs : Writing(q)' = Writing(q) /\ Calling(q)' = Calling(q)
      BY <1>4, OthersKeep
    <2>2. \A q \in Procs : Calling(q) => DeviceOf(q)' = DeviceOf(q)
      BY DeviceKept, OthersKeep
    <2>3. \A q \in Procs : Writing(q) => Calling(q)
      BY DEF Calling
    <2>4. \A q \in clean : q \in Procs /\ Calling(q)
            /\ \A r \in Procs \ {q} : ~(Writing(r) /\ DeviceOf(r) = DeviceOf(q))
      BY DEF RegInv, CleanInv
    <2>5. clean \subseteq clean'
      BY <1>1, <2>1, <2>2, <2>3, <2>4
    <2>6. clean' \subseteq clean
      BY <1>1, <2>1
    <2> QED  BY <2>5, <2>6
  <1>5. Calling(p) /\ p \in clean' => p \in clean
    BY <1>1
  <1>6. /\ ~Calling(p) /\ ~Calling(p)' => Writing(p)' = Writing(p) /\ Calling(p)' = Calling(p)
        /\ Writing(p) /\ Writing(p)' => Writing(p)' = Writing(p) /\ Calling(p)' = Calling(p)
        /\ Reading(p) /\ Reading(p)' => Writing(p)' = Writing(p) /\ Calling(p)' = Calling(p)
    BY DEF Calling, Reading, Writing, ReadLabels, WriteLabels
  <1> QED  BY <1>2, <1>3, <1>4, <1>5, <1>6

LEMMA RegFrame ==
  ASSUME IInv, IInv', RegInv, History, NEW p \in Procs, StepOf(p),
         WriteInv(p)', ReadInv(p)'
  PROVE  RegInv'
  <1>1. CleanInv' /\ \A q \in Procs \ {p} : q \in clean' => q \in clean
    BY CleanAfter
  <1>2. clean' \subseteq Procs /\ known' \subseteq Buffers
    BY DEF History, Buffers
  <1>3. KnownInv'
    BY DEF History, KnownInv
  <1>4. ASSUME NEW q \in Procs \ {p}  PROVE WriteInv(q)' /\ ReadInv(q)'
    <2>1. /\ pc'[q] = pc[q] /\ data'[q] = data[q] /\ len'[q] = len[q]
          /\ left'[q] = left[q] /\ offset'[q] = offset[q] /\ ret'[q] = ret[q]
          /\ Calling(q)' = Calling(q) /\ DeviceOf(q)' = DeviceOf(q) /\ Buf(q)' = Buf(q)
      BY OthersKeep DEF StepOf, SameCall
    <2>2. WriteInv(q) /\ ReadInv(q)
      BY DEF RegInv
    <2>3. CASE q \notin clean'
      BY <2>1, <2>2, <2>3 DEF WriteInv, ReadInv
    <2>4. CASE q \in clean'
      <3>1. q \in clean /\ Calling(q) /\ ~(Writing(p) /\ DeviceOf(p) = DeviceOf(q))
        BY <1>1, <2>4 DEF RegInv, CleanInv
      <3>2. Buf(q) = DeviceOf(q) /\ Buf(q) \in Buffers
        BY <3>1, DeviceIsBuffer
      <3>3. ~(Writing(p) /\ Buf(q) = Buf(p))
        BY <3>1, <3>2, DeviceIsBuffer DEF Calling
      <3>4. message'[Buf(q)] = message[Buf(q)] /\ message_size'[Buf(q)] = message_size[Buf(q)]
        BY <3>2, <3>3 DEF StepOf
      <3>5. WriteInv(q)'
        BY <2>1, <2>2, <3>1, <3>4 DEF WriteInv, Stored
      <3>6. Reading(q) /\ DeviceOf(q) \in known' => DeviceOf(q) \in known
        <4>1. Reading(q) => ~Writing(q)
          BY DEF Reading, ReadLabels, Writing, WriteLabels
        <4>2. \A r \in Procs \ {q} : ~(Writing(r) /\ DeviceOf(r) = DeviceOf(q))
          BY <3>1 DEF RegInv, CleanInv
        <4> QED  BY <4>1, <4>2 DEF History
      <3>7. ReadInv(q)'
        <4>1. CASE Reading(q)
          BY <2>1, <2>2, <3>1, <3>4, <3>6, <4>1 DEF ReadInv
        <4>2. CASE ~Reading(q)
          BY <2>1, <4>2 DEF ReadInv, Reading, ReadLabels
        <4> QED  BY <4>1, <4>2
      <3> QED  BY <3>5, <3>7
    <2> QED  BY <2>3, <2>4
  <1>5. \A q \in Procs : WriteInv(q)' /\ ReadInv(q)'
    BY <1>4
  <1> QED  BY <1>1, <1>2, <1>3, <1>5 DEF RegInv

-----------------------------------------------------------------------------
(* The registers as functions of the state                                 *)

RValue == [b \in Buffers |-> IF b \in known THEN Message(b) ELSE <<>>]
ROp    == [p \in Procs |-> OpOf(p)]
RGot   == [p \in Procs |-> IF Calling(p) THEN <<>> ELSE data[p]]
RRet   == [p \in Procs |-> IF ret[p] \in Nat THEN ret[p] ELSE 0]

WriteOp(r, d)   == [kind |-> "write", reg |-> r, data |-> d]
ReadOp(r, f, l) == [kind |-> "read", reg |-> r, from |-> f, len |-> l]
None            == [kind |-> "none"]

LEMMA OpFields ==
  /\ \A r, d : WriteOp(r, d).kind = "write" /\ WriteOp(r, d).reg = r
  /\ \A r, d : WriteOp(r, d).data = d
  /\ \A r, f, l : ReadOp(r, f, l).kind = "read" /\ ReadOp(r, f, l).reg = r
  /\ \A r, f, l : ReadOp(r, f, l).from = f /\ ReadOp(r, f, l).len = l
  /\ None.kind = "none"
  BY DEF WriteOp, ReadOp, None

LEMMA OpFacts ==
  ASSUME NEW p \in Procs
  PROVE  /\ Writing(p) => ROp[p] = WriteOp(DeviceOf(p), data[p])
         /\ Reading(p) => ROp[p] = ReadOp(DeviceOf(p), offset[p], len[p])
         /\ ~Calling(p) => ROp[p] = None
  <1>1. ROp[p] = OpOf(p)
    BY DEF ROp
  <1>2. Reading(p) => ~Writing(p)
    BY DEF Reading, Writing, ReadLabels, WriteLabels
  <1> QED  BY <1>1, <1>2 DEF OpOf, Calling, WriteOp, ReadOp, None

LEMMA OpFactsNext ==
  ASSUME NEW p \in Procs
  PROVE  /\ Writing(p)' => ROp'[p] = WriteOp(DeviceOf(p)', data'[p])
         /\ Reading(p)' => ROp'[p] = ReadOp(DeviceOf(p)', offset'[p], len'[p])
         /\ ~Calling(p)' => ROp'[p] = None
  <1>1. ROp'[p] = OpOf(p)'
    BY DEF ROp
  <1>2. Reading(p)' => ~Writing(p)'
    BY DEF Reading, Writing, ReadLabels, WriteLabels
  <1> QED  BY <1>1, <1>2 DEF OpOf, Calling, WriteOp, ReadOp, None

LEMMA OpKinds ==
  ASSUME NEW p \in Procs
  PROVE  /\ Calling(p) <=> ROp[p] # None
         /\ Calling(p)' <=> ROp'[p] # None
         /\ Writing(p)' <=> ROp'[p].kind = "write"
         /\ Calling(p)' => ROp'[p].reg = DeviceOf(p)'
  <1>1. /\ Writing(p) => ROp[p].kind = "write"
        /\ Reading(p) => ROp[p].kind = "read"
    BY OpFacts, OpFields
  <1>2. /\ Writing(p)' => ROp'[p].kind = "write" /\ ROp'[p].reg = DeviceOf(p)'
        /\ Reading(p)' => ROp'[p].kind = "read" /\ ROp'[p].reg = DeviceOf(p)'
    BY OpFactsNext, OpFields
  <1>3. /\ Calling(p) <=> Writing(p) \/ Reading(p)
        /\ Calling(p)' <=> Writing(p)' \/ Reading(p)'
    BY DEF Calling
  <1> QED  BY <1>1, <1>2, <1>3, OpFacts, OpFactsNext, OpFields

LEMMA OverlapsNext ==
  ASSUME History
  PROVE  Register!Overlaps
  <1>1. clean' = {p \in Procs :
          /\ Calling(p)'
          /\ Calling(p) => p \in clean
          /\ \A q \in Procs \ {p} : ~(Writing(q)' /\ DeviceOf(q)' = DeviceOf(p)')}
    BY DEF History
  <1>2. ASSUME NEW p \in Procs, Calling(p)', NEW q \in Procs
        PROVE  (Writing(q)' /\ DeviceOf(q)' = DeviceOf(p)')
                 <=> (ROp'[q].kind = "write" /\ ROp'[q].reg = ROp'[p].reg)
    BY <1>2, OpKinds DEF Calling
  <1>3. clean' = {p \in Procs :
          /\ ROp'[p] # None
          /\ ROp[p] # None => p \in clean
          /\ \A q \in Procs \ {p} : ~(ROp'[q].kind = "write" /\ ROp'[q].reg = ROp'[p].reg)}
    BY <1>1, <1>2, OpKinds
  <1> QED  BY <1>3 DEF Register!Overlaps, Register!NoOp, Register!Writing, ROp, None

LEMMA OthersSame ==
  ASSUME NEW p \in Procs, StepOf(p), NEW q \in Procs \ {p}
  PROVE  ROp'[q] = ROp[q] /\ RGot'[q] = RGot[q] /\ RRet'[q] = RRet[q]
  <1>1. /\ driver' = driver /\ pc'[q] = pc[q] /\ data'[q] = data[q] /\ len'[q] = len[q]
        /\ offset'[q] = offset[q] /\ ret'[q] = ret[q]
    BY DEF StepOf, SameCall
  <1>2. /\ Writing(q)' = Writing(q) /\ Reading(q)' = Reading(q)
        /\ Calling(q)' = Calling(q) /\ DeviceOf(q)' = DeviceOf(q)
    BY OthersKeep
  <1>3. ROp'[q] = ROp[q]
    <2>1. CASE Writing(q)
      BY <1>1, <1>2, <2>1, OpFacts, OpFactsNext
    <2>2. CASE Reading(q)
      BY <1>1, <1>2, <2>2, OpFacts, OpFactsNext
    <2>3. CASE ~Calling(q)
      BY <1>1, <1>2, <2>3, OpFacts, OpFactsNext
    <2> QED  BY <2>1, <2>2, <2>3 DEF Calling
  <1> QED  BY <1>1, <1>2, <1>3 DEF RGot, RRet

LEMMA OthersNext ==
  ASSUME NEW p \in Procs, StepOf(p)
  PROVE  Register!Others(p)
  BY OthersSame DEF Register!Others, ROp, RGot, RRet

\* A step of p is a step of the registers, or none.
Maps(p) ==
  \/ UNCHANGED <<RValue, known, ROp, clean, RGot, RRet>>
  \/ Register!BeginRead(p) \/ Register!EndRead(p) \/ Register!BeginWrite(p)
  \/ Register!Cut(p) \/ Register!EndWrite(p) \/ Register!Forget(p)

LEMMA MapsNext ==
  ASSUME History, NEW p \in Procs, StepOf(p), Maps(p)
  PROVE  [Register!Next]_Register!registerVars
  BY OverlapsNext, OthersNext
  DEF Maps, Register!Next, Register!registerVars, RValue, ROp, RGot, RRet

LEMMA ValueKept ==
  ASSUME IInv, RegInv, NEW p \in Procs, StepOf(p), NEW b \in known
  PROVE  RValue[b] = Message(b) /\ Message(b)' = Message(b)
  <1>1. b \in Buffers
    BY DEF RegInv
  <1>2. ~(Writing(p) /\ b = Buf(p))
    BY DeviceIsBuffer DEF RegInv, KnownInv, Calling
  <1> QED  BY <1>1, <1>2 DEF RValue, Message, StepOf

\* The contents after a step: those of the devices that are still known.
LEMMA ValueAfter ==
  ASSUME IInv, RegInv, NEW p \in Procs, StepOf(p), known' \subseteq known
  PROVE  RValue' = [b \in Buffers |-> IF b \in known' THEN RValue[b] ELSE <<>>]
  <1>1. \A b \in Buffers : b \in known' => Message(b)' = RValue[b]
    BY ValueKept
  <1> QED  BY <1>1 DEF RValue, Buffers

LEMMA ValueSame ==
  ASSUME IInv, RegInv, NEW p \in Procs, StepOf(p), known' = known
  PROVE  RValue' = RValue
  <1>1. RValue' = [b \in Buffers |-> IF b \in known THEN RValue[b] ELSE <<>>]
    BY ValueAfter
  <1>2. \A b \in Buffers : b \notin known => RValue[b] = <<>>
    BY DEF RValue
  <1>3. RValue = [b \in Buffers |-> RValue[b]]
    BY DEF RValue
  <1> HIDE DEF RValue
  <1> QED  BY <1>1, <1>2, <1>3

LEMMA MessageFacts ==
  ASSUME IInv, NEW b \in Buffers
  PROVE  /\ Message(b) \in Seq(Byte) /\ Len(Message(b)) = message_size[b]
         /\ \A i \in 1..message_size[b] : Message(b)[i] = message[b][i - 1]
  <1>1. message_size[b] \in Nat /\ message_size[b] < BUF_LEN /\ BUF_LEN \in Nat
    BY MsgAssumption DEF IInv, Types
  <1>2. message[b] \in [0..BUF_LEN - 1 -> Byte]
    BY DEF IInv, Types
  <1>3. \A i \in 1..message_size[b] : message[b][i - 1] \in Byte
    BY <1>1, <1>2
  <1>4. Message(b) \in [1..message_size[b] -> Byte]
    BY <1>3 DEF Message
  <1>5. \A i \in 1..message_size[b] : Message(b)[i] = message[b][i - 1]
    BY DEF Message
  <1> HIDE DEF Message
  <1> QED  BY <1>1, <1>4, <1>5

\* The whole of a sequence, or less of it for a process that may fault.
LEMMA TakesPart ==
  ASSUME NEW p, NEW s \in Seq(Byte), NEW t \in Seq(Byte), Len(t) <= Len(s),
         Len(t) = Len(s) \/ p \in BadBuffers,
         \A i \in 1..Len(t) : t[i] = s[i]
  PROVE  Register!Takes(p, t, s)
  <1> DEFINE n == Len(t)
  <1>1. n \in 0..Len(s)
    OBVIOUS
  <1>2. t = SubSeq(s, 1, n)
    <2>1. SubSeq(s, 1, n) \in Seq(Byte) /\ Len(SubSeq(s, 1, n)) = n
          /\ \A i \in 1..n : SubSeq(s, 1, n)[i] = s[i]
      BY <1>1
    <2> QED  BY <2>1
  <1> QED  BY <1>1, <1>2 DEF Register!Takes

\* What a read copies is the part of the message from the position on.
LEMMA ReadTakes ==
  ASSUME NEW p, NEW m \in Seq(Byte), NEW from \in Nat, NEW l \in Nat,
         NEW d \in Seq(Byte), NEW rest \in Nat,
         \A i \in 1..Len(d) : d[i] = m[from + i],
         from + Len(d) + rest <= Len(m), Len(d) + rest <= l,
         from + Len(d) + rest = Len(m) \/ Len(d) + rest = l,
         rest = 0 \/ p \in BadBuffers
  PROVE  LET s == SubSeq(m, from + 1, Len(m)) IN
         Register!Takes(p, d, IF l < Len(s) THEN SubSeq(s, 1, l) ELSE s)
  <1> DEFINE s == SubSeq(m, from + 1, Len(m))
             u == SubSeq(s, 1, l)
  <1>1. s \in Seq(Byte) /\ Len(s) = Len(m) - from
        /\ \A i \in 1..Len(s) : s[i] = m[from + i]
    <2>1. from + 1 \in 1..Len(m) + 1
      OBVIOUS
    <2> QED  BY <2>1
  <1>2. Len(d) + rest <= Len(s) /\ Len(d) <= Len(s)
        /\ \A i \in 1..Len(d) : d[i] = s[i]
    <2> HIDE DEF s
    <2>1. Len(d) + rest <= Len(s) /\ Len(d) <= Len(s)
      BY <1>1
    <2>2. \A i \in 1..Len(d) : i \in 1..Len(s)
      BY <2>1
    <2> QED  BY <1>1, <2>1, <2>2
  <1>3. CASE l < Len(s)
    <2> HIDE DEF s
    <2>1. u \in Seq(Byte) /\ Len(u) = l /\ \A i \in 1..l : u[i] = s[i]
      BY <1>1, <1>3
    <2> HIDE DEF u
    <2>2. Len(d) + rest = l
      BY <1>1, <1>3
    <2>3. Len(d) <= l /\ (Len(d) = l \/ p \in BadBuffers)
      BY <2>2
    <2>4. \A i \in 1..Len(d) : d[i] = u[i]
      BY <1>2, <2>1, <2>3
    <2>5. Register!Takes(p, d, u)
      BY <2>1, <2>3, <2>4, TakesPart
    <2> QED  BY <1>3, <2>5 DEF s, u
  <1>4. CASE ~(l < Len(s))
    <2> HIDE DEF s, u
    <2>1. Len(d) = Len(s) \/ p \in BadBuffers
      <3>1. CASE rest = 0
        <4>1. Len(d) \in Nat /\ Len(s) \in Nat /\ Len(m) \in Nat
          BY <1>1
        <4>2. from + Len(d) = Len(m) \/ Len(d) = l
          BY <3>1, <4>1
        <4>3. Len(s) = Len(m) - from /\ Len(d) <= Len(s) /\ ~(l < Len(s))
          BY <1>1, <1>2, <1>4
        <4>4. \A ls, ld, lm \in Nat :
                ls = lm - from /\ ld <= ls /\ ~(l < ls) /\ (from + ld = lm \/ ld = l)
                  => ld = ls
          OBVIOUS
        <4> QED  BY <4>1, <4>2, <4>3, <4>4
      <3> QED  BY <3>1
    <2>2. Register!Takes(p, d, s)
      BY <1>1, <1>2, <2>1, TakesPart
    <2> QED  BY <1>4, <2>2 DEF s, u
  <1> QED  BY <1>3, <1>4

LEMMA ReadTakesNothing ==
  ASSUME NEW p, NEW m \in Seq(Byte), NEW from \in Nat, NEW l \in Nat, Len(m) <= from
  PROVE  LET s == SubSeq(m, from + 1, Len(m)) IN
         Register!Takes(p, <<>>, IF l < Len(s) THEN SubSeq(s, 1, l) ELSE s)
  <1> DEFINE s == SubSeq(m, from + 1, Len(m))
  <1>1. s = <<>> /\ ~(l < Len(s))
    OBVIOUS
  <1>2. Register!Takes(p, <<>>, <<>>)
    BY DEF Register!Takes
  <1> QED  BY <1>1, <1>2

-----------------------------------------------------------------------------
(* What the steps of a call are to the registers                           *)

\* Inside of a call, and between calls: nothing.
LEMMA MapInside ==
  ASSUME IInv, IInv', RegInv, History, NEW p \in Procs, StepOf(p),
         ret'[p] = ret[p],
         \/ ~Calling(p) /\ ~Calling(p)' /\ data'[p] = data[p]
         \/ Writing(p) /\ Writing(p)' /\ data'[p] = data[p]
         \/ Reading(p) /\ Reading(p)' /\ offset'[p] = offset[p] /\ len'[p] = len[p]
  PROVE  Maps(p)
  <1>1. clean' = clean
    BY CleanAfter
  <1>2. ~(Reading(p) /\ Writing(p)) /\ ~(Reading(p) /\ Writing(p))'
        /\ (Writing(p) \/ Reading(p) <=> Calling(p))
        /\ (Writing(p)' \/ Reading(p)' <=> Calling(p)')
    BY DEF Calling, Reading, Writing, ReadLabels, WriteLabels
  <1>3. known' = known
    BY <1>2, KnownAfter
  <1>4. RValue' = RValue
    BY <1>3, ValueSame
  <1>5. Calling(p) => DeviceOf(p)' = DeviceOf(p)
    BY DeviceKept
  <1>6. ROp'[p] = ROp[p]
    BY <1>2, <1>5, OpFacts, OpFactsNext
  <1>7. RGot'[p] = RGot[p] /\ RRet'[p] = RRet[p]
    BY <1>2 DEF RGot, RRet
  <1>8. ROp' = ROp /\ RGot' = RGot /\ RRet' = RRet
    <2>1. \A q \in Procs : ROp'[q] = ROp[q] /\ RGot'[q] = RGot[q] /\ RRet'[q] = RRet[q]
      BY <1>6, <1>7, OthersSame
    <2>2. /\ ROp = [q \in Procs |-> ROp[q]] /\ ROp' = [q \in Procs |-> ROp'[q]]
          /\ RGot = [q \in Procs |-> RGot[q]] /\ RGot' = [q \in Procs |-> RGot'[q]]
          /\ RRet = [q \in Procs |-> RRet[q]] /\ RRet' = [q \in Procs |-> RRet'[q]]
      BY DEF ROp, RGot, RRet
    <2> HIDE DEF ROp, RGot, RRet
    <2> QED  BY <2>1, <2>2
  <1> QED  BY <1>1, <1>3, <1>4, <1>8 DEF Maps

\* A call that is none of the registers': its outcome replaces the last one.
LEMMA MapForget ==
  ASSUME IInv, IInv', RegInv, History, NEW p \in Procs, StepOf(p),
         ~Calling(p), ~Calling(p)', data'[p] = <<>>, ret'[p] \notin Nat \ {0}
  PROVE  Maps(p)
  <1>1. known' = known
    BY KnownAfter DEF Calling
  <1>2. RValue' = RValue
    BY <1>1, ValueSame
  <1>3. ROp[p] = None /\ ROp'[p] = None
    BY OpFacts, OpFactsNext
  <1>4. RGot'[p] = <<>> /\ RRet'[p] = 0
    BY DEF RGot, RRet
  <1>5. Register!Forget(p)
    BY <1>1, <1>2, <1>3, <1>4
    DEF Register!Forget, Register!NoOp, None, RValue, ROp, RGot, RRet
  <1> QED  BY <1>5 DEF Maps

LEMMA MapBeginRead ==
  ASSUME IInv, IInv', RegInv, History, NEW p \in Procs, StepOf(p),
         ~Calling(p), Reading(p)', ret'[p] = NoRet
  PROVE  Maps(p)
  <1>1. ~Writing(p)' /\ Calling(p)'
    BY DEF Reading, Writing, Calling, ReadLabels, WriteLabels
  <1>2. known' = known
    BY <1>1, KnownAfter DEF Calling
  <1>3. RValue' = RValue
    BY <1>2, ValueSame
  <1>4. ROp[p] = None /\ ROp'[p] = ReadOp(DeviceOf(p)', offset'[p], len'[p])
    BY OpFacts, OpFactsNext
  <1>5. DeviceOf(p)' \in Buffers
    BY <1>1 DEF IInv, CallInv, DeviceOf, Buf, BufferOf
  <1>6. offset'[p] \in Nat /\ len'[p] \in Nat
    BY DEF IInv, Types
  <1>7. /\ ROp'[p].kind = "read" /\ ROp'[p].reg \in Buffers
        /\ ROp'[p].from \in Nat /\ ROp'[p].len \in Nat
    BY <1>4, <1>5, <1>6, OpFields
  <1>8. RGot'[p] = <<>> /\ RRet'[p] = 0
    BY <1>1 DEF RGot, RRet, NoRet
  <1>9. Register!BeginRead(p)
    BY <1>2, <1>3, <1>4, <1>7, <1>8
    DEF Register!BeginRead, Register!NoOp, None, RValue, ROp, RGot, RRet
  <1> QED  BY <1>9 DEF Maps

LEMMA MapBeginWrite ==
  ASSUME IInv, IInv', RegInv, History, NEW p \in Procs, StepOf(p),
         ~Calling(p), Writing(p)', ret'[p] = NoRet
  PROVE  Maps(p)
  <1>1. Calling(p)'
    BY DEF Calling
  <1>2. known' = known \ {DeviceOf(p)'}
    BY KnownAfter DEF Calling
  <1>3. RValue' = [b \in Buffers |-> IF b \in known' THEN RValue[b] ELSE <<>>]
    BY <1>2, ValueAfter
  <1>4. ROp[p] = None /\ ROp'[p] = WriteOp(DeviceOf(p)', data'[p])
    BY OpFacts, OpFactsNext
  <1>5. DeviceOf(p)' \in Buffers
    BY <1>1 DEF IInv, CallInv, DeviceOf, Buf, BufferOf
  <1>6. data'[p] \in Seq(Byte)
    BY DEF IInv, Types
  <1>7. ROp'[p].kind = "write" /\ ROp'[p].reg = DeviceOf(p)' /\ ROp'[p].data \in Seq(Byte)
    BY <1>4, <1>5, <1>6, OpFields
  <1>8. RGot'[p] = <<>> /\ RRet'[p] = 0
    BY <1>1 DEF RGot, RRet, NoRet
  <1>9. RValue' = [RValue EXCEPT ![ROp'[p].reg] = <<>>]
    <2>1. \A b \in Buffers : b \notin known => RValue[b] = <<>>
      BY DEF RValue
    <2>2. RValue = [b \in Buffers |-> RValue[b]]
      BY DEF RValue
    <2> HIDE DEF RValue
    <2>3. RValue' = [b \in Buffers |-> IF b = DeviceOf(p)' THEN <<>> ELSE RValue[b]]
      BY <1>2, <1>3, <2>1
    <2> QED  BY <1>5, <1>7, <2>2, <2>3
  <1>10. known' = known \ {ROp'[p].reg}
    BY <1>2, <1>7
  <1>11. Register!BeginWrite(p)
    BY <1>4, <1>5, <1>7, <1>8, <1>9, <1>10
    DEF Register!BeginWrite, Register!NoOp, None, RValue, ROp, RGot, RRet
  <1> QED  BY <1>11 DEF Maps

\* A fault: what p has still to write is not read.
LEMMA MapCut ==
  ASSUME IInv, IInv', RegInv, History, NEW p \in Procs, StepOf(p),
         Writing(p), Writing(p)', ret'[p] = ret[p], p \in BadBuffers,
         Register!Takes(p, data'[p], data[p])
  PROVE  Maps(p)
  <1>1. Calling(p) /\ Calling(p)'
    BY DEF Calling
  <1>2. known' = known
    BY KnownAfter
  <1>3. RValue' = RValue
    BY <1>2, ValueSame
  <1>4. DeviceOf(p)' = DeviceOf(p)
    BY <1>1, DeviceKept
  <1>5. ROp[p] = WriteOp(DeviceOf(p), data[p]) /\ ROp'[p] = WriteOp(DeviceOf(p), data'[p])
    BY <1>4, OpFacts, OpFactsNext
  <1>6. RGot'[p] = RGot[p] /\ RRet'[p] = RRet[p]
    BY <1>1 DEF RGot, RRet
  <1>7. RGot' = RGot /\ RRet' = RRet
    <2>1. \A q \in Procs : RGot'[q] = RGot[q] /\ RRet'[q] = RRet[q]
      BY <1>6, OthersSame
    <2>2. /\ RGot = [q \in Procs |-> RGot[q]] /\ RGot' = [q \in Procs |-> RGot'[q]]
          /\ RRet = [q \in Procs |-> RRet[q]] /\ RRet' = [q \in Procs |-> RRet'[q]]
      BY DEF RGot, RRet
    <2> HIDE DEF RGot, RRet
    <2> QED  BY <2>1, <2>2
  <1>8. /\ ROp[p].kind = "write" /\ ROp'[p].kind = "write"
        /\ ROp[p].data = data[p] /\ ROp'[p].data = data'[p]
    BY <1>5, OpFields
  <1>9. ROp'[p] = [ROp[p] EXCEPT !.data = ROp'[p].data]
    <2>1. \A r, d, e : [WriteOp(r, d) EXCEPT !.data = e] = WriteOp(r, e)
      BY DEF WriteOp
    <2> QED  BY <1>5, <1>8, <2>1
  <1>10. Register!Takes(p, ROp'[p].data, ROp[p].data)
    BY <1>8
  <1>11. Register!Cut(p)
    BY <1>2, <1>3, <1>7, <1>8, <1>9, <1>10
    DEF Register!Cut, RValue, ROp, RGot, RRet
  <1> QED  BY <1>11 DEF Maps

\* A write that no other has overlapped has stored what it was given.
LEMMA MapEndWrite ==
  ASSUME IInv, IInv', RegInv, History, NEW p \in Procs, StepOf(p),
         Writing(p), ~Calling(p)', data'[p] = <<>>,
         p \in clean =>
           /\ ret'[p] = Len(data[p])
           /\ Message(Buf(p))' = data[p]
  PROVE  Maps(p)
  <1>1. Calling(p) /\ ~Writing(p)'
    BY DEF Calling
  <1>2. known' = IF p \in clean THEN known \cup {DeviceOf(p)} ELSE known
    BY <1>1, KnownAfter
  <1>3. DeviceOf(p) = Buf(p) /\ DeviceOf(p) \in Buffers /\ DeviceOf(p) \notin known
        /\ DeviceOf(p)' = DeviceOf(p) /\ Buf(p)' = Buf(p)
    BY <1>1, DeviceIsBuffer, DeviceKept DEF RegInv, KnownInv
  <1>4. ROp[p] = WriteOp(DeviceOf(p), data[p]) /\ ROp'[p] = None
    BY OpFacts, OpFactsNext
  <1>5. ROp[p].kind = "write" /\ ROp[p].reg = DeviceOf(p) /\ ROp[p].data = data[p]
    BY <1>4, OpFields
  <1>6. RGot' = RGot
    <2>1. RGot'[p] = RGot[p]
      BY <1>1 DEF RGot
    <2>2. \A q \in Procs : RGot'[q] = RGot[q]
      BY <2>1, OthersSame
    <2>3. RGot = [q \in Procs |-> RGot[q]] /\ RGot' = [q \in Procs |-> RGot'[q]]
      BY DEF RGot
    <2> HIDE DEF RGot
    <2> QED  BY <2>2, <2>3
  <1>7. CASE p \in clean
    <2>1. RRet'[p] = Len(ROp[p].data)
      <3>1. Len(data[p]) \in Nat
        BY DEF IInv, Types
      <3> QED  BY <1>5, <1>7, <3>1 DEF RRet
    <2>2. known' = known \cup {ROp[p].reg}
      BY <1>2, <1>5, <1>7
    <2>3. RValue' = [RValue EXCEPT ![ROp[p].reg] = ROp[p].data]
      <3>1. \A b \in Buffers : b \notin known => RValue[b] = <<>>
        BY DEF RValue
      <3>2. \A b \in known : Message(b)' = RValue[b]
        BY ValueKept
      <3>3. RValue = [b \in Buffers |-> RValue[b]]
        BY DEF RValue
      <3>4. RValue' = [b \in Buffers |-> IF b \in known' THEN Message(b)' ELSE <<>>]
        BY DEF RValue, Buffers
      <3>5. Message(DeviceOf(p))' = data[p]
        BY <1>3, <1>7
      <3> HIDE DEF RValue, Message
      <3>6. \A b \in Buffers : RValue'[b] = IF b = DeviceOf(p) THEN data[p] ELSE RValue[b]
        <4> SUFFICES ASSUME NEW b \in Buffers
                     PROVE  RValue'[b] = IF b = DeviceOf(p) THEN data[p] ELSE RValue[b]
          OBVIOUS
        <4>1. CASE b = DeviceOf(p)
          <5>1. b \in known' /\ Message(b)' = data[p]
            BY <1>2, <1>3, <1>7, <3>5, <4>1
          <5> QED  BY <3>4, <4>1, <5>1
        <4>2. CASE b # DeviceOf(p)
          <5>1. b \in known' <=> b \in known
            BY <1>2, <1>7, <4>2
          <5> QED  BY <3>1, <3>2, <3>4, <4>2, <5>1
        <4> QED  BY <4>1, <4>2
      <3>7. RValue' = [b \in Buffers |-> RValue'[b]]
        BY <3>4
      <3> QED  BY <1>3, <1>5, <3>3, <3>6, <3>7
    <2>4. Register!EndWrite(p)
      BY <1>4, <1>5, <1>6, <1>7, <2>1, <2>2, <2>3
      DEF Register!EndWrite, Register!NoOp, None, RValue, ROp, RGot, RRet
    <2> QED  BY <2>4 DEF Maps
  <1>8. CASE p \notin clean
    <2>1. known' = known
      BY <1>2, <1>8
    <2>2. RValue' = RValue
      BY <2>1, ValueSame
    <2>3. Register!EndWrite(p)
      BY <1>4, <1>5, <1>6, <1>8, <2>1, <2>2
      DEF Register!EndWrite, Register!NoOp, None, RValue, ROp, RGot, RRet
    <2> QED  BY <2>3 DEF Maps
  <1> QED  BY <1>7, <1>8

\* A read that no write has overlapped returns the message.
LEMMA MapEndRead ==
  ASSUME IInv, IInv', RegInv, History, NEW p \in Procs, StepOf(p),
         Reading(p), ~Calling(p)', ret'[p] = Len(data'[p]),
         data'[p] \in Seq(Byte),
         p \in clean /\ DeviceOf(p) \in known =>
           LET m == Message(DeviceOf(p))
               s == SubSeq(m, offset[p] + 1, Len(m)) IN
           Register!Takes(p, data'[p], IF len[p] < Len(s) THEN SubSeq(s, 1, len[p])
                                                         ELSE s)
  PROVE  Maps(p)
  <1>1. Calling(p) /\ ~Writing(p) /\ ~Writing(p)'
    BY DEF Calling, Reading, Writing, ReadLabels, WriteLabels
  <1>2. known' = known
    BY <1>1, KnownAfter
  <1>3. RValue' = RValue
    BY <1>2, ValueSame
  <1>4. ROp[p] = ReadOp(DeviceOf(p), offset[p], len[p]) /\ ROp'[p] = None
    BY OpFacts, OpFactsNext
  <1>5. /\ ROp[p].kind = "read" /\ ROp[p].reg = DeviceOf(p)
        /\ ROp[p].from = offset[p] /\ ROp[p].len = len[p]
    BY <1>4, OpFields
  <1>6. RGot'[p] = data'[p] /\ RRet'[p] = Len(RGot'[p])
    <2>1. Len(data'[p]) \in Nat
      OBVIOUS
    <2> QED  BY <2>1 DEF RGot, RRet
  <1>7. IF p \in clean /\ ROp[p].reg \in known
        THEN LET m == RValue[ROp[p].reg]
                 s == SubSeq(m, ROp[p].from + 1, Len(m)) IN
             Register!Takes(p, RGot'[p], IF ROp[p].len < Len(s)
                                         THEN SubSeq(s, 1, ROp[p].len) ELSE s)
        ELSE RGot'[p] \in Seq(Byte) /\ (p \in Procs \/ Len(RGot'[p]) <= ROp[p].len)
    <2>1. DeviceOf(p) \in known => RValue[DeviceOf(p)] = Message(DeviceOf(p))
      BY ValueKept
    <2> QED  BY <1>5, <1>6, <2>1
  <1>8. Register!EndRead(p)
    BY <1>2, <1>3, <1>4, <1>5, <1>6, <1>7
    DEF Register!EndRead, Register!NoOp, None, RValue, ROp, RGot, RRet
  <1> QED  BY <1>8 DEF Maps

-----------------------------------------------------------------------------
(* The handlers, step by step                                              *)

RegStep(p) == StepOf(p) /\ WriteInv(p)' /\ ReadInv(p)' /\ Maps(p)

\* A step that leaves the buffers alone.
LEMMA StepAlone ==
  ASSUME NEW p \in Procs, UNCHANGED bufVars,
         \A q \in Procs \ {p} : SameCall(q) /\ ret'[q] = ret[q],
         Calling(p) => minor'[p] = minor[p]
  PROVE  StepOf(p)
  BY DEF StepOf, bufVars

LEMMA ReturnStep ==
  ASSUME IInv, NEW p \in Procs, NEW r, NEW d, Return(p, r, d),
         UNCHANGED <<bufVars, minor>>,
         \A q \in Procs \ {p} : offset'[q] = offset[q]
  PROVE  /\ StepOf(p) /\ WriteInv(p)' /\ ReadInv(p)'
         /\ ~Calling(p)' /\ data'[p] = d /\ ret'[p] = r
  <1>1. /\ pc'[p] = "open" /\ data'[p] = d /\ ret'[p] = r
        /\ \A q \in Procs \ {p} : /\ pc'[q] = pc[q] /\ data'[q] = data[q]
                                  /\ len'[q] = len[q] /\ left'[q] = left[q]
                                  /\ ret'[q] = ret[q]
    BY DEF IInv, Types, Return, Goto
  <1>2. WriteInv(p)' /\ ReadInv(p)' /\ ~Calling(p)'
    BY <1>1 DEF WriteInv, ReadInv, Calling, Reading, Writing, ReadLabels, WriteLabels
  <1>3. StepOf(p)
    BY <1>1, StepAlone DEF SameCall, bufVars
  <1> QED  BY <1>1, <1>2, <1>3

LEMMA OpenReg ==
  ASSUME IInv, IInv', RegInv, History, NEW p \in Procs, CallOpen(p)
  PROVE  RegStep(p)
  <1> USE DEF CallOpen, Goto
  <1>1. pc[p] = "closed" /\ pc'[p] = "open" /\ ~Calling(p) /\ ~Calling(p)'
    BY DEF IInv, Types, Calling, Reading, Writing, ReadLabels, WriteLabels
  <1>2. StepOf(p)
    <2>1. \A q \in Procs \ {p} : SameCall(q) /\ ret'[q] = ret[q]
      BY DEF IInv, Types, SameCall, bufVars, callVars
    <2> QED  BY <1>1, <2>1, StepAlone
  <1>3. data'[p] = data[p] /\ ret'[p] = ret[p]
    BY DEF callVars
  <1>4. WriteInv(p)' /\ ReadInv(p)'
    BY <1>1 DEF WriteInv, ReadInv
  <1> QED  BY <1>1, <1>2, <1>3, <1>4, MapInside DEF RegStep

LEMMA CloseReg ==
  ASSUME IInv, IInv', RegInv, History, NEW p \in Procs, CallClose(p)
  PROVE  RegStep(p)
  <1> USE DEF CallClose, Goto
  <1>1. pc[p] = "open" /\ pc'[p] = "closed" /\ ~Calling(p) /\ ~Calling(p)'
    BY DEF IInv, Types, Calling, Reading, Writing, ReadLabels, WriteLabels
  <1>2. StepOf(p)
    <2>1. \A q \in Procs \ {p} : SameCall(q) /\ ret'[q] = ret[q]
      BY DEF IInv, Types, SameCall, bufVars
    <2> QED  BY <1>1, <2>1, StepAlone
  <1>3. data'[p] = <<>> /\ ret'[p] \notin Nat \ {0}
    BY DEF IInv, Types, NoRet
  <1>4. WriteInv(p)' /\ ReadInv(p)'
    BY <1>1 DEF WriteInv, ReadInv
  <1> QED  BY <1>1, <1>2, <1>3, <1>4, MapForget DEF RegStep

LEMMA NoDeviceReg ==
  ASSUME IInv, IInv', RegInv, History, NEW p \in Procs,
         ReadNoDevice(p) \/ WriteNoDevice(p)
  PROVE  RegStep(p)
  <1>1. pc[p] = "open" /\ Return(p, -ENODEV, <<>>) /\ UNCHANGED <<bufVars, minor, offset>>
    BY DEF ReadNoDevice, WriteNoDevice, MayRead
  <1>2. ~Calling(p)
    BY <1>1 DEF Calling, Reading, Writing, ReadLabels, WriteLabels
  <1>3. /\ StepOf(p) /\ WriteInv(p)' /\ ReadInv(p)'
        /\ ~Calling(p)' /\ data'[p] = <<>> /\ ret'[p] = -ENODEV
    BY <1>1, ReturnStep
  <1>4. -ENODEV \notin Nat \ {0}
    BY DEF ENODEV
  <1> QED  BY <1>2, <1>3, <1>4, MapForget DEF RegStep

LEMMA CallReadReg ==
  ASSUME IInv, IInv', RegInv, History, NEW p \in Procs, CallRead(p)
  PROVE  RegStep(p)
  <1> USE DEF CallRead, Goto
  <1>1. pc[p] = "open" /\ pc'[p] = "read_size" /\ ~Calling(p) /\ Reading(p)'
    BY DEF MayRead, IInv, Types, Calling, Reading, Writing, ReadLabels, WriteLabels
  <1>2. StepOf(p)
    <2>1. \A q \in Procs \ {p} : SameCall(q) /\ ret'[q] = ret[q]
      BY DEF IInv, Types, SameCall, bufVars
    <2> QED  BY <1>1, <2>1, StepAlone
  <1>3. ret'[p] = NoRet
    BY DEF IInv, Types
  <1>4. WriteInv(p)' /\ ReadInv(p)'
    BY <1>1 DEF WriteInv, ReadInv
  <1> QED  BY <1>1, <1>2, <1>3, <1>4, MapBeginRead DEF RegStep

\* Inside of a read the history changes nothing.
LEMMA ReadGoesOn ==
  ASSUME IInv, IInv', RegInv, History, NEW p \in Procs, StepOf(p),
         Reading(p), Reading(p)'
  PROVE  /\ clean' = clean /\ known' = known /\ ReadInv(p)
         /\ Buf(p)' = Buf(p) /\ DeviceOf(p)' = DeviceOf(p)
  <1>1. Calling(p) /\ ~Writing(p) /\ ~Writing(p)'
    BY DEF Calling, Reading, Writing, ReadLabels, WriteLabels
  <1> QED  BY <1>1, CleanAfter, KnownAfter, DeviceKept DEF RegInv

\* A step of a read that changes nothing but where it is and what is left.
LEMMA ReadStep ==
  ASSUME IInv, IInv', RegInv, History, NEW p \in Procs, NEW l, NEW n,
         pc[p] \in ReadLabels, l \in ReadLabels, Goto(p, l),
         left' = [left EXCEPT ![p] = n],
         UNCHANGED <<bufVars, minor, offset, len, data, ret>>
  PROVE  /\ StepOf(p) /\ WriteInv(p)' /\ Maps(p)
         /\ pc'[p] = l /\ left'[p] = n
         /\ clean' = clean /\ known' = known /\ ReadInv(p)
         /\ Buf(p)' = Buf(p) /\ DeviceOf(p)' = DeviceOf(p)
  <1>1. pc'[p] = l /\ left'[p] = n /\ Reading(p) /\ Reading(p)' /\ Calling(p)
    BY DEF Goto, IInv, Types, Reading, Calling
  <1>2. StepOf(p)
    <2>1. \A q \in Procs \ {p} : SameCall(q) /\ ret'[q] = ret[q]
      BY DEF Goto, IInv, Types, SameCall, bufVars
    <2> QED  BY <2>1, StepAlone
  <1>3. WriteInv(p)'
    BY <1>1 DEF WriteInv, ReadLabels
  <1>4. ret'[p] = ret[p] /\ offset'[p] = offset[p] /\ len'[p] = len[p]
    OBVIOUS
  <1> QED  BY <1>1, <1>2, <1>3, <1>4, MapInside, ReadGoesOn

LEMMA ReadSizeReg ==
  ASSUME IInv, IInv', RegInv, History, NEW p \in Procs, ReadSize(p)
  PROVE  RegStep(p)
  <1>1. /\ pc[p] = "read_size" /\ Goto(p, "read_limit")
        /\ offset[p] < message_size[Buf(p)]
        /\ left' = [left EXCEPT ![p] = left[p]]
        /\ UNCHANGED <<bufVars, minor, offset, len, data, ret>>
    BY DEF ReadSize, callVars, IInv, Types
  <1>2. /\ StepOf(p) /\ WriteInv(p)' /\ Maps(p) /\ pc'[p] = "read_limit"
        /\ Buf(p)' = Buf(p)
    <2>1. pc[p] \in ReadLabels /\ "read_limit" \in ReadLabels
      BY <1>1 DEF ReadLabels
    <2> QED  BY <1>1, <2>1, ReadStep
  <1>3. ReadInv(p)'
    BY <1>1, <1>2, ReadGoesOn DEF ReadInv, bufVars, Reading, ReadLabels
  <1> QED  BY <1>2, <1>3 DEF RegStep

LEMMA ReadLimitReg ==
  ASSUME IInv, IInv', RegInv, History, NEW p \in Procs, ReadLimit(p)
  PROVE  RegStep(p)
  <1> DEFINE size == message_size[Buf(p)]
  <1>1. /\ pc[p] = "read_limit" /\ pc[p] \in ReadLabels
        /\ UNCHANGED <<bufVars, minor, offset, len, data, ret>>
    BY DEF ReadLimit, ReadLabels
  <1>2. CASE offset[p] + len[p] > size
    <2>1. Goto(p, "read_cut") /\ "read_cut" \in ReadLabels
          /\ left' = [left EXCEPT ![p] = left[p]]
      BY <1>2 DEF ReadLimit, ReadLabels, IInv, Types
    <2>2. /\ StepOf(p) /\ WriteInv(p)' /\ Maps(p) /\ pc'[p] = "read_cut"
          /\ clean' = clean /\ known' = known /\ ReadInv(p)
          /\ Buf(p)' = Buf(p) /\ DeviceOf(p)' = DeviceOf(p)
      BY <1>1, <2>1, ReadStep
    <2>3. ReadInv(p)'
      BY <1>1, <1>2, <2>2 DEF ReadInv, bufVars
    <2> QED  BY <2>2, <2>3 DEF RegStep
  <1>3. CASE ~(offset[p] + len[p] > size)
    <2>1. Goto(p, "read_copy") /\ "read_copy" \in ReadLabels
          /\ left' = [left EXCEPT ![p] = len[p]]
      BY <1>3 DEF ReadLimit, ReadLabels
    <2>2. /\ StepOf(p) /\ WriteInv(p)' /\ Maps(p)
          /\ pc'[p] = "read_copy" /\ left'[p] = len[p] /\ Buf(p)' = Buf(p)
      BY <1>1, <2>1, ReadStep
    <2>3. ReadInv(p)'
      <3>1. /\ Len(data'[p]) = 0 /\ len'[p] = len[p] /\ offset'[p] = offset[p]
            /\ message_size'[Buf(p)'] = size
        BY <1>1, <2>2, ReadFacts DEF bufVars
      <3>2. /\ 0 + len[p] = len[p] /\ offset[p] + 0 + len[p] <= size
            /\ len[p] \in Nat
        BY <1>1, <1>3, ReadFacts
      <3> HIDE DEF size
      <3> QED  BY <2>2, <3>1, <3>2 DEF ReadInv
    <2> QED  BY <2>2, <2>3 DEF RegStep
  <1> QED  BY <1>2, <1>3

LEMMA ReadCutReg ==
  ASSUME IInv, IInv', RegInv, History, NEW p \in Procs, ReadCut(p)
  PROVE  RegStep(p)
  <1> DEFINE size == message_size[Buf(p)]
             n == Copyable(size - offset[p])
  <1>1. /\ pc[p] = "read_cut" /\ Goto(p, "read_copy")
        /\ left' = [left EXCEPT ![p] = n]
        /\ UNCHANGED <<bufVars, minor, offset, len, data, ret>>
    BY DEF ReadCut
  <1>2. /\ StepOf(p) /\ WriteInv(p)' /\ Maps(p)
        /\ pc'[p] = "read_copy" /\ left'[p] = n
        /\ clean' = clean /\ known' = known /\ ReadInv(p)
        /\ Buf(p)' = Buf(p) /\ DeviceOf(p)' = DeviceOf(p)
    <2> HIDE DEF n
    <2>1. pc[p] \in ReadLabels /\ "read_copy" \in ReadLabels
      BY <1>1 DEF ReadLabels
    <2> QED  BY <1>1, <2>1, ReadStep
  <1>3. /\ Len(data'[p]) = 0 /\ len'[p] = len[p] /\ offset'[p] = offset[p]
        /\ message_size'[Buf(p)'] = size
    BY <1>1, <1>2, ReadFacts DEF bufVars
  <1>4. ASSUME p \in clean, DeviceOf(p) \in known
        PROVE  0 + n <= len[p] /\ offset[p] + 0 + n = size /\ size \in Nat
    <2>1. offset[p] < size /\ offset[p] + len[p] > size
      BY <1>1, <1>2, <1>4 DEF ReadInv
    <2>2. size \in Nat /\ offset[p] \in Nat /\ len[p] \in Nat
      BY <1>1, ReadFacts
    <2> HIDE DEF size
    <2> QED  BY <2>1, <2>2 DEF Copyable
  <1>5. ReadInv(p)'
    <2> HIDE DEF n, size
    <2> QED  BY <1>2, <1>3, <1>4 DEF ReadInv
  <1> QED  BY <1>2, <1>5 DEF RegStep

LEMMA ReadEofReg ==
  ASSUME IInv, IInv', RegInv, History, NEW p \in Procs, ReadEof(p)
  PROVE  RegStep(p)
  <1>1. /\ pc[p] = "read_size" /\ offset[p] >= message_size[Buf(p)]
        /\ Return(p, 0, <<>>) /\ UNCHANGED <<bufVars, minor, offset>>
    BY DEF ReadEof
  <1>2. Reading(p) /\ Calling(p)
    BY <1>1 DEF Reading, Calling, ReadLabels
  <1>3. /\ StepOf(p) /\ WriteInv(p)' /\ ReadInv(p)'
        /\ ~Calling(p)' /\ data'[p] = <<>> /\ ret'[p] = 0
    BY <1>1, ReturnStep
  <1>4. /\ DeviceOf(p) = Buf(p) /\ DeviceOf(p) \in Buffers
        /\ offset[p] \in Nat /\ len[p] \in Nat
    BY <1>2, DeviceIsBuffer DEF IInv, Types
  <1>5. LET m == Message(DeviceOf(p))
            s == SubSeq(m, offset[p] + 1, Len(m)) IN
        Register!Takes(p, <<>>, IF len[p] < Len(s) THEN SubSeq(s, 1, len[p]) ELSE s)
    <2>1. Message(DeviceOf(p)) \in Seq(Byte) /\ Len(Message(DeviceOf(p))) <= offset[p]
      BY <1>1, <1>4, MessageFacts DEF IInv, Types
    <2> QED  BY <1>4, <2>1, ReadTakesNothing
  <1>6. data'[p] \in Seq(Byte) /\ Len(data'[p]) = 0
    BY <1>3
  <1>7. ret'[p] = Len(data'[p])
    BY <1>3, <1>6
  <1>8. Maps(p)
    BY <1>2, <1>3, <1>5, <1>6, <1>7, MapEndRead
  <1> QED  BY <1>3, <1>8 DEF RegStep

LEMMA ReadByteReg ==
  ASSUME IInv, IInv', RegInv, History, NEW p \in Procs, ReadByte(p)
  PROVE  RegStep(p)
  <1> DEFINE n == Len(data[p])
             byte == message[Buf(p)][offset[p] + n]
  <1>1. /\ pc[p] = "read_copy" /\ left[p] > 0
        /\ data' = [data EXCEPT ![p] = Append(@, byte)]
        /\ left' = [left EXCEPT ![p] = @ - 1]
        /\ UNCHANGED <<bufVars, pc, minor, offset, len, ret>>
    BY DEF ReadByte
  <1>2. Reading(p) /\ Calling(p) /\ Reading(p)'
    BY <1>1 DEF Reading, Calling, ReadLabels
  <1>3. StepOf(p)
    <2>1. \A q \in Procs \ {p} : SameCall(q) /\ ret'[q] = ret[q]
      BY <1>1 DEF IInv, Types, SameCall, bufVars
    <2> QED  BY <1>1, <2>1, StepAlone
  <1>4. WriteInv(p)'
    BY <1>1 DEF WriteInv
  <1>5. /\ data[p] \in Seq(Byte) /\ n \in Nat /\ left[p] \in Nat
        /\ offset[p] \in Nat /\ len[p] \in Nat /\ left'[p] = left[p] - 1
    BY <1>1 DEF IInv, Types
  <1>6. data'[p] = Append(data[p], byte)
    BY <1>1 DEF IInv, Types
  <1>7. Len(data'[p]) = n + 1 /\ data'[p][n + 1] = byte
        /\ \A i \in 1..n : data'[p][i] = data[p][i]
    <2> HIDE DEF byte
    <2> QED  BY <1>5, <1>6
  <1>8. ReadInv(p)'
    <2>1. ReadInv(p) /\ clean' = clean /\ known' = known
      <3>1. ~Writing(p) /\ ~Writing(p)'
        BY <1>1 DEF Writing, WriteLabels
      <3> QED  BY <1>2, <1>3, <3>1, CleanAfter, KnownAfter DEF RegInv
    <2>2. Buf(p)' = Buf(p) /\ DeviceOf(p)' = DeviceOf(p)
      BY <1>2, <1>3, DeviceKept
    <2>3. /\ pc'[p] = "read_copy" /\ message' = message /\ message_size' = message_size
          /\ offset'[p] = offset[p] /\ len'[p] = len[p]
      BY <1>1 DEF bufVars
    <2>4. Len(data'[p]) = n + 1
      BY <1>7
    <2>5. /\ Len(data'[p]) + left'[p] = n + left[p]
          /\ offset[p] + Len(data'[p]) + left'[p] = offset[p] + n + left[p]
      <3> HIDE DEF n, byte
      <3>1. (n + 1) + (left[p] - 1) = n + left[p]
            /\ offset[p] + (n + 1) + (left[p] - 1) = offset[p] + n + left[p]
        BY <1>5
      <3> QED  BY <1>5, <2>4, <3>1
    <2>6. p \in clean /\ DeviceOf(p) \in known =>
            \A i \in 1..Len(data'[p]) : data'[p][i] = message[Buf(p)][offset[p] + i - 1]
      <3> SUFFICES ASSUME p \in clean, DeviceOf(p) \in known, NEW i \in 1..n + 1
                   PROVE  data'[p][i] = message[Buf(p)][offset[p] + i - 1]
        BY <1>7
      <3>1. CASE i \in 1..n
        BY <1>1, <1>7, <2>1, <3>1 DEF ReadInv
      <3>2. CASE i = n + 1
        <4>1. offset[p] + i - 1 = offset[p] + n
          BY <1>5, <3>2
        <4> QED  BY <1>7, <3>2, <4>1
      <3> QED  BY <1>5, <3>1, <3>2
    <2> QED  BY <1>1, <2>1, <2>2, <2>3, <2>4, <2>5, <2>6 DEF ReadInv
  <1>9. offset'[p] = offset[p] /\ len'[p] = len[p] /\ ret'[p] = ret[p]
    BY <1>1
  <1> QED  BY <1>2, <1>3, <1>4, <1>8, <1>9, MapInside DEF RegStep

LEMMA ReadReturnReg ==
  ASSUME IInv, IInv', RegInv, History, NEW p \in Procs, ReadReturn(p)
  PROVE  RegStep(p)
  <1> DEFINE n == Len(data[p])
  <1>1. /\ pc[p] = "read_copy" /\ CopyStops(p)
        /\ offset' = [offset EXCEPT ![p] = @ + n]
        /\ Return(p, n, data[p]) /\ UNCHANGED <<bufVars, minor>>
    BY DEF ReadReturn
  <1>2. pc[p] = "read_copy"
    BY DEF ReadReturn
  <1>3. Reading(p) /\ Calling(p)
    BY <1>2 DEF Reading, Calling, ReadLabels
  <1>4. \A q \in Procs \ {p} : offset'[q] = offset[q]
    BY <1>1 DEF IInv, Types
  <1>5. /\ StepOf(p) /\ WriteInv(p)' /\ ReadInv(p)'
        /\ ~Calling(p)' /\ data'[p] = data[p] /\ ret'[p] = n
    BY <1>1, <1>4, ReturnStep DEF ReadReturn
  <1>6. /\ DeviceOf(p) = Buf(p) /\ DeviceOf(p) \in Buffers /\ data[p] \in Seq(Byte)
        /\ offset[p] \in Nat /\ len[p] \in Nat /\ left[p] \in Nat /\ n \in Nat
    BY <1>3, DeviceIsBuffer DEF IInv, Types
  <1>7. ReadInv(p)
    BY DEF RegInv
  <1>8. ASSUME p \in clean, DeviceOf(p) \in known
        PROVE  LET m == Message(DeviceOf(p))
                   s == SubSeq(m, offset[p] + 1, Len(m)) IN
               Register!Takes(p, data[p],
                              IF len[p] < Len(s) THEN SubSeq(s, 1, len[p]) ELSE s)
    <2> DEFINE m == Message(DeviceOf(p))
    <2>1. /\ m \in Seq(Byte) /\ Len(m) = message_size[Buf(p)]
          /\ \A i \in 1..Len(m) : m[i] = message[Buf(p)][i - 1]
      BY <1>6, MessageFacts
    <2> HIDE DEF m
    <2>2. /\ n + left[p] <= len[p]
          /\ offset[p] + n + left[p] <= Len(m)
          /\ offset[p] + n + left[p] = Len(m) \/ n + left[p] = len[p]
          /\ \A i \in 1..n : data[p][i] = message[Buf(p)][offset[p] + i - 1]
      BY <1>2, <1>6, <1>7, <1>8, <2>1 DEF ReadInv
    <2>3. \A i \in 1..n : data[p][i] = m[offset[p] + i]
      <3> SUFFICES ASSUME NEW i \in 1..n  PROVE data[p][i] = m[offset[p] + i]
        OBVIOUS
      <3>1. offset[p] + i \in 1..Len(m) /\ (offset[p] + i) - 1 = offset[p] + i - 1
        <4> DEFINE lm == Len(m)
        <4>1. lm \in Nat /\ offset[p] + n + left[p] <= lm
          BY <2>1, <2>2
        <4> HIDE DEF lm, n
        <4>2. offset[p] + i \in 1..lm
          BY <1>6, <4>1
        <4> QED  BY <1>6, <4>2 DEF lm
      <3> QED  BY <2>1, <2>2, <3>1
    <2>4. left[p] = 0 \/ p \in BadBuffers
      <3>1. n >= len[p] => left[p] = 0
        <4> HIDE DEF n
        <4> QED  BY <1>6, <2>2
      <3> QED  BY <1>1, <3>1 DEF CopyStops
    <2> QED  BY <1>6, <2>1, <2>2, <2>3, <2>4, ReadTakes DEF m
  <1> QED  BY <1>3, <1>5, <1>6, <1>8, MapEndRead DEF RegStep

LEMMA CallWriteReg ==
  ASSUME IInv, IInv', RegInv, History, NEW p \in Procs, CallWrite(p)
  PROVE  RegStep(p)
  <1>1. PICK n, d :
          /\ len' = [len EXCEPT ![p] = n] /\ left' = [left EXCEPT ![p] = n]
          /\ data' = [data EXCEPT ![p] = d]
    BY DEF CallWrite
  <1>2. /\ pc[p] = "open" /\ Goto(p, "write_copy")
        /\ ret' = [ret EXCEPT ![p] = NoRet] /\ UNCHANGED <<bufVars, minor, offset>>
    BY DEF CallWrite
  <1>3. pc'[p] = "write_copy" /\ ~Calling(p) /\ Writing(p)'
    BY <1>2 DEF Goto, IInv, Types, Calling, Reading, Writing, ReadLabels, WriteLabels
  <1>4. StepOf(p)
    <2>1. \A q \in Procs \ {p} : SameCall(q) /\ ret'[q] = ret[q]
      BY <1>1, <1>2 DEF Goto, IInv, Types, SameCall, bufVars
    <2> QED  BY <1>2, <1>3, <2>1, StepAlone
  <1>5. ret'[p] = NoRet
    BY <1>2 DEF IInv, Types
  <1>6. WriteInv(p)'
    <2>1. len'[p] - left'[p] = 0
      <3>1. len'[p] = left'[p] /\ len'[p] \in Nat
        BY <1>1 DEF IInv, Types
      <3> QED  BY <3>1
    <2>2. Stored(p, len[p] - left[p])'
      BY <2>1 DEF Stored
    <2> QED  BY <1>3, <2>2 DEF WriteInv
  <1>7. ReadInv(p)'
    BY <1>3 DEF ReadInv
  <1> QED  BY <1>3, <1>4, <1>5, <1>6, <1>7, MapBeginWrite DEF RegStep

\* A step that stores one byte in the buffer of p.
LEMMA StepStores ==
  ASSUME IInv, NEW p \in Procs, Writing(p), NEW i, NEW byte, Store(p, i, byte),
         UNCHANGED <<driver, message_size, minor, offset, len, ret>>,
         \A q \in Procs \ {p} : /\ pc'[q] = pc[q] /\ left'[q] = left[q]
                                /\ data'[q] = data[q]
  PROVE  /\ StepOf(p)
         /\ \A j \in 0..BUF_LEN - 1 :
              message'[Buf(p)][j] = IF j = i THEN byte ELSE message[Buf(p)][j]
  <1>1. Buf(p) \in Buffers
    BY DEF IInv, CallInv, Calling
  <1>2. message' = [message EXCEPT ![Buf(p)][i] = byte]
    BY DEF Store
  <1>3. message \in [Buffers -> [0..BUF_LEN - 1 -> Byte]]
    BY DEF IInv, Types
  <1>4. \A b \in Buffers : b # Buf(p) => message'[b] = message[b]
    BY <1>1, <1>2, <1>3
  <1>5. \A q \in Procs \ {p} : SameCall(q) /\ ret'[q] = ret[q]
    BY DEF SameCall
  <1>6. StepOf(p)
    BY <1>4, <1>5 DEF StepOf
  <1>7. \A j \in 0..BUF_LEN - 1 :
          message'[Buf(p)][j] = IF j = i THEN byte ELSE message[Buf(p)][j]
    BY <1>1, <1>2, <1>3
  <1> QED  BY <1>6, <1>7

LEMMA WriteByteReg ==
  ASSUME IInv, IInv', RegInv, History, NEW p \in Procs, WriteByte(p)
  PROVE  RegStep(p)
  <1> DEFINE i == len[p] - left[p]
             byte == IF i < Len(data[p]) THEN data[p][i + 1] ELSE NUL
  <1>1. /\ pc[p] = "write_copy" /\ left[p] > 0 /\ Store(p, i, byte)
        /\ left' = [left EXCEPT ![p] = @ - 1]
        /\ UNCHANGED <<driver, message_size, pc, minor, offset, len, data, ret>>
    BY DEF WriteByte
  <1>2. Writing(p) /\ Writing(p)' /\ Calling(p)
    BY <1>1 DEF Writing, Calling, WriteLabels
  <1>3. /\ Buf(p) \in Buffers /\ data[p] \in Seq(Byte)
        /\ Len(data[p]) \in Nat /\ len[p] \in Nat /\ left[p] \in Nat
        /\ Len(data[p]) <= len[p] /\ left[p] <= len[p] /\ len[p] < BUF_LEN
        /\ left'[p] = left[p] - 1
    BY <1>1, WriteFacts DEF IInv, Types
  <1>4. \A q \in Procs \ {p} : left'[q] = left[q]
    BY <1>1 DEF IInv, Types
  <1>5. /\ StepOf(p)
        /\ \A j \in 0..BUF_LEN - 1 :
             message'[Buf(p)][j] = IF j = i THEN byte ELSE message[Buf(p)][j]
    <2> HIDE DEF i, byte
    <2> QED  BY <1>1, <1>2, <1>4, StepStores
  <1>6. clean' = clean /\ Buf(p)' = Buf(p) /\ WriteInv(p)
    BY <1>2, <1>5, CleanAfter, DeviceKept DEF RegInv
  <1>7. WriteInv(p)'
    <2>1. ASSUME p \in clean, NEW k \in 1..Len(data[p]), k <= i + 1
          PROVE  message'[Buf(p)][k - 1] = data[p][k]
      <3>1. k - 1 \in 0..BUF_LEN - 1 /\ i \in Nat
        BY <1>3, MsgAssumption
      <3>2. CASE k <= i
        <4>1. k - 1 # i /\ message[Buf(p)][k - 1] = data[p][k]
          BY <1>1, <1>6, <2>1, <3>1, <3>2 DEF WriteInv, Stored
        <4> QED  BY <1>5, <3>1, <4>1
      <3>3. CASE ~(k <= i)
        <4>1. k = i + 1 /\ k - 1 = i /\ i < Len(data[p])
          BY <1>3, <2>1, <3>1, <3>3
        <4> QED  BY <1>5, <3>1, <4>1
      <3> QED  BY <3>2, <3>3
    <2>2. len'[p] - left'[p] = i + 1 /\ data'[p] = data[p]
      BY <1>1, <1>3
    <2>3. pc'[p] = "write_copy"
      BY <1>1
    <2>4. p \in clean => Stored(p, len[p] - left[p])'
      <3> HIDE DEF i
      <3> QED  BY <1>6, <2>1, <2>2 DEF Stored
    <2> QED  BY <1>6, <2>3, <2>4 DEF WriteInv
  <1>8. ReadInv(p)' /\ data'[p] = data[p] /\ ret'[p] = ret[p]
    BY <1>1 DEF ReadInv
  <1> QED  BY <1>2, <1>5, <1>7, <1>8, MapInside DEF RegStep

LEMMA WriteFaultReg ==
  ASSUME IInv, IInv', RegInv, History, NEW p \in Procs, WriteFault(p)
  PROVE  RegStep(p)
  <1> DEFINE i == len[p] - left[p]
             s == SubSeq(data[p], 1, i)
  <1>1. /\ pc[p] = "write_copy" /\ p \in BadBuffers /\ i < Len(data[p])
        /\ data' = [data EXCEPT ![p] = s]
        /\ UNCHANGED <<bufVars, pc, minor, offset, len, left, ret>>
    BY DEF WriteFault
  <1>2. Writing(p) /\ Writing(p)' /\ Calling(p)
    BY <1>1 DEF Writing, Calling, WriteLabels
  <1>3. /\ data[p] \in Seq(Byte) /\ Len(data[p]) \in Nat /\ i \in Nat /\ i < Len(data[p])
    BY <1>1, WriteFacts
  <1>4. s \in Seq(Byte) /\ Len(s) = i /\ \A k \in 1..i : s[k] = data[p][k]
    <2> HIDE DEF i
    <2> QED  BY <1>3
  <1> HIDE DEF s
  <1>5. data'[p] = s /\ \A q \in Procs \ {p} : data'[q] = data[q]
    BY <1>1 DEF IInv, Types
  <1>6. StepOf(p)
    <2>1. \A q \in Procs \ {p} : SameCall(q) /\ ret'[q] = ret[q]
      BY <1>1, <1>5 DEF SameCall, bufVars
    <2> QED  BY <1>1, <2>1, StepAlone
  <1>7. clean' = clean /\ Buf(p)' = Buf(p) /\ WriteInv(p)
    BY <1>2, <1>6, CleanAfter, DeviceKept DEF RegInv
  <1>8. WriteInv(p)'
    <2>1. p \in clean => Stored(p, len[p] - left[p])'
      <3> SUFFICES ASSUME p \in clean, NEW k \in 1..i
                   PROVE  message[Buf(p)][k - 1] = s[k]
        BY <1>1, <1>4, <1>5, <1>7 DEF Stored, bufVars
      <3>1. k \in 1..Len(data[p]) /\ k <= i
        BY <1>3
      <3> QED  BY <1>1, <1>4, <1>7, <3>1 DEF WriteInv, Stored
    <2>2. pc'[p] = "write_copy"
      BY <1>1
    <2> QED  BY <1>7, <2>1, <2>2 DEF WriteInv
  <1>9. ReadInv(p)' /\ ret'[p] = ret[p]
    BY <1>1 DEF ReadInv
  <1>10. Register!Takes(p, data'[p], data[p])
    <2>1. Len(s) <= Len(data[p]) /\ \A k \in 1..Len(s) : s[k] = data[p][k]
      BY <1>3, <1>4
    <2> QED  BY <1>1, <1>3, <1>4, <1>5, <2>1, TakesPart
  <1> QED  BY <1>1, <1>2, <1>6, <1>8, <1>9, <1>10, MapCut DEF RegStep

\* A step of p that stores the size of its buffer.
LEMMA StepSizes ==
  ASSUME IInv, NEW p \in Procs, Writing(p), NEW n,
         message_size' = [message_size EXCEPT ![Buf(p)] = n],
         UNCHANGED <<driver, message, minor, offset, len, ret>>,
         \A q \in Procs \ {p} : /\ pc'[q] = pc[q] /\ left'[q] = left[q]
                                /\ data'[q] = data[q]
  PROVE  StepOf(p) /\ message_size'[Buf(p)] = n
  <1>1. Buf(p) \in Buffers
    BY DEF IInv, CallInv, Calling
  <1>2. /\ message_size'[Buf(p)] = n
        /\ \A b \in Buffers : b # Buf(p) => message_size'[b] = message_size[b]
    BY <1>1 DEF IInv, Types
  <1>3. \A q \in Procs \ {p} : SameCall(q) /\ ret'[q] = ret[q]
    BY DEF SameCall
  <1> QED  BY <1>2, <1>3 DEF StepOf

LEMMA WriteSizeReg ==
  ASSUME IInv, IInv', RegInv, History, NEW p \in Procs, WriteSize(p)
  PROVE  RegStep(p)
  <1>1. /\ pc[p] = "write_copy" /\ left[p] = 0 /\ Goto(p, "write_index")
        /\ message_size' = [message_size EXCEPT ![Buf(p)] = Len(data[p])]
        /\ UNCHANGED <<driver, message, minor, offset, len, left, data, ret>>
    BY DEF WriteSize, callVars
  <1>2. pc'[p] = "write_index" /\ \A q \in Procs \ {p} : pc'[q] = pc[q]
    BY <1>1 DEF Goto, IInv, Types
  <1>3. Writing(p) /\ Writing(p)' /\ Calling(p)
    BY <1>1, <1>2 DEF Writing, Calling, WriteLabels
  <1>4. StepOf(p) /\ message_size'[Buf(p)] = Len(data[p])
    BY <1>1, <1>2, <1>3, StepSizes
  <1>5. clean' = clean /\ Buf(p)' = Buf(p) /\ WriteInv(p)
    BY <1>3, <1>4, CleanAfter, DeviceKept DEF RegInv
  <1>6. ASSUME p \in clean, NEW k \in 1..Len(data[p])
        PROVE  message[Buf(p)][k - 1] = data[p][k]
    <2>1. k <= len[p] - left[p]
      BY <1>1, WriteFacts
    <2> QED  BY <1>1, <1>5, <1>6, <2>1 DEF WriteInv, Stored
  <1>7. WriteInv(p)'
    BY <1>1, <1>2, <1>4, <1>5, <1>6 DEF WriteInv, Stored
  <1>8. ReadInv(p)' /\ data'[p] = data[p] /\ ret'[p] = ret[p]
    BY <1>1, <1>2 DEF ReadInv
  <1> QED  BY <1>3, <1>4, <1>7, <1>8, MapInside DEF RegStep

LEMMA WriteIndexReg ==
  ASSUME IInv, IInv', RegInv, History, NEW p \in Procs, WriteIndex(p)
  PROVE  RegStep(p)
  <1>1. /\ pc[p] = "write_index" /\ Goto(p, "write_nul")
        /\ left' = [left EXCEPT ![p] = message_size[Buf(p)]]
        /\ UNCHANGED <<bufVars, minor, offset, len, data, ret>>
    BY DEF WriteIndex
  <1>2. pc'[p] = "write_nul" /\ left'[p] = message_size[Buf(p)]
    BY <1>1 DEF Goto, IInv, Types
  <1>3. Writing(p) /\ Writing(p)' /\ Calling(p)
    BY <1>1, <1>2 DEF Writing, Calling, WriteLabels
  <1>4. StepOf(p)
    <2>1. \A q \in Procs \ {p} : SameCall(q) /\ ret'[q] = ret[q]
      BY <1>1 DEF Goto, IInv, Types, SameCall, bufVars
    <2> QED  BY <1>1, <2>1, StepAlone
  <1>5. clean' = clean /\ Buf(p)' = Buf(p) /\ WriteInv(p)
    BY <1>3, <1>4, CleanAfter, DeviceKept DEF RegInv
  <1>6. WriteInv(p)'
    BY <1>1, <1>2, <1>5 DEF WriteInv, Stored, bufVars
  <1>7. ReadInv(p)' /\ data'[p] = data[p] /\ ret'[p] = ret[p]
    BY <1>1, <1>2 DEF ReadInv
  <1> QED  BY <1>3, <1>4, <1>6, <1>7, MapInside DEF RegStep

LEMMA WriteNulReg ==
  ASSUME IInv, IInv', RegInv, History, NEW p \in Procs, WriteNul(p)
  PROVE  RegStep(p)
  <1> DEFINE n == left[p]
  <1>1. /\ pc[p] = "write_nul" /\ Store(p, n, NUL) /\ Goto(p, "write_ret")
        /\ left' = [left EXCEPT ![p] = 0]
        /\ UNCHANGED <<driver, message_size, minor, offset, len, data, ret>>
    BY DEF WriteNul
  <1>2. /\ pc'[p] = "write_ret"
        /\ \A q \in Procs \ {p} : pc'[q] = pc[q] /\ left'[q] = left[q]
    BY <1>1 DEF Goto, IInv, Types
  <1>3. Writing(p) /\ Writing(p)' /\ Calling(p)
    BY <1>1, <1>2 DEF Writing, Calling, WriteLabels
  <1>4. /\ StepOf(p)
        /\ \A j \in 0..BUF_LEN - 1 :
             message'[Buf(p)][j] = IF j = n THEN NUL ELSE message[Buf(p)][j]
    <2> HIDE DEF n
    <2> QED  BY <1>1, <1>2, <1>3, StepStores
  <1>5. clean' = clean /\ Buf(p)' = Buf(p) /\ WriteInv(p)
    BY <1>3, <1>4, CleanAfter, DeviceKept DEF RegInv
  <1>6. ASSUME p \in clean, NEW k \in 1..Len(data[p])
        PROVE  message'[Buf(p)][k - 1] = data[p][k]
    <2>1. n = Len(data[p]) /\ message[Buf(p)][k - 1] = data[p][k]
      BY <1>1, <1>5, <1>6 DEF WriteInv, Stored
    <2>2. k - 1 \in 0..BUF_LEN - 1 /\ k - 1 # n
      <3>1. n \in Nat /\ n < BUF_LEN /\ BUF_LEN \in Nat
        BY <1>1, <1>3, SizeFacts
      <3>2. k \in 1..n
        BY <2>1
      <3> HIDE DEF n
      <3> QED  BY <3>1, <3>2
    <2> QED  BY <1>4, <2>1, <2>2
  <1>7. WriteInv(p)'
    BY <1>1, <1>2, <1>5, <1>6 DEF WriteInv, Stored
  <1>8. ReadInv(p)' /\ data'[p] = data[p] /\ ret'[p] = ret[p]
    BY <1>1, <1>2 DEF ReadInv
  <1> QED  BY <1>3, <1>4, <1>7, <1>8, MapInside DEF RegStep

\* The buffer of a write that is clean and has stored all.
LEMMA StoredMessage ==
  ASSUME IInv, NEW p \in Procs, Calling(p), message_size[Buf(p)] = Len(data[p]),
         Stored(p, Len(data[p]))
  PROVE  Message(Buf(p)) = data[p]
  <1> DEFINE m == Message(Buf(p))
             d == data[p]
  <1>1. Buf(p) \in Buffers /\ d \in Seq(Byte)
    BY DEF IInv, Types, CallInv
  <1>2. /\ m \in Seq(Byte) /\ Len(m) = Len(d)
        /\ \A i \in 1..Len(d) : m[i] = message[Buf(p)][i - 1]
    BY <1>1, MessageFacts
  <1>3. \A i \in 1..Len(d) : message[Buf(p)][i - 1] = d[i]
    <2>1. \A i \in 1..Len(d) : i <= Len(d)
      OBVIOUS
    <2> QED  BY <2>1 DEF Stored
  <1> HIDE DEF m, d
  <1>4. \A i \in 1..Len(d) : m[i] = d[i]
    BY <1>2, <1>3
  <1>5. m = d
    BY <1>1, <1>2, <1>4
  <1> QED  BY <1>5 DEF m, d

LEMMA WriteReturnReg ==
  ASSUME IInv, IInv', RegInv, History, NEW p \in Procs, WriteReturn(p)
  PROVE  RegStep(p)
  <1>1. /\ pc[p] = "write_ret" /\ Return(p, message_size[Buf(p)], <<>>)
        /\ UNCHANGED <<bufVars, minor, offset>>
    BY DEF WriteReturn
  <1>2. Writing(p) /\ Calling(p)
    BY <1>1 DEF Writing, Calling, WriteLabels
  <1>3. /\ StepOf(p) /\ WriteInv(p)' /\ ReadInv(p)'
        /\ ~Calling(p)' /\ data'[p] = <<>> /\ ret'[p] = message_size[Buf(p)]
    BY <1>1, ReturnStep
  <1>4. ASSUME p \in clean
        PROVE  ret'[p] = Len(data[p]) /\ Message(Buf(p))' = data[p]
    <2>1. message_size[Buf(p)] = Len(data[p]) /\ Stored(p, Len(data[p]))
      BY <1>1, <1>4 DEF RegInv, WriteInv
    <2>2. Message(Buf(p)) = data[p]
      BY <1>2, <2>1, StoredMessage
    <2>3. Message(Buf(p))' = Message(Buf(p))
      <3>1. Buf(p)' = Buf(p)
        BY <1>2, <1>3, DeviceKept
      <3> QED  BY <1>1, <3>1 DEF Message, bufVars
    <2> QED  BY <1>3, <2>1, <2>2, <2>3
  <1> QED  BY <1>2, <1>3, <1>4, MapEndWrite DEF RegStep

-----------------------------------------------------------------------------
\* Every handler keeps the invariant, and is a step of the registers.
LEMMA HandlerReg ==
  ASSUME IInv, RegInv, History, NEW p \in Procs,
         \/ CallOpen(p) \/ CallClose(p) \/ ReadNoDevice(p) \/ WriteNoDevice(p)
         \/ dev_read(p) \/ dev_write(p)
  PROVE  RegInv' /\ [Register!Next]_Register!registerVars
  <1>1. IInv'
    BY HandlerInv
  <1>2. RegStep(p)
    BY <1>1, OpenReg, CloseReg, NoDeviceReg, CallReadReg, ReadSizeReg, ReadEofReg,
       ReadLimitReg, ReadCutReg, ReadByteReg, ReadReturnReg, CallWriteReg,
       WriteByteReg, WriteFaultReg, WriteSizeReg, WriteIndexReg, WriteNulReg,
       WriteReturnReg
    DEF dev_read, dev_write
  <1>3. RegInv'
    BY <1>1, <1>2, RegFrame DEF RegStep
  <1>4. [Register!Next]_Register!registerVars
    BY <1>2, MapsNext DEF RegStep
  <1> QED  BY <1>3, <1>4

LEMMA RegInit == MsgInit => RegInv /\ Register!Init
  <1> SUFFICES ASSUME MsgInit  PROVE RegInv /\ Register!Init
    OBVIOUS
  <1>1. /\ \A p \in Procs : pc[p] = "closed" /\ data[p] = <<>> /\ ret[p] = NoRet
        /\ clean = {} /\ known = Buffers
        /\ \A b \in Buffers : message_size[b] = 0
    BY DEF MsgInit, Cleared, NoCalls
  <1>2. \A p \in Procs : ~Writing(p) /\ ~Calling(p)
    BY <1>1 DEF Calling, Reading, Writing, ReadLabels, WriteLabels
  <1>3. \A p \in Procs : WriteInv(p) /\ ReadInv(p)
    BY <1>1 DEF WriteInv, ReadInv
  <1>4. RegInv
    BY <1>1, <1>2, <1>3 DEF RegInv, CleanInv, KnownInv
  <1>5. RValue = [b \in Buffers |-> <<>>]
    <2>1. \A b \in Buffers : Message(b) = <<>>
      BY <1>1 DEF Message
    <2> QED  BY <1>1, <2>1 DEF RValue
  <1>6. ROp = [p \in Procs |-> None]
    BY <1>2, OpFacts DEF ROp
  <1>7. RGot = [p \in Procs |-> <<>>]
    BY <1>1, <1>2 DEF RGot
  <1>8. RRet = [p \in Procs |-> 0]
    BY <1>1 DEF RRet, NoRet
  <1>9. Register!Init
    BY <1>1, <1>5, <1>6, <1>7, <1>8
    DEF Register!Init, Register!NoOp, None, RValue, ROp, RGot, RRet
  <1> QED  BY <1>4, <1>9

\* A step of none of the processes.
LEMMA RegStutter ==
  ASSUME RegInv, UNCHANGED msgVars
  PROVE  RegInv' /\ UNCHANGED Register!registerVars
  <1> USE DEF msgVars, bufVars, callVars, historyVars
  <1>1. \A p \in Procs : /\ Writing(p)' = Writing(p) /\ Reading(p)' = Reading(p)
                         /\ Calling(p)' = Calling(p)
                         /\ DeviceOf(p)' = DeviceOf(p) /\ Buf(p)' = Buf(p)
    BY DEF Writing, Reading, Calling, DeviceOf, Buf, BufferOf
  <1>2. CleanInv' /\ KnownInv'
    BY <1>1 DEF RegInv, CleanInv, KnownInv
  <1>3. \A p \in Procs : WriteInv(p)' /\ ReadInv(p)'
    BY <1>1 DEF RegInv, WriteInv, ReadInv, Stored
  <1>4. RegInv'
    BY <1>2, <1>3 DEF RegInv, Buffers
  <1>5. UNCHANGED <<RValue, ROp, RGot, RRet>>
    BY <1>1 DEF RValue, ROp, RGot, RRet, OpOf, Message, Buffers
  <1> QED  BY <1>4, <1>5 DEF Register!registerVars, RValue, ROp, RGot, RRet

\* 02, 03 and 09 implement safe registers, for any number of processes,
\* devices and bytes: a call that no other process's write overlaps does to the
\* message of its device what it should, and no call touches another device.
THEOREM ImplementsRegisters == MsgSpec => RefinesRegisters
  <1>1. MsgInit => IInv /\ RegInv /\ Register!Init
    BY InvInit, RegInit
  <1>2. IInv /\ RegInv /\ [MsgNext]_msgVars =>
          IInv' /\ RegInv' /\ [Register!Next]_Register!registerVars
    <2> SUFFICES ASSUME IInv, RegInv, [MsgNext]_msgVars
                 PROVE  IInv' /\ RegInv' /\ [Register!Next]_Register!registerVars
      OBVIOUS
    <2>1. CASE MsgNext
      <3>1. PICK p \in Procs : Handlers(p)
        BY <2>1 DEF MsgNext
      <3>2. \/ CallOpen(p) \/ CallClose(p) \/ ReadNoDevice(p) \/ WriteNoDevice(p)
            \/ dev_read(p) \/ dev_write(p)
        BY <3>1 DEF Handlers, Read, Write, multibuf_read, multibuf_write,
           platform_read, platform_write
      <3>3. History
        BY <2>1 DEF MsgNext
      <3> QED  BY <3>2, <3>3, HandlerInv, HandlerReg
    <2>2. CASE UNCHANGED msgVars
      <3>1. IInv'
        BY <2>2
        DEF msgVars, bufVars, callVars, historyVars, IInv, Types, CallInv,
            Calling, Reading, Writing, Buf, BufferOf, HasCdev
      <3> QED  BY <2>2, <3>1, RegStutter
    <2> QED  BY <2>1, <2>2
  <1> QED  BY <1>1, <1>2, PTL DEF MsgSpec, RefinesRegisters, Register!Spec
=============================================================================
