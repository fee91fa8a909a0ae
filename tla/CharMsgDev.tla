----------------------------- MODULE CharMsgDev -----------------------------
(***************************************************************************)
(* The message devices: 02-char-device-driver, 03-char-dev-multibuf, and   *)
(* the same pair of handlers again in 04, 05 and 09.                       *)
(*                                                                         *)
(* A device keeps one message and its size.  A write replaces the message, *)
(* a read returns the part of it from the position of the file on.  There  *)
(* is no lock: a handler loads the size each time it names it, copies byte *)
(* by byte and stores the size after the bytes, with others in between.    *)
(***************************************************************************)
EXTENDS Integers, Sequences, FiniteSetsExt

CONSTANTS
  Readers, Writers, (* processes that read, that write                     *)
  BadBuffers,       (* processes that may pass a user pointer that faults  *)
  Cats,             (* readers that read until they are told end of file   *)
  Minors,           (* minor numbers of the nodes in /dev                  *)
  Drivers,          (* "shared": 02, "multibuf": 03, "cdev": 04, 05 and 09 *)
  DEV_MAX, BUF_LEN,
  Lens,             (* lengths passed to read and write                    *)
  Values            (* what messages are told apart by                     *)

Procs == Readers \cup Writers

ASSUME MsgAssumption ==
  /\ BadBuffers \subseteq Procs
  /\ Cats \subseteq Readers \ (Writers \cup BadBuffers)
  /\ Drivers \subseteq {"shared", "multibuf", "cdev"}
  /\ DEV_MAX \in Nat \ {0} /\ BUF_LEN \in Nat \ {0}
  /\ Minors \subseteq Nat
  /\ Lens \subseteq Nat
  /\ \A v \in Values : v # "NUL"

VARIABLES
  driver,                (* the one that is loaded, of Drivers             *)
  message, message_size, (* of each buffer                                 *)
  pc,      (* where each process is                                        *)
  minor,   (* the device it has open                                       *)
  offset,  (* the position of its file                                     *)
  len,     (* the length of the call it does                               *)
  left,    (* how much of it the copy has still to do; at "write_nul" the  *)
           (* index of the NUL                                             *)
  data,    (* the bytes in user space: what a read has copied out, and     *)
           (* what a write has to copy in                                  *)
  ret,     (* what its last call returned                                  *)
  clean,   (* history: calls that no write of another process has          *)
           (* overlapped on the same device                                *)
  known    (* history: devices whose last write was such a call            *)

bufVars     == <<driver, message, message_size>>
callVars    == <<len, left, data>>
historyVars == <<clean, known>>
msgVars     == <<bufVars, pc, minor, offset, callVars, ret, historyVars>>

ENODEV == 19
NoRet  == -1

\* A byte of a message is known by the message and its place in it.  The one
\* with which a device of 05 starts is "default".
NUL  == <<"NUL", 0>>
Byte == {NUL} \cup ((Values \cup {"default"}) \X (1..BUF_LEN))

\* 02 has the first one only.
Buffers == 0..DEV_MAX - 1

\* Faulty: two devices share a buffer.
BufferOf_Shared(m) == 0

\* The buffer of a device: all of 02 share one, those of 03 to 09 have their
\* own.
BufferOf(m) == IF driver = "shared" THEN 0 ELSE m

\* Faulty: the first minor number past the end is let through.
NoDevice_OffByOne(m) == driver = "multibuf" /\ m > DEV_MAX

\* minor >= DEV_MAX
NoDevice(m) == driver = "multibuf" /\ m >= DEV_MAX

Buf(p) == BufferOf(minor[p])

ReadLabels  == {"read_size", "read_limit", "read_cut", "read_copy"}
WriteLabels == {"write_copy", "write_index", "write_nul", "write_ret",
                "reset_size", "reset_buffer"}

Goto(p, l) == pc' = [pc EXCEPT ![p] = l]

\* The call returns r, having read or written the bytes d.
Return(p, r, d) ==
  /\ Goto(p, "open")
  /\ ret' = [ret EXCEPT ![p] = r]
  /\ data' = [data EXCEPT ![p] = d]
  /\ len' = [len EXCEPT ![p] = 0]
  /\ left' = [left EXCEPT ![p] = 0]

-----------------------------------------------------------------------------
(* dev_open and dev_release; what a shell's cat does                       *)

\* register_chrdev takes all minor numbers, cdev_add those of the devices: the
\* others cannot be opened.
HasCdev(m) == driver = "cdev" => m < DEV_MAX

\* A read has returned nothing, or failed.
AtEnd(p) == ret[p] \in {0, -ENODEV}

CallOpen(p) ==
  /\ pc[p] = "closed"
  /\ \E m \in Minors : HasCdev(m) /\ minor' = [minor EXCEPT ![p] = m]
  /\ Goto(p, "open")
  /\ UNCHANGED <<bufVars, offset, callVars, ret>>

CallClose(p) ==
  /\ pc[p] = "open"
  /\ p \in Cats => AtEnd(p)
  /\ Goto(p, "closed")
  /\ minor' = [minor EXCEPT ![p] = 0]
  /\ offset' = [offset EXCEPT ![p] = 0]
  /\ ret' = [ret EXCEPT ![p] = NoRet]
  /\ data' = [data EXCEPT ![p] = <<>>]
  /\ UNCHANGED <<bufVars, len, left>>

-----------------------------------------------------------------------------
(* dev_read                                                                *)

MayRead(p) == pc[p] = "open" /\ p \in Readers /\ (p \in Cats => ~AtEnd(p))

CallRead(p) ==
  /\ MayRead(p) /\ ~NoDevice(minor[p])
  /\ \E l \in Lens : len' = [len EXCEPT ![p] = l] /\ (p \in Cats => l > 0)
  /\ data' = [data EXCEPT ![p] = <<>>]
  /\ ret' = [ret EXCEPT ![p] = NoRet]
  /\ Goto(p, "read_size")
  /\ UNCHANGED <<bufVars, minor, offset, left>>

\* Any minor number can be opened; it is the first read that fails.
ReadNoDevice(p) ==
  /\ MayRead(p) /\ NoDevice(minor[p])
  /\ Return(p, -ENODEV, <<>>)
  /\ UNCHANGED <<bufVars, minor, offset>>

\* *offset >= message_size: the first of three loads of the size, between
\* which a write may replace it.
ReadSize(p) ==
  /\ pc[p] = "read_size" /\ offset[p] < message_size[Buf(p)]
  /\ Goto(p, "read_limit")
  /\ UNCHANGED <<bufVars, minor, offset, callVars, ret>>

ReadEof(p) ==
  /\ pc[p] = "read_size" /\ offset[p] >= message_size[Buf(p)]
  /\ Return(p, 0, <<>>)
  /\ UNCHANGED <<bufVars, minor, offset>>

\* *offset + len > message_size
ReadLimit(p) ==
  /\ pc[p] = "read_limit"
  /\ IF offset[p] + len[p] > message_size[Buf(p)]
     THEN Goto(p, "read_cut") /\ UNCHANGED left
     ELSE Goto(p, "read_copy") /\ left' = [left EXCEPT ![p] = len[p]]
  /\ UNCHANGED <<bufVars, minor, offset, len, data, ret>>

\* A negative length wraps to one of more than INT_MAX bytes, of which
\* copy_to_user copies none.
Copyable(n) == IF n < 0 THEN 0 ELSE n

\* len = message_size - *offset: by now the size may be less than *offset, or
\* leave more than the call has asked for.
ReadCut(p) ==
  /\ pc[p] = "read_cut"
  /\ left' = [left EXCEPT ![p] = Copyable(message_size[Buf(p)] - offset[p])]
  /\ Goto(p, "read_copy")
  /\ UNCHANGED <<bufVars, minor, offset, len, data, ret>>

ReadByte(p) ==
  /\ pc[p] = "read_copy" /\ left[p] > 0
  /\ data' = [data EXCEPT ![p] =
       Append(@, message[Buf(p)][offset[p] + Len(data[p])])]
  /\ left' = [left EXCEPT ![p] = @ - 1]
  /\ UNCHANGED <<bufVars, pc, minor, offset, len, ret>>

\* All is copied, or what follows faults: the user's pointer is bad, or the end
\* of its buffer has been reached.
CopyStops(p) == left[p] = 0 \/ p \in BadBuffers \/ Len(data[p]) >= len[p]

\* Faulty: the position of the file stays.
ReadReturn_Stays(p) ==
  /\ pc[p] = "read_copy" /\ CopyStops(p)
  /\ Return(p, Len(data[p]), data[p])
  /\ UNCHANGED <<bufVars, minor, offset>>

\* Faulty: a copy that has stopped part of the way is a failed one (-EFAULT).
ReadReturn_Error(p) ==
  /\ pc[p] = "read_copy" /\ CopyStops(p)
  /\ offset' = [offset EXCEPT ![p] = @ + Len(data[p])]
  /\ Return(p, IF left[p] > 0 THEN -14 ELSE Len(data[p]), data[p])
  /\ UNCHANGED <<bufVars, minor>>

ReadReturn(p) ==
  /\ pc[p] = "read_copy" /\ CopyStops(p)
  /\ offset' = [offset EXCEPT ![p] = @ + Len(data[p])]
  /\ Return(p, Len(data[p]), data[p])
  /\ UNCHANGED <<bufVars, minor>>

-----------------------------------------------------------------------------
(* dev_write                                                               *)

WriteLen(l) == Min({l, BUF_LEN - 1})

CallWrite(p) ==
  /\ pc[p] = "open" /\ p \in Writers /\ ~NoDevice(minor[p])
  /\ \E l \in Lens, v \in Values :
       /\ len' = [len EXCEPT ![p] = WriteLen(l)]
       /\ left' = [left EXCEPT ![p] = WriteLen(l)]
       /\ data' = [data EXCEPT ![p] = [i \in 1..WriteLen(l) |-> <<v, i>>]]
  /\ ret' = [ret EXCEPT ![p] = NoRet]
  /\ Goto(p, "write_copy")
  /\ UNCHANGED <<bufVars, minor, offset>>

WriteNoDevice(p) ==
  /\ pc[p] = "open" /\ p \in Writers /\ NoDevice(minor[p])
  /\ Return(p, -ENODEV, <<>>)
  /\ UNCHANGED <<bufVars, minor, offset>>

Store(p, i, byte) == message' = [message EXCEPT ![Buf(p)][i] = byte]

\* Byte by byte; copy_from_user clears what it cannot copy.
WriteByte(p) ==
  LET i == len[p] - left[p] IN
  /\ pc[p] = "write_copy" /\ left[p] > 0
  /\ Store(p, i, IF i < Len(data[p]) THEN data[p][i + 1] ELSE NUL)
  /\ left' = [left EXCEPT ![p] = @ - 1]
  /\ UNCHANGED <<driver, message_size, pc, minor, offset, len, data, ret>>

WriteFault(p) ==
  /\ pc[p] = "write_copy" /\ p \in BadBuffers
  /\ len[p] - left[p] < Len(data[p])
  /\ data' = [data EXCEPT ![p] = SubSeq(@, 1, len[p] - left[p])]
  /\ UNCHANGED <<bufVars, pc, minor, offset, len, left, ret>>

WriteSize(p) ==
  /\ pc[p] = "write_copy" /\ left[p] = 0
  /\ message_size' = [message_size EXCEPT ![Buf(p)] = Len(data[p])]
  /\ Goto(p, "write_index")
  /\ UNCHANGED <<driver, message, minor, offset, callVars, ret>>

\* The index of the NUL is loaded from message_size again: it may be the size
\* of another's message by now.
WriteIndex(p) ==
  /\ pc[p] = "write_index"
  /\ left' = [left EXCEPT ![p] = message_size[Buf(p)]]
  /\ Goto(p, "write_nul")
  /\ UNCHANGED <<bufVars, minor, offset, len, data, ret>>

WriteNul(p) ==
  /\ pc[p] = "write_nul"
  /\ Store(p, left[p], NUL)
  /\ left' = [left EXCEPT ![p] = 0]
  /\ Goto(p, "write_ret")
  /\ UNCHANGED <<driver, message_size, minor, offset, len, data, ret>>

\* After the printk the size is loaded again: it may be another writer's.
WriteReturn(p) ==
  /\ pc[p] = "write_ret"
  /\ Return(p, message_size[Buf(p)], <<>>)
  /\ UNCHANGED <<bufVars, minor, offset>>

-----------------------------------------------------------------------------
(* History: which calls overlap                                            *)

Reading(p) == pc[p] \in ReadLabels
Writing(p) == pc[p] \in WriteLabels
Calling(p) == Reading(p) \/ Writing(p)

\* The device a process has open, for the users of the driver: 02 says "all
\* devices use the same buffer", 03 "each device should manage its own".
DeviceOf(p) == IF driver = "shared" THEN 0 ELSE minor[p]

History ==
  /\ clean' = {p \in Procs :
       /\ Calling(p)'
       /\ Calling(p) => p \in clean
       /\ \A q \in Procs \ {p} : ~(Writing(q) /\ DeviceOf(q) = DeviceOf(p))'}
  /\ known' = {b \in Buffers :
       LET before == {p \in Procs : Writing(p) /\ DeviceOf(p) = b} IN
       /\ \A p \in Procs : ~(Writing(p) /\ DeviceOf(p) = b)'
       /\ IF before = {} THEN b \in known ELSE before \subseteq clean}

-----------------------------------------------------------------------------
dev_read(p) ==
  \/ CallRead(p) \/ ReadSize(p) \/ ReadEof(p) \/ ReadLimit(p) \/ ReadCut(p)
  \/ ReadByte(p) \/ ReadReturn(p)

dev_write(p) ==
  \/ CallWrite(p) \/ WriteByte(p) \/ WriteFault(p)
  \/ WriteSize(p) \/ WriteIndex(p) \/ WriteNul(p) \/ WriteReturn(p)

\* 03 has the same handlers behind a test of the minor number.
multibuf_read(p)  == ReadNoDevice(p) \/ dev_read(p)
multibuf_write(p) == WriteNoDevice(p) \/ dev_write(p)

\* 09 has them over the device that open has found from the cdev.
platform_read(p)  == dev_read(p)
platform_write(p) == dev_write(p)

Read(p) ==
  \/ driver = "shared"   /\ dev_read(p)
  \/ driver = "multibuf" /\ multibuf_read(p)
  \/ driver = "cdev"     /\ platform_read(p)

Write(p) ==
  \/ driver = "shared"   /\ dev_write(p)
  \/ driver = "multibuf" /\ multibuf_write(p)
  \/ driver = "cdev"     /\ platform_write(p)

Handlers(p) == CallOpen(p) \/ CallClose(p) \/ Read(p) \/ Write(p)

\* static, or cleared memory
Cleared ==
  /\ message = [b \in Buffers |-> [i \in 0..BUF_LEN - 1 |-> NUL]]
  /\ message_size = [b \in Buffers |-> 0]

NoCalls ==
  /\ pc = [p \in Procs |-> "closed"]
  /\ minor = [p \in Procs |-> 0]
  /\ offset = [p \in Procs |-> 0]
  /\ len = [p \in Procs |-> 0]
  /\ left = [p \in Procs |-> 0]
  /\ data = [p \in Procs |-> <<>>]
  /\ ret = [p \in Procs |-> NoRet]
  /\ clean = {}
  /\ known = Buffers

MsgInit == driver \in Drivers /\ Cleared /\ NoCalls

MsgNext == (\E p \in Procs : Handlers(p)) /\ History

MsgSpec == MsgInit /\ [][MsgNext]_msgVars

-----------------------------------------------------------------------------
(* Properties                                                              *)

\* The type invariant.
MsgTypeOK ==
  /\ driver \in Drivers
  /\ message \in [Buffers -> [0..BUF_LEN - 1 -> Byte]]
  /\ message_size \in [Buffers -> Nat]
  /\ pc \in [Procs -> {"closed", "open"} \cup ReadLabels \cup WriteLabels]
  /\ minor \in [Procs -> Minors \cup {0}]
  /\ offset \in [Procs -> Nat]
  /\ len \in [Procs -> Nat] /\ left \in [Procs -> Nat]
  /\ data \in [Procs -> Seq(Byte)]
  /\ ret \in [Procs -> Nat \cup {NoRet, -ENODEV}]
  /\ clean \subseteq Procs /\ known \subseteq Buffers

\* Without a lock, and with the size replaced between the loads of a read that
\* compare it and the one that subtracts from it, or between a write's store of
\* it and its use as an index, no handler ever touches a byte outside of its
\* buffer, nor a buffer outside of the array.
BytesInBounds ==
  /\ \A b \in Buffers : message_size[b] < BUF_LEN
  /\ \A p \in Procs : Calling(p) => Buf(p) \in Buffers
  /\ \A p \in Procs : pc[p] = "read_copy" =>
       offset[p] + Len(data[p]) + left[p] < BUF_LEN
  /\ \A p \in Procs : pc[p] = "write_copy" =>
       Len(data[p]) <= len[p] /\ left[p] <= len[p] /\ len[p] < BUF_LEN
  /\ \A p \in Procs : pc[p] = "write_nul" => left[p] < BUF_LEN

\* The cat of the examples ends, whatever others write while it reads: every
\* read but the last takes its file further into the buffer.
CatEnds == \A p \in Cats : pc[p] = "open" ~> pc[p] = "closed"
=============================================================================
