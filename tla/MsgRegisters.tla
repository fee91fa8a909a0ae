---------------------------- MODULE MsgRegisters ----------------------------
(***************************************************************************)
(* The message devices implement safe registers: one for each device of 03 *)
(* to 09, and one that all devices share for 02.                           *)
(*                                                                         *)
(* A call takes part in the register from its first step to its return.    *)
(***************************************************************************)
EXTENDS CharMsgDev

Message(b) == [i \in 1..message_size[b] |-> message[b][i - 1]]

\* The operation a process is in, for the register.
OpOf(p) ==
  CASE Writing(p) -> [kind |-> "write", reg |-> DeviceOf(p), data |-> data[p]]
    [] Reading(p) -> [kind |-> "read", reg |-> DeviceOf(p),
                      from |-> offset[p], len |-> len[p]]
    [] OTHER      -> [kind |-> "none"]

Register == INSTANCE SafeRegisters WITH
  Registers <- Buffers,
  Unit      <- Byte,
  Initial   <- <<>>,
  Faulty    <- BadBuffers,
  Loose     <- Procs,
  value     <- [b \in Buffers |-> IF b \in known THEN Message(b) ELSE <<>>],
  op        <- [p \in Procs |-> OpOf(p)],
  got       <- [p \in Procs |-> IF Calling(p) THEN <<>> ELSE data[p]],
  ret       <- [p \in Procs |-> IF ret[p] \in Nat THEN ret[p] ELSE 0]

\* What the users of the drivers may rely on: a read nobody's write overlaps
\* returns the bytes of the last message, from the position of the file on,
\* cut only by the end of the message, the length of the call or a fault; a
\* write nobody's overlaps stores its message, and returns its length, and no
\* call ever changes another device.  A read that a write does overlap may
\* return any bytes, and more of them than were asked for: see ReadCut.
RefinesRegisters == Register!Spec
=============================================================================
