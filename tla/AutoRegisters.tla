--------------------------- MODULE AutoRegisters ---------------------------
(***************************************************************************)
(* The devices of 05 are the registers of MsgRegisters, but for what they  *)
(* hold at first: the message init_device has left.                        *)
(***************************************************************************)
EXTENDS AutoNode, MsgRegisters

DefaultMessage == [i \in 1..BUF_LEN - 1 |-> <<"default", i>>]

AutoRegister == INSTANCE SafeRegisters WITH
  Registers <- Buffers,
  Unit      <- Byte,
  Initial   <- DefaultMessage,
  Faulty    <- BadBuffers,
  Loose     <- Procs,
  value     <- [b \in Buffers |-> IF b \in known THEN Message(b) ELSE <<>>],
  op        <- [p \in Procs |-> OpOf(p)],
  got       <- [p \in Procs |-> IF Calling(p) THEN <<>> ELSE data[p]],
  ret       <- [p \in Procs |-> IF ret[p] \in Nat THEN ret[p] ELSE 0]

\* What RefinesRegisters says of the other drivers, of 05: a read of a device
\* that nobody has written to returns the default message, and that opens run
\* beside a call changes nothing of it.
RefinesAutoRegisters == AutoRegister!Spec
=============================================================================
