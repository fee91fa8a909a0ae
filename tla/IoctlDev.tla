------------------------------ MODULE IoctlDev ------------------------------
(***************************************************************************)
(* 04-char-dev-ioctl: a message device with a speed and a mode.            *)
(*                                                                         *)
(* dev_ioctl takes no lock either.  An int is set or read by one access;   *)
(* RESET clears the speed, the mode, the size and the buffer one after the *)
(* other, and is to the message a write of the empty one.                  *)
(***************************************************************************)
EXTENDS MsgRegisters

CONSTANT Args  (* ints passed to SET_SPEED and SET_MODE                    *)

ASSUME IoctlAssumption == Drivers = {"cdev"} /\ Args \subseteq Int

VARIABLES
  speed, mode,
  touched  (* history: processes in a RESET that a SET has overlapped      *)

ioctlVars == <<msgVars, speed, mode, touched>>
userVars  == <<bufVars, minor, offset>>

MAX_SPEED == 1000
MAX_MODE  == 3
DefaultSpeed   == 100
DefaultMode    == 0

EFAULT == 14
EINVAL == 22
ENOTTY == 25

ResetLabels == {"reset_speed", "reset_mode", "reset_size", "reset_buffer"}
Resetting(p) == pc[p] \in ResetLabels

-----------------------------------------------------------------------------
(* dev_ioctl                                                               *)

MayIoctl(p) == pc[p] = "open" /\ p \in Writers

\* A wrong magic number or an unknown command.
NotTty(p) ==
  /\ MayIoctl(p)
  /\ Return(p, -ENOTTY, <<>>)
  /\ UNCHANGED <<userVars, speed, mode>>

Fault(p) ==
  /\ MayIoctl(p) /\ p \in BadBuffers
  /\ Return(p, -EFAULT, <<>>)
  /\ UNCHANGED <<userVars, speed, mode>>

\* Faulty: the limit is that of the speed.
BadMode_Speed(v) == v < 0 \/ v > MAX_SPEED

BadMode(v)  == v < 0 \/ v > MAX_MODE
BadSpeed(v) == v < 0 \/ v > MAX_SPEED

SetSpeed(p) ==
  /\ MayIoctl(p)
  /\ \E v \in Args :
       IF BadSpeed(v) THEN Return(p, -EINVAL, <<>>) /\ UNCHANGED speed
                      ELSE Return(p, 0, <<>>) /\ speed' = v
  /\ UNCHANGED <<userVars, mode>>

SetMode(p) ==
  /\ MayIoctl(p)
  /\ \E v \in Args :
       IF BadMode(v) THEN Return(p, -EINVAL, <<>>) /\ UNCHANGED mode
                     ELSE Return(p, 0, <<>>) /\ mode' = v
  /\ UNCHANGED <<userVars, speed>>

\* GET_SPEED, GET_MODE and GET_VERSION, each one load, change nothing.
Get(p) ==
  /\ MayIoctl(p)
  /\ Return(p, 0, <<>>)
  /\ UNCHANGED <<userVars, speed, mode>>

CallReset(p) ==
  /\ MayIoctl(p)
  /\ Goto(p, "reset_speed")
  /\ data' = [data EXCEPT ![p] = <<>>]
  /\ ret' = [ret EXCEPT ![p] = NoRet]
  /\ UNCHANGED <<userVars, len, left, speed, mode>>

ResetSpeed(p) ==
  /\ pc[p] = "reset_speed"
  /\ speed' = 0
  /\ Goto(p, "reset_mode")
  /\ UNCHANGED <<userVars, callVars, ret, mode>>

\* Faulty: the mode is left.
ResetMode_Left(p) ==
  /\ pc[p] = "reset_mode"
  /\ Goto(p, "reset_size")
  /\ UNCHANGED <<userVars, callVars, ret, speed, mode>>

ResetMode(p) ==
  /\ pc[p] = "reset_mode"
  /\ mode' = 0
  /\ Goto(p, "reset_size")
  /\ UNCHANGED <<userVars, callVars, ret, speed>>

\* Faulty: the buffer is cleared, but not its size.
ResetSize_Left(p) ==
  /\ pc[p] = "reset_size"
  /\ left' = [left EXCEPT ![p] = BUF_LEN]
  /\ Goto(p, "reset_buffer")
  /\ UNCHANGED <<userVars, len, data, ret, speed, mode>>

ResetSize(p) ==
  /\ pc[p] = "reset_size"
  /\ message_size' = [message_size EXCEPT ![Buf(p)] = 0]
  /\ left' = [left EXCEPT ![p] = BUF_LEN]
  /\ Goto(p, "reset_buffer")
  /\ UNCHANGED <<driver, message, minor, offset, len, data, ret, speed, mode>>

\* memset, byte by byte
ResetBuffer(p) ==
  /\ pc[p] = "reset_buffer" /\ left[p] > 0
  /\ Store(p, BUF_LEN - left[p], NUL)
  /\ left' = [left EXCEPT ![p] = @ - 1]
  /\ UNCHANGED <<driver, message_size, pc, minor, offset, len, data, ret>>
  /\ UNCHANGED <<speed, mode>>

ResetReturn(p) ==
  /\ pc[p] = "reset_buffer" /\ left[p] = 0
  /\ Return(p, 0, <<>>)
  /\ UNCHANGED <<userVars, speed, mode>>

dev_ioctl(p) ==
  \/ NotTty(p) \/ Fault(p)
  \/ SetSpeed(p) \/ SetMode(p) \/ Get(p)
  \/ CallReset(p) \/ ResetSpeed(p) \/ ResetMode(p) \/ ResetSize(p)
  \/ ResetBuffer(p) \/ ResetReturn(p)

-----------------------------------------------------------------------------
ioctl_fops(p) ==
  \/ /\ CallOpen(p) \/ CallClose(p) \/ dev_read(p) \/ dev_write(p)
     /\ UNCHANGED <<speed, mode>>
  \/ dev_ioctl(p)

IoctlInit ==
  /\ MsgInit
  /\ speed = DefaultSpeed /\ mode = DefaultMode
  /\ touched = {}

\* A RESET stores nothing but 0: any other new value is that of a SET.
IoctlNext ==
  /\ \E p \in Procs : ioctl_fops(p)
  /\ History
  /\ touched' = {p \in Procs :
       /\ Resetting(p)'
       /\ p \in touched \/ speed' \notin {speed, 0} \/ mode' \notin {mode, 0}}

IoctlSpec == IoctlInit /\ [][IoctlNext]_ioctlVars

-----------------------------------------------------------------------------
(* Properties                                                              *)

\* The type invariant: the settings keep to the ranges that dev_ioctl tests.
IoctlTypeOK ==
  /\ speed \in 0..MAX_SPEED
  /\ mode \in 0..MAX_MODE
  /\ touched \subseteq {p \in Procs : Resetting(p)}

ResetEnds(p) == Resetting(p) /\ ~Resetting(p)'

\* RESET, its four parts done one at a time beside everything else, has set
\* both settings to what it resets them to, which is 0, when it returns, unless
\* a SET came while it was under way.  (What it does to the message is part of
\* RefinesRegisters.)
ResetTakesHold ==
  [][\A p \in Procs \ touched : ResetEnds(p) => speed = 0 /\ mode = 0]_ioctlVars

\* "Reset device to defaults" (README.md), where the speed at first is
\* "Default speed" (char-dev-ioctl.c:214).  0 is not that speed, so every RESET
\* that no SET overlaps leaves a device that is not at its defaults.
ResetToDefaults ==
  \A p \in Procs \ touched : pc[p] = "reset_buffer" =>
    speed = DefaultSpeed /\ mode = DefaultMode
=============================================================================
