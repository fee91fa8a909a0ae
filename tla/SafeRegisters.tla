--------------------------- MODULE SafeRegisters ---------------------------
(***************************************************************************)
(* What memory shared without a lock promises: a safe register, of many    *)
(* writers.                                                                *)
(*                                                                         *)
(* A write that no other write of the register overlaps stores what it was *)
(* given.  A read that no write overlaps, of a register whose last writes  *)
(* did not overlap either, returns what the last write stored.  Any other  *)
(* operation promises nothing but to keep off the other registers, and a   *)
(* read, unless it is loose, to take no more than it has asked for.        *)
(*                                                                         *)
(* The contents of a register are a sequence, of which a read takes the    *)
(* part from a position on.                                                *)
(***************************************************************************)
EXTENDS Integers, Sequences

CONSTANTS
  Procs,     (* the processes that do operations, one at a time each       *)
  Registers,
  Unit,      (* what sequences of are the contents                         *)
  Initial,   (* the contents at first                                      *)
  Faulty,    (* processes whose operations may stop part of the way        *)
  Loose      (* those whose reads may take more than they have asked for,  *)
             (* once a write has overlapped them                           *)

VARIABLES
  value,  (* the contents of the known registers, of the others <<>>       *)
  known,  (* the registers whose contents are known                        *)
  op,     (* the operation each process is in, or NoOp                     *)
  clean,  (* the processes whose operation no other's write has overlapped *)
  got,    (* what the last operation of each process read                  *)
  ret     (* and the length it returned                                    *)

registerVars == <<value, known, op, clean, got, ret>>

NoOp == [kind |-> "none"]

Writing(p, r) == op[p].kind = "write" /\ op[p].reg = r

\* The next value of clean.
Overlaps ==
  clean' = {p \in Procs :
              /\ op'[p] # NoOp
              /\ op[p] # NoOp => p \in clean
              /\ \A q \in Procs \ {p} : ~Writing(q, op[p].reg)'}

\* From the front of s, all of it unless the operation can stop before.
Takes(p, t, s) ==
  \E n \in 0..Len(s) : (n = Len(s) \/ p \in Faulty) /\ t = SubSeq(s, 1, n)

BeginRead(p) ==
  /\ op[p] = NoOp
  /\ op'[p].kind = "read" /\ op'[p].reg \in Registers
  /\ op'[p].from \in Nat /\ op'[p].len \in Nat
  /\ got'[p] = <<>> /\ ret'[p] = 0
  /\ UNCHANGED <<value, known>>

EndRead(p) ==
  LET o    == op[p]
      rest == SubSeq(value[o.reg], o.from + 1, Len(value[o.reg])) IN
  /\ o.kind = "read"
  /\ op'[p] = NoOp
  /\ IF p \in clean /\ o.reg \in known
     THEN Takes(p, got'[p], IF o.len < Len(rest) THEN SubSeq(rest, 1, o.len)
                                                 ELSE rest)
     ELSE got'[p] \in Seq(Unit) /\ (p \in Loose \/ Len(got'[p]) <= o.len)
  /\ ret'[p] = Len(got'[p])
  /\ UNCHANGED <<value, known>>

BeginWrite(p) ==
  /\ op[p] = NoOp
  /\ op'[p].kind = "write" /\ op'[p].reg \in Registers
  /\ op'[p].data \in Seq(Unit)
  /\ got'[p] = <<>> /\ ret'[p] = 0
  /\ known' = known \ {op'[p].reg}
  /\ value' = [value EXCEPT ![op'[p].reg] = <<>>]

\* What the process has to write turns out to end early.
Cut(p) ==
  /\ op[p].kind = "write" /\ op'[p].kind = "write" /\ p \in Faulty
  /\ op'[p] = [op[p] EXCEPT !.data = op'[p].data]
  /\ Takes(p, op'[p].data, op[p].data)
  /\ UNCHANGED <<value, known, got, ret>>

EndWrite(p) ==
  LET o == op[p] IN
  /\ o.kind = "write"
  /\ op'[p] = NoOp
  /\ IF p \in clean
     THEN /\ known' = known \cup {o.reg}
          /\ value' = [value EXCEPT ![o.reg] = o.data]
          /\ ret'[p] = Len(o.data)
     ELSE UNCHANGED <<value, known>>
  /\ UNCHANGED got

\* The outcome of an operation is known until the next one at most.
Forget(p) ==
  /\ op[p] = NoOp /\ op'[p] = NoOp
  /\ got'[p] = <<>> /\ ret'[p] = 0
  /\ UNCHANGED <<value, known>>

Init ==
  /\ value = [r \in Registers |-> Initial]
  /\ known = Registers
  /\ op = [p \in Procs |-> NoOp]
  /\ clean = {}
  /\ got = [p \in Procs |-> <<>>]
  /\ ret = [p \in Procs |-> 0]

Others(p) ==
  \A q \in Procs \ {p} : op'[q] = op[q] /\ got'[q] = got[q] /\ ret'[q] = ret[q]

Next ==
  /\ \E p \in Procs :
       /\ Others(p)
       /\ \/ BeginRead(p) \/ EndRead(p)
          \/ BeginWrite(p) \/ Cut(p) \/ EndWrite(p)
          \/ Forget(p)
  /\ Overlaps

Spec == Init /\ [][Next]_registerVars
=============================================================================
