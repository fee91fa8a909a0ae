----------------------------- MODULE LossyPipe -----------------------------
(***************************************************************************)
(* What /dev/myblocking promises its users: a first-in first-out pipe of   *)
(* bytes, shared by all readers, each byte of which goes to at most one    *)
(* read.                                                                   *)
(*                                                                         *)
(* It has room for Capacity bytes, counted from the last time it was       *)
(* empty: reading part of the contents frees nothing.  A pipe filled to    *)
(* its capacity may lose everything that is in it, read in part or not.    *)
(***************************************************************************)
EXTENDS Integers, Sequences

CONSTANTS Users, Capacity, Byte

VARIABLES
  pipe,   (* the bytes nobody has read yet, oldest first                   *)
  fill,   (* how much of the capacity is used up                           *)
  got     (* what the current read of each user has taken out              *)

pipeVars == <<pipe, fill, got>>

Put ==
  /\ \E n \in 0..Capacity - fill :
       /\ \E data \in [1..n -> Byte] : pipe' = pipe \o data
       /\ fill' = fill + n
  /\ UNCHANGED got

Drop ==
  /\ fill = Capacity
  /\ pipe' = <<>> /\ fill' = 0
  /\ UNCHANGED got

\* A read takes a prefix of the pipe; draining it frees the whole capacity.
Take(u) ==
  \E n \in 1..Len(pipe) :
    /\ got' = [got EXCEPT ![u] = SubSeq(pipe, 1, n)]
    /\ pipe' = SubSeq(pipe, n + 1, Len(pipe))
    /\ fill' = IF n = Len(pipe) THEN 0 ELSE fill

\* The bytes are in user space and the call is over.
Finish(u) ==
  /\ got' = [got EXCEPT ![u] = <<>>]
  /\ UNCHANGED <<pipe, fill>>

Init ==
  /\ pipe = <<>>
  /\ fill = 0
  /\ got = [u \in Users |-> <<>>]

Next == Put \/ Drop \/ \E u \in Users : Take(u) \/ Finish(u)

Spec == Init /\ [][Next]_pipeVars
=============================================================================
