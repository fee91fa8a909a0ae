-------------------------- MODULE BlockingDevPipe --------------------------
(* The driver of 06-char-dev-blocking implements LossyPipe.                *)
EXTENDS BlockingDev

\* The unread bytes lie between the two positions.  From the moment a reset
\* begins, under the mutex, there are none.
Unread ==
  IF reset_left # {} THEN <<>>
  ELSE [i \in 1..write_pos - read_pos |-> buffer[read_pos + i - 1]]

Filled == IF reset_left # {} THEN 0 ELSE write_pos

Pipe == INSTANCE LossyPipe
          WITH Users <- Procs, Capacity <- BUF_LEN, pipe <- Unread, fill <- Filled

\* dev_read and dev_write are a pipe: bytes come out once and in the order
\* they were written, a read returns what is oldest, and only a write that
\* finds the buffer filled to its end discards unread bytes; a copy to or
\* from user space that fails neither adds nor removes any.
RefinesPipe == Pipe!Spec
=============================================================================
