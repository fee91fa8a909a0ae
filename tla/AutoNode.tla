------------------------------ MODULE AutoNode ------------------------------
(***************************************************************************)
(* 05-char-dev-auto-node: several message devices that count their opens.  *)
(*                                                                         *)
(* open_count++ is a load and a store with no lock around them, and opens  *)
(* of one device run at the same time.  It is not decremented.             *)
(***************************************************************************)
EXTENDS CharMsgDev

CONSTANT MaxOpens  (* bound: of the opens of each device                   *)

ASSUME AutoAssumption ==
  Drivers = {"cdev"} /\ Minors \subseteq 0..DEV_MAX - 1 /\ MaxOpens \in Nat

VARIABLES
  open_count,  (* of each device                                           *)
  loaded,      (* the value of open_count each process has loaded          *)
  opened,      (* history: how many opens of each device have ended        *)
  raced        (* history: devices two processes have opened at once       *)

autoVars == <<msgVars, open_count, loaded, opened, raced>>

Opening(m) == {p \in Procs : pc[p] = "open_store" /\ minor[p] = m}

MayOpen(m) == opened[m] + Cardinality(Opening(m)) < MaxOpens

\* dev_open up to the load of dev->open_count
OpenLoad(p) ==
  /\ pc[p] = "closed"
  /\ \E m \in Minors :
       /\ MayOpen(m)
       /\ minor' = [minor EXCEPT ![p] = m]
       /\ loaded' = [loaded EXCEPT ![p] = open_count[m]]
       /\ raced' = IF Opening(m) = {} THEN raced ELSE raced \cup {m}
  /\ Goto(p, "open_store")
  /\ UNCHANGED <<bufVars, offset, callVars, ret, open_count, opened>>

\* Faulty: the count of another device goes up.
OpenStore_First(p) ==
  /\ pc[p] = "open_store"
  /\ open_count' = [open_count EXCEPT ![0] = loaded[p] + 1]
  /\ opened' = [opened EXCEPT ![minor[p]] = @ + 1]
  /\ loaded' = [loaded EXCEPT ![p] = 0]
  /\ Goto(p, "open")
  /\ UNCHANGED <<bufVars, minor, offset, callVars, ret, raced>>

OpenStore(p) ==
  /\ pc[p] = "open_store"
  /\ open_count' = [open_count EXCEPT ![minor[p]] = loaded[p] + 1]
  /\ opened' = [opened EXCEPT ![minor[p]] = @ + 1]
  /\ loaded' = [loaded EXCEPT ![p] = 0]
  /\ Goto(p, "open")
  /\ UNCHANGED <<bufVars, minor, offset, callVars, ret, raced>>

auto_fops(p) ==
  \/ OpenLoad(p) \/ OpenStore(p)
  \/ /\ CallClose(p) \/ dev_read(p) \/ dev_write(p)
     /\ UNCHANGED <<open_count, loaded, opened, raced>>

\* init_device writes a message of its own into each buffer.
Default ==
  /\ message = [b \in Buffers |-> [i \in 0..BUF_LEN - 1 |->
                  IF i < BUF_LEN - 1 THEN <<"default", i + 1>> ELSE NUL]]
  /\ message_size = [b \in Buffers |-> BUF_LEN - 1]

AutoInit ==
  /\ driver \in Drivers /\ Default /\ NoCalls
  /\ open_count = [m \in Minors |-> 0]
  /\ loaded = [p \in Procs |-> 0]
  /\ opened = [m \in Minors |-> 0]
  /\ raced = {}

AutoNext == (\E p \in Procs : auto_fops(p)) /\ History

\* A call that has begun goes on, and a cat goes on until its end of file.
AutoFairness ==
  \A p \in Procs :
    /\ WF_autoVars(Calling(p) /\ auto_fops(p) /\ History)
    /\ p \in Cats => WF_autoVars(pc[p] = "open" /\ auto_fops(p) /\ History)

AutoSpec     == AutoInit /\ [][AutoNext]_autoVars
AutoLiveSpec == AutoSpec /\ AutoFairness

-----------------------------------------------------------------------------
(* Properties                                                              *)

\* "Device opened (count: %d)": the count of a device is that of its opens as
\* long as no two of them have run at once.  Once they have, counts can be
\* lost, but none is ever made up.
OpenCountsOpens ==
  \A m \in Minors :
    /\ m \notin raced => open_count[m] = opened[m]
    /\ open_count[m] <= opened[m]
    /\ opened[m] > 0 => open_count[m] > 0
=============================================================================
