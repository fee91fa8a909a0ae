--------------------------- MODULE AutoNodeProofs ---------------------------
(***************************************************************************)
(* Proofs about AutoNode, for any number of processes, devices and opens:  *)
(* what open_count says of the opens of a device, and that the handlers 05 *)
(* shares with the other drivers keep to the device beside it.             *)
(***************************************************************************)
EXTENDS AutoRegisters, CharMsgDevProofs

-----------------------------------------------------------------------------
(* The inductive invariant                                                 *)

Labels == {"closed", "open", "open_store"} \cup ReadLabels \cup WriteLabels

CountTypes ==
  /\ pc \in [Procs -> Labels]
  /\ minor \in [Procs -> Minors \cup {0}]
  /\ open_count \in [Minors -> Nat]
  /\ opened \in [Minors -> Nat]
  /\ loaded \in [Procs -> Nat]

\* What a process carries in its register is no more than the opens that have
\* ended, and is still the count as long as it is alone.
LoadedInv ==
  \A p \in Procs : pc[p] = "open_store" =>
    /\ minor[p] \in Minors
    /\ loaded[p] <= opened[minor[p]]
    /\ minor[p] \notin raced =>
         /\ loaded[p] = open_count[minor[p]]
         /\ \A q \in Procs \ {p} :
              ~(pc[q] = "open_store" /\ minor[q] = minor[p])

CountInv == CountTypes /\ LoadedInv /\ OpenCountsOpens

-----------------------------------------------------------------------------
LEMMA CountInit == AutoInit => CountInv
  BY DEF AutoInit, NoCalls, CountInv, CountTypes, Labels, LoadedInv,
         OpenCountsOpens

LEMMA OpenLoadInv ==
  ASSUME CountInv, NEW p \in Procs, OpenLoad(p)
  PROVE  CountInv'
  <1> USE DEF CountInv
  <1>1. PICK m \in Minors :
          /\ minor' = [minor EXCEPT ![p] = m]
          /\ loaded' = [loaded EXCEPT ![p] = open_count[m]]
          /\ raced' = IF Opening(m) = {} THEN raced ELSE raced \cup {m}
    BY DEF OpenLoad
  <1>2. pc' = [pc EXCEPT ![p] = "open_store"] /\ UNCHANGED <<open_count, opened>>
    BY DEF OpenLoad, Goto
  <1>3. raced \subseteq raced'  BY <1>1
  <1>4. m \notin raced' =>
          \A q \in Procs : ~(pc[q] = "open_store" /\ minor[q] = m)
    BY <1>1 DEF Opening
  <1>5. CountTypes'  BY <1>1, <1>2 DEF CountTypes, Labels
  <1>6. OpenCountsOpens'  BY <1>2, <1>3 DEF OpenCountsOpens
  <1>7. ASSUME NEW q \in Procs, pc'[q] = "open_store"
        PROVE  /\ minor'[q] \in Minors
               /\ loaded'[q] <= opened'[minor'[q]]
               /\ minor'[q] \notin raced' =>
                    /\ loaded'[q] = open_count'[minor'[q]]
                    /\ \A r \in Procs \ {q} :
                         ~(pc'[r] = "open_store" /\ minor'[r] = minor'[q])
    <2> USE DEF CountTypes
    <2>1. CASE q = p
      <3>1. minor'[q] = m /\ loaded'[q] = open_count[m]  BY <1>1, <2>1
      <3>2. open_count[m] <= opened[m]  BY DEF OpenCountsOpens
      <3>3. \A r \in Procs \ {q} : pc'[r] = pc[r] /\ minor'[r] = minor[r]
        BY <1>1, <1>2, <2>1
      <3> QED  BY <1>2, <1>4, <3>1, <3>2, <3>3
    <2>2. CASE q # p
      <3>1. /\ pc[q] = "open_store" /\ minor'[q] = minor[q]
            /\ loaded'[q] = loaded[q]
        BY <1>1, <1>2, <1>7, <2>2
      <3>2. minor[q] \notin raced' => minor[q] # m
        BY <1>4, <3>1
      <3>3. \A r \in Procs \ {p} : pc'[r] = pc[r] /\ minor'[r] = minor[r]
        BY <1>1, <1>2
      <3> QED  BY <1>1, <1>2, <1>3, <3>1, <3>2, <3>3 DEF LoadedInv
    <2> QED  BY <2>1, <2>2
  <1> QED  BY <1>5, <1>6, <1>7 DEF LoadedInv

LEMMA OpenStoreInv ==
  ASSUME CountInv, NEW p \in Procs, OpenStore(p)
  PROVE  CountInv'
  <1> USE DEF CountInv
  <1> DEFINE m == minor[p]
  <1>1. /\ open_count' = [open_count EXCEPT ![m] = loaded[p] + 1]
        /\ opened' = [opened EXCEPT ![m] = @ + 1]
        /\ loaded' = [loaded EXCEPT ![p] = 0]
        /\ pc' = [pc EXCEPT ![p] = "open"]
        /\ UNCHANGED <<minor, raced>>
    BY DEF OpenStore, Goto
  <1>2. /\ m \in Minors /\ loaded[p] <= opened[m]
        /\ m \notin raced => loaded[p] = open_count[m]
    BY DEF OpenStore, LoadedInv
  <1> HIDE DEF m
  <1>3. CountTypes'  BY <1>1, <1>2 DEF CountTypes, Labels
  <1>4. OpenCountsOpens'  BY <1>1, <1>2 DEF CountTypes, OpenCountsOpens
  <1>5. LoadedInv'
    <2> SUFFICES ASSUME NEW q \in Procs, pc'[q] = "open_store"
                 PROVE  /\ minor[q] \in Minors
                        /\ loaded'[q] <= opened'[minor[q]]
                        /\ minor[q] \notin raced =>
                             /\ loaded'[q] = open_count'[minor[q]]
                             /\ \A r \in Procs \ {q} :
                                  ~(pc'[r] = "open_store" /\ minor[r] = minor[q])
      BY <1>1 DEF LoadedInv
    <2>1. q # p /\ pc[q] = "open_store" /\ loaded'[q] = loaded[q]
      BY <1>1 DEF CountTypes
    <2>2. /\ minor[q] \in Minors /\ loaded[q] <= opened[minor[q]]
          /\ minor[q] \notin raced =>
               /\ loaded[q] = open_count[minor[q]]
               /\ \A r \in Procs \ {q} :
                    ~(pc[r] = "open_store" /\ minor[r] = minor[q])
      BY <2>1 DEF LoadedInv
    <2>3. minor[q] \notin raced => minor[q] # m
      BY <2>1, <2>2 DEF OpenStore, m
    <2>4. opened'[minor[q]] \in Nat /\ opened'[minor[q]] >= opened[minor[q]]
      BY <1>1, <1>2, <2>2 DEF CountTypes
    <2>5. \A r \in Procs : pc'[r] = "open_store" => pc[r] = "open_store"
      BY <1>1 DEF CountTypes
    <2>6. loaded[q] \in Nat /\ opened[minor[q]] \in Nat
      BY <2>2 DEF CountTypes
    <2>7. minor[q] \notin raced => open_count'[minor[q]] = open_count[minor[q]]
      BY <1>1, <2>2, <2>3 DEF CountTypes
    <2> QED  BY <2>1, <2>2, <2>4, <2>5, <2>6, <2>7
  <1> QED  BY <1>3, <1>4, <1>5

\* The other handlers leave the counts, and no process of theirs is opening.
LEMMA OtherInv ==
  ASSUME CountInv, NEW p \in Procs,
         CallClose(p) \/ dev_read(p) \/ dev_write(p),
         UNCHANGED <<open_count, loaded, opened, raced>>
  PROVE  CountInv'
  <1> USE DEF CountInv, CountTypes, Labels, ReadLabels, WriteLabels, Goto, Return
  <1>1. /\ pc' \in [Procs -> Labels]
        /\ pc'[p] # "open_store"
        /\ \A q \in Procs \ {p} : pc'[q] = pc[q] /\ minor'[q] = minor[q]
        /\ minor' \in [Procs -> Minors \cup {0}]
    <2>1. CASE CallClose(p)  BY <2>1 DEF CallClose
    <2>2. CASE dev_read(p)
      BY <2>2
      DEF dev_read, CallRead, MayRead, ReadSize, ReadEof, ReadLimit, ReadCut,
          ReadByte, ReadReturn
    <2>3. CASE dev_write(p)
      BY <2>3
      DEF dev_write, CallWrite, WriteByte, WriteFault, WriteSize, WriteIndex,
          WriteNul, WriteReturn
    <2> QED  BY <2>1, <2>2, <2>3
  <1>2. LoadedInv'
    BY <1>1 DEF LoadedInv
  <1> QED  BY <1>1, <1>2 DEF OpenCountsOpens

\* The count of a device is never more than the opens that have ended, is not
\* 0 once one has, and is exact as long as no two of them have run at once,
\* for any number of processes, devices and opens.
THEOREM CountIsOfOpens == AutoSpec => []OpenCountsOpens
  <1>1. CountInv /\ [AutoNext]_autoVars => CountInv'
    <2> SUFFICES ASSUME CountInv, [AutoNext]_autoVars  PROVE CountInv'
      OBVIOUS
    <2>1. CASE AutoNext
      <3>1. PICK p \in Procs : auto_fops(p)  BY <2>1 DEF AutoNext
      <3> QED
        BY <3>1, OpenLoadInv, OpenStoreInv, OtherInv DEF auto_fops
    <2>2. CASE UNCHANGED autoVars
      BY <2>2
      DEF autoVars, msgVars, CountInv, CountTypes, LoadedInv, OpenCountsOpens
    <2> QED  BY <2>1, <2>2
  <1>2. CountInv => OpenCountsOpens  BY DEF CountInv
  <1> QED  BY CountInit, <1>1, <1>2, PTL DEF AutoSpec

-----------------------------------------------------------------------------
(* Messages                                                                *)

LEMMA DefaultBytes ==
  \A i \in 1..BUF_LEN : <<"default", i>> \in Byte
  BY DEF Byte

\* The devices start with a message of their own, and nobody has called them.
LEMMA AutoStart ==
  ASSUME AutoInit
  PROVE  IInv /\ RegInv /\ AutoRegister!Init
  <1> USE DEF AutoInit, NoCalls
  <1>1. BUF_LEN \in Nat \ {0} /\ NoRet \in Int /\ NUL \in Byte
    BY MsgAssumption DEF NoRet, Byte
  <1>2. /\ message = [b \in Buffers |-> [i \in 0..BUF_LEN - 1 |->
                       IF i < BUF_LEN - 1 THEN <<"default", i + 1>> ELSE NUL]]
        /\ message_size = [b \in Buffers |-> BUF_LEN - 1]
    BY DEF Default
  <1>3. Types
    <2>1. message \in [Buffers -> [0..BUF_LEN - 1 -> Byte]]
      <3>1. ASSUME NEW i \in 0..BUF_LEN - 1, i < BUF_LEN - 1
            PROVE  <<"default", i + 1>> \in Byte
        <4>1. i + 1 \in 1..BUF_LEN
          BY <1>1, <3>1
        <4> QED  BY <4>1, DefaultBytes
      <3>2. [i \in 0..BUF_LEN - 1 |->
               IF i < BUF_LEN - 1 THEN <<"default", i + 1>> ELSE NUL]
              \in [0..BUF_LEN - 1 -> Byte]
        BY <1>1, <3>1
      <3> QED  BY <1>2, <3>2
    <2>2. message_size \in [Buffers -> 0..BUF_LEN - 1]
      BY <1>1, <1>2
    <2>3. data \in [Procs -> Seq(Byte)] /\ ret \in [Procs -> Int]
      BY <1>1
    <2>4. /\ pc \in [Procs -> AllLabels] /\ minor \in [Procs -> Minors \cup {0}]
          /\ offset \in [Procs -> Nat]
          /\ len \in [Procs -> Nat] /\ left \in [Procs -> Nat]
      BY DEF AllLabels
    <2> QED  BY <2>1, <2>2, <2>3, <2>4 DEF Types
  <1>4. /\ \A p \in Procs : pc[p] = "closed" /\ data[p] = <<>> /\ ret[p] = NoRet
        /\ clean = {} /\ known = Buffers
    OBVIOUS
  <1>5. \A p \in Procs : ~Writing(p) /\ ~Calling(p)
    BY <1>4 DEF Calling, Reading, Writing, ReadLabels, WriteLabels
  <1>6. ASSUME NEW p \in Procs  PROVE CallInv(p)
    <2>1. HasCdev(minor[p])
      BY MsgAssumption DEF HasCdev
    <2> QED  BY <1>4, <1>5, <2>1 DEF CallInv
  <1>7. RegInv
    <2>1. \A p \in Procs : WriteInv(p) /\ ReadInv(p)
      BY <1>4 DEF WriteInv, ReadInv
    <2> QED  BY <1>4, <1>5, <2>1 DEF RegInv, CleanInv, KnownInv
  <1>8. RValue = [b \in Buffers |-> DefaultMessage]
    <2>1. ASSUME NEW b \in Buffers  PROVE Message(b) = DefaultMessage
      <3>1. \A i \in 1..BUF_LEN - 1 : message[b][i - 1] = <<"default", i>>
        BY <1>1, <1>2
      <3>2. message_size[b] = BUF_LEN - 1
        BY <1>2
      <3> QED  BY <3>1, <3>2 DEF Message, DefaultMessage
    <2> QED  BY <1>4, <2>1 DEF RValue
  <1>9. ROp = [p \in Procs |-> None]
    BY <1>5, OpFacts DEF ROp
  <1>10. RGot = [p \in Procs |-> <<>>] /\ RRet = [p \in Procs |-> 0]
    BY <1>4, <1>5 DEF RGot, RRet, NoRet
  <1>11. AutoRegister!Init
    BY <1>4, <1>8, <1>9, <1>10
    DEF AutoRegister!Init, AutoRegister!NoOp, None, RValue, ROp, RGot, RRet
  <1> QED  BY <1>3, <1>6, <1>7, <1>11 DEF IInv

\* The two halves of an open are no part of a call.
LEMMA OpenHalf ==
  ASSUME IInv, RegInv, History, NEW p \in Procs, OpenLoad(p) \/ OpenStore(p)
  PROVE  IInv' /\ RegInv' /\ [Register!Next]_Register!registerVars
  <1>1. PICK label \in {"open_store", "open"} : pc' = [pc EXCEPT ![p] = label]
    BY DEF OpenLoad, OpenStore, Goto
  <1>2. /\ pc[p] \in {"closed", "open_store"}
        /\ UNCHANGED <<bufVars, offset, callVars, ret>>
    BY DEF OpenLoad, OpenStore
  <1>3. PICK m \in Minors \cup {0} : minor' = [minor EXCEPT ![p] = m]
    <2>1. CASE OpenLoad(p)
      BY <2>1 DEF OpenLoad
    <2>2. CASE OpenStore(p)
      <3>1. minor[p] \in Minors \cup {0} /\ minor' = [minor EXCEPT ![p] = minor[p]]
        BY <2>2 DEF OpenStore, IInv, Types
      <3> QED  BY <3>1
    <2> QED  BY <2>1, <2>2
  <1>4. Types'
    BY <1>1, <1>2, <1>3 DEF IInv, Types, AllLabels, bufVars, callVars
  <1>5. ~Calling(p) /\ ~Calling(p)'
    BY <1>1, <1>2
    DEF IInv, Types, Calling, Reading, Writing, ReadLabels, WriteLabels
  <1>6. \A q \in Procs \ {p} : SameCall(q) /\ ret'[q] = ret[q]
    BY <1>1, <1>2, <1>3 DEF IInv, Types, SameCall, bufVars, callVars
  <1>7. IInv'
    <2>1. minor'[p] < DEV_MAX
      BY <1>3, AutoAssumption, MsgAssumption DEF IInv, Types
    <2>2. CallInv(p)'
      BY <1>1, <1>5, <2>1 DEF IInv, Types, CallInv, HasCdev
    <2> QED  BY <1>4, <1>6, <2>2, Frame DEF IInv
  <1>8. StepOf(p)
    BY <1>2, <1>5, <1>6, StepAlone
  <1>9. WriteInv(p)' /\ ReadInv(p)'
    BY <1>1 DEF IInv, Types, WriteInv, ReadInv
  <1>10. data'[p] = data[p] /\ ret'[p] = ret[p]
    BY <1>2 DEF callVars
  <1>11. RegStep(p)
    BY <1>5, <1>7, <1>8, <1>9, <1>10, MapInside DEF RegStep
  <1> QED  BY <1>7, <1>11, RegFrame, MapsNext DEF RegStep

LEMMA AutoStep ==
  ASSUME IInv, RegInv, [AutoNext]_autoVars
  PROVE  IInv' /\ RegInv' /\ [Register!Next]_Register!registerVars
  <1>1. CASE AutoNext
    <2>1. History /\ \E p \in Procs : auto_fops(p)
      BY <1>1 DEF AutoNext
    <2> QED  BY <2>1, HandlerInv, HandlerReg, OpenHalf DEF auto_fops
  <1>2. CASE UNCHANGED autoVars
    <2>1. UNCHANGED msgVars
      BY <1>2 DEF autoVars
    <2>2. IInv'
      BY <2>1
      DEF msgVars, bufVars, callVars, historyVars, IInv, Types, CallInv,
          Calling, Reading, Writing, Buf, BufferOf, HasCdev
    <2> QED  BY <2>1, <2>2, RegStutter
  <1> QED  BY <1>1, <1>2

\* The two sets of registers start differently and go on in the same way.
LEMMA SameRegisters ==
  /\ Register!Next => AutoRegister!Next
  /\ UNCHANGED Register!registerVars => UNCHANGED AutoRegister!registerVars
  BY DEF AutoRegister!Next, AutoRegister!registerVars, AutoRegister!Others,
     AutoRegister!BeginRead, AutoRegister!EndRead, AutoRegister!BeginWrite,
     AutoRegister!Cut, AutoRegister!EndWrite, AutoRegister!Forget,
     AutoRegister!Overlaps, AutoRegister!Takes, AutoRegister!NoOp,
     AutoRegister!Writing,
     Register!Next, Register!registerVars, Register!Others,
     Register!BeginRead, Register!EndRead, Register!BeginWrite,
     Register!Cut, Register!EndWrite, Register!Forget,
     Register!Overlaps, Register!Takes, Register!NoOp, Register!Writing

\* The handlers of 05, too, keep to the buffer of the device they were called
\* on, whatever opens and calls run at once.
THEOREM AutoBytesInBounds == AutoSpec => []BytesInBounds
  <1>1. AutoInit => IInv /\ RegInv
    BY AutoStart
  <1>2. IInv /\ RegInv /\ [AutoNext]_autoVars => IInv' /\ RegInv'
    BY AutoStep
  <1> QED  BY <1>1, <1>2, InvBounds, PTL DEF AutoSpec

\* Each device of 05 is a safe register, which holds the default message
\* at first.
THEOREM AutoImplementsRegisters == AutoSpec => RefinesAutoRegisters
  <1>1. AutoInit => IInv /\ RegInv /\ AutoRegister!Init
    BY AutoStart
  <1>2. IInv /\ RegInv /\ [AutoNext]_autoVars =>
          IInv' /\ RegInv' /\ [AutoRegister!Next]_AutoRegister!registerVars
    BY AutoStep, SameRegisters
  <1> QED
    BY <1>1, <1>2, PTL DEF AutoSpec, RefinesAutoRegisters, AutoRegister!Spec
=============================================================================
