------------------------- MODULE PlatformBusProofs -------------------------
(***************************************************************************)
(* Proofs about PlatformBus, for any number of users and whatever may      *)
(* happen together.                                                        *)
(***************************************************************************)
EXTENDS PlatformBus, FiniteSetTheorems, SequenceTheorems, TLAPS

-----------------------------------------------------------------------------
(* Sequences of calls and of steps                                         *)

\* R relates every element of s to those that come after it.
InOrder(s, R) == \A i, j \in DOMAIN s : i < j => <<s[i], s[j]>> \in R

\* After each element of s comes what F says must come after it.
Followed(s, F) ==
  \A i \in DOMAIN s : \A f \in F :
    f[1] = s[i] => \E j \in DOMAIN s : i < j /\ s[j] = f[2]

IsTail(t, s) ==
  /\ 1 \in DOMAIN s
  /\ \A i \in DOMAIN t : i \in Nat \ {0} /\ i + 1 \in DOMAIN s /\ t[i] = s[i + 1]
  /\ \A i \in DOMAIN s : i # 1 => i \in Nat /\ i - 1 \in DOMAIN t /\ t[i - 1] = s[i]

LEMMA TailAt ==
  ASSUME NEW S, NEW s \in Seq(S), s # <<>>
  PROVE  /\ Head(s) = s[1] /\ Head(s) \in S
         /\ Tail(s) \in Seq(S)
         /\ IsTail(Tail(s), s)
  <1>1. /\ Tail(s) \in Seq(S) /\ Head(s) \in S
        /\ Len(Tail(s)) = Len(s) - 1 /\ Len(s) \in Nat \ {0}
        /\ \A i \in 1..Len(Tail(s)) : Tail(s)[i] = s[i + 1]
    BY HeadTailProperties, EmptySeq
  <1>2. DOMAIN s = 1..Len(s) /\ DOMAIN Tail(s) = 1..Len(s) - 1
    BY <1>1
  <1>3. Head(s) = s[1]
    OBVIOUS
  <1> QED  BY <1>1, <1>2, <1>3 DEF IsTail

\* What is left after the first element, and what that tells of it.
LEMMA TailSet ==
  ASSUME NEW s, NEW t, IsTail(t, s)
  PROVE  ToSet(s) = {s[1]} \cup ToSet(t)
  BY DEF ToSet, IsTail

LEMMA TailInOrder ==
  ASSUME NEW s, NEW t, IsTail(t, s), NEW R, InOrder(s, R)
  PROVE  /\ InOrder(t, R)
         /\ \A y \in ToSet(t) : <<s[1], y>> \in R
  <1>1. InOrder(t, R)
    <2> SUFFICES ASSUME NEW i \in DOMAIN t, NEW j \in DOMAIN t, i < j
                 PROVE  <<t[i], t[j]>> \in R
      BY DEF InOrder
    <2>1. /\ i \in Nat /\ j \in Nat /\ i + 1 \in DOMAIN s /\ j + 1 \in DOMAIN s
          /\ t[i] = s[i + 1] /\ t[j] = s[j + 1]
      BY DEF IsTail
    <2>2. i + 1 < j + 1
      BY <2>1
    <2> QED  BY <2>1, <2>2 DEF InOrder
  <1>2. ASSUME NEW j \in DOMAIN t  PROVE <<s[1], t[j]>> \in R
    <2>1. j \in Nat \ {0} /\ j + 1 \in DOMAIN s /\ t[j] = s[j + 1] /\ 1 \in DOMAIN s
      BY DEF IsTail
    <2>2. 1 < j + 1
      BY <2>1
    <2> QED  BY <2>1, <2>2 DEF InOrder
  <1> QED  BY <1>1, <1>2 DEF ToSet

LEMMA TailFollowed ==
  ASSUME NEW s, NEW t, IsTail(t, s), NEW F, Followed(s, F)
  PROVE  /\ Followed(t, F)
         /\ \A f \in F : f[1] = s[1] => f[2] \in ToSet(t)
  <1>1. Followed(t, F)
    BY DEF Followed, IsTail
  <1>2. ASSUME NEW f \in F, f[1] = s[1]  PROVE f[2] \in ToSet(t)
    <2>1. PICK j \in DOMAIN s : 1 < j /\ s[j] = f[2]
      BY <1>2 DEF Followed, IsTail
    <2> QED  BY <2>1 DEF ToSet, IsTail
  <1> QED  BY <1>1, <1>2

LEMMA ElementOf ==
  ASSUME NEW S, NEW s \in Seq(S), NEW x \in ToSet(s)
  PROVE  x \in S
  BY DEF ToSet

LEMMA EmptyFacts ==
  ASSUME NEW S, NEW R
  PROVE  /\ <<>> \in Seq(S) /\ ToSet(<<>>) = {}
         /\ InOrder(<<>>, R) /\ Followed(<<>>, R)
  BY DEF ToSet, InOrder, Followed

-----------------------------------------------------------------------------
(* The tables, call by call                                                *)

LEMMA Join11 ==
  ASSUME NEW a, NEW b
  PROVE  <<a>> \o <<b>> = <<a, b>>
  <1> DEFINE S == {a, b}
             s == <<a, b>>
             t == <<a>> \o <<b>>
  <1>1. /\ <<a>> \in Seq(S) /\ Len(<<a>>) = 1
        /\ <<b>> \in Seq(S) /\ Len(<<b>>) = 1
    OBVIOUS
  <1> HIDE DEF S
  <1>2. t \in Seq(S) /\ Len(t) = 2 /\ t[1] = a /\ t[2] = b
    BY <1>1, ConcatProperties
  <1> HIDE DEF t
  <1>3. t = [i \in 1..2 |-> s[i]]
    BY <1>2
  <1>4. s = [i \in 1..2 |-> s[i]]
    OBVIOUS
  <1> QED  BY <1>3, <1>4 DEF t

LEMMA Join12 ==
  ASSUME NEW a, NEW b, NEW c
  PROVE  <<a>> \o <<b, c>> = <<a, b, c>>
  <1> DEFINE S == {a, b, c}
             s == <<a, b, c>>
  <1>1. /\ <<a>> \in Seq(S) /\ Len(<<a>>) = 1
        /\ <<b, c>> \in Seq(S) /\ Len(<<b, c>>) = 2
    OBVIOUS
  <1> HIDE DEF S
  <1>2. <<a>> \o <<b, c>> = [i \in 1..3 |-> s[i]]
    BY <1>1, ConcatProperties
  <1>3. s = [i \in 1..3 |-> s[i]]
    OBVIOUS
  <1> QED  BY <1>2, <1>3

LEMMA Join21 ==
  ASSUME NEW a, NEW b, NEW c
  PROVE  <<a, b>> \o <<c>> = <<a, b, c>>
  <1> DEFINE S == {a, b, c}
             s == <<a, b, c>>
  <1>1. /\ <<a, b>> \in Seq(S) /\ Len(<<a, b>>) = 2
        /\ <<c>> \in Seq(S) /\ Len(<<c>>) = 1
    OBVIOUS
  <1> HIDE DEF S
  <1>2. <<a, b>> \o <<c>> = [i \in 1..3 |-> s[i]]
    BY <1>1, ConcatProperties
  <1>3. s = [i \in 1..3 |-> s[i]]
    OBVIOUS
  <1> QED  BY <1>2, <1>3

LEMMA Join22 ==
  ASSUME NEW a, NEW b, NEW c, NEW d
  PROVE  <<a, b>> \o <<c, d>> = <<a, b, c, d>>
  <1> DEFINE S == {a, b, c, d}
             s == <<a, b, c, d>>
  <1>1. /\ <<a, b>> \in Seq(S) /\ Len(<<a, b>>) = 2
        /\ <<c, d>> \in Seq(S) /\ Len(<<c, d>>) = 2
    OBVIOUS
  <1> HIDE DEF S
  <1>2. <<a, b>> \o <<c, d>> = [i \in 1..4 |-> s[i]]
    BY <1>1, ConcatProperties
  <1>3. s = [i \in 1..4 |-> s[i]]
    OBVIOUS
  <1> QED  BY <1>2, <1>3

LEMMA Join23 ==
  ASSUME NEW a, NEW b, NEW c, NEW d, NEW e
  PROVE  <<a, b>> \o <<c, d, e>> = <<a, b, c, d, e>>
  <1> DEFINE S == {a, b, c, d, e}
             s == <<a, b, c, d, e>>
  <1>1. /\ <<a, b>> \in Seq(S) /\ Len(<<a, b>>) = 2
        /\ <<c, d, e>> \in Seq(S) /\ Len(<<c, d, e>>) = 3
    OBVIOUS
  <1> HIDE DEF S
  <1>2. <<a, b>> \o <<c, d, e>> = [i \in 1..5 |-> s[i]]
    BY <1>1, ConcatProperties
  <1>3. s = [i \in 1..5 |-> s[i]]
    OBVIOUS
  <1> QED  BY <1>2, <1>3

LEMMA Join32 ==
  ASSUME NEW a, NEW b, NEW c, NEW d, NEW e
  PROVE  <<a, b, c>> \o <<d, e>> = <<a, b, c, d, e>>
  <1> DEFINE S == {a, b, c, d, e}
             s == <<a, b, c, d, e>>
  <1>1. /\ <<a, b, c>> \in Seq(S) /\ Len(<<a, b, c>>) = 3
        /\ <<d, e>> \in Seq(S) /\ Len(<<d, e>>) = 2
    OBVIOUS
  <1> HIDE DEF S
  <1>2. <<a, b, c>> \o <<d, e>> = [i \in 1..5 |-> s[i]]
    BY <1>1, ConcatProperties
  <1>3. s = [i \in 1..5 |-> s[i]]
    OBVIOUS
  <1> QED  BY <1>2, <1>3

LEMMA Join42 ==
  ASSUME NEW a, NEW b, NEW c, NEW d, NEW e, NEW f
  PROVE  <<a, b, c, d>> \o <<e, f>> = <<a, b, c, d, e, f>>
  <1> DEFINE S == {a, b, c, d, e, f}
             s == <<a, b, c, d, e, f>>
  <1>1. /\ <<a, b, c, d>> \in Seq(S) /\ Len(<<a, b, c, d>>) = 4
        /\ <<e, f>> \in Seq(S) /\ Len(<<e, f>>) = 2
    OBVIOUS
  <1> HIDE DEF S
  <1>2. <<a, b, c, d>> \o <<e, f>> = [i \in 1..6 |-> s[i]]
    BY <1>1, ConcatProperties
  <1>3. s = [i \in 1..6 |-> s[i]]
    OBVIOUS
  <1> QED  BY <1>2, <1>3

-----------------------------------------------------------------------------
LEMMA platform_init_Is ==
  platform_init = << <<"driver_add", All>>, <<"attach", 0>>,
                     <<"device_add", 0>>, <<"attach", 0>> >>
  <1>1. Attach(<<0>>) = << <<"attach", 0>> >>
    <2> DEFINE t == << <<"attach", 0>> >>
    <2>1. Attach(<<0>>) = [i \in 1..1 |-> <<"attach", <<0>>[i]>>]
      BY DEF Attach
    <2>2. t = [i \in 1..1 |-> t[i]]
      OBVIOUS
    <2> QED  BY <2>1, <2>2
  <1>2. AddDriver(<<0>>) = << <<"driver_add", All>>, <<"attach", 0>> >>
    BY <1>1, Join11 DEF AddDriver
  <1> QED  BY <1>2, Join22 DEF platform_init, AddDevice

LEMMA RemoveDriver_Is ==
  /\ RemoveDriver(<<0>>) =
       << <<"driver_del", All>>, <<"driver_wait", All>>, <<"detach", 0>> >>
  /\ RemoveDriver(<<0, 1>>) =
       << <<"driver_del", All>>, <<"driver_wait", All>>, <<"detach", 0>>,
          <<"detach", 1>> >>
  <1>1. Detach(<<0>>) = << <<"detach", 0>> >>
    <2> DEFINE t == << <<"detach", 0>> >>
    <2>1. Detach(<<0>>) = [i \in 1..1 |-> <<"detach", <<0>>[i]>>]
      BY DEF Detach
    <2>2. t = [i \in 1..1 |-> t[i]]
      OBVIOUS
    <2> QED  BY <2>1, <2>2
  <1>2. Detach(<<0, 1>>) = << <<"detach", 0>>, <<"detach", 1>> >>
    <2> DEFINE t == << <<"detach", 0>>, <<"detach", 1>> >>
    <2>1. Detach(<<0, 1>>) = [i \in 1..2 |-> <<"detach", <<0, 1>>[i]>>]
      BY DEF Detach
    <2>2. t = [i \in 1..2 |-> t[i]]
      OBVIOUS
    <2> QED  BY <2>1, <2>2
  <1>3. RemoveDriver(<<0>>) =
          << <<"driver_del", All>>, <<"driver_wait", All>>, <<"detach", 0>> >>
    BY <1>1, Join21 DEF RemoveDriver
  <1>4. RemoveDriver(<<0, 1>>) =
          << <<"driver_del", All>>, <<"driver_wait", All>>, <<"detach", 0>>,
             <<"detach", 1>> >>
    BY <1>2, Join22 DEF RemoveDriver
  <1> QED  BY <1>3, <1>4

LEMMA platform_exit_Is ==
  platform_exit = << <<"device_del", 0>>, <<"detach", 0>>,
                     <<"driver_del", All>>, <<"driver_wait", All>>,
                     <<"detach", 0>> >>
  <1> DEFINE a == << <<"device_del", 0>>, <<"detach", 0>> >>
             b == << <<"driver_del", All>>, <<"driver_wait", All>>, <<"detach", 0>> >>
  <1>1. platform_exit = a \o b
    BY RemoveDriver_Is DEF platform_exit, RemoveDevice
  <1>2. a \o b = << <<"device_del", 0>>, <<"detach", 0>>, <<"driver_del", All>>,
                    <<"driver_wait", All>>, <<"detach", 0>> >>
    BY Join23
  <1> QED  BY <1>1, <1>2

LEMMA drv_init_Is ==
  instance_drv_init = << <<"region", All>>, <<"class", All>>,
                         <<"driver_add", All>>, <<"attach", 0>>, <<"attach", 1>> >>
  <1>1. Attach(<<0, 1>>) = << <<"attach", 0>>, <<"attach", 1>> >>
    <2> DEFINE t == << <<"attach", 0>>, <<"attach", 1>> >>
    <2>1. Attach(<<0, 1>>) = [i \in 1..2 |-> <<"attach", <<0, 1>>[i]>>]
      BY DEF Attach
    <2>2. t = [i \in 1..2 |-> t[i]]
      OBVIOUS
    <2> QED  BY <2>1, <2>2
  <1>2. AddDriver(<<0, 1>>) =
          << <<"driver_add", All>>, <<"attach", 0>>, <<"attach", 1>> >>
    <2> DEFINE b == << <<"attach", 0>>, <<"attach", 1>> >>
    <2>1. AddDriver(<<0, 1>>) = << <<"driver_add", All>> >> \o b
      BY <1>1 DEF AddDriver
    <2> QED  BY <2>1, Join12
  <1> DEFINE a == << <<"region", All>>, <<"class", All>> >>
             b == << <<"driver_add", All>>, <<"attach", 0>>, <<"attach", 1>> >>
  <1>3. instance_drv_init = a \o b
    BY <1>2 DEF instance_drv_init
  <1>4. a \o b = << <<"region", All>>, <<"class", All>>, <<"driver_add", All>>,
                    <<"attach", 0>>, <<"attach", 1>> >>
    BY Join23
  <1> QED  BY <1>3, <1>4

LEMMA drv_cleanup_Is ==
  instance_drv_cleanup =
    << <<"driver_del", All>>, <<"driver_wait", All>>, <<"detach", 0>>,
       <<"detach", 1>>, <<"class", All>>, <<"region", All>> >>
  <1> DEFINE a == << <<"driver_del", All>>, <<"driver_wait", All>>,
                     <<"detach", 0>>, <<"detach", 1>> >>
             b == << <<"class", All>>, <<"region", All>> >>
  <1>1. instance_drv_cleanup = a \o b
    BY RemoveDriver_Is DEF instance_drv_cleanup
  <1>2. a \o b = << <<"driver_del", All>>, <<"driver_wait", All>>,
                    <<"detach", 0>>, <<"detach", 1>>, <<"class", All>>,
                    <<"region", All>> >>
    BY Join42
  <1> QED  BY <1>1, <1>2

LEMMA setup_Is ==
  /\ setup_init = << <<"device_add", 0>>, <<"attach", 0>>,
                     <<"device_add", 1>>, <<"attach", 1>> >>
  /\ setup_exit = << <<"device_del", 0>>, <<"detach", 0>>,
                     <<"device_del", 1>>, <<"detach", 1>> >>
  BY Join22 DEF setup_init, setup_exit, AddDevice, RemoveDevice

-----------------------------------------------------------------------------
(* The programs of the modules                                             *)

\* What init does, and in what order.
UpCalls(e) ==
  ({"region", "class", "driver_add"} \X {All})
    \cup ({"device_add", "attach"} \X DevicesOf[e])

UpOrder(e) ==
  {f \in UpCalls(e) \X UpCalls(e) :
     /\ f[1][1] # "attach" => f[1] # f[2]
     /\ f[1][1] = "class" => f[2][1] # "region"
     /\ f[1][1] = "driver_add" => f[2][1] \in {"attach", "device_add"}
     /\ f[1][1] = "device_add" /\ f[2][1] = "device_add" => f[1][2] < f[2][2]}

UpFollows(e) ==
  {f \in UpCalls(e) \X UpCalls(e) :
     \/ f[1][1] = "region" /\ f[2][1] \in {"class", "driver_add"}
     \/ f[1][1] = "class" /\ f[2][1] = "driver_add"
     \/ f[1][1] = "driver_add" /\ f[2][1] = "attach"
     \/ f[1][1] = "driver_add" /\ f[2][1] = "device_add" /\ e = "platform"
     \/ f[1][1] = "device_add" /\ f[2] = <<"attach", f[1][2]>>
     \/ f[1][1] = "device_add" /\ f[2][1] = "device_add" /\ f[1][2] < f[2][2]}

\* What exit and the error paths do, and in what order.
DownCalls(e) ==
  ({"region", "class", "driver_del", "driver_wait"} \X {All})
    \cup ({"device_del", "detach"} \X DevicesOf[e])

DownOrder(e) ==
  {f \in DownCalls(e) \X DownCalls(e) :
     /\ f[1][1] # "detach" => f[1] # f[2]
     /\ f[1][1] # "region"
     /\ f[1][1] = "class" => f[2][1] = "region"
     /\ f[1][1] = "driver_wait" => f[2][1] # "driver_del"
     /\ f[1][1] = "detach" => f[2] # <<"device_del", f[1][2]>>
     /\ f[1][1] = "detach" /\ e = "instance" => f[2][1] # "driver_del"}

DownFollows(e) ==
  {f \in DownCalls(e) \X DownCalls(e) :
     \/ f[1][1] = "driver_del" /\ f[2][1] = "driver_wait"
     \/ f[1][1] = "driver_wait" /\ f[2][1] = "detach"
     \/ f[1][1] = "driver_wait" /\ f[2][1] \in {"region", "class"} /\ e = "instance"}

\* Who makes which calls.
CallsOf(e, t) ==
  CASE t = "admin" -> {"attach", "detach"}
    [] t = "setup" -> {"attach", "detach", "device_add", "device_del"}
    [] t = "drv"   -> {"attach", "detach", "driver_add", "driver_del", "driver_wait"}
                        \cup IF e = "platform" THEN {"device_add", "device_del"}
                                               ELSE {"region", "class"}

UpProgram(e, s) ==
  /\ s \in Seq(UpCalls(e))
  /\ InOrder(s, UpOrder(e)) /\ Followed(s, UpFollows(e))

DownProgram(e, s) ==
  /\ s \in Seq(DownCalls(e))
  /\ InOrder(s, DownOrder(e)) /\ Followed(s, DownFollows(e))

OwnerOf(e) == IF e = "platform" THEN "drv" ELSE "setup"

LEMMA InitPrograms ==
  ASSUME NEW e \in {"platform", "instance"}, NEW m \in ModulesOf[e]
  PROVE  /\ UpProgram(e, InitOf[e][m])
         /\ \A c \in ToSet(InitOf[e][m]) : c[1] \in CallsOf(e, m)
         /\ m = "drv" => <<"driver_add", All>> \in ToSet(InitOf[e][m])
         /\ m = "drv" /\ e = "instance" =>
              {<<"region", All>>, <<"class", All>>} \subseteq ToSet(InitOf[e][m])
         /\ m = OwnerOf(e) =>
              \A d \in DevicesOf[e] : <<"device_add", d>> \in ToSet(InitOf[e][m])
  <1>1. CASE e = "platform"
    <2> DEFINE s == << <<"driver_add", All>>, <<"attach", 0>>,
                       <<"device_add", 0>>, <<"attach", 0>> >>
    <2>1. m = "drv" /\ InitOf[e][m] = s /\ DevicesOf[e] = {0}
      BY <1>1, platform_init_Is DEF InitOf, ModulesOf, DevicesOf
    <2>2. s \in Seq(UpCalls(e))
      BY <2>1 DEF UpCalls
    <2>3. InOrder(s, UpOrder(e))
      BY <2>1 DEF InOrder, UpOrder, UpCalls
    <2>4. Followed(s, UpFollows(e))
      BY <2>1 DEF Followed, UpFollows, UpCalls, All
    <2>5. ToSet(s) = {<<"driver_add", All>>, <<"attach", 0>>, <<"device_add", 0>>}
      BY DEF ToSet
    <2> QED  BY <1>1, <2>1, <2>2, <2>3, <2>4, <2>5 DEF UpProgram, CallsOf
  <1>2. CASE e = "instance" /\ m = "drv"
    <2> DEFINE s == << <<"region", All>>, <<"class", All>>, <<"driver_add", All>>,
                       <<"attach", 0>>, <<"attach", 1>> >>
    <2>1. InitOf[e][m] = s /\ DevicesOf[e] = {0, 1}
      BY <1>2, drv_init_Is DEF InitOf, DevicesOf
    <2>2. s \in Seq(UpCalls(e))
      BY <2>1 DEF UpCalls
    <2>3. InOrder(s, UpOrder(e))
      BY <2>1 DEF InOrder, UpOrder, UpCalls
    <2>4. Followed(s, UpFollows(e))
      BY <1>2, <2>1 DEF Followed, UpFollows, UpCalls, All
    <2>5. ToSet(s) = {<<"region", All>>, <<"class", All>>, <<"driver_add", All>>,
                      <<"attach", 0>>, <<"attach", 1>>}
      BY DEF ToSet
    <2> QED
      BY <1>2, <2>1, <2>2, <2>3, <2>4, <2>5 DEF UpProgram, CallsOf, OwnerOf
  <1>3. CASE e = "instance" /\ m = "setup"
    <2> DEFINE s == << <<"device_add", 0>>, <<"attach", 0>>,
                       <<"device_add", 1>>, <<"attach", 1>> >>
    <2>1. InitOf[e][m] = s /\ DevicesOf[e] = {0, 1}
      BY <1>3, setup_Is DEF InitOf, DevicesOf
    <2>2. s \in Seq(UpCalls(e))
      BY <2>1 DEF UpCalls
    <2>3. InOrder(s, UpOrder(e))
      BY <2>1 DEF InOrder, UpOrder, UpCalls
    <2>4. Followed(s, UpFollows(e))
      BY <2>1 DEF Followed, UpFollows, UpCalls, All
    <2>5. ToSet(s) = {<<"device_add", 0>>, <<"attach", 0>>, <<"device_add", 1>>,
                      <<"attach", 1>>}
      BY DEF ToSet
    <2> QED
      BY <1>3, <2>1, <2>2, <2>3, <2>4, <2>5 DEF UpProgram, CallsOf, OwnerOf
  <1> QED  BY <1>1, <1>2, <1>3 DEF ModulesOf

LEMMA ExitPrograms ==
  ASSUME NEW e \in {"platform", "instance"}, NEW m \in ModulesOf[e]
  PROVE  /\ DownProgram(e, ExitOf[e][m])
         /\ \A c \in ToSet(ExitOf[e][m]) : c[1] \in CallsOf(e, m)
         /\ m = "drv" => <<"driver_del", All>> \in ToSet(ExitOf[e][m])
         /\ m = "drv" /\ e = "instance" =>
              {<<"region", All>>, <<"class", All>>} \subseteq ToSet(ExitOf[e][m])
         /\ m = OwnerOf(e) =>
              \A d \in DevicesOf[e] : <<"device_del", d>> \in ToSet(ExitOf[e][m])
  <1>1. CASE e = "platform"
    <2> DEFINE s == << <<"device_del", 0>>, <<"detach", 0>>, <<"driver_del", All>>,
                       <<"driver_wait", All>>, <<"detach", 0>> >>
    <2>1. m = "drv" /\ ExitOf[e][m] = s /\ DevicesOf[e] = {0}
      BY <1>1, platform_exit_Is DEF ExitOf, ModulesOf, DevicesOf
    <2>2. s \in Seq(DownCalls(e))
      BY <2>1 DEF DownCalls
    <2>3. InOrder(s, DownOrder(e))
      BY <1>1, <2>1 DEF InOrder, DownOrder, DownCalls
    <2>4. Followed(s, DownFollows(e))
      BY <1>1, <2>1 DEF Followed, DownFollows, DownCalls, All
    <2>5. ToSet(s) = {<<"device_del", 0>>, <<"detach", 0>>, <<"driver_del", All>>,
                      <<"driver_wait", All>>}
      BY DEF ToSet
    <2> QED  BY <1>1, <2>1, <2>2, <2>3, <2>4, <2>5 DEF DownProgram, CallsOf
  <1>2. CASE e = "instance" /\ m = "drv"
    <2> DEFINE s == << <<"driver_del", All>>, <<"driver_wait", All>>,
                       <<"detach", 0>>, <<"detach", 1>>, <<"class", All>>,
                       <<"region", All>> >>
    <2>1. ExitOf[e][m] = s /\ DevicesOf[e] = {0, 1}
      BY <1>2, drv_cleanup_Is DEF ExitOf, DevicesOf
    <2>2. s \in Seq(DownCalls(e))
      BY <2>1 DEF DownCalls
    <2>3. InOrder(s, DownOrder(e))
      BY <2>1 DEF InOrder, DownOrder, DownCalls
    <2>4. Followed(s, DownFollows(e))
      BY <2>1 DEF Followed, DownFollows, DownCalls, All
    <2>5. ToSet(s) = {<<"driver_del", All>>, <<"driver_wait", All>>,
                      <<"detach", 0>>, <<"detach", 1>>, <<"class", All>>,
                      <<"region", All>>}
      BY DEF ToSet
    <2> QED
      BY <1>2, <2>1, <2>2, <2>3, <2>4, <2>5 DEF DownProgram, CallsOf, OwnerOf
  <1>3. CASE e = "instance" /\ m = "setup"
    <2> DEFINE s == << <<"device_del", 0>>, <<"detach", 0>>,
                       <<"device_del", 1>>, <<"detach", 1>> >>
    <2>1. ExitOf[e][m] = s /\ DevicesOf[e] = {0, 1}
      BY <1>3, setup_Is DEF ExitOf, DevicesOf
    <2>2. s \in Seq(DownCalls(e))
      BY <2>1 DEF DownCalls
    <2>3. InOrder(s, DownOrder(e))
      BY <2>1 DEF InOrder, DownOrder, DownCalls
    <2>4. Followed(s, DownFollows(e))
      BY <2>1 DEF Followed, DownFollows, DownCalls, All
    <2>5. ToSet(s) = {<<"device_del", 0>>, <<"detach", 0>>, <<"device_del", 1>>,
                      <<"detach", 1>>}
      BY DEF ToSet
    <2> QED
      BY <1>3, <2>1, <2>2, <2>3, <2>4, <2>5 DEF DownProgram, CallsOf, OwnerOf
  <1> QED  BY <1>1, <1>2, <1>3 DEF ModulesOf

\* What a failed call c of the init of m leaves to call, and its result.
FailedLike(e, m, c, next, result) ==
  LET left == ToSet(next) IN
  /\ DownProgram(e, next) /\ result \in {"ok", "error"}
  /\ \A x \in left : x[1] \in CallsOf(e, m)
  /\ m = "setup" => result = "ok"
  /\ e = "instance" /\ m = "drv" =>
       /\ result = "ok" <=> c[1] = "driver_add"
       /\ left = IF c[1] = "class" THEN {<<"region", All>>} ELSE {}
  /\ e = "platform" =>
       /\ result = "error"
       /\ c[1] = "driver_add" => left = {}
       /\ c[1] # "driver_add" => <<"driver_del", All>> \in left
  /\ \A d \in DevicesOf[e] :
       <<"device_del", d>> \in left <=> m = "setup" /\ c[2] # 0 /\ d = 0

LEMMA FailedPrograms ==
  ASSUME NEW e \in {"platform", "instance"}, NEW m \in ModulesOf[e],
         NEW c \in UpCalls(e), c[1] \in CallsOf(e, m), c[1] # "attach"
  PROVE  FailedLike(e, m, c, FailedOf(e, m, c).todo, FailedOf(e, m, c).ret)
  <1> DEFINE f == FailedOf(e, m, c)
  <1>0. ASSUME NEW s, s = <<>>
        PROVE  DownProgram(e, s) /\ ToSet(s) = {}
    BY <1>0, EmptyFacts DEF DownProgram
  <1>1. CASE e = "platform"
    <2>1. m = "drv" /\ DevicesOf[e] = {0}
      BY <1>1 DEF ModulesOf, DevicesOf
    <2>0. f = [todo |-> IF c[1] = "driver_add" THEN <<>> ELSE RemoveDriver(<<0>>),
               ret |-> "error"]
      <3>1. FailedOf(e, m, c) = platform_failed(c)
        BY <1>1, <2>1 DEF FailedOf
      <3> QED  BY <3>1 DEF platform_failed
    <2> HIDE DEF f
    <2>2. CASE c[1] = "driver_add"
      <3>1. f.todo = <<>> /\ f.ret = "error"
        BY <2>2, <2>0
      <3> QED  BY <1>0, <1>1, <2>1, <2>2, <3>1 DEF f, FailedLike
    <2>3. CASE c[1] # "driver_add"
      <3> DEFINE s == << <<"driver_del", All>>, <<"driver_wait", All>>,
                         <<"detach", 0>> >>
      <3>1. f.todo = s /\ f.ret = "error"
        BY <2>0, <2>3, RemoveDriver_Is
      <3>2. s \in Seq(DownCalls(e))
        BY <2>1 DEF DownCalls
      <3>3. InOrder(s, DownOrder(e))
        BY <1>1, <2>1 DEF InOrder, DownOrder, DownCalls
      <3>4. Followed(s, DownFollows(e))
        BY <1>1, <2>1 DEF Followed, DownFollows, DownCalls, All
      <3>5. ToSet(s) = {<<"driver_del", All>>, <<"driver_wait", All>>,
                        <<"detach", 0>>}
        BY DEF ToSet
      <3> HIDE DEF s
      <3> QED
        BY <1>1, <2>1, <2>3, <3>1, <3>2, <3>3, <3>4, <3>5
        DEF DownProgram, CallsOf, f, FailedLike
    <2> QED  BY <2>2, <2>3
  <1>2. CASE e = "instance" /\ m = "drv"
    <2>0. f = instance_drv_failed(c)
      BY <1>2 DEF FailedOf
    <2>1. c[1] \in {"region", "class", "driver_add"}
      BY <1>2 DEF UpCalls, CallsOf
    <2>2. CASE c[1] # "class"
      <3>1. f.todo = <<>> /\ f.ret = IF c[1] = "driver_add" THEN "ok" ELSE "error"
        BY <2>0, <2>1, <2>2 DEF instance_drv_failed
      <3> QED  BY <1>0, <1>2, <2>1, <2>2, <3>1 DEF FailedLike
    <2>3. CASE c[1] = "class"
      <3> DEFINE s == << <<"region", All>> >>
      <3>1. f.todo = s /\ f.ret = "error"
        BY <2>0, <2>3 DEF instance_drv_failed
      <3>2. s \in Seq(DownCalls(e)) /\ InOrder(s, DownOrder(e))
        BY DEF DownCalls, InOrder
      <3>3. Followed(s, DownFollows(e))
        BY DEF Followed, DownFollows, DownCalls
      <3>4. ToSet(s) = {<<"region", All>>}
        BY DEF ToSet
      <3> HIDE DEF s
      <3> QED
        BY <1>2, <2>3, <3>1, <3>2, <3>3, <3>4 DEF DownProgram, CallsOf, FailedLike
    <2> QED  BY <2>2, <2>3
  <1>3. CASE e = "instance" /\ m = "setup"
    <2>1. DevicesOf[e] = {0, 1}
      BY <1>3 DEF DevicesOf
    <2>0. f = setup_failed(c)
      BY <1>3 DEF FailedOf
    <2>2. CASE c[2] = 0
      <3>1. f.todo = <<>> /\ f.ret = "ok"
        BY <2>0, <2>2 DEF setup_failed
      <3> QED  BY <1>0, <1>3, <2>2, <3>1 DEF FailedLike
    <2>3. CASE c[2] # 0
      <3> DEFINE s == << <<"device_del", 0>>, <<"detach", 0>> >>
      <3>1. f.todo = s /\ f.ret = "ok"
        BY <2>0, <2>3 DEF setup_failed, RemoveDevice
      <3>2. s \in Seq(DownCalls(e))
        BY <2>1 DEF DownCalls
      <3>3. InOrder(s, DownOrder(e))
        BY <1>3, <2>1 DEF InOrder, DownOrder, DownCalls
      <3>4. Followed(s, DownFollows(e))
        BY <2>1 DEF Followed, DownFollows, DownCalls
      <3>5. ToSet(s) = {<<"device_del", 0>>, <<"detach", 0>>}
        BY DEF ToSet
      <3> HIDE DEF s
      <3> QED
        BY <1>3, <2>3, <3>1, <3>2, <3>3, <3>4, <3>5 DEF DownProgram, CallsOf, FailedLike
    <2> QED  BY <2>2, <2>3
  <1>4. m \in {"drv", "setup"} /\ (e = "platform" => m = "drv")
    BY DEF ModulesOf
  <1> HIDE DEF f
  <1> QED  BY <1>1, <1>2, <1>3, <1>4

-----------------------------------------------------------------------------
(* The steps of probe and remove                                           *)

ProbeSteps(e) ==
  KindsOf(e) \cup (IF e = "platform" THEN {} ELSE {"load", "inc"})
RemoveSteps(e) ==
  KindsOf(e) \cup (IF e = "platform" THEN {} ELSE {"load", "dec"})

ProbePlace ==
  [dev |-> 1, region |-> 2, buf |-> 2, cdev |-> 3, node |-> 4, load |-> 5, inc |-> 6]
RemovePlace ==
  [node |-> 1, cdev |-> 2, load |-> 3, dec |-> 4, buf |-> 5, region |-> 5, dev |-> 6]

ProbeOrder(e) ==
  {f \in ProbeSteps(e) \X ProbeSteps(e) : ProbePlace[f[1]] < ProbePlace[f[2]]}
RemoveOrder(e) ==
  {f \in RemoveSteps(e) \X RemoveSteps(e) : RemovePlace[f[1]] < RemovePlace[f[2]]}

ProbeProgram(e, s) ==
  /\ s \in Seq(ProbeSteps(e))
  /\ InOrder(s, ProbeOrder(e)) /\ Followed(s, ProbeOrder(e))
UndoProgram(e, s) ==
  /\ s \in Seq(KindsOf(e))
  /\ InOrder(s, RemoveOrder(e))
RemoveProgram(e, s) ==
  /\ s \in Seq(RemoveSteps(e))
  /\ InOrder(s, RemoveOrder(e)) /\ Followed(s, RemoveOrder(e))

LEMMA Kinds_Are ==
  /\ KindsOf("platform") = {"dev", "region", "cdev"}
  /\ KindsOf("instance") = {"dev", "buf", "cdev", "node"}
  <1>1. ToSet(platform_probe) = {"dev", "region", "cdev"}
    BY DEF ToSet, platform_probe
  <1>2. ToSet(instance_probe) = {"dev", "buf", "cdev", "node", "load", "inc"}
    BY DEF ToSet, instance_probe
  <1> QED  BY <1>1, <1>2 DEF KindsOf, ProbeOf, CountSteps

LEMMA ProbeTable ==
  ASSUME NEW e \in {"platform", "instance"}
  PROVE  ProbeProgram(e, ProbeOf[e]) /\ ToSet(ProbeOf[e]) = ProbeSteps(e)
  <1>1. CASE e = "platform"
    <2> DEFINE s == <<"dev", "region", "cdev">>
    <2>1. ProbeOf[e] = s /\ ProbeSteps(e) = {"dev", "region", "cdev"}
      BY <1>1, Kinds_Are DEF ProbeOf, ProbeSteps, platform_probe
    <2>2. s \in Seq(ProbeSteps(e))
      BY <2>1
    <2>3. InOrder(s, ProbeOrder(e))
      BY <2>1 DEF InOrder, ProbeOrder, ProbePlace
    <2>4. Followed(s, ProbeOrder(e))
      BY <2>1 DEF Followed, ProbeOrder, ProbePlace
    <2>5. ToSet(s) = {"dev", "region", "cdev"}
      BY DEF ToSet
    <2> QED  BY <2>1, <2>2, <2>3, <2>4, <2>5 DEF ProbeProgram
  <1>2. CASE e = "instance"
    <2> DEFINE s == <<"dev", "buf", "cdev", "node", "load", "inc">>
    <2>1. ProbeOf[e] = s /\ ProbeSteps(e) = {"dev", "buf", "cdev", "node", "load", "inc"}
      BY <1>2, Kinds_Are DEF ProbeOf, ProbeSteps, instance_probe
    <2>2. s \in Seq(ProbeSteps(e))
      BY <2>1
    <2>3. InOrder(s, ProbeOrder(e))
      BY <2>1 DEF InOrder, ProbeOrder, ProbePlace
    <2>4. Followed(s, ProbeOrder(e))
      BY <2>1 DEF Followed, ProbeOrder, ProbePlace
    <2>5. ToSet(s) = {"dev", "buf", "cdev", "node", "load", "inc"}
      BY DEF ToSet
    <2> QED  BY <2>1, <2>2, <2>3, <2>4, <2>5 DEF ProbeProgram
  <1> QED  BY <1>1, <1>2

LEMMA RemoveTable ==
  ASSUME NEW e \in {"platform", "instance"}
  PROVE  RemoveProgram(e, RemoveOf[e]) /\ ToSet(RemoveOf[e]) = RemoveSteps(e)
  <1>1. CASE e = "platform"
    <2> DEFINE s == <<"cdev", "region", "dev">>
    <2>1. RemoveOf[e] = s /\ RemoveSteps(e) = {"dev", "region", "cdev"}
      BY <1>1, Kinds_Are DEF RemoveOf, RemoveSteps, platform_remove
    <2>2. s \in Seq(RemoveSteps(e))
      BY <2>1
    <2>3. InOrder(s, RemoveOrder(e))
      BY <2>1 DEF InOrder, RemoveOrder, RemovePlace
    <2>4. Followed(s, RemoveOrder(e))
      BY <2>1 DEF Followed, RemoveOrder, RemovePlace
    <2>5. ToSet(s) = {"dev", "region", "cdev"}
      BY DEF ToSet
    <2> QED  BY <2>1, <2>2, <2>3, <2>4, <2>5 DEF RemoveProgram
  <1>2. CASE e = "instance"
    <2> DEFINE s == <<"node", "cdev", "load", "dec", "buf", "dev">>
    <2>1. RemoveOf[e] = s /\ RemoveSteps(e) = {"dev", "buf", "cdev", "node", "load", "dec"}
      BY <1>2, Kinds_Are DEF RemoveOf, RemoveSteps, instance_remove
    <2>2. s \in Seq(RemoveSteps(e))
      BY <2>1
    <2>3. InOrder(s, RemoveOrder(e))
      BY <2>1 DEF InOrder, RemoveOrder, RemovePlace
    <2>4. Followed(s, RemoveOrder(e))
      BY <2>1 DEF Followed, RemoveOrder, RemovePlace
    <2>5. ToSet(s) = {"dev", "buf", "cdev", "node", "load", "dec"}
      BY DEF ToSet
    <2> QED  BY <2>1, <2>2, <2>3, <2>4, <2>5 DEF RemoveProgram
  <1> QED  BY <1>1, <1>2

\* The label a probe jumps to releases what it has acquired so far.
LEMMA UndoTable ==
  ASSUME NEW e \in {"platform", "instance"}, NEW k \in KindsOf(e)
  PROVE  /\ UndoProgram(e, ProbeFailed[e][k])
         /\ ToSet(ProbeFailed[e][k]) =
              {n \in KindsOf(e) : ProbePlace[n] < ProbePlace[k]}
  <1> DEFINE s == ProbeFailed[e][k]
             before == {n \in KindsOf(e) : ProbePlace[n] < ProbePlace[k]}
  <1>1. CASE e = "platform"
    <2>1. KindsOf(e) = {"dev", "region", "cdev"} /\ s = platform_probe_failed[k]
      BY <1>1, Kinds_Are DEF ProbeFailed
    <2>2. CASE k = "dev"
      <3>1. s = <<>> /\ before = {}
        BY <2>1, <2>2 DEF platform_probe_failed, ProbePlace
      <3> QED  BY <3>1, EmptyFacts DEF UndoProgram
    <2>3. CASE k = "region"
      <3>1. s = <<"dev">> /\ before = {"dev"}
        BY <2>1, <2>3 DEF platform_probe_failed, ProbePlace
      <3> QED
        BY <2>1, <3>1 DEF UndoProgram, InOrder, RemoveOrder, ToSet
    <2>4. CASE k = "cdev"
      <3>1. s = <<"region", "dev">> /\ before = {"region", "dev"}
        BY <2>1, <2>4 DEF platform_probe_failed, ProbePlace
      <3> QED
        BY <1>1, <2>1, <3>1
        DEF UndoProgram, InOrder, RemoveOrder, RemoveSteps, RemovePlace, ToSet
    <2> QED  BY <2>1, <2>2, <2>3, <2>4
  <1>2. CASE e = "instance"
    <2>1. KindsOf(e) = {"dev", "buf", "cdev", "node"} /\ s = instance_probe_failed[k]
      BY <1>2, Kinds_Are DEF ProbeFailed
    <2>2. CASE k = "dev"
      <3>1. s = <<>> /\ before = {}
        BY <2>1, <2>2 DEF instance_probe_failed, ProbePlace
      <3> QED  BY <3>1, EmptyFacts DEF UndoProgram
    <2>3. CASE k = "buf"
      <3>1. s = <<"dev">> /\ before = {"dev"}
        BY <2>1, <2>3 DEF instance_probe_failed, ProbePlace
      <3> QED
        BY <2>1, <3>1 DEF UndoProgram, InOrder, RemoveOrder, ToSet
    <2>4. CASE k = "cdev"
      <3>1. s = <<"buf", "dev">> /\ before = {"buf", "dev"}
        BY <2>1, <2>4 DEF instance_probe_failed, ProbePlace
      <3> QED
        BY <1>2, <2>1, <3>1
        DEF UndoProgram, InOrder, RemoveOrder, RemoveSteps, RemovePlace, ToSet
    <2>5. CASE k = "node"
      <3>1. s = <<"cdev", "buf", "dev">> /\ before = {"cdev", "buf", "dev"}
        BY <2>1, <2>5 DEF instance_probe_failed, ProbePlace
      <3> QED
        BY <1>2, <2>1, <3>1
        DEF UndoProgram, InOrder, RemoveOrder, RemoveSteps, RemovePlace, ToSet
    <2> QED  BY <2>1, <2>2, <2>3, <2>4, <2>5
  <1> QED  BY <1>1, <1>2

\* What a resource is built on is acquired before it, and released after it.
LEMMA NeedsPlace ==
  ASSUME NEW e \in {"platform", "instance"}, NEW k \in KindsOf(e), NEW n \in Needs(k)
  PROVE  IF n \in KindsOf(e) THEN /\ ProbePlace[n] < ProbePlace[k]
                                  /\ RemovePlace[k] < RemovePlace[n]
         ELSE e = "instance" /\ n \in {"region", "class"}
  <1>1. CASE e = "platform"
    BY <1>1, Kinds_Are DEF Needs, ProbePlace, RemovePlace
  <1>2. CASE e = "instance"
    BY <1>2, Kinds_Are DEF Needs, ProbePlace, RemovePlace
  <1> QED  BY <1>1, <1>2

-----------------------------------------------------------------------------
(* The inductive invariant                                                 *)

\* A module is between the start of its init and the return, and nothing of
\* it has failed; or it is on its way out, from exit or an error path.  The
\* init of platform-setup does not say that it has failed.
Building(m) ==
  module[m] = "coming" /\ ret[m] = "ok" /\ ~(m = "setup" /\ "setup" \in spoilt)
Unwinding(m) ==
  module[m] = "going" \/ (module[m] = "coming" /\ ~Building(m))

Pending(t, call) == call \in ToSet(todo[t])

HeldOf(d) == {k \in Kinds : <<k, d>> \in held}

Owner == OwnerOf(example)

Removing(d) == [kind |-> "remove", dev |-> d]
Probing(d)  == [kind |-> "probe", dev |-> d]

AllCalls(e) == UpCalls(e) \cup DownCalls(e)
AllSteps == {"dev", "buf", "region", "cdev", "node", "load", "inc", "dec"}
Tasks == [kind : {"none", "probe", "undo", "remove"}, dev : {All, 0, 1}]

BusTypes ==
  /\ example \in {"platform", "instance"} /\ scene \in Scenes
  /\ module \in [Threads -> {"unloaded", "coming", "live", "going"}]
  /\ todo \in [Threads -> Seq(AllCalls(example))]
  /\ ret \in [Threads -> {"ok", "error"}]
  /\ driver \in BOOLEAN
  /\ bus \subseteq Devices /\ bound \subseteq Devices
  /\ lock \in [Devices -> Threads \cup {NoOne}]
  /\ task \in [Threads -> Tasks]
  /\ rest \in [Threads -> Seq(AllSteps)]
  /\ held \subseteq (Kinds \X Devices) \cup ({"region", "class"} \X {All})
  /\ example = "platform" => held \subseteq Kinds \X Devices
  /\ total \in Int /\ loaded \in [Threads -> Int]
  /\ file \in [Users -> Devices \cup {All}]

\* What a thread that probes or removes has done, and has left to do.
TaskInv(t) ==
  /\ task[t] = NoTask => rest[t] = <<>>
  /\ task[t] # NoTask =>
       /\ task[t].kind # "none" /\ task[t].dev \in Devices
       /\ lock[task[t].dev] = t
  /\ task[t].kind = "probe" =>
       /\ task[t].dev \notin bound
       /\ ProbeProgram(example, rest[t])
       /\ HeldOf(task[t].dev) = Kinds \ ToSet(rest[t])
  /\ task[t].kind = "undo" =>
       /\ task[t].dev \notin bound
       /\ UndoProgram(example, rest[t])
       /\ HeldOf(task[t].dev) = ToSet(rest[t])
  /\ task[t].kind = "remove" =>
       /\ task[t].dev \in bound
       /\ RemoveProgram(example, rest[t])
       /\ HeldOf(task[t].dev) = ToSet(rest[t]) \cap Kinds

DeviceInv(d) ==
  /\ lock[d] # NoOne => task[lock[d]].dev = d
  /\ lock[d] = NoOne => HeldOf(d) = IF d \in bound THEN Kinds ELSE {}

TasksInv ==
  (\A t \in Threads : TaskInv(t)) /\ (\A d \in Devices : DeviceInv(d))

\* What a thread has left to call.
Program(t) ==
  /\ \A c \in ToSet(todo[t]) : c[1] \in CallsOf(example, t)
  /\ module[t] # "unloaded" => t \in Modules
  /\ module[t] \in {"unloaded", "live"} /\ t # "admin" => todo[t] = <<>>
  /\ Building(t) => UpProgram(example, todo[t])
  /\ Unwinding(t) => DownProgram(example, todo[t])

Programs ==
  /\ \A t \in Threads : Program(t)
  /\ ret["setup"] = "ok"
  /\ todo["admin"] # <<>> => "unbound" \in spoilt

\* The driver has not been registered yet, or not any more; and those who had
\* found it while it was have come to their end.
DriverOff ==
  \/ module["drv"] = "unloaded"
  \/ Building("drv") /\ Pending("drv", <<"driver_add", All>>)
  \/ Unwinding("drv") /\ ~Pending("drv", <<"driver_del", All>>)
ProbesOver ==
  /\ DriverOff
  /\ Unwinding("drv") => ~Pending("drv", <<"driver_wait", All>>)

OffStage == DriverOff => ~driver
OnStage ==
  (Building("drv") \/ module["drv"] = "live") /\ ~DriverOff
    /\ "failed" \notin spoilt => driver
OverStage ==
  ProbesOver =>
    /\ todo["admin"] = <<>> /\ task["admin"] = NoTask
    /\ \A t \in Threads : task[t].kind \notin {"probe", "undo"}
    /\ \A d \in bound :
         /\ Unwinding("drv")
         /\ Pending("drv", <<"detach", d>>) \/ task["drv"] = Removing(d)
RegionStage ==
  example = "instance" =>
    \A r \in {"region", "class"} :
      <<r, All>> \in held <=>
        \/ module["drv"] = "live"
        \/ Building("drv") /\ ~Pending("drv", <<r, All>>)
        \/ Unwinding("drv") /\ Pending("drv", <<r, All>>)
DriverStage == OffStage /\ OnStage /\ OverStage /\ RegionStage

\* Which devices are on the bus.
BusStage ==
  /\ module[Owner] = "unloaded" => bus = {} /\ "setup" \notin spoilt
  /\ Building(Owner) => bus = {d \in Devices : ~Pending(Owner, <<"device_add", d>>)}
  /\ module[Owner] = "live" => bus = IF "setup" \in spoilt THEN {} ELSE Devices
  /\ Unwinding(Owner) =>
       IF module[Owner] = "going" /\ "setup" \in spoilt
       THEN bus = {} /\ Pending(Owner, <<"device_del", 0>>)
       ELSE bus = {d \in Devices : Pending(Owner, <<"device_del", d>>)}
  /\ "setup" \in spoilt => example = "instance" /\ "failed" \in spoilt

\* Nobody misses a device: it is bound to stay, is being probed, or is still
\* to be looked at by who came second.
Reach ==
  spoilt \subseteq {"raced"} /\ driver =>
    \A d \in bus :
      \/ d \in bound /\ \A t \in Threads : task[t] # Removing(d)
      \/ \E t \in Threads : task[t] = Probing(d)
      \/ \E t \in Threads : Pending(t, <<"attach", d>>)

\* A thread is between the load and the store of total_devices.
Loaded(t) ==
  "load" \notin ToSet(rest[t]) /\ {"inc", "dec"} \cap ToSet(rest[t]) # {}

\* The devices that are counted in total_devices.
Counted ==
  {d \in Devices :
     \/ /\ d \in bound
        /\ \A t \in Threads : task[t] = Removing(d) => "dec" \in ToSet(rest[t])
     \/ \E t \in Threads : task[t] = Probing(d) /\ "inc" \notin ToSet(rest[t])}

CountStage ==
  example = "instance" /\ "raced" \notin spoilt =>
    /\ total = Cardinality(Counted)
    /\ \A t \in Threads : Loaded(t) => loaded[t] = total
    /\ \A t, o \in Threads : Loaded(t) /\ Loaded(o) => t = o

BusInv ==
  /\ BusTypes /\ TasksInv /\ NeedsHeld /\ Programs
  /\ DriverStage /\ BusStage /\ Reach /\ CountStage


-----------------------------------------------------------------------------
LEMMA SeqWithin ==
  ASSUME NEW A, NEW B, A \subseteq B, NEW s \in Seq(A)
  PROVE  s \in Seq(B)
  OBVIOUS

LEMMA DevicesAre ==
  ASSUME example \in {"platform", "instance"}
  PROVE  /\ Devices = IF example = "platform" THEN {0} ELSE {0, 1}
         /\ Devices \subseteq Int /\ All \notin Devices /\ IsFiniteSet(Devices)
         /\ Modules = IF example = "platform" THEN {"drv"} ELSE {"drv", "setup"}
         /\ Owner \in Modules
  <1>1. Devices = IF example = "platform" THEN {0} ELSE {0, 1}
    BY DEF Devices, DevicesOf
  <1>2. IsFiniteSet(0..1)
    <2>1. 0 \in Int /\ 1 \in Int
      OBVIOUS
    <2> QED  BY <2>1, FS_Interval
  <1>3. IsFiniteSet(Devices)
    <2>1. Devices \subseteq 0..1
      BY <1>1
    <2> QED  BY <1>2, <2>1, FS_Subset
  <1>4. Modules = IF example = "platform" THEN {"drv"} ELSE {"drv", "setup"}
    BY DEF Modules, ModulesOf
  <1> QED
    BY <1>1, <1>3, <1>4 DEF All, Owner, OwnerOf

\* What a thread that makes its next call knows of what it has left to call.
CallStepFacts(t) ==
  LET c == Next1(t) IN
  /\ c \in AllCalls(example) /\ c[1] \in CallsOf(example, t)
  /\ todo' \in [Threads -> Seq(AllCalls(example))]
  /\ \A o \in Threads \ {t} : todo'[o] = todo[o]
  /\ \A x : Pending(t, x) <=> x = c \/ Pending(t, x)'
  /\ Building(t) =>
       /\ c \in UpCalls(example) /\ UpProgram(example, todo'[t])
       /\ \A y \in ToSet(todo'[t]) : <<c, y>> \in UpOrder(example)
       /\ \A f \in UpFollows(example) : f[1] = c => Pending(t, f[2])'
  /\ Unwinding(t) =>
       /\ c \in DownCalls(example) /\ DownProgram(example, todo'[t])
       /\ \A y \in ToSet(todo'[t]) : <<c, y>> \in DownOrder(example)
       /\ \A f \in DownFollows(example) : f[1] = c => Pending(t, f[2])'

LEMMA CallStep ==
  ASSUME BusTypes, Programs, NEW t \in Threads, todo[t] # <<>>, Advance(t)
  PROVE  CallStepFacts(t)
  <1> DEFINE s == todo[t]
             r == Tail(todo[t])
             C == AllCalls(example)
  <1>1. s \in Seq(C) /\ todo' = [todo EXCEPT ![t] = r] /\ todo'[t] = r
    BY DEF BusTypes, Advance
  <1>2. Next1(t) = s[1] /\ s[1] \in C /\ r \in Seq(C) /\ IsTail(r, s)
    BY <1>1, TailAt DEF Next1
  <1>3. ToSet(s) = {s[1]} \cup ToSet(r)
    BY <1>2, TailSet
  <1> HIDE DEF C
  <1>4. todo' \in [Threads -> Seq(C)]
    BY <1>1, <1>2 DEF BusTypes, C
  <1>5. \A x : Pending(t, x) <=> x = s[1] \/ Pending(t, x)'
    BY <1>1, <1>3 DEF Pending
  <1>6. s[1][1] \in CallsOf(example, t)
    BY <1>3 DEF Programs, Program
  <1>7. ASSUME Building(t)
        PROVE  /\ s[1] \in UpCalls(example) /\ UpProgram(example, r)
               /\ \A y \in ToSet(r) : <<s[1], y>> \in UpOrder(example)
               /\ \A f \in UpFollows(example) : f[1] = s[1] => f[2] \in ToSet(r)
    <2>1. UpProgram(example, s)
      BY <1>7 DEF Programs, Program
    <2>2. s[1] \in UpCalls(example) /\ r \in Seq(UpCalls(example))
      BY <2>1, TailAt DEF UpProgram
    <2>3. /\ InOrder(r, UpOrder(example))
          /\ \A y \in ToSet(r) : <<s[1], y>> \in UpOrder(example)
      BY <1>2, <2>1, TailInOrder DEF UpProgram
    <2>4. /\ Followed(r, UpFollows(example))
          /\ \A f \in UpFollows(example) : f[1] = s[1] => f[2] \in ToSet(r)
      BY <1>2, <2>1, TailFollowed DEF UpProgram
    <2> QED  BY <2>2, <2>3, <2>4 DEF UpProgram
  <1>8. ASSUME Unwinding(t)
        PROVE  /\ s[1] \in DownCalls(example) /\ DownProgram(example, r)
               /\ \A y \in ToSet(r) : <<s[1], y>> \in DownOrder(example)
               /\ \A f \in DownFollows(example) : f[1] = s[1] => f[2] \in ToSet(r)
    <2>1. DownProgram(example, s)
      BY <1>8 DEF Programs, Program
    <2>2. s[1] \in DownCalls(example) /\ r \in Seq(DownCalls(example))
      BY <2>1, TailAt DEF DownProgram
    <2>3. /\ InOrder(r, DownOrder(example))
          /\ \A y \in ToSet(r) : <<s[1], y>> \in DownOrder(example)
      BY <1>2, <2>1, TailInOrder DEF DownProgram
    <2>4. /\ Followed(r, DownFollows(example))
          /\ \A f \in DownFollows(example) : f[1] = s[1] => f[2] \in ToSet(r)
      BY <1>2, <2>1, TailFollowed DEF DownProgram
    <2> QED  BY <2>2, <2>3, <2>4 DEF DownProgram
  <1> HIDE DEF s, r
  <1>9. \A o \in Threads \ {t} : todo'[o] = todo[o]
    BY <1>1 DEF BusTypes
  <1> QED
    BY <1>1, <1>2, <1>4, <1>5, <1>6, <1>7, <1>8, <1>9
    DEF CallStepFacts, Pending, C

\* What init and exit are at does not change with the calls.
ModulesSame ==
  /\ UNCHANGED <<example, module, ret>>
  /\ "setup" \in spoilt' <=> "setup" \in spoilt

LEMMA SamePhase ==
  ASSUME ModulesSame, NEW m
  PROVE  (Building(m)' <=> Building(m)) /\ (Unwinding(m)' <=> Unwinding(m))
  BY DEF ModulesSame, Building, Unwinding

LEMMA ProgramsAdvance ==
  ASSUME BusTypes, Programs, NEW t \in Threads, todo[t] # <<>>, Advance(t), ModulesSame,
         spoilt \subseteq spoilt'
  PROVE  Programs'
  <1>1. CallStepFacts(t)
    BY CallStep
  <1>2. ASSUME NEW o \in Threads \ {t}  PROVE Program(o)'
    BY <1>1, SamePhase
    DEF ModulesSame, Programs, Program, CallStepFacts, Modules
  <1>3. Program(t)'
    <2>1. Program(t)
      BY DEF Programs
    <2>2. \A c \in ToSet(todo'[t]) : c[1] \in CallsOf(example, t)
      BY <1>1, <2>1 DEF Program, CallStepFacts, Pending
    <2>3. module[t] \in {"unloaded", "live"} /\ t # "admin" => FALSE
      BY <2>1 DEF Program
    <2> QED
      BY <1>1, <2>1, <2>2, <2>3, SamePhase DEF ModulesSame, Program, CallStepFacts, Modules
  <1>4. todo'["admin"] # <<>> => "unbound" \in spoilt'
    BY <1>1 DEF Programs, CallStepFacts, Threads
  <1>5. ret'["setup"] = "ok"
    BY DEF ModulesSame, Programs
  <1> QED  BY <1>2, <1>3, <1>4, <1>5 DEF Programs

-----------------------------------------------------------------------------
(* What a step that leaves a part alone keeps                              *)

LEMMA TasksFrame ==
  ASSUME TasksInv, UNCHANGED <<example, bound, lock, task, rest>>,
         \A d \in Devices : HeldOf(d)' = HeldOf(d), BusTypes
  PROVE  TasksInv'
  <1>1. Devices' = Devices /\ Kinds' = Kinds
    BY DEF Devices, Kinds
  <1>2. ASSUME NEW t \in Threads  PROVE TaskInv(t)'
    <2>1. TaskInv(t)
      BY DEF TasksInv
    <2>2. task[t].dev \in Devices => HeldOf(task[t].dev)' = HeldOf(task[t].dev)
      OBVIOUS
    <2>3. task[t].kind \in {"probe", "undo", "remove"} => task[t].dev \in Devices
      BY <2>1 DEF TaskInv, NoTask
    <2>4. CASE task[t] = NoTask
      BY <2>1, <2>4 DEF TaskInv, NoTask
    <2>5. CASE task[t] # NoTask
      <3>1. HeldOf(task[t].dev)' = HeldOf(task[t].dev)
        BY <2>1, <2>2, <2>5 DEF TaskInv
      <3> QED  BY <1>1, <2>1, <2>5, <3>1 DEF TaskInv
    <2> QED  BY <2>4, <2>5
  <1>3. ASSUME NEW d \in Devices  PROVE DeviceInv(d)'
    BY <1>1 DEF TasksInv, DeviceInv
  <1> QED  BY <1>1, <1>2, <1>3 DEF TasksInv

LEMMA HeldFrame ==
  ASSUME UNCHANGED <<example, held>>
  PROVE  \A d : HeldOf(d)' = HeldOf(d)
  BY DEF HeldOf, Kinds

LEMMA NeedsFrame ==
  ASSUME NeedsHeld, UNCHANGED <<example, held>>
  PROVE  NeedsHeld'
  BY DEF NeedsHeld

LEMMA CountFrame ==
  ASSUME CountStage, UNCHANGED <<example, bound, task, rest, countVars>>,
         "raced" \in spoilt => "raced" \in spoilt'
  PROVE  CountStage'
  <1>1. Counted' = Counted
    BY DEF Counted, Devices
  <1>2. \A t : Loaded(t)' <=> Loaded(t)
    BY DEF Loaded
  <1> QED  BY <1>1, <1>2 DEF CountStage, countVars

LEMMA ReachFrame ==
  ASSUME Reach, UNCHANGED <<example, driver, bus, bound, task>>, spoilt \subseteq spoilt',
         \A t \in Threads, d \in Devices :
           Pending(t, <<"attach", d>>) => Pending(t, <<"attach", d>>)',
         BusTypes
  PROVE  Reach'
  BY DEF Reach, BusTypes

PhaseSame(m) ==
  (Building(m)' <=> Building(m)) /\ (Unwinding(m)' <=> Unwinding(m))

LEMMA OwnerFrame ==
  ASSUME BusStage, UNCHANGED <<example, bus>>, module'[Owner] = module[Owner],
         spoilt \subseteq spoilt',
         "setup" \in spoilt' <=> "setup" \in spoilt,
         BusTypes,
         \A m \in {"drv", "setup"} : m = Owner =>
           /\ PhaseSame(m)
           /\ \A w \in {"device_add", "device_del"}, d \in Devices :
                Pending(m, <<w, d>>)' <=> Pending(m, <<w, d>>)
  PROVE  BusStage'
  <1>1. /\ Owner' = Owner /\ Devices' = Devices /\ module'[Owner'] = module[Owner]
        /\ example' = example
    BY DEF Owner, Devices
  <1>2. 0 \in Devices
    BY DevicesAre DEF BusTypes
  <1>3. /\ Building(Owner)' <=> Building(Owner)
        /\ Unwinding(Owner)' <=> Unwinding(Owner)
    <2>1. PICK m \in {"drv", "setup"} : m = Owner /\ m = Owner'
      BY <1>1 DEF Owner, OwnerOf
    <2>2. PhaseSame(m)
      BY <2>1
    <2> QED  BY <2>1, <2>2 DEF PhaseSame, Building, Unwinding
  <1>4. \A d \in Devices :
          /\ Pending(Owner, <<"device_add", d>>)' <=> Pending(Owner, <<"device_add", d>>)
          /\ Pending(Owner, <<"device_del", d>>)' <=> Pending(Owner, <<"device_del", d>>)
    <2>1. PICK m \in {"drv", "setup"} : m = Owner /\ m = Owner'
      BY <1>1 DEF Owner, OwnerOf
    <2>2. \A x : /\ Pending(Owner, x)' <=> Pending(m, x)'
                 /\ Pending(Owner, x) <=> Pending(m, x)
      BY <2>1
    <2> QED  BY <2>1, <2>2
  <1>5. /\ {d \in Devices : Pending(Owner, <<"device_add", d>>)'} =
             {d \in Devices : Pending(Owner, <<"device_add", d>>)}
        /\ {d \in Devices : ~Pending(Owner, <<"device_add", d>>)'} =
             {d \in Devices : ~Pending(Owner, <<"device_add", d>>)}
        /\ {d \in Devices : Pending(Owner, <<"device_del", d>>)'} =
             {d \in Devices : Pending(Owner, <<"device_del", d>>)}
    BY <1>4
  <1> QED  BY <1>1, <1>2, <1>3, <1>4, <1>5 DEF BusStage

LEMMA BusFrame ==
  ASSUME BusStage, ModulesSame, UNCHANGED bus, spoilt \subseteq spoilt',
         BusTypes,
         \A m \in {"drv", "setup"}, w \in {"device_add", "device_del"}, d \in Devices :
           Pending(m, <<w, d>>)' <=> Pending(m, <<w, d>>)
  PROVE  BusStage'
  <1>1. \A m \in {"drv", "setup"} : PhaseSame(m)
    BY SamePhase DEF PhaseSame
  <1> QED  BY <1>1, OwnerFrame DEF ModulesSame

\* The calls that move the stage of the driver.
DriverCalls ==
  ({"driver_add", "driver_del", "driver_wait", "region", "class"} \X {All})
    \cup ({"detach"} \X Devices)

LEMMA StageFrame ==
  ASSUME DriverStage, BusTypes, UNCHANGED <<example, driver, bound, task>>,
         \A r \in {"region", "class"} : <<r, All>> \in held' <=> <<r, All>> \in held,
         module'["drv"] = module["drv"], PhaseSame("drv"),
         "failed" \in spoilt => "failed" \in spoilt',
         \A x \in DriverCalls : Pending("drv", x)' <=> Pending("drv", x),
         todo["admin"] = <<>> /\ ProbesOver => todo'["admin"] = <<>>
  PROVE  DriverStage'
  <1>1. /\ Building("drv")' <=> Building("drv")
        /\ Unwinding("drv")' <=> Unwinding("drv")
    BY DEF PhaseSame
  <1>2. module'["drv"] = module["drv"] /\ example' = example
    OBVIOUS
  <1>3. \A k \in {"driver_add", "driver_del", "driver_wait", "region", "class"} :
          Pending("drv", <<k, All>>)' <=> Pending("drv", <<k, All>>)
    BY DEF DriverCalls
  <1>4. \A d \in bound : Pending("drv", <<"detach", d>>)' <=> Pending("drv", <<"detach", d>>)
    BY DEF DriverCalls, BusTypes
  <1>5. (DriverOff' <=> DriverOff) /\ (ProbesOver' <=> ProbesOver)
    BY <1>1, <1>2, <1>3 DEF DriverOff, ProbesOver
  <1>6. OffStage' /\ OnStage'
    BY <1>1, <1>2, <1>5 DEF DriverStage, OffStage, OnStage
  <1>7. OverStage'
    BY <1>1, <1>4, <1>5 DEF DriverStage, OverStage, Removing
  <1>8. RegionStage'
    BY <1>1, <1>2, <1>3 DEF DriverStage, RegionStage
  <1> QED  BY <1>6, <1>7, <1>8 DEF DriverStage

LEMMA DriverFrame ==
  ASSUME DriverStage, ModulesSame, BusTypes, UNCHANGED <<driver, bound, task>>,
         \A r \in {"region", "class"} : <<r, All>> \in held' <=> <<r, All>> \in held,
         "failed" \in spoilt => "failed" \in spoilt',
         \A x \in DriverCalls : Pending("drv", x)' <=> Pending("drv", x),
         todo["admin"] = <<>> /\ ProbesOver => todo'["admin"] = <<>>
  PROVE  DriverStage'
  <1>1. PhaseSame("drv")
    BY SamePhase DEF PhaseSame
  <1> QED  BY <1>1, StageFrame DEF ModulesSame

\* Steps within a probe or remove, and those of users, leave the calls alone.
LEMMA CallsUnchanged ==
  ASSUME Programs, BusTypes, UNCHANGED <<example, moduleVars>>,
         spoilt \subseteq spoilt', spoilt' \subseteq spoilt \cup {"failed", "raced"}
  PROVE  /\ Programs' /\ ModulesSame
         /\ \A t, x : Pending(t, x)' <=> Pending(t, x)
  <1>1. ModulesSame
    BY DEF ModulesSame, moduleVars
  <1>2. Programs'
    BY <1>1, SamePhase
    DEF ModulesSame, Programs, Program, Modules, moduleVars
  <1> QED  BY <1>1, <1>2 DEF Pending, moduleVars

-----------------------------------------------------------------------------
(* The calls                                                               *)

\* A call that changes neither a task nor what is held.
LEMMA CallKeeps ==
  ASSUME BusInv, NEW t \in Threads, NEW w, Calls(t, w), Advance(t),
         UNCHANGED <<sceneVars, module, ret, taskVars, held, countVars, file, spoilt>>,
         driver' \in BOOLEAN, bus' \subseteq Devices
  PROVE  /\ CallStepFacts(t) /\ ModulesSame /\ todo[t] # <<>>
         /\ task[t] = NoTask /\ Next1(t)[1] = w
         /\ BusTypes' /\ TasksInv' /\ NeedsHeld' /\ Programs' /\ CountStage'
  <1> USE DEF sceneVars, taskVars
  <1>1. todo[t] # <<>> /\ task[t] = NoTask /\ Next1(t)[1] = w
    BY DEF Calls
  <1>2. CallStepFacts(t)
    BY <1>1, CallStep DEF BusInv
  <1>3. ModulesSame
    BY DEF ModulesSame
  <1>4. BusTypes'
    BY <1>2 DEF BusInv, BusTypes, CallStepFacts, Devices, Kinds, countVars
  <1>5. TasksInv'
    BY TasksFrame, HeldFrame DEF BusInv
  <1>6. NeedsHeld'
    BY NeedsFrame DEF BusInv
  <1>7. Programs'
    BY <1>1, <1>3, ProgramsAdvance DEF BusInv
  <1>8. CountStage'
    BY CountFrame DEF BusInv
  <1> QED  BY <1>1, <1>2, <1>3, <1>4, <1>5, <1>6, <1>7, <1>8

\* What the next call of a thread is, before the thread makes it.
LEMMA NextCall ==
  ASSUME BusTypes, Programs, NEW t \in Threads, todo[t] # <<>>
  PROVE  LET c == Next1(t) IN
         /\ c \in AllCalls(example) /\ c[1] \in CallsOf(example, t)
         /\ Pending(t, c)
         /\ Building(t) =>
              /\ c \in UpCalls(example)
              /\ \A x : Pending(t, x) => x = c \/ <<c, x>> \in UpOrder(example)
              /\ \A f \in UpFollows(example) : f[1] = c => Pending(t, f[2])
         /\ Unwinding(t) => c \in DownCalls(example)
  <1> DEFINE s == todo[t]
             r == Tail(todo[t])
             C == AllCalls(example)
  <1>1. s \in Seq(C)
    BY DEF BusTypes
  <1>2. Next1(t) = s[1] /\ s[1] \in C /\ IsTail(r, s)
    BY <1>1, TailAt DEF Next1
  <1>3. ToSet(s) = {s[1]} \cup ToSet(r)
    BY <1>2, TailSet
  <1>4. s[1][1] \in CallsOf(example, t)
    BY <1>3 DEF Programs, Program
  <1>5. ASSUME Building(t)
        PROVE  /\ s[1] \in UpCalls(example)
               /\ \A y \in ToSet(r) : <<s[1], y>> \in UpOrder(example)
               /\ \A f \in UpFollows(example) : f[1] = s[1] => f[2] \in ToSet(r)
    <2>1. UpProgram(example, s)
      BY <1>5 DEF Programs, Program
    <2>2. s[1] \in UpCalls(example)
      BY <2>1, TailAt DEF UpProgram
    <2>3. \A y \in ToSet(r) : <<s[1], y>> \in UpOrder(example)
      BY <1>2, <2>1, TailInOrder DEF UpProgram
    <2>4. \A f \in UpFollows(example) : f[1] = s[1] => f[2] \in ToSet(r)
      BY <1>2, <2>1, TailFollowed DEF UpProgram
    <2> QED  BY <2>2, <2>3, <2>4
  <1>6. ASSUME Unwinding(t)  PROVE s[1] \in DownCalls(example)
    <2>1. DownProgram(example, s)
      BY <1>6 DEF Programs, Program
    <2> QED  BY <2>1, TailAt DEF DownProgram
  <1>7. \A x : Pending(t, x) <=> x = s[1] \/ x \in ToSet(r)
    BY <1>3 DEF Pending
  <1> HIDE DEF s, r
  <1> QED  BY <1>2, <1>4, <1>5, <1>6, <1>7 DEF C

\* Who makes a call that is not an attach or a detach, and when.
LEMMA CallerIs ==
  ASSUME BusInv, NEW t \in Threads, todo[t] # <<>>
  PROVE  LET c == Next1(t) IN
         /\ c[1] \in {"region", "class"} =>
              t = "drv" /\ example = "instance" /\ c = <<c[1], All>>
         /\ c[1] \in {"driver_add", "driver_del", "driver_wait"} =>
              t = "drv" /\ c = <<c[1], All>>
         /\ c[1] \in {"device_add", "device_del"} =>
              t = Owner /\ c[2] \in Devices /\ c = <<c[1], c[2]>>
         /\ c[1] \in {"attach", "detach"} =>
              c[2] \in Devices /\ c = <<c[1], c[2]>>
         /\ c[1] \in {"driver_add", "device_add"} => Building(t)
         /\ c[1] \in {"driver_del", "driver_wait", "device_del"} => Unwinding(t)
         /\ c[1] = "attach" => t = "admin" \/ Building(t)
         /\ c[1] = "detach" => t = "admin" \/ Unwinding(t)
  <1> DEFINE c == Next1(t)
  <1>1. /\ c \in UpCalls(example) \cup DownCalls(example)
        /\ c[1] \in CallsOf(example, t)
        /\ Building(t) => c \in UpCalls(example)
        /\ Unwinding(t) => c \in DownCalls(example)
    BY NextCall DEF BusInv, AllCalls
  <1> HIDE DEF c
  <1>2. /\ example \in {"platform", "instance"} /\ Program(t)
        /\ t \in {"drv", "setup", "admin"}
    BY DEF BusInv, BusTypes, Programs, Threads
  <1>3. t # "admin" => Building(t) \/ Unwinding(t)
    BY <1>2 DEF Program, Unwinding, BusInv, BusTypes, Threads
  <1>4. t = "setup" => example = "instance"
    BY <1>2, <1>3, DevicesAre DEF Program, Building, Unwinding
  <1>5. t \in {"drv", "setup"} =>
          /\ c[1] \in {"region", "class"} => t = "drv" /\ example = "instance"
          /\ c[1] \in {"driver_add", "driver_del", "driver_wait"} => t = "drv"
          /\ c[1] \in {"device_add", "device_del"} => t = Owner
    BY <1>1, <1>2, <1>4 DEF CallsOf, Owner, OwnerOf
  <1>6. t = "admin" => c[1] \in {"attach", "detach"}
    BY <1>1 DEF CallsOf
  <1>7. /\ c = <<c[1], c[2]>>
        /\ c[1] \in {"region", "class", "driver_add", "driver_del", "driver_wait"}
             => c[2] = All
        /\ c[1] \in {"device_add", "device_del", "attach", "detach"} => c[2] \in Devices
    BY <1>1 DEF UpCalls, DownCalls, Devices
  <1>8. /\ c \in UpCalls(example) => c[1] \notin {"driver_del", "driver_wait", "device_del", "detach"}
        /\ c \in DownCalls(example) => c[1] \notin {"driver_add", "device_add", "attach"}
    BY DEF UpCalls, DownCalls
  <1> QED  BY <1>1, <1>2, <1>3, <1>5, <1>6, <1>7, <1>8 DEF c

\* Building and Unwinding exclude each other.
LEMMA PhasesDiffer ==
  ASSUME NEW m
  PROVE  /\ ~(Building(m) /\ Unwinding(m))
         /\ Building(m) \/ Unwinding(m) => module[m] \notin {"unloaded", "live"}
  BY DEF Building, Unwinding

\* What a thread calls once is not called again.
LEMMA CalledOnce ==
  ASSUME NEW t, CallStepFacts(t), Building(t) \/ Unwinding(t),
         NEW c, c = Next1(t), c[1] \notin {"attach", "detach"}
  PROVE  /\ ~Pending(t, c)'
         /\ \A x : x # c => (Pending(t, x)' <=> Pending(t, x))
  <1>1. /\ \A x : Pending(t, x) <=> x = c \/ Pending(t, x)'
        /\ Building(t) => \A y \in ToSet(todo'[t]) : <<c, y>> \in UpOrder(example)
        /\ Unwinding(t) => \A y \in ToSet(todo'[t]) : <<c, y>> \in DownOrder(example)
    BY DEF CallStepFacts
  <1>2. <<c, c>> \notin UpOrder(example)
    BY DEF UpOrder
  <1>3. <<c, c>> \notin DownOrder(example)
    BY DEF DownOrder
  <1>4. ~Pending(t, c)'
    BY <1>1, <1>2, <1>3 DEF Pending
  <1> QED  BY <1>1, <1>4

LEMMA DriverAddStep ==
  ASSUME BusInv, NEW t \in Threads, DriverAdd(t), UNCHANGED sceneVars
  PROVE  BusInv'
  <1> DEFINE c == <<"driver_add", All>>
  <1> USE DEF sceneVars
  <1>1. /\ CallStepFacts(t) /\ ModulesSame /\ todo[t] # <<>> /\ Next1(t)[1] = "driver_add"
        /\ BusTypes' /\ TasksInv' /\ NeedsHeld' /\ Programs' /\ CountStage'
    BY CallKeeps DEF DriverAdd, BusInv, BusTypes
  <1>2. t = "drv" /\ Next1(t) = c /\ Building("drv")
    BY <1>1, CallerIs
  <1>3. /\ ~Pending("drv", c)'
        /\ \A x : x # c => (Pending("drv", x)' <=> Pending("drv", x))
    BY <1>1, <1>2, CalledOnce
  <1>4. \A d \in Devices : Pending("drv", <<"attach", d>>)'
    <2> SUFFICES ASSUME NEW d \in Devices  PROVE Pending("drv", <<"attach", d>>)'
      OBVIOUS
    <2>1. <<c, <<"attach", d>>>> \in UpFollows(example)
      BY <1>2 DEF UpFollows, UpCalls, Devices
    <2> QED  BY <1>1, <1>2, <2>1 DEF CallStepFacts
  <1>5. \A x : Pending("setup", x)' <=> Pending("setup", x)
    BY <1>1, <1>2 DEF CallStepFacts, Pending, Threads
  <1>6. BusStage'
    <2>1. UNCHANGED <<bus, spoilt>>
      BY DEF DriverAdd
    <2> QED  BY <1>1, <1>3, <1>5, <2>1, BusFrame DEF BusInv
  <1>7. Building("drv")' /\ ~Unwinding("drv")' /\ module'["drv"] # "unloaded"
    BY <1>1, <1>2, SamePhase, PhasesDiffer DEF ModulesSame
  <1>8. ~DriverOff'
    BY <1>3, <1>7 DEF DriverOff
  <1>9. RegionStage'
    BY <1>1, <1>2, <1>3, <1>7, PhasesDiffer
    DEF BusInv, DriverStage, RegionStage, ModulesSame, DriverAdd
  <1>10. DriverStage'
    BY <1>8, <1>9 DEF DriverStage, OffStage, OnStage, OverStage, ProbesOver, DriverAdd
  <1>11. Reach'
    <2>1. bus \subseteq Devices /\ bus' = bus
      BY DEF BusInv, BusTypes, DriverAdd
    <2> QED  BY <1>4, <2>1 DEF Reach, Threads
  <1> QED  BY <1>1, <1>6, <1>10, <1>11 DEF BusInv

LEMMA OthersSame ==
  ASSUME NEW t, CallStepFacts(t)
  PROVE  \A o \in Threads \ {t} : \A x : Pending(o, x)' <=> Pending(o, x)
  BY DEF CallStepFacts, Pending

LEMMA DriverDelStep ==
  ASSUME BusInv, NEW t \in Threads, DriverDel(t), UNCHANGED sceneVars
  PROVE  BusInv'
  <1> DEFINE c == <<"driver_del", All>>
  <1> USE DEF sceneVars
  <1>1. /\ CallStepFacts(t) /\ ModulesSame /\ todo[t] # <<>> /\ Next1(t)[1] = "driver_del"
        /\ BusTypes' /\ TasksInv' /\ NeedsHeld' /\ Programs' /\ CountStage'
    BY CallKeeps DEF DriverDel, BusInv, BusTypes
  <1>2. t = "drv" /\ Next1(t) = c /\ Unwinding("drv")
    BY <1>1, CallerIs
  <1>3. /\ ~Pending("drv", c)'
        /\ \A x : x # c => (Pending("drv", x)' <=> Pending("drv", x))
    BY <1>1, <1>2, CalledOnce
  <1>4. Pending("drv", <<"driver_wait", All>>)'
    <2>1. <<c, <<"driver_wait", All>>>> \in DownFollows(example)
      BY DEF DownFollows, DownCalls
    <2> QED  BY <1>1, <1>2, <2>1 DEF CallStepFacts
  <1>5. \A x : Pending("setup", x)' <=> Pending("setup", x)
    BY <1>1, <1>2, OthersSame DEF Threads
  <1>6. BusStage'
    <2>1. UNCHANGED <<bus, spoilt>>
      BY DEF DriverDel
    <2> QED  BY <1>1, <1>3, <1>5, <2>1, BusFrame DEF BusInv
  <1>7. ~Building("drv")' /\ Unwinding("drv")' /\ module'["drv"] \notin {"live", "unloaded"}
    BY <1>1, <1>2, SamePhase, PhasesDiffer DEF ModulesSame
  <1>8. ~ProbesOver' /\ driver' = FALSE
    BY <1>4, <1>7 DEF ProbesOver, DriverDel
  <1>9. RegionStage'
    BY <1>1, <1>2, <1>3, <1>7, PhasesDiffer
    DEF BusInv, DriverStage, RegionStage, ModulesSame, DriverDel
  <1>10. DriverStage'
    BY <1>7, <1>8, <1>9 DEF DriverStage, OffStage, OnStage, OverStage
  <1>11. Reach'
    BY <1>8 DEF Reach
  <1> QED  BY <1>1, <1>6, <1>10, <1>11 DEF BusInv

LEMMA DriverWaitStep ==
  ASSUME BusInv, NEW t \in Threads, DriverWait(t), UNCHANGED sceneVars
  PROVE  BusInv'
  <1> DEFINE c == <<"driver_wait", All>>
  <1> USE DEF sceneVars
  <1>1. /\ CallStepFacts(t) /\ ModulesSame /\ todo[t] # <<>> /\ Next1(t)[1] = "driver_wait"
        /\ BusTypes' /\ TasksInv' /\ NeedsHeld' /\ Programs' /\ CountStage'
        /\ task[t] = NoTask
    BY CallKeeps DEF DriverWait, BusInv, BusTypes
  <1>2. t = "drv" /\ Next1(t) = c /\ Unwinding("drv")
    BY <1>1, CallerIs
  <1>3. /\ ~Pending("drv", c)'
        /\ \A x : x # c => (Pending("drv", x)' <=> Pending("drv", x))
    BY <1>1, <1>2, CalledOnce
  <1>4. \A d \in Devices : Pending("drv", <<"detach", d>>)'
    <2> SUFFICES ASSUME NEW d \in Devices  PROVE Pending("drv", <<"detach", d>>)'
      OBVIOUS
    <2>1. <<c, <<"detach", d>>>> \in DownFollows(example)
      BY DEF DownFollows, DownCalls, Devices
    <2> QED  BY <1>1, <1>2, <2>1 DEF CallStepFacts
  <1>5. \A o \in Threads \ {t} : \A x : Pending(o, x)' <=> Pending(o, x)
    BY <1>1, OthersSame
  <1>6. UNCHANGED <<driver, bus, bound, task, held, spoilt>>
    BY DEF DriverWait, taskVars
  <1>7. BusStage'
    BY <1>1, <1>2, <1>3, <1>5, <1>6, BusFrame DEF BusInv, Threads
  <1>8. ~Building("drv")' /\ Unwinding("drv")' /\ module'["drv"] \notin {"live", "unloaded"}
    BY <1>1, <1>2, SamePhase, PhasesDiffer DEF ModulesSame
  <1>9. DriverOff' <=> DriverOff
    BY <1>1, <1>2, <1>3, <1>8, SamePhase DEF DriverOff, ModulesSame
  <1>10. OverStage'
    <2>1. todo'["admin"] = <<>> /\ task'["admin"] = NoTask
      BY <1>1, <1>2, <1>6 DEF DriverWait, CallStepFacts, Threads
    <2>2. \A o \in Threads : task'[o].kind \notin {"probe", "undo"}
      BY <1>1, <1>6 DEF DriverWait, NoTask
    <2>3. bound' \subseteq Devices
      BY <1>6 DEF BusInv, BusTypes
    <2> QED  BY <1>4, <1>8, <2>1, <2>2, <2>3 DEF OverStage
  <1>11. OffStage' /\ OnStage'
    BY <1>6, <1>8, <1>9 DEF BusInv, DriverStage, OffStage, OnStage
  <1>12. RegionStage'
    BY <1>1, <1>2, <1>3, <1>6, <1>8, PhasesDiffer
    DEF BusInv, DriverStage, RegionStage, ModulesSame
  <1>13. Reach'
    BY <1>1, <1>2, <1>3, <1>5, <1>6, ReachFrame DEF BusInv, Threads
  <1> QED  BY <1>1, <1>7, <1>10, <1>11, <1>12, <1>13 DEF BusInv, DriverStage

LEMMA DeviceAddStep ==
  ASSUME BusInv, NEW t \in Threads, DeviceAdd(t), UNCHANGED sceneVars
  PROVE  BusInv'
  <1> USE DEF sceneVars
  <1>0. PICK d : d = Next1(t)[2]
    OBVIOUS
  <1> DEFINE c == <<"device_add", d>>
  <1>1. /\ todo[t] # <<>> /\ Calls(t, "device_add") /\ Next1(t)[1] = "device_add"
        /\ Advance(t) /\ CallStepFacts(t)
    BY CallStep DEF BusInv, DeviceAdd, Calls
  <1>2. t = Owner /\ d \in Devices /\ Next1(t) = c /\ Building(t)
    BY <1>0, <1>1, CallerIs
  <1>3. UNCHANGED <<module, ret, driver, taskVars, held, countVars, file, spoilt>>
        /\ bus' = bus \cup {d} /\ bus \subseteq Devices /\ driver \in BOOLEAN
    BY <1>0 DEF DeviceAdd, BusInv, BusTypes
  <1>4. /\ ModulesSame
        /\ BusTypes' /\ TasksInv' /\ NeedsHeld' /\ Programs' /\ CountStage'
    BY <1>1, <1>2, <1>3, CallKeeps
  <1>5. /\ ~Pending(t, c)'
        /\ \A x : x # c => (Pending(t, x)' <=> Pending(t, x))
    BY <1>1, <1>2, CalledOnce
  <1>6. \A o \in Threads \ {t} : \A x : Pending(o, x)' <=> Pending(o, x)
    BY <1>1, OthersSame
  <1>7. Pending(t, <<"attach", d>>)'
    <2>1. <<c, <<"attach", d>>>> \in UpFollows(example)
      BY <1>2 DEF UpFollows, UpCalls, Devices
    <2> QED  BY <1>1, <1>2, <2>1 DEF CallStepFacts
  <1>8. Owner' = Owner /\ Devices' = Devices /\ t \in {"drv", "setup"}
    BY <1>2, <1>4 DEF ModulesSame, Owner, OwnerOf, Devices
  <1>9. BusStage'
    <2>1. Building(t)' /\ ~Unwinding(t)' /\ module'[t] \notin {"unloaded", "live"}
      BY <1>2, <1>4, SamePhase, PhasesDiffer DEF ModulesSame
    <2>2. bus = {x \in Devices : ~Pending(t, <<"device_add", x>>)}
      BY <1>2 DEF BusInv, BusStage
    <2>3. bus' = {x \in Devices : ~Pending(t, <<"device_add", x>>)'}
      BY <1>2, <1>3, <1>5, <2>2
    <2>4. Pending(Owner, <<"device_add", d>>)' <=> Pending(t, <<"device_add", d>>)'
      BY <1>2, <1>8
    <2>5. "setup" \in spoilt' => example' = "instance" /\ "failed" \in spoilt'
      BY <1>3, <1>4 DEF BusInv, BusStage, ModulesSame
    <2>6. t = Owner'
      BY <1>2, <1>8
    <2>7. \A x : Pending(Owner, x)' <=> Pending(t, x)'
      BY <2>6
    <2> QED  BY <1>8, <2>1, <2>3, <2>5, <2>6, <2>7 DEF BusStage, Building, Unwinding
  <1>10. DriverStage'
    <2>1. \A x \in DriverCalls : Pending("drv", x)' <=> Pending("drv", x)
      BY <1>5, <1>6, <1>8 DEF DriverCalls, Threads
    <2>2. todo'["admin"] = todo["admin"]
      BY <1>1, <1>8 DEF CallStepFacts, Threads
    <2> QED
      BY <1>3, <1>4, <2>1, <2>2, DriverFrame DEF BusInv, taskVars
  <1>11. Reach'
    <2> SUFFICES ASSUME spoilt' \subseteq {"raced"}, driver', NEW x \in bus'
                 PROVE  \/ x \in bound' /\ \A o \in Threads : task'[o] # Removing(x)
                        \/ \E o \in Threads : task'[o] = Probing(x)
                        \/ \E o \in Threads : Pending(o, <<"attach", x>>)'
      BY DEF Reach, Removing, Probing
    <2>1. CASE x = d
      BY <1>7, <2>1
    <2>2. CASE x # d
      <3>1. \A o \in Threads : Pending(o, <<"attach", x>>) => Pending(o, <<"attach", x>>)'
        BY <1>5, <1>6
      <3> QED  BY <1>3, <2>2, <3>1 DEF BusInv, Reach, taskVars
    <2> QED  BY <2>1, <2>2
  <1> QED  BY <1>4, <1>9, <1>10, <1>11 DEF BusInv

LEMMA DeviceDelStep ==
  ASSUME BusInv, NEW t \in Threads, DeviceDel(t), UNCHANGED sceneVars
  PROVE  BusInv'
  <1> USE DEF sceneVars
  <1>0. PICK d : d = Next1(t)[2]
    OBVIOUS
  <1> DEFINE c == <<"device_del", d>>
  <1>1. /\ todo[t] # <<>> /\ Calls(t, "device_del") /\ Next1(t)[1] = "device_del"
        /\ Advance(t) /\ CallStepFacts(t)
    BY CallStep DEF BusInv, DeviceDel, Calls
  <1>2. t = Owner /\ d \in Devices /\ Next1(t) = c /\ Unwinding(t)
    BY <1>0, <1>1, CallerIs
  <1>3. UNCHANGED <<module, ret, driver, taskVars, held, countVars, file, spoilt>>
        /\ d \in bus /\ bus' = bus \ {d} /\ bus \subseteq Devices /\ driver \in BOOLEAN
    BY <1>0 DEF DeviceDel, BusInv, BusTypes
  <1>4. /\ ModulesSame
        /\ BusTypes' /\ TasksInv' /\ NeedsHeld' /\ Programs' /\ CountStage'
    BY <1>1, <1>2, <1>3, CallKeeps
  <1>5. /\ ~Pending(t, c)'
        /\ \A x : x # c => (Pending(t, x)' <=> Pending(t, x))
    BY <1>1, <1>2, CalledOnce
  <1>6. \A o \in Threads \ {t} : \A x : Pending(o, x)' <=> Pending(o, x)
    BY <1>1, OthersSame
  <1>8. Owner' = Owner /\ Devices' = Devices /\ t \in {"drv", "setup"}
    BY <1>2, <1>4 DEF ModulesSame, Owner, OwnerOf, Devices
  <1>9. BusStage'
    <2>1. ~Building(t)' /\ Unwinding(t)' /\ module'[t] \notin {"unloaded", "live"}
      BY <1>2, <1>4, SamePhase, PhasesDiffer DEF ModulesSame
    <2>2. /\ ~(module[t] = "going" /\ "setup" \in spoilt)
          /\ bus = {x \in Devices : Pending(t, <<"device_del", x>>)}
      BY <1>2, <1>3 DEF BusInv, BusStage
    <2>3. bus' = {x \in Devices : Pending(t, <<"device_del", x>>)'}
      BY <1>2, <1>3, <1>5, <2>2
    <2>5. "setup" \in spoilt' => example' = "instance" /\ "failed" \in spoilt'
      BY <1>3, <1>4 DEF BusInv, BusStage, ModulesSame
    <2>6. t = Owner'
      BY <1>2, <1>8
    <2>7. \A x : Pending(Owner, x)' <=> Pending(t, x)'
      BY <2>6
    <2>8. ~(module'[t] = "going" /\ "setup" \in spoilt')
      BY <1>3, <2>2
    <2> QED  BY <1>8, <2>1, <2>3, <2>5, <2>6, <2>7, <2>8 DEF BusStage
  <1>10. DriverStage'
    <2>1. \A x \in DriverCalls : Pending("drv", x)' <=> Pending("drv", x)
      BY <1>5, <1>6, <1>8 DEF DriverCalls, Threads
    <2>2. todo'["admin"] = todo["admin"]
      BY <1>1, <1>8 DEF CallStepFacts, Threads
    <2> QED
      BY <1>3, <1>4, <2>1, <2>2, DriverFrame DEF BusInv, taskVars
  <1>11. Reach'
    <2> SUFFICES ASSUME spoilt' \subseteq {"raced"}, driver', NEW x \in bus'
                 PROVE  \/ x \in bound' /\ \A o \in Threads : task'[o] # Removing(x)
                        \/ \E o \in Threads : task'[o] = Probing(x)
                        \/ \E o \in Threads : Pending(o, <<"attach", x>>)'
      BY DEF Reach, Removing, Probing
    <2>1. \A o \in Threads : Pending(o, <<"attach", x>>) => Pending(o, <<"attach", x>>)'
      BY <1>5, <1>6
    <2> QED  BY <1>3, <2>1 DEF BusInv, Reach, taskVars
  <1> QED  BY <1>4, <1>9, <1>10, <1>11 DEF BusInv

\* A call that finds nothing to do with the device.
LEMMA SkipsStep ==
  ASSUME BusInv, NEW t \in Threads, Skips(t), UNCHANGED sceneVars
  PROVE  BusInv'
  <1> USE DEF sceneVars
  <1>0. PICK w, d : d = Next1(t)[2] /\ w = Next1(t)[1]
    OBVIOUS
  <1> DEFINE c == <<w, d>>
  <1>1. /\ todo[t] # <<>> /\ Calls(t, w) /\ w \in {"attach", "detach"} /\ task[t] = NoTask
        /\ Advance(t) /\ CallStepFacts(t) /\ lock[d] = NoOne
        /\ w = "attach" => ~MustProbe(d)
        /\ w = "detach" => d \notin bound
    BY <1>0, CallStep DEF BusInv, Skips, Calls
  <1>2. /\ d \in Devices /\ Next1(t) = c
        /\ w = "attach" => t = "admin" \/ Building(t)
        /\ w = "detach" => t = "admin" \/ Unwinding(t)
    BY <1>0, <1>1, CallerIs
  <1>3. UNCHANGED <<module, ret, driver, bus, taskVars, held, countVars, file, spoilt>>
        /\ bus \subseteq Devices /\ driver \in BOOLEAN
    BY DEF Skips, BusInv, BusTypes
  <1>4. /\ ModulesSame
        /\ BusTypes' /\ TasksInv' /\ NeedsHeld' /\ Programs' /\ CountStage'
    BY <1>1, <1>3, CallKeeps
  <1>5. \A x : x # c => (Pending(t, x)' <=> Pending(t, x))
    BY <1>1, <1>2 DEF CallStepFacts
  <1>6. \A o \in Threads \ {t} : \A x : Pending(o, x)' <=> Pending(o, x)
    BY <1>1, OthersSame
  <1>7. BusStage'
    <2>1. \A m \in {"drv", "setup"}, k \in {"device_add", "device_del"}, x \in Devices :
            Pending(m, <<k, x>>)' <=> Pending(m, <<k, x>>)
      BY <1>1, <1>5, <1>6 DEF Threads
    <2> QED  BY <1>3, <1>4, <2>1, BusFrame DEF BusInv
  <1>8. DriverStage'
    <2>1. UNCHANGED <<driver, bound, task, held, spoilt, module, ret, example>>
      BY <1>3 DEF taskVars
    <2>2. \A k \in {"driver_add", "driver_del", "driver_wait", "region", "class"} :
            Pending("drv", <<k, All>>)' <=> Pending("drv", <<k, All>>)
      BY <1>1, <1>5, <1>6 DEF Threads
    <2>3. \A x \in bound : Pending("drv", <<"detach", x>>) => Pending("drv", <<"detach", x>>)'
      <3>1. c \notin {<<"detach", x>> : x \in bound}
        BY <1>1
      <3> QED  BY <1>5, <1>6, <3>1 DEF Threads
    <2>4. todo["admin"] = <<>> => todo'["admin"] = <<>>
      BY <1>1 DEF CallStepFacts, Threads
    <2>5. /\ Building("drv")' <=> Building("drv")
          /\ Unwinding("drv")' <=> Unwinding("drv")
      BY <1>4, SamePhase
    <2>6. (DriverOff' <=> DriverOff) /\ (ProbesOver' <=> ProbesOver)
      BY <2>1, <2>2, <2>5 DEF DriverOff, ProbesOver
    <2>7. OffStage' /\ OnStage'
      BY <2>1, <2>5, <2>6 DEF BusInv, DriverStage, OffStage, OnStage
    <2>8. OverStage'
      BY <2>1, <2>3, <2>4, <2>5, <2>6 DEF BusInv, DriverStage, OverStage, Removing
    <2>9. RegionStage'
      BY <2>1, <2>2, <2>5 DEF BusInv, DriverStage, RegionStage
    <2> QED  BY <2>7, <2>8, <2>9 DEF DriverStage
  <1>9. Reach'
    <2> SUFFICES ASSUME spoilt' \subseteq {"raced"}, driver', NEW x \in bus'
                 PROVE  \/ x \in bound' /\ \A o \in Threads : task'[o] # Removing(x)
                        \/ \E o \in Threads : task'[o] = Probing(x)
                        \/ \E o \in Threads : Pending(o, <<"attach", x>>)'
      BY DEF Reach, Removing, Probing
    <2>1. CASE c = <<"attach", x>>
      <3>1. x = d /\ x \in bound
        BY <1>1, <1>3, <2>1 DEF MustProbe
      <3>2. \A o \in Threads : task[o] # Removing(x)
        <4> SUFFICES ASSUME NEW o \in Threads, task[o] = Removing(x)  PROVE FALSE
          OBVIOUS
        <4>1. task[o] # NoTask /\ task[o].dev = x
          BY DEF Removing, NoTask
        <4>2. lock[x] = o /\ o # NoOne
          BY <4>1 DEF BusInv, TasksInv, TaskInv, Threads, NoOne
        <4> QED  BY <1>1, <3>1, <4>2
      <3> QED  BY <1>3, <3>1, <3>2 DEF taskVars
    <2>2. CASE c # <<"attach", x>>
      <3>1. \A o \in Threads : Pending(o, <<"attach", x>>) => Pending(o, <<"attach", x>>)'
        BY <1>5, <1>6, <2>2
      <3> QED  BY <1>3, <3>1 DEF BusInv, Reach, taskVars
    <2> QED  BY <2>1, <2>2
  <1> QED  BY <1>4, <1>7, <1>8, <1>9 DEF BusInv

\* alloc_chrdev_region, class_create and their opposites touch no device.
LEMMA RegionCall ==
  ASSUME BusInv, NEW t \in Threads, NEW w \in {"region", "class"}, Calls(t, w), Advance(t),
         UNCHANGED <<sceneVars, module, ret, driver, bus, taskVars, countVars, file, spoilt>>,
         Building(t) => held' = held \cup {<<w, All>>},
         Unwinding(t) => held' = held \ {<<w, All>>},
         NeedsHeld'
  PROVE  BusInv'
  <1> USE DEF sceneVars, taskVars
  <1> DEFINE c == <<w, All>>
  <1>1. todo[t] # <<>> /\ Next1(t)[1] = w
    BY DEF Calls
  <1>2. CallStepFacts(t)
    BY <1>1, CallStep DEF BusInv
  <1>3. ModulesSame /\ example \in {"platform", "instance"}
    BY DEF ModulesSame, BusInv, BusTypes
  <1>4. t = "drv" /\ Next1(t) = c /\ example = "instance"
    BY <1>1, <1>2, CallerIs
  <1>5. Building(t) \/ Unwinding(t)
    <2>1. Program("drv") /\ todo["drv"] # <<>> /\ module["drv"] \in {"unloaded", "coming", "live", "going"}
      BY <1>1, <1>4 DEF BusInv, BusTypes, Programs, Threads
    <2>2. module["drv"] \in {"coming", "going"}
      BY <2>1 DEF Program
    <2> QED  BY <1>4, <2>2 DEF Unwinding
  <1>6. /\ ~Pending("drv", c)'
        /\ \A x : x # c => (Pending("drv", x)' <=> Pending("drv", x))
    BY <1>1, <1>2, <1>4, <1>5, CalledOnce
  <1>7. \A o \in Threads \ {t} : \A x : Pending(o, x)' <=> Pending(o, x)
    BY <1>2, OthersSame
  <1>8. /\ Building("drv")' <=> Building("drv")
        /\ Unwinding("drv")' <=> Unwinding("drv")
        /\ ~(Building("drv") /\ Unwinding("drv"))
        /\ Devices' = Devices
    BY <1>3, SamePhase, PhasesDiffer DEF Devices
  <1>9. \A d \in Devices : HeldOf(d)' = HeldOf(d)
    <2> SUFFICES ASSUME NEW d \in Devices  PROVE HeldOf(d)' = HeldOf(d)
      OBVIOUS
    <2>1. \A k : <<k, d>> # c
      BY <1>3, DevicesAre
    <2>2. \A k : <<k, d>> \in held' <=> <<k, d>> \in held
      BY <1>4, <1>5, <2>1
    <2> QED  BY <2>2 DEF HeldOf, Kinds
  <1>10. BusTypes'
    <2>1. held' \subseteq (Kinds \X Devices) \cup ({"region", "class"} \X {All})
      BY <1>4, <1>5 DEF BusInv, BusTypes
    <2>2. example' # "platform"
      BY <1>4
    <2> QED
      BY <1>2, <2>1, <2>2 DEF BusInv, BusTypes, CallStepFacts, Devices, Kinds, countVars
  <1>11. TasksInv' /\ Programs' /\ CountStage'
    BY <1>1, <1>3, <1>9, TasksFrame, ProgramsAdvance, CountFrame DEF BusInv
  <1>12. BusStage'
    BY <1>3, <1>4, <1>6, <1>7, BusFrame DEF BusInv, Threads
  <1>13. Reach'
    BY <1>4, <1>6, <1>7, ReachFrame DEF BusInv
  <1>14. (DriverOff' <=> DriverOff) /\ (ProbesOver' <=> ProbesOver)
    BY <1>6, <1>8 DEF DriverOff, ProbesOver
  <1>15. OffStage' /\ OnStage'
    BY <1>8, <1>14 DEF BusInv, DriverStage, OffStage, OnStage
  <1>16. OverStage'
    <2>1. \A d \in bound : Pending("drv", <<"detach", d>>)' <=> Pending("drv", <<"detach", d>>)
      BY <1>6
    <2>2. todo'["admin"] = todo["admin"]
      BY <1>2, <1>4 DEF CallStepFacts, Threads
    <2> QED  BY <1>8, <1>14, <2>1, <2>2 DEF BusInv, DriverStage, OverStage, Removing
  <1>17. RegionStage'
    <2> SUFFICES ASSUME NEW r \in {"region", "class"}
                 PROVE  <<r, All>> \in held' <=>
                          \/ module'["drv"] = "live"
                          \/ Building("drv")' /\ ~Pending("drv", <<r, All>>)'
                          \/ Unwinding("drv")' /\ Pending("drv", <<r, All>>)'
      BY DEF RegionStage
    <2>1. module'["drv"] # "live"
      BY <1>4, <1>5, PhasesDiffer
    <2>2. CASE r = w
      BY <1>4, <1>5, <1>6, <1>8, <2>1, <2>2
    <2>3. CASE r # w
      <3>1. <<r, All>> \in held' <=> <<r, All>> \in held
        BY <1>4, <1>5, <2>3
      <3> QED  BY <1>4, <1>6, <1>8, <2>3, <3>1 DEF BusInv, DriverStage, RegionStage
    <2> QED  BY <2>2, <2>3
  <1> QED  BY <1>10, <1>11, <1>12, <1>13, <1>15, <1>16, <1>17 DEF BusInv, DriverStage

LEMMA AcquireStep ==
  ASSUME BusInv, NEW t \in Threads, Acquire(t), UNCHANGED sceneVars
  PROVE  BusInv'
  <1> USE DEF sceneVars
  <1>1. PICK w \in {"region", "class"} : Calls(t, w) /\ held' = held \cup {<<w, All>>}
    BY DEF Acquire
  <1>2. ~Unwinding(t)
    <2>1. CallStepFacts(t) /\ todo[t] # <<>> /\ Next1(t)[1] = w
      BY <1>1, CallStep DEF BusInv, Acquire, Calls
    <2>2. t = "drv"
      BY <2>1, CallerIs
    <2> QED  BY <2>2 DEF Acquire, Unwinding, Building
  <1>3. NeedsHeld'
    <2>1. Needs(w) = {}
      BY DEF Needs
    <2> QED  BY <1>1, <2>1 DEF BusInv, NeedsHeld
  <1> QED  BY <1>1, <1>2, <1>3, RegionCall DEF Acquire

\* When the class goes, the probes are over and no device is bound.
LEMMA ReleaseStep ==
  ASSUME BusInv, NEW t \in Threads, Release(t), UNCHANGED sceneVars
  PROVE  BusInv'
  <1> USE DEF sceneVars
  <1>1. PICK w \in {"region", "class"} : Calls(t, w) /\ held' = held \ {<<w, All>>}
    BY DEF Release
  <1>2. CallStepFacts(t) /\ todo[t] # <<>> /\ Next1(t)[1] = w /\ task[t] = NoTask
    BY <1>1, CallStep DEF BusInv, Release, Calls
  <1>3. t = "drv" /\ Next1(t) = <<w, All>> /\ example = "instance"
    BY <1>2, CallerIs
  <1>4. Unwinding(t) /\ ~Building(t)
    <2>1. Program("drv") /\ module["drv"] \in {"unloaded", "coming", "live", "going"}
      BY <1>3 DEF BusInv, BusTypes, Programs, Threads
    <2>2. module["drv"] \in {"coming", "going"}
      BY <1>2, <1>3, <2>1 DEF Program
    <2> QED  BY <1>3, <2>2 DEF Unwinding, Building, Release
  <1>5. \A y \in ToSet(todo'[t]) : y[1] = "region"
    <2>1. \A y \in ToSet(todo'[t]) : << <<w, All>>, y>> \in DownOrder(example)
      BY <1>2, <1>3, <1>4 DEF CallStepFacts
    <2> QED  BY <2>1 DEF DownOrder
  <1>6. \A x : Pending("drv", x) => x[1] \in {"region", "class"}
    BY <1>2, <1>3, <1>5 DEF CallStepFacts, Pending
  <1>7. ProbesOver
    BY <1>3, <1>4, <1>6 DEF ProbesOver, DriverOff
  <1>8. bound = {} /\ \A o \in Threads : task[o].kind \in {"none", "remove"}
    <2>1. \A d \in bound : Pending("drv", <<"detach", d>>) \/ task["drv"] = Removing(d)
      BY <1>7 DEF BusInv, DriverStage, OverStage
    <2>2. bound = {}
      <3> SUFFICES ASSUME NEW d \in bound  PROVE FALSE
        OBVIOUS
      <3>1. task["drv"] # Removing(d)
        BY <1>2, <1>3 DEF NoTask, Removing
      <3>2. <<"detach", d>>[1] \in {"region", "class"}
        BY <1>6, <2>1, <3>1
      <3> QED  BY <3>2
    <2>3. \A o \in Threads : task[o].kind \in {"none", "probe", "undo", "remove"}
      BY DEF BusInv, BusTypes, Tasks
    <2> QED  BY <1>7, <2>2, <2>3 DEF BusInv, DriverStage, OverStage
  <1>9. \A d \in Devices : HeldOf(d) = {}
    <2> SUFFICES ASSUME NEW d \in Devices  PROVE HeldOf(d) = {}
      OBVIOUS
    <2>1. \A o \in Threads : task[o].kind # "remove"
      BY <1>8 DEF BusInv, TasksInv, TaskInv
    <2>2. \A o \in Threads : task[o].dev # d
      <3>1. All \notin Devices
        BY DevicesAre DEF BusInv, BusTypes
      <3>2. \A o \in Threads : task[o] = NoTask
        BY <1>8, <2>1 DEF BusInv, TasksInv, TaskInv
      <3> QED  BY <3>1, <3>2 DEF NoTask
    <2>3. lock[d] = NoOne
      BY <2>2 DEF BusInv, TasksInv, DeviceInv, BusTypes
    <2> QED  BY <1>8, <2>3 DEF BusInv, TasksInv, DeviceInv
  <1>10. NeedsHeld'
    <2>1. held \subseteq {"region", "class"} \X {All}
      BY <1>9 DEF BusInv, BusTypes, HeldOf
    <2>2. \A r \in held' : Needs(r[1]) = {}
      BY <1>1, <2>1 DEF Needs
    <2> QED  BY <2>2 DEF NeedsHeld
  <1> QED  BY <1>1, <1>4, <1>10, RegionCall DEF Release

\* Before the driver is registered no device has it, and nobody looks for it.
LEMMA NobodyBound ==
  ASSUME BusInv, DriverOff, ~Unwinding("drv")
  PROVE  /\ bound = {} /\ ~driver /\ ProbesOver
         /\ todo["admin"] = <<>> /\ task["admin"] = NoTask
         /\ \A t \in Threads : task[t] = NoTask
         /\ \A d \in Devices : HeldOf(d) = {}
  <1>1. ProbesOver /\ bound = {} /\ ~driver
    BY DEF BusInv, DriverStage, OffStage, OverStage, ProbesOver
  <1>2. \A t \in Threads : task[t].kind \notin {"probe", "undo", "remove"}
    BY <1>1 DEF BusInv, DriverStage, OverStage, TasksInv, TaskInv
  <1>3. \A t \in Threads : task[t].kind = "none"
    BY <1>2 DEF BusInv, BusTypes, Tasks
  <1>4. \A t \in Threads : task[t] = NoTask
    BY <1>3 DEF BusInv, TasksInv, TaskInv
  <1>5. All \notin Devices
    BY DevicesAre DEF BusInv, BusTypes
  <1>6. ASSUME NEW d \in Devices  PROVE HeldOf(d) = {}
    <2>1. lock[d] = NoOne
      BY <1>4, <1>5 DEF BusInv, TasksInv, DeviceInv, BusTypes, NoTask
    <2> QED  BY <1>1, <2>1 DEF BusInv, TasksInv, DeviceInv
  <1> QED  BY <1>1, <1>4, <1>6 DEF BusInv, DriverStage, OverStage

\* What is left to call when a call of init has failed.
LEMMA FailingCall ==
  ASSUME BusInv, NEW t \in Threads, CallFails(t), UNCHANGED sceneVars
  PROVE  LET c == Next1(t) IN
         /\ t \in Modules /\ t \in {"drv", "setup"} /\ Building(t)
         /\ c \in UpCalls(example) /\ c[1] \in CallsOf(example, t)
         /\ c[1] \in {"region", "class", "driver_add", "device_add"}
         /\ Pending(t, c)
         /\ \A x : Pending(t, x) => x = c \/ <<c, x>> \in UpOrder(example)
         /\ \A f \in UpFollows(example) : f[1] = c => Pending(t, f[2])
         /\ todo' = [todo EXCEPT ![t] = FailedOf(example, t, c).todo]
         /\ ret' = [ret EXCEPT ![t] = FailedOf(example, t, c).ret]
         /\ task[t] = NoTask
  <1>1. /\ module[t] = "coming" /\ ret[t] = "ok" /\ todo[t] # <<>> /\ task[t] = NoTask
        /\ Next1(t)[1] \in {"region", "class", "driver_add", "device_add"}
        /\ todo' = [todo EXCEPT ![t] = FailedOf(example, t, Next1(t)).todo]
        /\ ret' = [ret EXCEPT ![t] = FailedOf(example, t, Next1(t)).ret]
    BY DEF CallFails, Calls
  <1>2. t \in Modules /\ t \in {"drv", "setup"}
    <2>1. Program(t) /\ example \in {"platform", "instance"}
      BY DEF BusInv, BusTypes, Programs
    <2> QED  BY <1>1, <2>1, DevicesAre DEF Program
  <1>3. Building(t)
    <2>1. Next1(t)[1] \in CallsOf(example, t) /\ (Unwinding(t) => Next1(t) \in DownCalls(example))
      BY <1>1, NextCall DEF BusInv
    <2>2. CASE t = "drv"
      BY <1>1, <2>2 DEF Building
    <2>3. CASE t = "setup"
      <3>1. Next1(t)[1] = "device_add"
        BY <1>1, <2>1, <2>3 DEF CallsOf
      <3>2. ~Unwinding(t)
        BY <2>1, <3>1 DEF DownCalls
      <3> QED  BY <1>1, <3>2 DEF Unwinding
    <2> QED  BY <1>2, <2>2, <2>3
  <1> QED  BY <1>1, <1>2, <1>3, NextCall DEF BusInv

LEMMA EmptySet ==
  ASSUME NEW S, NEW s \in Seq(S), ToSet(s) = {}
  PROVE  s = <<>>
  <1>1. DOMAIN s = 1..Len(s) /\ Len(s) \in Nat
    OBVIOUS
  <1>2. \A i \in DOMAIN s : s[i] \in ToSet(s)
    BY DEF ToSet
  <1>3. DOMAIN s = {}
    BY <1>2
  <1>4. 1 \notin 1..Len(s)
    BY <1>1, <1>3
  <1>5. Len(s) = 0
    BY <1>1, <1>4
  <1> QED  BY <1>5, EmptySeq

FailedFacts(t, c) == FailedLike(example, t, c, todo'[t], ret'[t])

LEMMA CallFailsStep ==
  ASSUME BusInv, NEW t \in Threads, CallFails(t), UNCHANGED sceneVars
  PROVE  BusInv'
  <1> USE DEF sceneVars, taskVars
  <1>0. PICK c : c = Next1(t)
    OBVIOUS
  <1>1. /\ t \in Modules /\ t \in {"drv", "setup"} /\ Building(t)
        /\ c \in UpCalls(example) /\ c[1] \in CallsOf(example, t)
        /\ c[1] \in {"region", "class", "driver_add", "device_add"}
        /\ Pending(t, c)
        /\ \A x : Pending(t, x) => x = c \/ <<c, x>> \in UpOrder(example)
        /\ \A f \in UpFollows(example) : f[1] = c => Pending(t, f[2])
        /\ todo' = [todo EXCEPT ![t] = FailedOf(example, t, c).todo]
        /\ ret' = [ret EXCEPT ![t] = FailedOf(example, t, c).ret]
        /\ task[t] = NoTask
    BY <1>0, FailingCall
  <1>2. FailedFacts(t, c)
    <2>1. /\ todo'[t] = FailedOf(example, t, c).todo
          /\ ret'[t] = FailedOf(example, t, c).ret
      BY <1>1 DEF BusInv, BusTypes
    <2>2. /\ example \in {"platform", "instance"} /\ t \in ModulesOf[example]
          /\ c \in UpCalls(example) /\ c[1] \in CallsOf(example, t) /\ c[1] # "attach"
      BY <1>1 DEF BusInv, BusTypes, Modules
    <2>3. FailedLike(example, t, c, FailedOf(example, t, c).todo,
                     FailedOf(example, t, c).ret)
      BY <2>2, FailedPrograms
    <2> QED  BY <2>1, <2>3 DEF FailedFacts
  <1>3. /\ \A o \in Threads \ {t} : todo'[o] = todo[o] /\ ret'[o] = ret[o]
        /\ todo' \in [Threads -> Seq(AllCalls(example))]
        /\ ret' \in [Threads -> {"ok", "error"}]
    <2>1. todo'[t] \in Seq(AllCalls(example))
      BY <1>2, SeqWithin DEF FailedFacts, FailedLike, DownProgram, AllCalls
    <2> QED  BY <1>1, <1>2, <2>1 DEF FailedFacts, FailedLike, BusInv, BusTypes
  <1>4. /\ UNCHANGED <<example, scene, module, driver, bus, bound, lock, task, rest,
                       held, total, loaded, file>>
        /\ spoilt' = spoilt \cup (IF t = "setup" THEN {"failed", "setup"} ELSE {"failed"})
        /\ module[t] = "coming" /\ example \in {"platform", "instance"}
    BY DEF CallFails, Fails, countVars, BusInv, BusTypes
  <1>5. /\ Devices' = Devices /\ Modules' = Modules /\ Kinds' = Kinds /\ Owner' = Owner
        /\ t = "setup" => example = "instance"
    BY <1>1, <1>4, DevicesAre DEF Devices, Modules, Kinds, Owner
  <1>6. /\ \A o \in Threads \ {t} : PhaseSame(o)
        /\ \A o \in Threads \ {t} : \A x : Pending(o, x)' <=> Pending(o, x)
    <2>1. \A o \in Threads \ {t} :
            o = "setup" => ("setup" \in spoilt' <=> "setup" \in spoilt)
      BY <1>4
    <2> QED  BY <1>3, <1>4, <2>1 DEF PhaseSame, Building, Unwinding, Pending
  <1>7. /\ Unwinding(t)' \/ Building(t)'
        /\ ~(Building(t)' /\ Unwinding(t)') /\ ~Unwinding(t)
        /\ Building(t)' <=> example = "instance" /\ t = "drv" /\ c[1] = "driver_add"
    <2>1. Unwinding(t)' <=> ~Building(t)'
      BY <1>4 DEF Unwinding
    <2>2. t = "setup" => ~Building(t)'
      BY <1>4 DEF Building
    <2>3. t = "drv" => (Building(t)' <=> ret'[t] = "ok")
      BY <1>4 DEF Building
    <2>4. t = "drv" => (ret'[t] = "ok" <=> example = "instance" /\ c[1] = "driver_add")
      BY <1>2, <1>4 DEF FailedFacts, FailedLike
    <2> QED  BY <1>1, <2>1, <2>2, <2>3, <2>4, PhasesDiffer
  <1>8. BusTypes'
    BY <1>3, <1>4, <1>5 DEF BusInv, BusTypes
  <1>9. TasksInv' /\ NeedsHeld' /\ CountStage'
    BY <1>4, TasksFrame, HeldFrame, NeedsFrame, CountFrame DEF BusInv, countVars
  <1>10. Reach'
    BY <1>4 DEF Reach
  <1>11. Programs'
    <2>1. ASSUME NEW o \in Threads \ {t}  PROVE Program(o)'
      BY <1>3, <1>4, <1>5, <1>6 DEF BusInv, Programs, Program, PhaseSame
    <2>2. Program(t)'
      <3>1. Building(t)' => UpProgram(example, todo'[t])
        <4> SUFFICES ASSUME Building(t)'  PROVE UpProgram(example, todo'[t])
          OBVIOUS
        <4>1. ToSet(todo'[t]) = {} /\ todo'[t] \in Seq(DownCalls(example))
          BY <1>2, <1>7 DEF FailedFacts, FailedLike, DownProgram
        <4>2. todo'[t] = <<>>
          BY <4>1, EmptySet
        <4> QED  BY <4>2, EmptyFacts DEF UpProgram
      <3> QED  BY <1>1, <1>2, <1>4, <1>5, <3>1 DEF Program, FailedFacts, FailedLike
    <2>3. todo'["admin"] = todo["admin"] /\ ret'["setup"] = "ok"
      BY <1>1, <1>2, <1>3 DEF Threads, FailedFacts, FailedLike, BusInv, Programs
    <2> QED  BY <1>4, <2>1, <2>2, <2>3 DEF BusInv, Programs
  <1>12. BusStage'
    <2>1. CASE t # Owner
      <3>1. t = "drv" /\ example = "instance" /\ Owner = "setup"
        BY <1>1, <1>4, <1>5, <2>1, DevicesAre DEF Owner, OwnerOf
      <3>2. PhaseSame("setup") /\ \A x : Pending("setup", x)' <=> Pending("setup", x)
        BY <1>6, <3>1 DEF Threads
      <3> QED  BY <1>4, <3>1, <3>2, OwnerFrame DEF BusInv
    <2>2. CASE t = Owner
      <3>1. bus = {d \in Devices : ~Pending(t, <<"device_add", d>>)}
        BY <1>1, <2>2 DEF BusInv, BusStage
      <3>2. bus' = {d \in Devices : Pending(t, <<"device_del", d>>)'}
        <4>1. CASE example = "platform"
          <5>1. t = "drv" /\ Devices = {0}
            BY <1>1, <1>5, <4>1, DevicesAre
          <5>2. Pending(t, <<"device_add", 0>>)
            <6>1. CASE c[1] = "driver_add"
              <7>1. <<c, <<"device_add", 0>>>> \in UpFollows(example)
                BY <1>1, <4>1, <5>1, <6>1 DEF UpFollows, UpCalls, Devices
              <7> QED  BY <1>1, <7>1
            <6>2. CASE c[1] = "device_add"
              <7>1. c = <<"device_add", 0>>
                BY <1>1, <5>1, <6>2 DEF UpCalls, Devices
              <7> QED  BY <1>1, <7>1
            <6> QED  BY <1>1, <4>1, <5>1, <6>1, <6>2 DEF CallsOf
          <5>3. bus = {}
            BY <3>1, <5>1, <5>2
          <5> QED  BY <1>2, <1>4, <5>1, <5>3 DEF FailedFacts, FailedLike, Pending, Devices
        <4>2. CASE example = "instance"
          <5>1. t = "setup" /\ Devices = {0, 1}
            BY <2>2, <4>2, DevicesAre DEF Owner, OwnerOf
          <5>2. c[1] = "device_add"
            BY <1>1, <5>1 DEF CallsOf
          <5>3. c = <<"device_add", 0>> \/ c = <<"device_add", 1>>
            BY <1>1, <5>1, <5>2 DEF UpCalls, Devices
          <5>4. CASE c = <<"device_add", 0>>
            <6>1. <<c, <<"device_add", 1>>>> \in UpFollows(example)
              BY <5>1, <5>4 DEF UpFollows, UpCalls, Devices
            <6>2. Pending(t, <<"device_add", 1>>)
              BY <1>1, <6>1
            <6>3. bus = {}
              BY <1>1, <3>1, <5>1, <5>4, <6>2
            <6> QED  BY <1>2, <1>4, <5>4, <6>3 DEF FailedFacts, FailedLike, Pending, Devices
          <5>5. CASE c = <<"device_add", 1>>
            <6>1. <<c, <<"device_add", 0>>>> \notin UpOrder(example)
              BY <5>5 DEF UpOrder
            <6>2. ~Pending(t, <<"device_add", 0>>)
              BY <1>1, <5>5, <6>1
            <6>3. bus = {0}
              BY <1>1, <3>1, <5>1, <5>5, <6>2
            <6> QED  BY <1>2, <1>4, <5>1, <5>5, <6>3 DEF FailedFacts, FailedLike, Pending, Devices
          <5> QED  BY <5>3, <5>4, <5>5
        <4> QED  BY <1>4, <4>1, <4>2
      <3>3. ~Building(t)' /\ Unwinding(t)' /\ module'[t] = "coming"
        BY <1>4, <1>7, <2>2 DEF Owner, OwnerOf
      <3>4. "setup" \in spoilt' => example' = "instance" /\ "failed" \in spoilt'
        BY <1>4, <1>5 DEF BusInv, BusStage
      <3>5. t = Owner'
        BY <1>5, <2>2
      <3>6. \A x : Pending(Owner, x)' <=> Pending(t, x)'
        BY <3>5
      <3> QED  BY <1>5, <3>2, <3>3, <3>4, <3>5, <3>6 DEF BusStage, Building, Unwinding
    <2> QED  BY <2>1, <2>2
  <1>13. DriverStage'
    <2>1. CASE t = "setup"
      <3>1. PhaseSame("drv") /\ \A x : Pending("drv", x)' <=> Pending("drv", x)
        BY <1>6, <2>1 DEF Threads
      <3>2. todo'["admin"] = todo["admin"]
        BY <1>3, <2>1 DEF Threads
      <3> QED  BY <1>4, <3>1, <3>2, StageFrame DEF BusInv
    <2>2. CASE t = "drv" /\ c[1] \in {"driver_add", "region", "class"}
      <3>0. c = <<c[1], All>>
        BY <1>1, <2>2 DEF UpCalls
      <3>1. Pending("drv", <<"driver_add", All>>)
        <4>1. CASE c[1] = "driver_add"
          BY <1>1, <2>2, <3>0, <4>1
        <4>2. CASE c[1] \in {"region", "class"}
          <5>1. <<c, <<"driver_add", All>>>> \in UpFollows(example)
            BY <1>1, <4>2 DEF UpFollows, UpCalls
          <5> QED  BY <1>1, <2>2, <5>1
        <4> QED  BY <2>2, <4>1, <4>2
      <3>2. DriverOff /\ ~Unwinding("drv")
        BY <1>1, <1>7, <2>2, <3>1 DEF DriverOff
      <3>3. /\ bound = {} /\ ~driver /\ todo["admin"] = <<>>
            /\ \A o \in Threads : task[o] = NoTask
        BY <3>2, NobodyBound
      <3>4. /\ bound' = {} /\ ~driver' /\ todo'["admin"] = <<>>
            /\ \A o \in Threads : task'[o] = NoTask
        BY <1>3, <1>4, <2>2, <3>3 DEF Threads
      <3>5. OffStage' /\ OnStage' /\ OverStage'
        BY <1>4, <3>4 DEF OffStage, OnStage, OverStage, NoTask, Threads
      <3>6. RegionStage'
        <4> SUFFICES ASSUME example = "instance", NEW r \in {"region", "class"}
                     PROVE  <<r, All>> \in held <=>
                              \/ Building("drv")' /\ ~Pending("drv", <<r, All>>)'
                              \/ Unwinding("drv")' /\ Pending("drv", <<r, All>>)'
          BY <1>4, <2>2 DEF RegionStage
        <4>1. <<r, All>> \in held <=> ~Pending("drv", <<r, All>>)
          BY <1>1, <1>7, <2>2, PhasesDiffer DEF BusInv, DriverStage, RegionStage
        <4>2. CASE c[1] = "driver_add"
          <5>1. <<c, <<r, All>>>> \notin UpOrder(example)
            BY <3>0, <4>2 DEF UpOrder
          <5>2. ~Pending("drv", <<r, All>>)
            BY <1>1, <2>2, <3>0, <4>2, <5>1
          <5>3. ~Pending("drv", <<r, All>>)' /\ Building("drv")'
            BY <1>2, <1>7, <2>2, <4>2 DEF FailedFacts, FailedLike, Pending, Devices
          <5> QED  BY <4>1, <5>2, <5>3
        <4>3. CASE c[1] = "class"
          <5>1. <<c, <<"region", All>>>> \notin UpOrder(example)
            BY <3>0, <4>3 DEF UpOrder
          <5>2. ~Pending("drv", <<"region", All>>) /\ Pending("drv", <<"class", All>>)
            BY <1>1, <2>2, <3>0, <4>3, <5>1
          <5>3. /\ Pending("drv", <<r, All>>)' <=> r = "region"
                /\ Unwinding("drv")' /\ ~Building("drv")'
            BY <1>2, <1>7, <2>2, <4>3 DEF FailedFacts, FailedLike, Pending, Devices
          <5> QED  BY <4>1, <5>2, <5>3
        <4>4. CASE c[1] = "region"
          <5>1. <<c, <<"class", All>>>> \in UpFollows(example)
            BY <1>1, <4>4 DEF UpFollows, UpCalls
          <5>2. Pending("drv", <<r, All>>)
            BY <1>1, <2>2, <3>0, <4>4, <5>1
          <5>3. /\ ~Pending("drv", <<r, All>>)'
                /\ Unwinding("drv")' /\ ~Building("drv")'
            BY <1>2, <1>7, <2>2, <4>4 DEF FailedFacts, FailedLike, Pending, Devices
          <5> QED  BY <4>1, <5>2, <5>3
        <4> QED  BY <2>2, <4>2, <4>3, <4>4
      <3> QED  BY <3>5, <3>6 DEF DriverStage
    <2>3. CASE t = "drv" /\ c[1] = "device_add"
      <3>1. example = "platform"
        BY <1>1, <1>4, <2>3 DEF CallsOf
      <3>2. /\ Pending("drv", <<"driver_del", All>>)'
            /\ Unwinding("drv")' /\ ~Building("drv")' /\ module'["drv"] = "coming"
        BY <1>2, <1>4, <1>7, <2>3, <3>1 DEF FailedFacts, FailedLike, Pending, Devices
      <3>3. ~DriverOff'
        BY <3>2 DEF DriverOff
      <3> QED
        BY <1>4, <3>1, <3>3
        DEF DriverStage, OffStage, OnStage, OverStage, RegionStage, ProbesOver
    <2> QED  BY <1>1, <2>1, <2>2, <2>3
  <1> QED  BY <1>8, <1>9, <1>10, <1>11, <1>12, <1>13 DEF BusInv

-----------------------------------------------------------------------------
(* Modules                                                                 *)

LEMMA OthersKeep ==
  ASSUME BusInv, NEW m, UNCHANGED <<example, spoilt>>,
         \A o \in Threads \ {m} :
           module'[o] = module[o] /\ todo'[o] = todo[o] /\ ret'[o] = ret[o]
  PROVE  \A o \in Threads \ {m} :
           /\ PhaseSame(o) /\ Program(o)'
           /\ \A x : Pending(o, x)' <=> Pending(o, x)
  BY DEF BusInv, Programs, Program, PhaseSame, Building, Unwinding, Pending, Modules

\* What a module that is loaded or unloaded does not touch.
LEMMA ModuleKeeps ==
  ASSUME BusInv, UNCHANGED <<sceneVars, driver, bus, taskVars, held, loaded, file, spoilt>>
  PROVE  /\ TasksInv' /\ NeedsHeld'
         /\ Devices' = Devices /\ Modules' = Modules /\ Kinds' = Kinds /\ Owner' = Owner
         /\ total' = total => CountStage'
  <1> USE DEF sceneVars, taskVars
  <1>1. TasksInv' /\ NeedsHeld'
    BY TasksFrame, HeldFrame, NeedsFrame DEF BusInv
  <1>2. total' = total => CountStage'
    BY CountFrame DEF BusInv, countVars
  <1> QED  BY <1>1, <1>2 DEF Devices, Modules, Kinds, Owner

LEMMA InsmodStep ==
  ASSUME BusInv, NEW m \in Modules, Insmod(m), UNCHANGED sceneVars
  PROVE  BusInv'
  <1> USE DEF sceneVars, taskVars
  <1>1. /\ example \in {"platform", "instance"} /\ m \in {"drv", "setup"}
        /\ m \in Threads /\ m \in ModulesOf[example]
        /\ m = "setup" => example = "instance"
    BY DevicesAre DEF BusInv, BusTypes, Modules, Threads
  <1>2. /\ module' = [module EXCEPT ![m] = "coming"] /\ module[m] = "unloaded"
        /\ todo' = [todo EXCEPT ![m] = InitOf[example][m]]
        /\ ret' = [ret EXCEPT ![m] = "ok"]
        /\ UNCHANGED <<example, scene, driver, bus, bound, lock, task, rest, held,
                       loaded, file, spoilt>>
        /\ total' = IF m = "drv" THEN 0 ELSE total
    BY DEF Insmod
  <1>3. /\ UpProgram(example, todo'[m])
        /\ \A c \in ToSet(todo'[m]) : c[1] \in CallsOf(example, m)
        /\ m = "drv" => Pending(m, <<"driver_add", All>>)'
        /\ m = "drv" /\ example = "instance" =>
             Pending(m, <<"region", All>>)' /\ Pending(m, <<"class", All>>)'
        /\ m = Owner => \A d \in Devices : Pending(m, <<"device_add", d>>)'
    <2>1. todo'[m] = InitOf[example][m]
      BY <1>1, <1>2 DEF BusInv, BusTypes
    <2> QED  BY <1>1, <2>1, InitPrograms DEF Pending, Owner, Devices
  <1>4. \A o \in Threads \ {m} :
          /\ module'[o] = module[o] /\ todo'[o] = todo[o] /\ ret'[o] = ret[o]
          /\ PhaseSame(o) /\ Program(o)'
          /\ \A x : Pending(o, x)' <=> Pending(o, x)
    <2>1. \A o \in Threads \ {m} :
            module'[o] = module[o] /\ todo'[o] = todo[o] /\ ret'[o] = ret[o]
      BY <1>2 DEF BusInv, BusTypes
    <2> QED  BY <1>2, <2>1, OthersKeep
  <1>5. /\ module'[m] = "coming" /\ ret'[m] = "ok"
        /\ todo' \in [Threads -> Seq(AllCalls(example))]
    <2>1. todo'[m] \in Seq(AllCalls(example))
      BY <1>3, SeqWithin DEF UpProgram, AllCalls
    <2> QED  BY <1>1, <1>2, <2>1 DEF BusInv, BusTypes
  <1>6. /\ TasksInv' /\ NeedsHeld'
        /\ Devices' = Devices /\ Modules' = Modules /\ Kinds' = Kinds /\ Owner' = Owner
        /\ total' = total => CountStage'
    BY <1>2, ModuleKeeps
  <1>7. Building(m)' /\ ~Unwinding(m)' /\ ~Building(m) /\ ~Unwinding(m)
    <2>1. m = "setup" => Owner = "setup" /\ "setup" \notin spoilt
      BY <1>1, <1>2 DEF Owner, OwnerOf, BusInv, BusStage
    <2> QED  BY <1>2, <1>5, <2>1 DEF Building, Unwinding
  <1>8. todo[m] = <<>> /\ \A x : ~Pending(m, x)
    <2>1. todo[m] = <<>>
      BY <1>1, <1>2 DEF BusInv, Programs, Program
    <2> QED  BY <2>1, EmptyFacts DEF Pending
  <1>9. BusTypes'
    BY <1>1, <1>2, <1>5, <1>6 DEF BusInv, BusTypes
  <1>10. Programs'
    <2>1. Program(m)'
      BY <1>1, <1>2, <1>3, <1>5, <1>6, <1>7 DEF Program
    <2>2. todo'["admin"] = todo["admin"]
      BY <1>1, <1>4 DEF Threads
    <2>3. ret'["setup"] = "ok"
      BY <1>1, <1>4, <1>5 DEF Threads, BusInv, Programs
    <2> QED  BY <1>2, <1>4, <2>1, <2>2, <2>3 DEF BusInv, Programs
  <1>11. Reach'
    <2>1. \A t \in Threads, d \in Devices :
            Pending(t, <<"attach", d>>) => Pending(t, <<"attach", d>>)'
      BY <1>4, <1>8
    <2> QED  BY <1>2, <2>1, ReachFrame DEF BusInv
  <1>12. BusStage'
    <2>1. CASE m = Owner
      <3>1. bus = {} /\ "setup" \notin spoilt
        BY <1>2, <2>1 DEF BusInv, BusStage
      <3>2. m = Owner'
        BY <1>6, <2>1
      <3>3. \A x : Pending(Owner, x)' <=> Pending(m, x)'
        BY <3>2
      <3>4. (Building(Owner)' <=> Building(m)') /\ (Unwinding(Owner)' <=> Unwinding(m)')
        BY <3>2 DEF Building, Unwinding
      <3> QED
        BY <1>2, <1>3, <1>5, <1>6, <1>7, <2>1, <3>1, <3>2, <3>3, <3>4 DEF BusStage
    <2>2. CASE m # Owner
      <3>1. PICK o \in {"drv", "setup"} : o = Owner /\ o \in Threads \ {m}
        BY <2>2 DEF Owner, OwnerOf, Threads
      <3> QED  BY <1>2, <1>4, <2>2, <3>1, OwnerFrame DEF BusInv
    <2> QED  BY <2>1, <2>2
  <1>13. DriverStage' /\ CountStage'
    <2>1. CASE m = "drv"
      <3>1. DriverOff /\ ~Unwinding("drv")
        BY <1>2, <1>7, <2>1 DEF DriverOff
      <3>2. /\ bound = {} /\ ~driver /\ todo["admin"] = <<>>
            /\ \A t \in Threads : task[t] = NoTask
        BY <3>1, NobodyBound
      <3>3. todo'["admin"] = <<>>
        BY <1>4, <2>1, <3>2 DEF Threads
      <3>4. DriverOff'
        BY <1>3, <1>7, <2>1 DEF DriverOff
      <3>5. OffStage' /\ OnStage' /\ OverStage'
        BY <1>2, <3>2, <3>3, <3>4 DEF OffStage, OnStage, OverStage, NoTask, Threads
      <3>6. RegionStage'
        BY <1>2, <1>3, <1>5, <1>7, <2>1 DEF BusInv, DriverStage, RegionStage
      <3>7. CountStage'
        <4>1. Counted' = {}
          BY <1>2, <3>2 DEF Counted, NoTask, Probing
        <4>2. \A t \in Threads : rest[t] = <<>>
          BY <3>2 DEF BusInv, TasksInv, TaskInv
        <4>3. \A t \in Threads : ~Loaded(t)'
          BY <1>2, <4>2, EmptyFacts DEF Loaded
        <4> QED  BY <1>2, <2>1, <4>1, <4>3, FS_EmptySet DEF CountStage
      <3> QED  BY <3>5, <3>6, <3>7 DEF DriverStage
    <2>2. CASE m # "drv"
      <3>1. "drv" \in Threads \ {m} /\ "admin" \in Threads \ {m}
        BY <1>1, <2>2 DEF Threads
      <3>2. DriverStage'
        BY <1>2, <1>4, <3>1, StageFrame DEF BusInv
      <3> QED  BY <1>2, <1>6, <2>2, <3>2
    <2> QED  BY <2>1, <2>2
  <1> QED  BY <1>6, <1>9, <1>10, <1>11, <1>12, <1>13 DEF BusInv

\* A module has made all its calls, of exit or of an error path, and goes.
LEMMA ModuleGone ==
  ASSUME BusInv, NEW m \in Modules, Unwinding(m), todo[m] = <<>>, task[m] = NoTask,
         m = "setup" => module[m] = "going",
         module' = [module EXCEPT ![m] = "unloaded"],
         UNCHANGED <<sceneVars, todo, ret, driver, bus, taskVars, held, countVars,
                     file, spoilt>>
  PROVE  BusInv'
  <1> USE DEF sceneVars, taskVars, countVars
  <1>1. /\ example \in {"platform", "instance"} /\ m \in {"drv", "setup"} /\ m \in Threads
        /\ m = "setup" => example = "instance"
    BY DevicesAre DEF BusInv, BusTypes, Threads
  <1>2. \A o \in Threads \ {m} :
          /\ module'[o] = module[o] /\ PhaseSame(o) /\ Program(o)'
    BY OthersKeep DEF BusInv, BusTypes
  <1>3. \A t, x : Pending(t, x)' <=> Pending(t, x)
    BY DEF Pending
  <1>4. /\ TasksInv' /\ NeedsHeld' /\ CountStage'
        /\ Devices' = Devices /\ Modules' = Modules /\ Kinds' = Kinds /\ Owner' = Owner
    BY ModuleKeeps
  <1>5. \A x : ~Pending(m, x)
    BY EmptyFacts DEF Pending
  <1>6. module'[m] = "unloaded" /\ ~Building(m)' /\ ~Unwinding(m)' /\ ~Building(m)
    BY <1>1, PhasesDiffer DEF BusInv, BusTypes, Building, Unwinding
  <1>7. BusTypes'
    BY <1>1, <1>4 DEF BusInv, BusTypes
  <1>8. Programs'
    <2>1. Program(m)'
      BY <1>1, <1>4, <1>6 DEF BusInv, Programs, Program
    <2> QED  BY <1>2, <2>1 DEF BusInv, Programs
  <1>9. Reach'
    BY <1>3, ReachFrame DEF BusInv
  <1>10. BusStage'
    <2>1. CASE m = Owner
      <3>1. bus = {} /\ "setup" \notin spoilt
        <4>1. ~(module[m] = "going" /\ "setup" \in spoilt)
          BY <1>5, <2>1 DEF BusInv, BusStage
        <4>2. "setup" \notin spoilt
          BY <1>1, <2>1, <4>1 DEF BusInv, BusStage, Owner, OwnerOf
        <4> QED  BY <1>5, <2>1, <4>1, <4>2 DEF BusInv, BusStage
      <3>2. m = Owner'
        BY <1>4, <2>1
      <3> QED  BY <1>6, <3>1, <3>2 DEF BusStage, Building, Unwinding
    <2>2. CASE m # Owner
      <3>1. PICK o \in {"drv", "setup"} : o = Owner /\ o \in Threads \ {m}
        BY <2>2 DEF Owner, OwnerOf, Threads
      <3> QED  BY <1>2, <1>3, <2>2, <3>1, OwnerFrame DEF BusInv
    <2> QED  BY <2>1, <2>2
  <1>11. DriverStage'
    <2>1. CASE m = "drv"
      <3>1. DriverOff /\ ProbesOver
        BY <1>5, <2>1 DEF DriverOff, ProbesOver
      <3>2. bound = {}
        <4> SUFFICES ASSUME NEW d \in bound  PROVE FALSE
          OBVIOUS
        <4>1. task["drv"] # Removing(d)
          BY <2>1 DEF NoTask, Removing
        <4>2. ~Pending("drv", <<"detach", d>>)
          BY <1>5, <2>1
        <4> QED  BY <3>1, <4>1, <4>2 DEF BusInv, DriverStage, OverStage
      <3>3. DriverOff' /\ ~driver
        BY <1>6, <2>1, <3>1 DEF DriverOff, BusInv, DriverStage, OffStage
      <3>4. OffStage' /\ OnStage' /\ OverStage'
        BY <3>1, <3>2, <3>3 DEF BusInv, DriverStage, OffStage, OnStage, OverStage
      <3>5. RegionStage'
        BY <1>5, <1>6, <2>1, PhasesDiffer DEF BusInv, DriverStage, RegionStage
      <3> QED  BY <3>4, <3>5 DEF DriverStage
    <2>2. CASE m # "drv"
      <3>1. "drv" \in Threads \ {m}
        BY <1>1, <2>2 DEF Threads
      <3> QED  BY <1>2, <1>3, <3>1, StageFrame DEF BusInv
    <2> QED  BY <2>1, <2>2
  <1> QED  BY <1>4, <1>7, <1>8, <1>9, <1>10, <1>11 DEF BusInv

\* A module goes live with all its calls made.
LEMMA ModuleLive ==
  ASSUME BusInv, NEW m \in Modules, module[m] = "coming", ret[m] = "ok", todo[m] = <<>>,
         module' = [module EXCEPT ![m] = "live"],
         UNCHANGED <<sceneVars, todo, ret, driver, bus, taskVars, held, countVars,
                     file, spoilt>>
  PROVE  BusInv'
  <1> USE DEF sceneVars, taskVars, countVars
  <1>1. /\ example \in {"platform", "instance"} /\ m \in {"drv", "setup"} /\ m \in Threads
        /\ m = "setup" => example = "instance"
    BY DevicesAre DEF BusInv, BusTypes, Threads
  <1>2. \A o \in Threads \ {m} :
          /\ module'[o] = module[o] /\ PhaseSame(o) /\ Program(o)'
    BY OthersKeep DEF BusInv, BusTypes
  <1>3. \A t, x : Pending(t, x)' <=> Pending(t, x)
    BY DEF Pending
  <1>4. /\ TasksInv' /\ NeedsHeld' /\ CountStage'
        /\ Devices' = Devices /\ Modules' = Modules /\ Kinds' = Kinds /\ Owner' = Owner
    BY ModuleKeeps
  <1>5. \A x : ~Pending(m, x)
    BY EmptyFacts DEF Pending
  <1>6. /\ module'[m] = "live" /\ ~Building(m)' /\ ~Unwinding(m)'
        /\ Building(m) <=> ~(m = "setup" /\ "setup" \in spoilt)
        /\ Unwinding(m) <=> m = "setup" /\ "setup" \in spoilt
    BY <1>1 DEF BusInv, BusTypes, Building, Unwinding
  <1>7. BusTypes'
    BY <1>1, <1>4 DEF BusInv, BusTypes
  <1>8. Programs'
    <2>1. Program(m)'
      BY <1>1, <1>4, <1>6 DEF BusInv, Programs, Program
    <2> QED  BY <1>2, <2>1 DEF BusInv, Programs
  <1>9. Reach'
    BY <1>3, ReachFrame DEF BusInv
  <1>10. BusStage'
    <2>1. CASE m = Owner
      <3>1. bus = IF "setup" \in spoilt THEN {} ELSE Devices
        <4>1. m = "setup" \/ "setup" \notin spoilt
          BY <1>1, <2>1 DEF BusInv, BusStage, Owner, OwnerOf
        <4>2. CASE "setup" \notin spoilt
          BY <1>5, <1>6, <2>1, <4>2 DEF BusInv, BusStage
        <4>3. CASE m = "setup" /\ "setup" \in spoilt
          <5>1. Unwinding(Owner) /\ module[Owner] = "coming"
            BY <1>6, <2>1, <4>3
          <5> QED  BY <1>5, <2>1, <4>3, <5>1 DEF BusInv, BusStage
        <4> QED  BY <4>1, <4>2, <4>3
      <3>2. m = Owner'
        BY <1>4, <2>1
      <3>3. "setup" \in spoilt => example = "instance" /\ "failed" \in spoilt
        BY DEF BusInv, BusStage
      <3> QED  BY <1>4, <1>6, <3>1, <3>2, <3>3 DEF BusStage, Building, Unwinding
    <2>2. CASE m # Owner
      <3>1. PICK o \in {"drv", "setup"} : o = Owner /\ o \in Threads \ {m}
        BY <2>2 DEF Owner, OwnerOf, Threads
      <3> QED  BY <1>2, <1>3, <2>2, <3>1, OwnerFrame DEF BusInv
    <2> QED  BY <2>1, <2>2
  <1>11. DriverStage'
    <2>1. CASE m = "drv"
      <3>1. ~DriverOff /\ Building("drv") /\ ~Unwinding("drv")
        BY <1>5, <1>6, <2>1 DEF DriverOff
      <3>2. ~DriverOff'
        BY <1>6, <2>1 DEF DriverOff
      <3>3. OffStage' /\ OnStage' /\ OverStage'
        BY <3>1, <3>2 DEF BusInv, DriverStage, OffStage, OnStage, OverStage, ProbesOver
      <3>4. RegionStage'
        BY <1>5, <1>6, <2>1, <3>1 DEF BusInv, DriverStage, RegionStage
      <3> QED  BY <3>3, <3>4 DEF DriverStage
    <2>2. CASE m # "drv"
      <3>1. "drv" \in Threads \ {m}
        BY <1>1, <2>2 DEF Threads
      <3> QED  BY <1>2, <1>3, <3>1, StageFrame DEF BusInv
    <2> QED  BY <2>1, <2>2
  <1> QED  BY <1>4, <1>7, <1>8, <1>9, <1>10, <1>11 DEF BusInv

LEMMA InitReturnsStep ==
  ASSUME BusInv, NEW m \in Threads, InitReturns(m), UNCHANGED sceneVars
  PROVE  BusInv'
  <1>1. m \in Modules
    BY DEF BusInv, Programs, Program, InitReturns
  <1>2. CASE ret[m] = "ok"
    BY <1>1, <1>2, ModuleLive DEF InitReturns
  <1>3. CASE ret[m] # "ok"
    <2>1. Unwinding(m) /\ m # "setup"
      BY <1>3 DEF InitReturns, Unwinding, Building, BusInv, Programs
    <2> QED  BY <1>1, <1>3, <2>1, ModuleGone DEF InitReturns
  <1> QED  BY <1>2, <1>3

LEMMA ExitReturnsStep ==
  ASSUME BusInv, NEW m \in Threads, ExitReturns(m), UNCHANGED sceneVars
  PROVE  BusInv'
  <1>1. m \in Modules
    BY DEF BusInv, Programs, Program, ExitReturns
  <1>2. Unwinding(m)
    BY DEF ExitReturns, Unwinding
  <1> QED  BY <1>1, <1>2, ModuleGone DEF ExitReturns

LEMMA RmmodStep ==
  ASSUME BusInv, NEW m \in Modules, Rmmod(m), UNCHANGED sceneVars
  PROVE  BusInv'
  <1> USE DEF sceneVars, taskVars
  <1>1. /\ example \in {"platform", "instance"} /\ m \in {"drv", "setup"}
        /\ m \in Threads /\ m \in ModulesOf[example] /\ 0 \in Devices
        /\ m = "setup" => example = "instance"
    BY DevicesAre DEF BusInv, BusTypes, Modules, Threads
  <1>2. /\ module' = [module EXCEPT ![m] = "going"] /\ module[m] = "live"
        /\ todo' = [todo EXCEPT ![m] = ExitOf[example][m]]
        /\ UNCHANGED <<example, scene, ret, driver, bus, bound, lock, task, rest, held,
                       total, loaded, file, spoilt>>
    BY DEF Rmmod, countVars
  <1>3. /\ DownProgram(example, todo'[m])
        /\ \A c \in ToSet(todo'[m]) : c[1] \in CallsOf(example, m)
        /\ m = "drv" => Pending(m, <<"driver_del", All>>)'
        /\ m = "drv" /\ example = "instance" =>
             Pending(m, <<"region", All>>)' /\ Pending(m, <<"class", All>>)'
        /\ m = Owner => \A d \in Devices : Pending(m, <<"device_del", d>>)'
    <2>1. todo'[m] = ExitOf[example][m]
      BY <1>1, <1>2 DEF BusInv, BusTypes
    <2> QED  BY <1>1, <2>1, ExitPrograms DEF Pending, Owner, Devices
  <1>4. \A o \in Threads \ {m} :
          /\ module'[o] = module[o] /\ todo'[o] = todo[o] /\ ret'[o] = ret[o]
          /\ PhaseSame(o) /\ Program(o)'
          /\ \A x : Pending(o, x)' <=> Pending(o, x)
    <2>1. \A o \in Threads \ {m} :
            module'[o] = module[o] /\ todo'[o] = todo[o] /\ ret'[o] = ret[o]
      BY <1>2 DEF BusInv, BusTypes
    <2> QED  BY <1>2, <2>1, OthersKeep
  <1>5. /\ module'[m] = "going"
        /\ todo' \in [Threads -> Seq(AllCalls(example))]
    <2>1. todo'[m] \in Seq(AllCalls(example))
      BY <1>3, SeqWithin DEF DownProgram, AllCalls
    <2> QED  BY <1>1, <1>2, <2>1 DEF BusInv, BusTypes
  <1>6. /\ TasksInv' /\ NeedsHeld' /\ CountStage'
        /\ Devices' = Devices /\ Modules' = Modules /\ Kinds' = Kinds /\ Owner' = Owner
    BY <1>2, ModuleKeeps
  <1>7. ~Building(m)' /\ Unwinding(m)' /\ ~Building(m) /\ ~Unwinding(m)
    BY <1>2, <1>5 DEF Building, Unwinding
  <1>8. \A x : ~Pending(m, x)
    <2>1. todo[m] = <<>>
      BY <1>1, <1>2 DEF BusInv, Programs, Program
    <2> QED  BY <2>1, EmptyFacts DEF Pending
  <1>9. BusTypes'
    BY <1>1, <1>2, <1>5, <1>6 DEF BusInv, BusTypes
  <1>10. Programs'
    <2>1. Program(m)'
      BY <1>1, <1>2, <1>3, <1>5, <1>6, <1>7 DEF Program
    <2>2. todo'["admin"] = todo["admin"]
      BY <1>1, <1>4 DEF Threads
    <2> QED  BY <1>2, <1>4, <2>1, <2>2 DEF BusInv, Programs
  <1>11. Reach'
    <2>1. \A t \in Threads, d \in Devices :
            Pending(t, <<"attach", d>>) => Pending(t, <<"attach", d>>)'
      BY <1>4, <1>8
    <2> QED  BY <1>2, <2>1, ReachFrame DEF BusInv
  <1>12. BusStage'
    <2>1. CASE m = Owner
      <3>1. bus = IF "setup" \in spoilt THEN {} ELSE Devices
        BY <1>2, <2>1 DEF BusInv, BusStage
      <3>2. m = Owner'
        BY <1>6, <2>1
      <3>3. \A x : Pending(Owner, x)' <=> Pending(m, x)'
        BY <3>2
      <3>4. "setup" \in spoilt => example = "instance" /\ "failed" \in spoilt
        BY DEF BusInv, BusStage
      <3>5. {d \in Devices : Pending(Owner, <<"device_del", d>>)'} = Devices
        BY <1>3, <2>1, <3>3
      <3> QED
        BY <1>1, <1>2, <1>3, <1>5, <1>6, <1>7, <2>1, <3>1, <3>2, <3>3, <3>4, <3>5
        DEF BusStage, Building, Unwinding
    <2>2. CASE m # Owner
      <3>1. PICK o \in {"drv", "setup"} : o = Owner /\ o \in Threads \ {m}
        BY <2>2 DEF Owner, OwnerOf, Threads
      <3> QED  BY <1>2, <1>4, <2>2, <3>1, OwnerFrame DEF BusInv
    <2> QED  BY <2>1, <2>2
  <1>13. DriverStage'
    <2>1. CASE m = "drv"
      <3>1. ~DriverOff'
        BY <1>3, <1>5, <1>7, <2>1 DEF DriverOff
      <3>2. OffStage' /\ OnStage' /\ OverStage'
        BY <1>5, <1>7, <2>1, <3>1 DEF OffStage, OnStage, OverStage, ProbesOver
      <3>3. RegionStage'
        BY <1>2, <1>3, <1>5, <1>7, <2>1 DEF BusInv, DriverStage, RegionStage
      <3> QED  BY <3>2, <3>3 DEF DriverStage
    <2>2. CASE m # "drv"
      <3>1. "drv" \in Threads \ {m} /\ "admin" \in Threads \ {m}
        BY <1>1, <2>2 DEF Threads
      <3> QED  BY <1>2, <1>4, <3>1, StageFrame DEF BusInv
    <2> QED  BY <2>1, <2>2
  <1> QED  BY <1>6, <1>9, <1>10, <1>11, <1>12, <1>13 DEF BusInv

\* An admin comes in only while the driver has its files.
LEMMA AdminCallsStep ==
  ASSUME BusInv, AdminCalls, UNCHANGED sceneVars
  PROVE  BusInv'
  <1> USE DEF sceneVars, taskVars
  <1> DEFINE m == "admin"
  <1>1. PICK d \in bus, what \in {"attach", "detach"} :
          todo' = [todo EXCEPT !["admin"] = << <<what, d>> >>]
    BY DEF AdminCalls
  <1>2. /\ UNCHANGED <<example, scene, module, ret, driver, bus, bound, lock, task, rest,
                       held, total, loaded, file>>
        /\ driver /\ spoilt' = spoilt \cup {"unbound"} /\ todo["admin"] = <<>>
        /\ example \in {"platform", "instance"} /\ d \in Devices
    BY DEF AdminCalls, countVars, BusInv, BusTypes
  <1>3. /\ << <<what, d>> >> \in Seq(AllCalls(example))
        /\ ToSet(<< <<what, d>> >>) = {<<what, d>>}
    BY <1>2 DEF AllCalls, UpCalls, DownCalls, Devices, ToSet
  <1>4. /\ todo'["admin"] = << <<what, d>> >>
        /\ \A o \in Threads \ {"admin"} : todo'[o] = todo[o]
        /\ todo' \in [Threads -> Seq(AllCalls(example))]
    BY <1>1, <1>3 DEF BusInv, BusTypes, Threads
  <1>5. \A o \in Threads \ {"admin"} : \A x : Pending(o, x)' <=> Pending(o, x)
    BY <1>4 DEF Pending
  <1>6. ModulesSame
    BY <1>2 DEF ModulesSame
  <1>7. BusTypes'
    BY <1>2, <1>4 DEF BusInv, BusTypes, Devices, Kinds
  <1>8. TasksInv' /\ NeedsHeld' /\ CountStage'
    BY <1>2, TasksFrame, HeldFrame, NeedsFrame, CountFrame DEF BusInv, countVars
  <1>9. Programs'
    <2>1. ASSUME NEW o \in Threads \ {"admin"}  PROVE Program(o)'
      BY <1>2, <1>4, <1>6, SamePhase DEF BusInv, Programs, Program, Modules
    <2>2. Program("admin")'
      <3>1. "admin" \notin Modules /\ "admin" \in Threads
        BY <1>2, DevicesAre DEF Threads
      <3>2. module["admin"] = "unloaded"
        BY <3>1 DEF BusInv, Programs, Program
      <3>3. ~Building("admin")' /\ ~Unwinding("admin")'
        BY <1>2, <3>2 DEF Building, Unwinding
      <3> QED  BY <1>2, <1>3, <1>4, <3>2, <3>3 DEF Program, CallsOf
    <2> QED  BY <1>2, <2>1, <2>2 DEF BusInv, Programs
  <1>10. Reach'
    BY <1>2 DEF Reach
  <1>11. BusStage'
    BY <1>2, <1>5, <1>6, BusFrame DEF BusInv, Threads
  <1>12. DriverStage'
    <2>1. ~ProbesOver
      BY <1>2 DEF ProbesOver, BusInv, DriverStage, OffStage
    <2> QED  BY <1>2, <1>5, <1>6, <2>1, DriverFrame DEF BusInv, Threads
  <1> QED  BY <1>7, <1>8, <1>9, <1>10, <1>11, <1>12 DEF BusInv

-----------------------------------------------------------------------------
(* The beginning of a probe, and of a remove                               *)

LEMMA StepsAre ==
  ASSUME NEW e \in {"platform", "instance"}
  PROVE  /\ ProbeSteps(e) \subseteq AllSteps /\ RemoveSteps(e) \subseteq AllSteps
         /\ KindsOf(e) \subseteq ProbeSteps(e) /\ KindsOf(e) \subseteq RemoveSteps(e)
         /\ KindsOf(e) \cap {"load", "inc", "dec"} = {}
         /\ e = "instance" => {"load", "inc"} \subseteq ProbeSteps(e)
         /\ e = "instance" => {"load", "dec"} \subseteq RemoveSteps(e)
         /\ "dec" \notin ProbeSteps(e) /\ "inc" \notin RemoveSteps(e)
         /\ e = "platform" => ProbeSteps(e) = KindsOf(e) /\ RemoveSteps(e) = KindsOf(e)
  BY Kinds_Are DEF ProbeSteps, RemoveSteps, AllSteps

\* The parts of DriverStage that no task is in.
LEMMA StageShape ==
  ASSUME DriverStage, ModulesSame, UNCHANGED driver,
         \A r \in {"region", "class"} : <<r, All>> \in held' <=> <<r, All>> \in held,
         "failed" \in spoilt => "failed" \in spoilt',
         \A k \in {"driver_add", "driver_del", "driver_wait", "region", "class"} :
           Pending("drv", <<k, All>>)' <=> Pending("drv", <<k, All>>)
  PROVE  /\ OffStage' /\ OnStage' /\ RegionStage'
         /\ (DriverOff' <=> DriverOff) /\ (ProbesOver' <=> ProbesOver)
  <1>1. /\ Building("drv")' <=> Building("drv")
        /\ Unwinding("drv")' <=> Unwinding("drv")
        /\ module' = module /\ example' = example
    BY SamePhase DEF ModulesSame
  <1>2. (DriverOff' <=> DriverOff) /\ (ProbesOver' <=> ProbesOver)
    BY <1>1 DEF DriverOff, ProbesOver
  <1>3. OffStage' /\ OnStage'
    BY <1>1, <1>2 DEF DriverStage, OffStage, OnStage
  <1>4. RegionStage'
    BY <1>1 DEF DriverStage, RegionStage
  <1> QED  BY <1>2, <1>3, <1>4

\* A thread locks a device and begins.
LEMMA BeginStep ==
  ASSUME BusInv, NEW t \in Threads, NEW d \in Devices, NEW kind \in {"probe", "remove"},
         NEW steps,
         steps = IF kind = "probe" THEN ProbeOf[example] ELSE RemoveOf[example],
         Begin(t, kind, d, steps), task[t] = NoTask, lock[d] = NoOne,
         kind = "probe" <=> d \notin bound,
         UNCHANGED <<example, bound, held, countVars, spoilt>>
  PROVE  /\ lock' \in [Devices -> Threads \cup {NoOne}]
         /\ task' \in [Threads -> Tasks] /\ rest' \in [Threads -> Seq(AllSteps)]
         /\ task'[t] = [kind |-> kind, dev |-> d]
         /\ \A o \in Threads \ {t} : task'[o] = task[o]
         /\ TasksInv' /\ CountStage'
  <1>1. /\ example \in {"platform", "instance"} /\ All \notin Devices
        /\ Devices \subseteq {0, 1} /\ Kinds = KindsOf(example)
        /\ Devices' = Devices /\ Kinds' = Kinds
    BY DevicesAre DEF BusInv, BusTypes, Devices, Kinds
  <1>2. /\ kind = "probe" => ProbeProgram(example, steps) /\ ToSet(steps) = ProbeSteps(example)
        /\ kind = "remove" =>
             RemoveProgram(example, steps) /\ ToSet(steps) = RemoveSteps(example)
    BY <1>1, ProbeTable, RemoveTable
  <1>3. steps \in Seq(AllSteps)
    <2>1. CASE kind = "probe"
      BY <1>1, <1>2, <2>1, StepsAre, SeqWithin DEF ProbeProgram
    <2>2. CASE kind = "remove"
      BY <1>1, <1>2, <2>2, StepsAre, SeqWithin DEF RemoveProgram
    <2> QED  BY <2>1, <2>2
  <1>4. /\ lock' = [lock EXCEPT ![d] = t]
        /\ task' = [task EXCEPT ![t] = [kind |-> kind, dev |-> d]]
        /\ rest' = [rest EXCEPT ![t] = steps]
    BY DEF Begin
  <1>5. /\ lock' \in [Devices -> Threads \cup {NoOne}]
        /\ task' \in [Threads -> Tasks] /\ rest' \in [Threads -> Seq(AllSteps)]
    BY <1>1, <1>3, <1>4 DEF BusInv, BusTypes, Tasks
  <1>6. /\ lock'[d] = t /\ task'[t] = [kind |-> kind, dev |-> d] /\ rest'[t] = steps
        /\ \A o \in Threads \ {t} : task'[o] = task[o] /\ rest'[o] = rest[o]
        /\ \A x \in Devices \ {d} : lock'[x] = lock[x]
    BY <1>4 DEF BusInv, BusTypes
  <1>7. /\ HeldOf(d) = IF kind = "probe" THEN {} ELSE Kinds
        /\ \A x : HeldOf(x)' = HeldOf(x)
    BY HeldFrame DEF BusInv, TasksInv, DeviceInv
  <1>8. \A o \in Threads : task[o] # NoTask => o # t /\ task[o].dev # d /\ task[o].dev \in Devices
    <2> SUFFICES ASSUME NEW o \in Threads, task[o] # NoTask
                 PROVE  o # t /\ task[o].dev # d /\ task[o].dev \in Devices
      OBVIOUS
    <2>1. lock[task[o].dev] = o /\ task[o].dev \in Devices
      BY DEF BusInv, TasksInv, TaskInv
    <2>2. o # NoOne
      BY DEF Threads, NoOne
    <2> QED  BY <2>1, <2>2
  <1>9. TasksInv'
    <2>1. ASSUME NEW o \in Threads \ {t}  PROVE TaskInv(o)'
      <3>1. TaskInv(o) /\ task'[o] = task[o] /\ rest'[o] = rest[o]
        BY <1>6 DEF BusInv, TasksInv
      <3>2. CASE task[o] = NoTask
        BY <3>1, <3>2 DEF TaskInv, NoTask
      <3>3. CASE task[o] # NoTask
        <4>1. lock'[task[o].dev] = lock[task[o].dev]
          BY <1>6, <1>8, <3>3
        <4> QED  BY <1>1, <1>7, <3>1, <3>3, <4>1 DEF TaskInv
      <3> QED  BY <3>2, <3>3
    <2>2. TaskInv(t)'
      <3>1. task'[t].kind = kind /\ task'[t].dev = d /\ task'[t] # NoTask
        BY <1>6 DEF NoTask
      <3>2. CASE kind = "probe"
        <4>1. HeldOf(d)' = Kinds \ ToSet(steps)
          BY <1>1, <1>2, <1>7, <3>2, StepsAre
        <4> QED  BY <1>1, <1>2, <1>6, <3>1, <3>2, <4>1 DEF TaskInv
      <3>3. CASE kind = "remove"
        <4>1. HeldOf(d)' = ToSet(steps) \cap Kinds
          BY <1>1, <1>2, <1>7, <3>3, StepsAre
        <4> QED  BY <1>1, <1>2, <1>6, <3>1, <3>3, <4>1 DEF TaskInv
      <3> QED  BY <3>2, <3>3
    <2>3. ASSUME NEW x \in Devices  PROVE DeviceInv(x)'
      <3>1. CASE x = d
        BY <1>6, <3>1 DEF DeviceInv, Threads, NoOne
      <3>2. CASE x # d
        <4>1. DeviceInv(x) /\ lock'[x] = lock[x] /\ lock[x] \in Threads \cup {NoOne}
          BY <1>6, <3>2 DEF BusInv, TasksInv, BusTypes
        <4>2. lock[x] # t
          BY <1>1, <4>1 DEF DeviceInv, NoTask, Threads, NoOne
        <4>3. lock[x] # NoOne => task'[lock[x]] = task[lock[x]]
          BY <1>6, <4>1, <4>2
        <4> QED  BY <1>1, <1>7, <4>1, <4>3 DEF DeviceInv
      <3> QED  BY <3>1, <3>2
    <2> QED  BY <1>1, <2>1, <2>2, <2>3 DEF TasksInv
  <1>10. CountStage'
    <2> SUFFICES ASSUME example = "instance"  PROVE CountStage'
      BY DEF CountStage
    <2>1. /\ kind = "probe" => "load" \in ToSet(steps) /\ "inc" \in ToSet(steps)
          /\ kind = "remove" => "load" \in ToSet(steps) /\ "dec" \in ToSet(steps)
      BY <1>2, StepsAre
    <2>2. Counted' = Counted
      <3> SUFFICES ASSUME NEW x \in Devices  PROVE x \in Counted' <=> x \in Counted
        BY <1>1 DEF Counted
      <3>1. \A o \in Threads \ {t} :
              /\ (task'[o] = Removing(x) => "dec" \in ToSet(rest'[o])) <=>
                   (task[o] = Removing(x) => "dec" \in ToSet(rest[o]))
              /\ (task'[o] = Probing(x) /\ "inc" \notin ToSet(rest'[o])) <=>
                   (task[o] = Probing(x) /\ "inc" \notin ToSet(rest[o]))
        BY <1>6
      <3>2. /\ task[t] # Removing(x) /\ task[t] # Probing(x)
        BY DEF NoTask, Removing, Probing
      <3>3. /\ task'[t] = Removing(x) => "dec" \in ToSet(rest'[t])
            /\ task'[t] = Probing(x) => "inc" \in ToSet(rest'[t])
        BY <1>6, <2>1 DEF Removing, Probing
      <3>4. (\A o \in Threads : task'[o] = Removing(x) => "dec" \in ToSet(rest'[o])) <=>
              (\A o \in Threads : task[o] = Removing(x) => "dec" \in ToSet(rest[o]))
        BY <3>1, <3>2, <3>3
      <3>5. (\E o \in Threads : task'[o] = Probing(x) /\ "inc" \notin ToSet(rest'[o])) <=>
              (\E o \in Threads : task[o] = Probing(x) /\ "inc" \notin ToSet(rest[o]))
        BY <3>1, <3>2, <3>3
      <3> QED  BY <1>1, <3>4, <3>5 DEF Counted, Removing, Probing
    <2>3. \A o \in Threads : Loaded(o)' => Loaded(o)
      <3>1. ~Loaded(t)'
        BY <1>6, <2>1 DEF Loaded
      <3>2. \A o \in Threads \ {t} : Loaded(o)' => Loaded(o)
        BY <1>6 DEF Loaded
      <3> QED  BY <3>1, <3>2
    <2> QED  BY <2>2, <2>3 DEF BusInv, CountStage, countVars
  <1> QED  BY <1>5, <1>6, <1>9, <1>10

LEMMA AttachProbesStep ==
  ASSUME BusInv, NEW t \in Threads, AttachProbes(t), UNCHANGED sceneVars
  PROVE  BusInv'
  <1> USE DEF sceneVars
  <1>0. PICK d : d = Next1(t)[2]
    OBVIOUS
  <1> DEFINE c == <<"attach", d>>
  <1>1. /\ todo[t] # <<>> /\ task[t] = NoTask /\ Next1(t)[1] = "attach"
        /\ Advance(t) /\ CallStepFacts(t) /\ lock[d] = NoOne /\ MustProbe(d)
        /\ Begin(t, "probe", d, ProbeOf[example])
    BY <1>0, CallStep DEF BusInv, AttachProbes, Calls
  <1>2. /\ d \in Devices /\ Next1(t) = c
        /\ d \in bus /\ driver /\ d \notin bound
    BY <1>0, <1>1, CallerIs DEF MustProbe
  <1>3. UNCHANGED <<example, scene, module, ret, driver, bus, bound, held, total, loaded,
                    file, spoilt>>
    BY DEF AttachProbes, countVars
  <1>4. /\ lock' \in [Devices -> Threads \cup {NoOne}]
        /\ task' \in [Threads -> Tasks] /\ rest' \in [Threads -> Seq(AllSteps)]
        /\ task'[t] = Probing(d) /\ \A o \in Threads \ {t} : task'[o] = task[o]
        /\ TasksInv' /\ CountStage'
    BY <1>1, <1>2, <1>3, BeginStep DEF countVars, Probing
  <1>5. /\ ModulesSame /\ Devices' = Devices /\ Kinds' = Kinds
        /\ NeedsHeld' /\ Programs'
    BY <1>1, <1>3, NeedsFrame, ProgramsAdvance DEF BusInv, ModulesSame, Devices, Kinds
  <1>6. \A x : x # c => (Pending(t, x)' <=> Pending(t, x))
    BY <1>1, <1>2 DEF CallStepFacts
  <1>7. \A o \in Threads \ {t} : \A x : Pending(o, x)' <=> Pending(o, x)
    BY <1>1, OthersSame
  <1>8. BusTypes'
    BY <1>1, <1>3, <1>4, <1>5 DEF BusInv, BusTypes, CallStepFacts
  <1>9. BusStage'
    <2>1. \A m \in {"drv", "setup"}, k \in {"device_add", "device_del"}, x \in Devices :
            Pending(m, <<k, x>>)' <=> Pending(m, <<k, x>>)
      BY <1>6, <1>7 DEF Threads
    <2> QED  BY <1>3, <1>5, <2>1, BusFrame DEF BusInv
  <1>10. DriverStage'
    <2>1. \A k \in {"driver_add", "driver_del", "driver_wait", "region", "class"} :
            Pending("drv", <<k, All>>)' <=> Pending("drv", <<k, All>>)
      BY <1>6, <1>7 DEF Threads
    <2>2. ~ProbesOver
      BY <1>2 DEF BusInv, DriverStage, OffStage, ProbesOver
    <2>3. OffStage' /\ OnStage' /\ RegionStage' /\ ~ProbesOver'
      BY <1>3, <1>5, <2>1, <2>2, StageShape DEF BusInv
    <2> QED  BY <2>3 DEF DriverStage, OverStage
  <1>11. Reach'
    <2> SUFFICES ASSUME spoilt' \subseteq {"raced"}, driver', NEW x \in bus'
                 PROVE  \/ x \in bound' /\ \A o \in Threads : task'[o] # Removing(x)
                        \/ \E o \in Threads : task'[o] = Probing(x)
                        \/ \E o \in Threads : Pending(o, <<"attach", x>>)'
      BY DEF Reach, Removing, Probing
    <2>1. CASE x = d
      BY <1>4, <2>1
    <2>2. CASE x # d
      <3>1. \A o \in Threads : Pending(o, <<"attach", x>>) => Pending(o, <<"attach", x>>)'
        BY <1>6, <1>7, <2>2
      <3>2. task[t] # Probing(x) /\ task'[t] # Removing(x)
        BY <1>1, <1>4 DEF NoTask, Probing, Removing
      <3> QED  BY <1>3, <1>4, <2>2, <3>1, <3>2 DEF BusInv, Reach
    <2> QED  BY <2>1, <2>2
  <1> QED  BY <1>4, <1>5, <1>8, <1>9, <1>10, <1>11 DEF BusInv

LEMMA DetachReleasesStep ==
  ASSUME BusInv, NEW t \in Threads, DetachReleases(t), UNCHANGED sceneVars
  PROVE  BusInv'
  <1> USE DEF sceneVars
  <1>0. PICK d : d = Next1(t)[2]
    OBVIOUS
  <1> DEFINE c == <<"detach", d>>
  <1>1. /\ todo[t] # <<>> /\ task[t] = NoTask /\ Next1(t)[1] = "detach"
        /\ Advance(t) /\ CallStepFacts(t) /\ lock[d] = NoOne /\ d \in bound
        /\ Begin(t, "remove", d, RemoveOf[example])
    BY <1>0, CallStep DEF BusInv, DetachReleases, Calls
  <1>2. d \in Devices /\ Next1(t) = c /\ (t = "admin" \/ Unwinding(t))
    BY <1>0, <1>1, CallerIs
  <1>3. UNCHANGED <<example, scene, module, ret, driver, bus, bound, held, total, loaded,
                    file, spoilt>>
    BY DEF DetachReleases, countVars
  <1>4. /\ lock' \in [Devices -> Threads \cup {NoOne}]
        /\ task' \in [Threads -> Tasks] /\ rest' \in [Threads -> Seq(AllSteps)]
        /\ task'[t] = Removing(d) /\ \A o \in Threads \ {t} : task'[o] = task[o]
        /\ TasksInv' /\ CountStage'
    BY <1>1, <1>2, <1>3, BeginStep DEF countVars, Removing
  <1>5. /\ ModulesSame /\ Devices' = Devices /\ Kinds' = Kinds
        /\ NeedsHeld' /\ Programs'
    BY <1>1, <1>3, NeedsFrame, ProgramsAdvance DEF BusInv, ModulesSame, Devices, Kinds
  <1>6. \A x : x # c => (Pending(t, x)' <=> Pending(t, x))
    BY <1>1, <1>2 DEF CallStepFacts
  <1>7. \A o \in Threads \ {t} : \A x : Pending(o, x)' <=> Pending(o, x)
    BY <1>1, OthersSame
  <1>8. BusTypes'
    BY <1>1, <1>3, <1>4, <1>5 DEF BusInv, BusTypes, CallStepFacts
  <1>9. BusStage'
    <2>1. \A m \in {"drv", "setup"}, k \in {"device_add", "device_del"}, x \in Devices :
            Pending(m, <<k, x>>)' <=> Pending(m, <<k, x>>)
      BY <1>6, <1>7 DEF Threads
    <2> QED  BY <1>3, <1>5, <2>1, BusFrame DEF BusInv
  <1>10. DriverStage'
    <2>1. \A k \in {"driver_add", "driver_del", "driver_wait", "region", "class"} :
            Pending("drv", <<k, All>>)' <=> Pending("drv", <<k, All>>)
      BY <1>6, <1>7 DEF Threads
    <2>2. OffStage' /\ OnStage' /\ RegionStage' /\ (ProbesOver' <=> ProbesOver)
      BY <1>3, <1>5, <2>1, StageShape DEF BusInv
    <2>3. OverStage'
      <3> SUFFICES ASSUME ProbesOver  PROVE OverStage'
        BY <2>2 DEF OverStage
      <3>1. /\ todo["admin"] = <<>> /\ task["admin"] = NoTask
            /\ \A o \in Threads : task[o].kind \notin {"probe", "undo"}
            /\ \A x \in bound : /\ Unwinding("drv")
                                /\ Pending("drv", <<"detach", x>>) \/ task["drv"] = Removing(x)
        BY DEF BusInv, DriverStage, OverStage
      <3>2. t # "admin" /\ todo'["admin"] = <<>> /\ task'["admin"] = NoTask
        BY <1>1, <1>4, <3>1 DEF CallStepFacts, Threads
      <3>3. \A o \in Threads : task'[o].kind \notin {"probe", "undo"}
        <4>1. task'[t].kind = "remove"
          BY <1>4 DEF Removing
        <4> QED  BY <1>4, <3>1, <4>1
      <3>4. Unwinding("drv")' <=> Unwinding("drv")
        BY <1>5, SamePhase
      <3>5. ASSUME NEW x \in bound
            PROVE  Pending("drv", <<"detach", x>>)' \/ task'["drv"] = Removing(x)
        <4>1. CASE t = "drv"
          <5>1. task["drv"] # Removing(x)
            BY <1>1, <4>1 DEF NoTask, Removing
          <5> QED  BY <1>4, <1>6, <3>1, <4>1, <5>1
        <4>2. CASE t # "drv"
          BY <1>4, <1>7, <3>1, <4>2 DEF Threads
        <4> QED  BY <4>1, <4>2
      <3> QED  BY <1>3, <3>1, <3>2, <3>3, <3>4, <3>5 DEF OverStage, Removing
    <2> QED  BY <2>2, <2>3 DEF DriverStage
  <1>11. Reach'
    <2> SUFFICES ASSUME spoilt' \subseteq {"raced"}, driver', NEW x \in bus'
                 PROVE  \/ x \in bound' /\ \A o \in Threads : task'[o] # Removing(x)
                        \/ \E o \in Threads : task'[o] = Probing(x)
                        \/ \E o \in Threads : Pending(o, <<"attach", x>>)'
      BY DEF Reach, Removing, Probing
    <2>1. x # d
      <3> SUFFICES ASSUME d \in bus  PROVE FALSE
        BY <1>3
      <3>1. Unwinding(t) /\ t \in {"drv", "setup"} /\ ~Building(t)
        BY <1>1, <1>2, <1>3, PhasesDiffer DEF BusInv, Programs, Threads
      <3>2. \A y : Pending(t, y) => y = c \/ <<c, y>> \in DownOrder(example)
        BY <1>1, <1>2, <3>1 DEF CallStepFacts, Pending
      <3>3. CASE t = Owner
        <4>1. <<c, <<"device_del", d>>>> \notin DownOrder(example)
          BY DEF DownOrder
        <4>2. ~Pending(t, <<"device_del", d>>)
          BY <3>2, <4>1
        <4> QED  BY <3>1, <3>3, <4>2 DEF BusInv, BusStage
      <3>4. CASE t # Owner
        <4>1. t = "drv" /\ example = "instance"
          <5>1. t \in Modules
            BY <3>1 DEF BusInv, Programs, Program, Unwinding
          <5> QED  BY <3>1, <3>4, <5>1, DevicesAre DEF Owner, OwnerOf, BusInv, BusTypes
        <4>2. <<c, <<"driver_del", All>>>> \notin DownOrder(example)
          BY <4>1 DEF DownOrder
        <4>3. DriverOff
          BY <3>1, <3>2, <4>1, <4>2 DEF DriverOff
        <4> QED  BY <1>3, <4>3 DEF BusInv, DriverStage, OffStage
      <3> QED  BY <3>3, <3>4
    <2>2. \A o \in Threads : Pending(o, <<"attach", x>>) => Pending(o, <<"attach", x>>)'
      BY <1>6, <1>7
    <2>3. task[t] # Probing(x) /\ task'[t] # Removing(x)
      BY <1>1, <1>4, <2>1 DEF NoTask, Probing, Removing
    <2> QED  BY <1>3, <1>4, <2>2, <2>3 DEF BusInv, Reach
  <1> QED  BY <1>4, <1>5, <1>8, <1>9, <1>10, <1>11 DEF BusInv

-----------------------------------------------------------------------------
(* Within a probe or a remove                                              *)

\* While a device can be probed or removed, the class and the numbers of the
\* driver stand.
LEMMA RegionsStand ==
  ASSUME BusInv, example = "instance", ~ProbesOver, NEW r \in {"region", "class"}
  PROVE  <<r, All>> \in held
  <1> DEFINE s == todo["drv"]
  <1>1. /\ Program("drv") /\ module["drv"] \in {"unloaded", "coming", "live", "going"}
        /\ <<r, All>> \in held <=>
             \/ module["drv"] = "live"
             \/ Building("drv") /\ ~Pending("drv", <<r, All>>)
             \/ Unwinding("drv") /\ Pending("drv", <<r, All>>)
    BY DEF BusInv, BusTypes, Programs, Threads, DriverStage, RegionStage
  <1>2. CASE Building("drv")
    <2>1. /\ ~Pending("drv", <<"driver_add", All>>)
          /\ Followed(s, UpFollows(example))
      BY <1>1, <1>2, PhasesDiffer DEF ProbesOver, DriverOff, Program, UpProgram
    <2>2. << <<r, All>>, <<"driver_add", All>>>> \in UpFollows(example)
      BY DEF UpFollows, UpCalls
    <2>3. ~Pending("drv", <<r, All>>)
      BY <2>1, <2>2 DEF Pending, Followed, ToSet
    <2> QED  BY <1>1, <1>2, <2>3
  <1>3. CASE Unwinding("drv")
    <2>1. Followed(s, DownFollows(example))
      BY <1>1, <1>3 DEF Program, DownProgram
    <2>2. /\ << <<"driver_del", All>>, <<"driver_wait", All>>>> \in DownFollows(example)
          /\ << <<"driver_wait", All>>, <<r, All>>>> \in DownFollows(example)
      BY DEF DownFollows, DownCalls
    <2>3. \/ Pending("drv", <<"driver_wait", All>>)
          \/ Pending("drv", <<"driver_del", All>>)
      BY <1>3 DEF ProbesOver, DriverOff
    <2>4. Pending("drv", <<"driver_wait", All>>)
      BY <2>1, <2>2, <2>3 DEF Pending, Followed, ToSet
    <2>5. Pending("drv", <<r, All>>)
      BY <2>1, <2>2, <2>4 DEF Pending, Followed, ToSet
    <2> QED  BY <1>1, <1>3, <2>5
  <1>4. module["drv"] # "unloaded"
    BY PhasesDiffer DEF ProbesOver, DriverOff
  <1> QED  BY <1>1, <1>2, <1>3, <1>4 DEF Unwinding

\* What the next step of a probe or remove is, and what is left after it.
NextStepIs(t, k, r) ==
  /\ k \in AllSteps /\ r \in Seq(AllSteps)
  /\ ToSet(rest[t]) = {k} \cup ToSet(r) /\ k \notin ToSet(r)
  /\ task[t] # NoTask /\ task[t].kind \in {"probe", "undo", "remove"}
  /\ task[t].dev \in Devices /\ lock[task[t].dev] = t
  /\ task[t].kind = "probe" =>
       /\ k \in ProbeSteps(example) /\ ProbeProgram(example, r)
       /\ \A y \in ToSet(r) : y \in ProbeSteps(example) /\ ProbePlace[k] < ProbePlace[y]
       /\ \A y \in ProbeSteps(example) : ProbePlace[k] < ProbePlace[y] => y \in ToSet(r)
  /\ task[t].kind = "undo" =>
       /\ k \in Kinds /\ UndoProgram(example, r)
       /\ \A y \in ToSet(r) : y \in Kinds /\ RemovePlace[k] < RemovePlace[y]
  /\ task[t].kind = "remove" =>
       /\ k \in RemoveSteps(example) /\ RemoveProgram(example, r)
       /\ \A y \in ToSet(r) : y \in RemoveSteps(example) /\ RemovePlace[k] < RemovePlace[y]
       /\ \A y \in RemoveSteps(example) : RemovePlace[k] < RemovePlace[y] => y \in ToSet(r)

LEMMA NextStep ==
  ASSUME BusInv, NEW t \in Threads, rest[t] # <<>>
  PROVE  NextStepIs(t, Step(t), Tail(rest[t]))
  <1>0. PICK k, r : k = Step(t) /\ r = Tail(rest[t])
    OBVIOUS
  <1> DEFINE s == rest[t]
  <1>1. /\ s \in Seq(AllSteps) /\ TaskInv(t) /\ task[t] \in Tasks
        /\ example \in {"platform", "instance"}
    BY DEF BusInv, BusTypes, TasksInv
  <1>2. k = s[1] /\ k \in AllSteps /\ r \in Seq(AllSteps) /\ IsTail(r, s)
    BY <1>0, <1>1, TailAt DEF Step
  <1>3. ToSet(s) = {k} \cup ToSet(r)
    BY <1>2, TailSet
  <1>4. /\ task[t] # NoTask /\ task[t].kind \in {"probe", "undo", "remove"}
        /\ task[t].dev \in Devices /\ lock[task[t].dev] = t
    BY <1>1 DEF TaskInv, Tasks
  <1> HIDE DEF s
  <1>5. ASSUME task[t].kind = "probe"
        PROVE  /\ k \in ProbeSteps(example) /\ ProbeProgram(example, r) /\ k \notin ToSet(r)
               /\ \A y \in ToSet(r) : y \in ProbeSteps(example) /\ ProbePlace[k] < ProbePlace[y]
               /\ \A y \in ProbeSteps(example) : ProbePlace[k] < ProbePlace[y] => y \in ToSet(r)
    <2>1. ProbeProgram(example, s)
      BY <1>1, <1>5 DEF TaskInv, s
    <2>2. k \in ProbeSteps(example) /\ r \in Seq(ProbeSteps(example))
      BY <1>0, <1>4, <2>1, TailAt DEF ProbeProgram, s, Step
    <2>3. InOrder(r, ProbeOrder(example)) /\ \A y \in ToSet(r) : <<k, y>> \in ProbeOrder(example)
      BY <1>2, <2>1, TailInOrder DEF ProbeProgram
    <2>4. /\ Followed(r, ProbeOrder(example))
          /\ \A f \in ProbeOrder(example) : f[1] = k => f[2] \in ToSet(r)
      BY <1>2, <2>1, TailFollowed DEF ProbeProgram
    <2>5. \A y \in ToSet(r) : y \in ProbeSteps(example) /\ ProbePlace[k] < ProbePlace[y]
      BY <2>3 DEF ProbeOrder
    <2>6. \A y \in ProbeSteps(example) :
            ProbePlace[k] < ProbePlace[y] => <<k, y>> \in ProbeOrder(example)
      BY <2>2 DEF ProbeOrder
    <2>7. ~(ProbePlace[k] < ProbePlace[k])
      <3>1. k # "dec"
        BY <1>1, <2>2, StepsAre
      <3> QED  BY <1>2, <3>1 DEF ProbePlace, AllSteps
    <2> QED  BY <2>2, <2>3, <2>4, <2>5, <2>6, <2>7 DEF ProbeProgram
  <1>6. k # "inc" => ~(RemovePlace[k] < RemovePlace[k])
    BY <1>2 DEF RemovePlace, AllSteps
  <1>7. ASSUME task[t].kind = "undo"
        PROVE  /\ k \in Kinds /\ UndoProgram(example, r) /\ k \notin ToSet(r)
               /\ \A y \in ToSet(r) : y \in Kinds /\ RemovePlace[k] < RemovePlace[y]
    <2>1. UndoProgram(example, s) /\ Kinds = KindsOf(example)
      BY <1>1, <1>7 DEF TaskInv, s, Kinds
    <2>2. k \in Kinds /\ r \in Seq(Kinds)
      BY <1>0, <1>4, <2>1, TailAt DEF UndoProgram, s, Step
    <2>3. InOrder(r, RemoveOrder(example)) /\ \A y \in ToSet(r) : <<k, y>> \in RemoveOrder(example)
      BY <1>2, <2>1, TailInOrder DEF UndoProgram
    <2>4. \A y \in ToSet(r) : y \in Kinds /\ RemovePlace[k] < RemovePlace[y]
      BY <2>2, <2>3, ElementOf DEF RemoveOrder
    <2>5. k # "inc"
      BY <1>1, <2>1, <2>2, StepsAre
    <2> QED  BY <1>2, <1>6, <2>1, <2>2, <2>3, <2>4, <2>5 DEF UndoProgram
  <1>8. ASSUME task[t].kind = "remove"
        PROVE  /\ k \in RemoveSteps(example) /\ RemoveProgram(example, r) /\ k \notin ToSet(r)
               /\ \A y \in ToSet(r) : y \in RemoveSteps(example) /\ RemovePlace[k] < RemovePlace[y]
               /\ \A y \in RemoveSteps(example) : RemovePlace[k] < RemovePlace[y] => y \in ToSet(r)
    <2>1. RemoveProgram(example, s)
      BY <1>1, <1>8 DEF TaskInv, s
    <2>2. k \in RemoveSteps(example) /\ r \in Seq(RemoveSteps(example))
      BY <1>0, <1>4, <2>1, TailAt DEF RemoveProgram, s, Step
    <2>3. InOrder(r, RemoveOrder(example)) /\ \A y \in ToSet(r) : <<k, y>> \in RemoveOrder(example)
      BY <1>2, <2>1, TailInOrder DEF RemoveProgram
    <2>4. /\ Followed(r, RemoveOrder(example))
          /\ \A f \in RemoveOrder(example) : f[1] = k => f[2] \in ToSet(r)
      BY <1>2, <2>1, TailFollowed DEF RemoveProgram
    <2>5. \A y \in ToSet(r) : y \in RemoveSteps(example) /\ RemovePlace[k] < RemovePlace[y]
      BY <2>3 DEF RemoveOrder
    <2>6. \A y \in RemoveSteps(example) :
            RemovePlace[k] < RemovePlace[y] => <<k, y>> \in RemoveOrder(example)
      BY <2>2 DEF RemoveOrder
    <2>7. ~(RemovePlace[k] < RemovePlace[k])
      BY <1>1, <1>6, <2>2, StepsAre
    <2> QED  BY <2>2, <2>3, <2>4, <2>5, <2>6, <2>7 DEF RemoveProgram
  <1>9. NextStepIs(t, k, r)
    BY <1>2, <1>3, <1>4, <1>5, <1>7, <1>8 DEF NextStepIs, s
  <1> QED  BY <1>0, <1>9

\* The calls, and what depends on them alone, stay while a device is worked on.
LEMMA WorkKeeps ==
  ASSUME BusInv, UNCHANGED <<sceneVars, moduleVars, driver, bus>>,
         spoilt \subseteq spoilt', spoilt' \subseteq spoilt \cup {"failed", "raced"},
         \A r \in {"region", "class"} : <<r, All>> \in held' <=> <<r, All>> \in held
  PROVE  /\ Programs' /\ BusStage' /\ OffStage' /\ OnStage' /\ RegionStage'
         /\ (ProbesOver' <=> ProbesOver) /\ (Unwinding("drv")' <=> Unwinding("drv"))
         /\ \A t, x : Pending(t, x)' <=> Pending(t, x)
         /\ Devices' = Devices /\ Kinds' = Kinds
         /\ UNCHANGED <<bound, task>> => DriverStage' /\ Reach'
  <1> USE DEF sceneVars
  <1>1. /\ Programs' /\ ModulesSame
        /\ \A t, x : Pending(t, x)' <=> Pending(t, x)
    BY CallsUnchanged DEF BusInv
  <1>2. BusStage'
    BY <1>1, BusFrame DEF BusInv
  <1>3. OffStage' /\ OnStage' /\ RegionStage' /\ (ProbesOver' <=> ProbesOver)
    BY <1>1, StageShape DEF BusInv
  <1>4. Unwinding("drv")' <=> Unwinding("drv")
    BY <1>1, SamePhase
  <1>5. ASSUME UNCHANGED <<bound, task>>  PROVE DriverStage' /\ Reach'
    <2>1. todo' = todo
      BY DEF moduleVars
    <2>2. DriverStage'
      BY <1>1, <1>5, <2>1, DriverFrame DEF BusInv
    <2>3. Reach'
      BY <1>1, <1>5, ReachFrame DEF BusInv
    <2> QED  BY <2>2, <2>3
  <1> QED  BY <1>1, <1>2, <1>3, <1>4, <1>5 DEF Devices, Kinds

LEMMA CountSame ==
  ASSUME CountStage, UNCHANGED <<example, bound, task, countVars>>,
         "raced" \in spoilt => "raced" \in spoilt',
         \A o \in Threads : \A x \in {"load", "inc", "dec"} :
           x \in ToSet(rest'[o]) <=> x \in ToSet(rest[o])
  PROVE  CountStage'
  <1>1. Counted' = Counted
    <2> SUFFICES ASSUME NEW x \in Devices  PROVE x \in Counted' <=> x \in Counted
      BY DEF Counted, Devices
    <2> QED  BY DEF Counted, Devices, Removing, Probing
  <1>2. \A t \in Threads : Loaded(t)' <=> Loaded(t)
    BY DEF Loaded
  <1> QED  BY <1>1, <1>2 DEF CountStage, countVars

\* What is held for one device changes, and for no other.
LEMMA HeldChange ==
  ASSUME BusInv, UNCHANGED example, NEW d \in Devices, NEW k \in Kinds,
         NEW up \in BOOLEAN,
         held' = IF up THEN held \cup {<<k, d>>} ELSE held \ {<<k, d>>}
  PROVE  /\ \A x \in Devices \ {d} : HeldOf(x)' = HeldOf(x)
         /\ HeldOf(d)' = IF up THEN HeldOf(d) \cup {k} ELSE HeldOf(d) \ {k}
         /\ \A r \in {"region", "class"} : <<r, All>> \in held' <=> <<r, All>> \in held
         /\ held' \subseteq (Kinds \X Devices) \cup ({"region", "class"} \X {All})
  <1>1. All \notin Devices /\ Kinds' = Kinds
    BY DevicesAre DEF BusInv, BusTypes, Kinds
  <1>2. \A x \in Devices \ {d} : HeldOf(x)' = HeldOf(x)
    BY <1>1 DEF HeldOf
  <1>3. HeldOf(d)' = IF up THEN HeldOf(d) \cup {k} ELSE HeldOf(d) \ {k}
    BY <1>1 DEF HeldOf
  <1>4. \A r \in {"region", "class"} : <<r, All>> \in held' <=> <<r, All>> \in held
    BY <1>1
  <1>5. held' \subseteq (Kinds \X Devices) \cup ({"region", "class"} \X {All})
    BY DEF BusInv, BusTypes
  <1> QED  BY <1>2, <1>3, <1>4, <1>5

\* What one thread does to its device is no business of the others.
LEMMA WorkTasks ==
  ASSUME BusInv, NEW t \in Threads, task[t] # NoTask,
         NEW d \in Devices, d = task[t].dev, task'[t].dev = d,
         \A o \in Threads \ {t} : task'[o] = task[o] /\ rest'[o] = rest[o],
         UNCHANGED <<example, bound, lock>>,
         \A x \in Devices \ {d} : HeldOf(x)' = HeldOf(x),
         TaskInv(t)'
  PROVE  TasksInv'
  <1>1. Devices' = Devices /\ Kinds' = Kinds /\ lock[d] = t /\ t # NoOne
    BY DEF Devices, Kinds, BusInv, TasksInv, TaskInv, Threads, NoOne
  <1>2. ASSUME NEW o \in Threads \ {t}  PROVE TaskInv(o)'
    <2>1. TaskInv(o) /\ task'[o] = task[o] /\ rest'[o] = rest[o]
      BY DEF BusInv, TasksInv
    <2>2. CASE task[o] = NoTask
      BY <2>1, <2>2 DEF TaskInv, NoTask
    <2>3. CASE task[o] # NoTask
      <3>1. task[o].dev \in Devices \ {d}
        BY <1>1, <2>1, <2>3 DEF TaskInv
      <3> QED  BY <1>1, <2>1, <2>3, <3>1 DEF TaskInv
    <2> QED  BY <2>2, <2>3
  <1>3. ASSUME NEW x \in Devices  PROVE DeviceInv(x)'
    <2>1. DeviceInv(x) /\ lock[x] \in Threads \cup {NoOne}
      BY DEF BusInv, BusTypes, TasksInv
    <2>2. CASE x = d
      BY <1>1, <2>1, <2>2 DEF DeviceInv
    <2>3. CASE x # d
      <3>1. lock[x] # NoOne => task'[lock[x]] = task[lock[x]]
        BY <2>1, <2>3 DEF DeviceInv
      <3> QED  BY <1>1, <2>1, <2>3, <3>1 DEF DeviceInv
    <2> QED  BY <2>2, <2>3
  <1> QED  BY <1>1, <1>2, <1>3 DEF TasksInv

LEMMA ProbeStepStep ==
  ASSUME BusInv, NEW t \in Threads, ProbeStep(t), UNCHANGED sceneVars
  PROVE  BusInv'
  <1> USE DEF sceneVars
  <1>0. PICK k, d, r : k = Step(t) /\ d = task[t].dev /\ r = Tail(rest[t])
    OBVIOUS
  <1>1. /\ rest[t] # <<>> /\ task[t].kind = "probe" /\ k \in Kinds
        /\ held' = held \cup {<<k, d>>}
        /\ rest' = [rest EXCEPT ![t] = r]
        /\ UNCHANGED <<example, scene, moduleVars, driver, bus, bound, lock, task,
                       countVars, file, spoilt>>
    BY <1>0 DEF ProbeStep, Does, Steps
  <1>2. /\ k \in AllSteps /\ r \in Seq(AllSteps)
        /\ ToSet(rest[t]) = {k} \cup ToSet(r) /\ k \notin ToSet(r)
        /\ task[t] # NoTask /\ d \in Devices /\ lock[d] = t
        /\ ProbeProgram(example, r)
        /\ \A y \in ToSet(r) : ProbePlace[k] < ProbePlace[y]
    <2>1. NextStepIs(t, k, r)
      BY <1>0, <1>1, NextStep
    <2> QED  BY <1>0, <1>1, <2>1 DEF NextStepIs
  <1>3. /\ rest' \in [Threads -> Seq(AllSteps)] /\ rest'[t] = r
        /\ \A o \in Threads \ {t} : rest'[o] = rest[o]
        /\ example \in {"platform", "instance"} /\ Kinds = KindsOf(example)
    BY <1>1, <1>2 DEF BusInv, BusTypes, Kinds
  <1>4. /\ \A x \in Devices \ {d} : HeldOf(x)' = HeldOf(x)
        /\ HeldOf(d)' = HeldOf(d) \cup {k}
        /\ \A q \in {"region", "class"} : <<q, All>> \in held' <=> <<q, All>> \in held
        /\ held' \subseteq (Kinds \X Devices) \cup ({"region", "class"} \X {All})
    <2>1. held' = IF TRUE THEN held \cup {<<k, d>>} ELSE held \ {<<k, d>>}
      BY <1>1
    <2> QED  BY <1>1, <1>2, <2>1, HeldChange
  <1>5. /\ Programs' /\ BusStage' /\ DriverStage' /\ Reach'
        /\ Devices' = Devices /\ Kinds' = Kinds
    BY <1>1, <1>4, WorkKeeps
  <1>6. BusTypes'
    BY <1>1, <1>3, <1>4, <1>5 DEF BusInv, BusTypes, moduleVars, countVars
  <1>7. TasksInv'
    <2>1. HeldOf(d) = Kinds \ ToSet(rest[t]) /\ d \notin bound
      BY <1>0, <1>1 DEF BusInv, TasksInv, TaskInv
    <2>2. HeldOf(d)' = Kinds \ ToSet(r)
      BY <1>1, <1>2, <1>4, <2>1
    <2>3. TaskInv(t)'
      BY <1>0, <1>1, <1>2, <1>3, <1>5, <2>1, <2>2 DEF TaskInv
    <2> QED  BY <1>0, <1>1, <1>2, <1>3, <1>4, <2>3, WorkTasks
  <1>8. NeedsHeld'
    <2>1. ASSUME NEW n \in Needs(k)  PROVE Base(example, n, d) \in held
      <3>1. CASE n \in Kinds
        <4>1. ProbePlace[n] < ProbePlace[k]
          BY <1>1, <1>3, <2>1, <3>1, NeedsPlace
        <4>2. n \notin ToSet(r) /\ n # k
          BY <1>1, <1>2, <1>3, <3>1, <4>1, Kinds_Are DEF ProbePlace
        <4>3. n \in HeldOf(d)
          BY <1>0, <1>1, <1>2, <3>1, <4>2 DEF BusInv, TasksInv, TaskInv
        <4> QED  BY <1>3, <3>1, <4>3 DEF Base, HeldOf
      <3>2. CASE n \notin Kinds
        <4>1. example = "instance" /\ n \in {"region", "class"}
          BY <1>1, <1>3, <2>1, <3>2, NeedsPlace
        <4>2. ~ProbesOver
          BY <1>1 DEF BusInv, DriverStage, OverStage
        <4> QED  BY <1>3, <3>2, <4>1, <4>2, RegionsStand DEF Base
      <3> QED  BY <3>1, <3>2
    <2> QED  BY <1>1, <2>1 DEF BusInv, NeedsHeld
  <1>9. CountStage'
    <2>1. k \notin {"load", "inc", "dec"}
      BY <1>1, <1>3, StepsAre
    <2> QED  BY <1>1, <1>2, <1>3, <2>1, CountSame DEF BusInv
  <1> QED  BY <1>5, <1>6, <1>7, <1>8, <1>9 DEF BusInv

LEMMA RemoveStepStep ==
  ASSUME BusInv, NEW t \in Threads, RemoveStep(t), UNCHANGED sceneVars
  PROVE  BusInv'
  <1> USE DEF sceneVars
  <1>0. PICK k, d, r : k = Step(t) /\ d = task[t].dev /\ r = Tail(rest[t])
    OBVIOUS
  <1>1. /\ rest[t] # <<>> /\ task[t].kind \in {"undo", "remove"} /\ k \in Kinds
        /\ held' = held \ {<<k, d>>}
        /\ rest' = [rest EXCEPT ![t] = r]
        /\ UNCHANGED <<example, scene, moduleVars, driver, bus, bound, lock, task,
                       countVars, file, spoilt>>
    BY <1>0 DEF RemoveStep, Does, Steps
  <1>2. /\ k \in AllSteps /\ r \in Seq(AllSteps)
        /\ ToSet(rest[t]) = {k} \cup ToSet(r) /\ k \notin ToSet(r)
        /\ task[t] # NoTask /\ d \in Devices /\ lock[d] = t
        /\ task[t].kind = "undo" => UndoProgram(example, r)
        /\ task[t].kind = "remove" => RemoveProgram(example, r)
        /\ \A y \in ToSet(r) : RemovePlace[k] < RemovePlace[y]
    <2>1. NextStepIs(t, k, r)
      BY <1>0, <1>1, NextStep
    <2> QED  BY <1>0, <1>1, <2>1 DEF NextStepIs
  <1>3. /\ rest' \in [Threads -> Seq(AllSteps)] /\ rest'[t] = r
        /\ \A o \in Threads \ {t} : rest'[o] = rest[o]
        /\ example \in {"platform", "instance"} /\ Kinds = KindsOf(example)
    BY <1>1, <1>2 DEF BusInv, BusTypes, Kinds
  <1>4. /\ \A x \in Devices \ {d} : HeldOf(x)' = HeldOf(x)
        /\ HeldOf(d)' = HeldOf(d) \ {k}
        /\ \A q \in {"region", "class"} : <<q, All>> \in held' <=> <<q, All>> \in held
        /\ held' \subseteq (Kinds \X Devices) \cup ({"region", "class"} \X {All})
    <2>1. held' = IF FALSE THEN held \cup {<<k, d>>} ELSE held \ {<<k, d>>}
      BY <1>1
    <2> QED  BY <1>1, <1>2, <2>1, HeldChange
  <1>5. /\ Programs' /\ BusStage' /\ DriverStage' /\ Reach'
        /\ Devices' = Devices /\ Kinds' = Kinds
    BY <1>1, <1>4, WorkKeeps
  <1>6. BusTypes'
    BY <1>1, <1>3, <1>4, <1>5 DEF BusInv, BusTypes, moduleVars, countVars
  <1>7. HeldOf(d)' = ToSet(r) \cap Kinds /\ (task[t].kind = "undo" => ToSet(r) \subseteq Kinds)
    <2>1. /\ task[t].kind = "undo" => HeldOf(d) = ToSet(rest[t])
          /\ task[t].kind = "remove" => HeldOf(d) = ToSet(rest[t]) \cap Kinds
      BY <1>0 DEF BusInv, TasksInv, TaskInv
    <2>2. HeldOf(d) \subseteq Kinds
      BY DEF HeldOf
    <2> QED  BY <1>1, <1>2, <1>4, <2>1, <2>2
  <1>8. TasksInv'
    <2>1. /\ task[t].kind = "undo" => d \notin bound
          /\ task[t].kind = "remove" => d \in bound
      BY <1>0 DEF BusInv, TasksInv, TaskInv
    <2>2. task[t].kind = "undo" => ToSet(r) \cap Kinds = ToSet(r)
      BY <1>7
    <2>3. TaskInv(t)'
      BY <1>0, <1>1, <1>2, <1>3, <1>5, <1>7, <2>1, <2>2 DEF TaskInv
    <2> QED  BY <1>0, <1>1, <1>2, <1>3, <1>4, <2>3, WorkTasks
  <1>9. NeedsHeld'
    <2> SUFFICES ASSUME NEW q \in held', NEW n \in Needs(q[1]),
                        Base(example, n, q[2]) \notin held'
                 PROVE  FALSE
      BY <1>1 DEF NeedsHeld
    <2>1. q \in held /\ Base(example, n, q[2]) = <<k, d>>
      BY <1>1 DEF BusInv, NeedsHeld
    <2>2. All \notin Devices
      BY <1>3, DevicesAre
    <2>3. n = k /\ q[2] = d
      BY <1>2, <2>1, <2>2 DEF Base
    <2>4. q = <<q[1], d>> /\ q[1] \in Kinds
      BY <1>2, <2>1, <2>2, <2>3 DEF BusInv, BusTypes
    <2>5. q[1] \in ToSet(r)
      BY <1>5, <1>7, <2>4 DEF HeldOf
    <2>6. RemovePlace[q[1]] < RemovePlace[k] /\ RemovePlace[k] < RemovePlace[q[1]]
      BY <1>1, <1>2, <1>3, <2>3, <2>4, <2>5, NeedsPlace
    <2>7. RemovePlace[k] \in Nat /\ RemovePlace[q[1]] \in Nat
      BY <1>1, <1>3, <2>4, Kinds_Are DEF RemovePlace
    <2> QED  BY <2>6, <2>7
  <1>10. CountStage'
    <2>1. k \notin {"load", "inc", "dec"}
      BY <1>1, <1>3, StepsAre
    <2> QED  BY <1>1, <1>2, <1>3, <2>1, CountSame DEF BusInv
  <1> QED  BY <1>5, <1>6, <1>8, <1>9, <1>10 DEF BusInv

\* No two threads work on one device.
LEMMA OneWorker ==
  ASSUME BusInv, NEW t \in Threads, task[t] # NoTask,
         NEW o \in Threads \ {t}, task[o] # NoTask
  PROVE  task[o].dev # task[t].dev
  BY DEF BusInv, TasksInv, TaskInv

LEMMA ProbeStepFailsStep ==
  ASSUME BusInv, NEW t \in Threads, ProbeStepFails(t), UNCHANGED sceneVars
  PROVE  BusInv'
  <1> USE DEF sceneVars
  <1>0. PICK k, d, r, u : /\ k = Step(t) /\ d = task[t].dev /\ r = Tail(rest[t])
                          /\ u = ProbeFailed[example][Step(t)]
    OBVIOUS
  <1>1. /\ rest[t] # <<>> /\ task[t].kind = "probe" /\ k \in Kinds
        /\ task' = [task EXCEPT ![t].kind = "undo"]
        /\ rest' = [rest EXCEPT ![t] = u]
        /\ spoilt' = spoilt \cup {"failed"}
        /\ UNCHANGED <<example, scene, moduleVars, driver, bus, bound, lock, held,
                       countVars, file>>
    BY <1>0 DEF ProbeStepFails, Does, Fails
  <1>2. /\ ToSet(rest[t]) = {k} \cup ToSet(r) /\ k \notin ToSet(r)
        /\ task[t] # NoTask /\ d \in Devices /\ lock[d] = t
        /\ k \in ProbeSteps(example)
        /\ \A y \in ToSet(r) : ProbePlace[k] < ProbePlace[y]
        /\ \A y \in ProbeSteps(example) : ProbePlace[k] < ProbePlace[y] => y \in ToSet(r)
    <2>1. NextStepIs(t, k, r)
      BY <1>0, <1>1, NextStep
    <2> QED  BY <1>0, <1>1, <2>1 DEF NextStepIs
  <1>3. /\ example \in {"platform", "instance"} /\ Kinds = KindsOf(example)
        /\ Devices \subseteq {0, 1}
    BY DevicesAre DEF BusInv, BusTypes, Kinds
  <1>4. /\ UndoProgram(example, u)
        /\ ToSet(u) = {n \in Kinds : ProbePlace[n] < ProbePlace[k]}
    BY <1>0, <1>1, <1>3, UndoTable
  <1>5. u \in Seq(AllSteps)
    BY <1>3, <1>4, StepsAre, SeqWithin DEF UndoProgram
  <1>6. /\ rest' \in [Threads -> Seq(AllSteps)] /\ rest'[t] = u
        /\ task' \in [Threads -> Tasks] /\ task'[t] = [kind |-> "undo", dev |-> d]
        /\ \A o \in Threads \ {t} : rest'[o] = rest[o] /\ task'[o] = task[o]
    BY <1>0, <1>1, <1>2, <1>3, <1>5 DEF BusInv, BusTypes, Tasks
  <1>7. /\ Programs' /\ BusStage' /\ OffStage' /\ OnStage' /\ RegionStage'
        /\ (ProbesOver' <=> ProbesOver)
        /\ Devices' = Devices /\ Kinds' = Kinds
    BY <1>1, WorkKeeps
  <1>8. DriverStage'
    <2>1. ~ProbesOver
      BY <1>1 DEF BusInv, DriverStage, OverStage
    <2> QED  BY <1>7, <2>1 DEF DriverStage, OverStage
  <1>9. Reach'
    BY <1>1 DEF Reach
  <1>10. BusTypes'
    BY <1>1, <1>6, <1>7 DEF BusInv, BusTypes, moduleVars, countVars
  <1>11. TasksInv'
    <2>1. HeldOf(d) = Kinds \ ToSet(rest[t]) /\ d \notin bound
      BY <1>0, <1>1 DEF BusInv, TasksInv, TaskInv
    <2>2. \A n \in Kinds : n \notin ToSet(rest[t]) <=> ProbePlace[n] < ProbePlace[k]
      <3>1. \A n \in Kinds : n \in ProbeSteps(example)
        BY <1>3, StepsAre
      <3>2. \A n \in Kinds : n # k => ProbePlace[n] < ProbePlace[k] \/ ProbePlace[k] < ProbePlace[n]
        BY <1>1, <1>3, Kinds_Are DEF ProbePlace
      <3>3. \A n \in Kinds : ~(ProbePlace[n] < ProbePlace[k] /\ ProbePlace[k] < ProbePlace[n])
                               /\ ~(ProbePlace[k] < ProbePlace[k])
        BY <1>1, <1>3, Kinds_Are DEF ProbePlace
      <3> QED  BY <1>1, <1>2, <3>1, <3>2, <3>3
    <2>3. \A x : HeldOf(x)' = HeldOf(x)
      BY <1>1, HeldFrame
    <2>4. HeldOf(d)' = ToSet(u)
      BY <1>4, <2>1, <2>2, <2>3
    <2>5. task'[t].kind = "undo" /\ task'[t].dev = d /\ task'[t] # NoTask
      BY <1>6 DEF NoTask
    <2>6. TaskInv(t)'
      <3>1. /\ d \in Devices' /\ lock'[d] = t /\ d \notin bound'
            /\ UndoProgram(example', rest'[t]) /\ HeldOf(d)' = ToSet(rest'[t])
        BY <1>1, <1>2, <1>4, <1>6, <1>7, <2>1, <2>4
      <3> QED  BY <2>5, <3>1 DEF TaskInv
    <2> QED  BY <1>0, <1>1, <1>2, <1>6, <2>3, <2>5, <2>6, WorkTasks
  <1>12. NeedsHeld'
    BY <1>1, NeedsFrame DEF BusInv
  <1>13. CountStage'
    <2> SUFFICES ASSUME example = "instance"  PROVE CountStage'
      BY <1>1 DEF CountStage
    <2>1. "inc" \in ToSet(rest[t])
      <3>1. "inc" \in ProbeSteps(example) /\ ProbePlace[k] < ProbePlace["inc"]
        BY <1>1, <1>3, StepsAre, Kinds_Are DEF ProbePlace
      <3> QED  BY <1>2, <3>1
    <2>2. \A x \in {"load", "inc", "dec"} : x \notin ToSet(u)
      BY <1>3, <1>4, StepsAre
    <2>3. Counted' = Counted
      <3> SUFFICES ASSUME NEW x \in Devices  PROVE x \in Counted' <=> x \in Counted
        BY <1>7 DEF Counted
      <3>1. /\ task'[t] # Removing(x) /\ task'[t] # Probing(x) /\ task[t] # Removing(x)
        BY <1>1, <1>6 DEF Removing, Probing
      <3>2. (\A o \in Threads : task'[o] = Removing(x) => "dec" \in ToSet(rest'[o])) <=>
              (\A o \in Threads : task[o] = Removing(x) => "dec" \in ToSet(rest[o]))
        BY <1>6, <3>1
      <3>3. (\E o \in Threads : task'[o] = Probing(x) /\ "inc" \notin ToSet(rest'[o])) <=>
              (\E o \in Threads : task[o] = Probing(x) /\ "inc" \notin ToSet(rest[o]))
        BY <1>6, <2>1, <3>1
      <3> QED  BY <1>1, <1>7, <3>2, <3>3 DEF Counted, Removing, Probing
    <2>4. \A o \in Threads : Loaded(o)' => Loaded(o)
      <3>1. ~Loaded(t)'
        BY <1>6, <2>2 DEF Loaded
      <3> QED  BY <1>6, <3>1 DEF Loaded
    <2> QED  BY <1>1, <2>3, <2>4 DEF BusInv, CountStage, countVars
  <1> QED  BY <1>7, <1>8, <1>9, <1>10, <1>11, <1>12, <1>13 DEF BusInv

\* Between the load and the store, the store is next.
LEMMA LoadedNext ==
  ASSUME BusInv, NEW t \in Threads, Loaded(t)
  PROVE  rest[t] # <<>> /\ Step(t) \in {"inc", "dec"} /\ example = "instance"
  <1>1. PICK x \in {"inc", "dec"} : x \in ToSet(rest[t]) /\ "load" \notin ToSet(rest[t])
    BY DEF Loaded
  <1>2. rest[t] # <<>>
    BY <1>1, EmptyFacts
  <1>3. PICK k, r : k = Step(t) /\ r = Tail(rest[t]) /\ NextStepIs(t, k, r)
    BY <1>2, NextStep
  <1>4. example \in {"platform", "instance"} /\ Kinds = KindsOf(example)
    BY DEF BusInv, BusTypes, Kinds
  <1>5. CASE task[t].kind = "undo"
    <2>1. x \in Kinds
      BY <1>1, <1>3, <1>5 DEF NextStepIs
    <2> QED  BY <1>4, <2>1, StepsAre
  <1>6. CASE task[t].kind = "probe"
    <2>1. /\ k \in ProbeSteps(example) /\ x \in ProbeSteps(example)
          /\ x = k \/ ProbePlace[k] < ProbePlace[x]
          /\ "load" \in ProbeSteps(example) => ~(ProbePlace[k] < ProbePlace["load"])
          /\ k # "load"
      BY <1>1, <1>3, <1>6 DEF NextStepIs
    <2>2. x = "inc" /\ example = "instance" /\ "load" \in ProbeSteps(example)
      BY <1>4, <2>1, StepsAre
    <2>3. k = "inc"
      BY <1>4, <2>1, <2>2, Kinds_Are DEF ProbeSteps, ProbePlace
    <2> QED  BY <1>2, <1>3, <2>2, <2>3
  <1>7. CASE task[t].kind = "remove"
    <2>1. /\ k \in RemoveSteps(example) /\ x \in RemoveSteps(example)
          /\ x = k \/ RemovePlace[k] < RemovePlace[x]
          /\ "load" \in RemoveSteps(example) => ~(RemovePlace[k] < RemovePlace["load"])
          /\ k # "load"
      BY <1>1, <1>3, <1>7 DEF NextStepIs
    <2>2. x = "dec" /\ example = "instance" /\ "load" \in RemoveSteps(example)
      BY <1>4, <2>1, StepsAre
    <2>3. k = "dec"
      BY <1>4, <2>1, <2>2, Kinds_Are DEF RemoveSteps, RemovePlace
    <2> QED  BY <1>2, <1>3, <2>2, <2>3
  <1> QED  BY <1>3, <1>5, <1>6, <1>7 DEF NextStepIs

LEMMA CountLoadStep ==
  ASSUME BusInv, NEW t \in Threads, CountLoad(t), UNCHANGED sceneVars
  PROVE  BusInv'
  <1> USE DEF sceneVars
  <1>0. PICK k, d, r : k = Step(t) /\ d = task[t].dev /\ r = Tail(rest[t])
    OBVIOUS
  <1>1. /\ rest[t] # <<>> /\ task[t].kind \in {"probe", "remove"} /\ k = "load"
        /\ loaded' = [loaded EXCEPT ![t] = total]
        /\ rest' = [rest EXCEPT ![t] = r]
        /\ spoilt' = IF \E o \in Threads : rest[o] # <<>> /\ Step(o) \in {"inc", "dec"}
                       THEN spoilt \cup {"raced"} ELSE spoilt
        /\ UNCHANGED <<example, scene, moduleVars, driver, bus, bound, lock, task, held,
                       total, file>>
    BY <1>0 DEF CountLoad, Does, Steps
  <1>2. /\ r \in Seq(AllSteps)
        /\ ToSet(rest[t]) = {k} \cup ToSet(r) /\ k \notin ToSet(r)
        /\ task[t] # NoTask /\ d \in Devices
        /\ task[t].kind = "probe" => ProbeProgram(example, r)
        /\ task[t].kind = "remove" => RemoveProgram(example, r)
    <2>1. NextStepIs(t, k, r)
      BY <1>0, <1>1, NextStep
    <2> QED  BY <1>0, <1>1, <2>1 DEF NextStepIs
  <1>3. /\ rest' \in [Threads -> Seq(AllSteps)] /\ rest'[t] = r
        /\ \A o \in Threads \ {t} : rest'[o] = rest[o] /\ loaded'[o] = loaded[o]
        /\ loaded' \in [Threads -> Int] /\ loaded'[t] = total
        /\ example \in {"platform", "instance"} /\ Kinds = KindsOf(example)
    BY <1>1, <1>2 DEF BusInv, BusTypes, Kinds
  <1>4. spoilt \subseteq spoilt' /\ spoilt' \subseteq spoilt \cup {"failed", "raced"}
    BY <1>1
  <1>5. /\ Programs' /\ BusStage' /\ DriverStage' /\ Reach' /\ NeedsHeld'
        /\ Devices' = Devices /\ Kinds' = Kinds
    BY <1>1, <1>4, WorkKeeps, NeedsFrame DEF BusInv
  <1>6. BusTypes'
    BY <1>1, <1>3, <1>5 DEF BusInv, BusTypes, moduleVars
  <1>7. TasksInv'
    <2>1. TaskInv(t) /\ k \notin Kinds
      BY <1>1, <1>3, StepsAre DEF BusInv, TasksInv
    <2>2. \A x : HeldOf(x)' = HeldOf(x)
      BY <1>1, HeldFrame
    <2>3. /\ Kinds \ ToSet(rest[t]) = Kinds \ ToSet(r)
          /\ ToSet(rest[t]) \cap Kinds = ToSet(r) \cap Kinds
      BY <1>2, <2>1
    <2>4. TaskInv(t)'
      BY <1>1, <1>2, <1>3, <1>5, <2>1, <2>2, <2>3 DEF TaskInv
    <2> QED  BY <1>0, <1>1, <1>2, <1>3, <2>2, <2>4, WorkTasks
  <1>8. CountStage'
    <2> SUFFICES ASSUME example = "instance", "raced" \notin spoilt'  PROVE CountStage'
      BY <1>1 DEF CountStage
    <2>1. \A o \in Threads : ~Loaded(o)
      BY <1>1, LoadedNext
    <2>2. \A o \in Threads : \A x \in {"inc", "dec"} :
            x \in ToSet(rest'[o]) <=> x \in ToSet(rest[o])
      BY <1>1, <1>2, <1>3
    <2>3. Counted' = Counted
      <3> SUFFICES ASSUME NEW x \in Devices  PROVE x \in Counted' <=> x \in Counted
        BY <1>5 DEF Counted
      <3> QED  BY <1>1, <1>5, <2>2 DEF Counted, Removing, Probing
    <2>4. \A o \in Threads \ {t} : ~Loaded(o)'
      BY <1>3, <2>1 DEF Loaded
    <2> QED  BY <1>1, <1>3, <1>4, <2>3, <2>4 DEF BusInv, CountStage
  <1> QED  BY <1>5, <1>6, <1>7, <1>8 DEF BusInv

\* Nobody else probes or removes the device of a thread.
LEMMA OwnTask ==
  ASSUME BusInv, NEW t \in Threads, task[t] # NoTask, NEW o \in Threads \ {t}
  PROVE  task[o] # Removing(task[t].dev) /\ task[o] # Probing(task[t].dev)
  <1> SUFFICES ASSUME task[o] = Removing(task[t].dev) \/ task[o] = Probing(task[t].dev)
               PROVE  FALSE
    OBVIOUS
  <1>1. task[o] # NoTask /\ task[o].dev = task[t].dev
    BY DEF Removing, Probing, NoTask
  <1> QED  BY <1>1, OneWorker

LEMMA CountStoreStep ==
  ASSUME BusInv, NEW t \in Threads, CountStore(t), UNCHANGED sceneVars
  PROVE  BusInv'
  <1> USE DEF sceneVars
  <1>0. PICK k, d, r : k = Step(t) /\ d = task[t].dev /\ r = Tail(rest[t])
    OBVIOUS
  <1>1. /\ rest[t] # <<>> /\ task[t].kind \in {"probe", "remove"} /\ k \in {"inc", "dec"}
        /\ total' = IF k = "inc" THEN loaded[t] + 1 ELSE loaded[t] - 1
        /\ loaded' = [loaded EXCEPT ![t] = 0]
        /\ rest' = [rest EXCEPT ![t] = r]
        /\ UNCHANGED <<example, scene, moduleVars, driver, bus, bound, lock, task, held,
                       file, spoilt>>
    BY <1>0 DEF CountStore, Does, Steps
  <1>2. /\ r \in Seq(AllSteps)
        /\ ToSet(rest[t]) = {k} \cup ToSet(r) /\ k \notin ToSet(r)
        /\ task[t] # NoTask /\ d \in Devices
        /\ task[t].kind = "probe" =>
             /\ k \in ProbeSteps(example) /\ ProbeProgram(example, r)
             /\ \A y \in ToSet(r) : y \in ProbeSteps(example) /\ ProbePlace[k] < ProbePlace[y]
        /\ task[t].kind = "remove" =>
             /\ k \in RemoveSteps(example) /\ RemoveProgram(example, r)
             /\ \A y \in ToSet(r) : y \in RemoveSteps(example) /\ RemovePlace[k] < RemovePlace[y]
    <2>1. NextStepIs(t, k, r)
      BY <1>0, <1>1, NextStep
    <2> QED  BY <1>0, <1>1, <2>1 DEF NextStepIs
  <1>3. /\ rest' \in [Threads -> Seq(AllSteps)] /\ rest'[t] = r
        /\ \A o \in Threads \ {t} : rest'[o] = rest[o]
        /\ loaded' \in [Threads -> Int] /\ total' \in Int
        /\ example \in {"platform", "instance"} /\ Kinds = KindsOf(example)
    BY <1>1, <1>2 DEF BusInv, BusTypes, Kinds
  <1>4. /\ Programs' /\ BusStage' /\ DriverStage' /\ Reach' /\ NeedsHeld'
        /\ Devices' = Devices /\ Kinds' = Kinds
    BY <1>1, WorkKeeps, NeedsFrame DEF BusInv
  <1>5. BusTypes'
    BY <1>1, <1>3, <1>4 DEF BusInv, BusTypes, moduleVars
  <1>6. TasksInv'
    <2>1. TaskInv(t) /\ k \notin Kinds
      BY <1>1, <1>3, StepsAre DEF BusInv, TasksInv
    <2>2. \A x : HeldOf(x)' = HeldOf(x)
      BY <1>1, HeldFrame
    <2>3. /\ Kinds \ ToSet(rest[t]) = Kinds \ ToSet(r)
          /\ ToSet(rest[t]) \cap Kinds = ToSet(r) \cap Kinds
      BY <1>2, <2>1
    <2>4. TaskInv(t)'
      BY <1>1, <1>2, <1>3, <1>4, <2>1, <2>2, <2>3 DEF TaskInv
    <2> QED  BY <1>0, <1>1, <1>2, <1>3, <2>2, <2>4, WorkTasks
  <1>7. /\ k = "inc" <=> task[t].kind = "probe"
        /\ \A x \in {"load", "inc", "dec"} : x \notin ToSet(r)
    <2>1. CASE task[t].kind = "probe"
      <3>1. k = "inc"
        BY <1>1, <1>2, <1>3, <2>1, StepsAre
      <3>2. "dec" \notin ToSet(r)
        BY <1>2, <1>3, <2>1, StepsAre
      <3>3. ~(ProbePlace["inc"] < ProbePlace["load"])
        BY DEF ProbePlace
      <3> QED  BY <1>2, <2>1, <3>1, <3>2, <3>3
    <2>2. CASE task[t].kind = "remove"
      <3>1. k = "dec"
        BY <1>1, <1>2, <1>3, <2>2, StepsAre
      <3>2. "inc" \notin ToSet(r)
        BY <1>2, <1>3, <2>2, StepsAre
      <3>3. ~(RemovePlace["dec"] < RemovePlace["load"])
        BY DEF RemovePlace
      <3> QED  BY <1>2, <2>2, <3>1, <3>2, <3>3
    <2> QED  BY <1>1, <2>1, <2>2
  <1>8. CountStage'
    <2> SUFFICES ASSUME example = "instance", "raced" \notin spoilt  PROVE CountStage'
      BY <1>1 DEF CountStage
    <2>1. Loaded(t)
      BY <1>1, <1>2, <1>7 DEF Loaded
    <2>2. loaded[t] = Cardinality(Counted) /\ \A o \in Threads \ {t} : ~Loaded(o)
      BY <2>1 DEF BusInv, CountStage
    <2>3. \A o \in Threads : ~Loaded(o)'
      BY <1>3, <1>7, <2>2 DEF Loaded
    <2>4. \A o \in Threads \ {t} : task[o] # Removing(d) /\ task[o] # Probing(d)
      BY <1>0, <1>2, OwnTask
    <2>5. \A x \in Devices \ {d} : x \in Counted' <=> x \in Counted
      <3> SUFFICES ASSUME NEW x \in Devices \ {d}  PROVE x \in Counted' <=> x \in Counted
        OBVIOUS
      <3>1. task[t] # Removing(x) /\ task[t] # Probing(x)
        BY <1>0 DEF Removing, Probing
      <3>2. (\A o \in Threads : task'[o] = Removing(x) => "dec" \in ToSet(rest'[o])) <=>
              (\A o \in Threads : task[o] = Removing(x) => "dec" \in ToSet(rest[o]))
        BY <1>1, <1>3, <3>1
      <3>3. (\E o \in Threads : task'[o] = Probing(x) /\ "inc" \notin ToSet(rest'[o])) <=>
              (\E o \in Threads : task[o] = Probing(x) /\ "inc" \notin ToSet(rest[o]))
        BY <1>1, <1>3, <3>1
      <3> QED  BY <1>1, <1>4, <3>2, <3>3 DEF Counted, Removing, Probing
    <2>6. Counted \subseteq Devices /\ Counted' \subseteq Devices /\ IsFiniteSet(Counted)
      <3>1. Counted \subseteq Devices /\ Counted' \subseteq Devices
        BY <1>4 DEF Counted
      <3> QED  BY <1>3, <3>1, DevicesAre, FS_Subset
    <2>7. TaskInv(t) /\ task[t] \in Tasks
      BY DEF BusInv, BusTypes, TasksInv
    <2>8. CASE k = "inc"
      <3>1. task[t] = Probing(d)
        BY <1>0, <1>7, <2>7, <2>8 DEF Tasks, Probing
      <3>2. d \notin Counted
        <4>1. d \notin bound
          BY <1>0, <1>7, <2>7, <2>8 DEF TaskInv
        <4>2. \A o \in Threads : task[o] = Probing(d) => "inc" \in ToSet(rest[o])
          BY <1>2, <2>4, <2>8
        <4> QED  BY <4>1, <4>2 DEF Counted, Probing
      <3>3. d \in Counted'
        BY <1>1, <1>2, <1>3, <1>4, <1>7, <3>1 DEF Counted, Probing
      <3>4. Counted' = Counted \cup {d}
        BY <1>2, <2>5, <2>6, <3>3
      <3>5. Cardinality(Counted') = Cardinality(Counted) + 1
        BY <2>6, <3>2, <3>4, FS_AddElement
      <3> QED  BY <1>1, <2>2, <2>3, <2>8, <3>5 DEF CountStage
    <2>9. CASE k = "dec"
      <3>1. task[t] = Removing(d)
        BY <1>0, <1>1, <1>7, <2>7, <2>9 DEF Tasks, Removing
      <3>2. d \in Counted
        <4>1. d \in bound
          BY <1>0, <1>1, <1>7, <2>7, <2>9 DEF TaskInv
        <4>2. \A o \in Threads : task[o] = Removing(d) => "dec" \in ToSet(rest[o])
          BY <1>2, <2>4, <2>9
        <4> QED  BY <1>2, <4>1, <4>2 DEF Counted, Removing
      <3>3. d \notin Counted'
        <4>1. \A o \in Threads : task'[o] # Probing(d)
          <5>1. task'[t] # Probing(d)
            BY <1>1, <3>1 DEF Probing, Removing
          <5> QED  BY <1>1, <2>4, <5>1
        <4>2. task'[t] = Removing(d) /\ "dec" \notin ToSet(rest'[t])
          BY <1>1, <1>3, <1>7, <3>1
        <4> QED  BY <4>1, <4>2 DEF Counted, Removing, Probing
      <3>4. Counted' = Counted \ {d}
        BY <1>2, <2>5, <2>6, <3>3
      <3>5. Cardinality(Counted') = Cardinality(Counted) - 1
        BY <2>6, <3>2, <3>4, FS_RemoveElement
      <3> QED  BY <1>1, <2>2, <2>3, <2>9, <3>5 DEF CountStage
    <2> QED  BY <1>1, <2>8, <2>9
  <1> QED  BY <1>4, <1>5, <1>6, <1>8 DEF BusInv

LEMMA TaskEndsStep ==
  ASSUME BusInv, NEW t \in Threads, TaskEnds(t), UNCHANGED sceneVars
  PROVE  BusInv'
  <1> USE DEF sceneVars
  <1>0. PICK k, d : k = task[t].kind /\ d = task[t].dev
    OBVIOUS
  <1>1. /\ task[t] # NoTask /\ rest[t] = <<>>
        /\ bound' = BoundAfter(k, d)
        /\ lock' = [lock EXCEPT ![d] = NoOne]
        /\ task' = [task EXCEPT ![t] = NoTask]
        /\ UNCHANGED <<example, scene, moduleVars, driver, bus, rest, held, countVars,
                       file, spoilt>>
    BY <1>0 DEF TaskEnds
  <1>2. /\ d \in Devices /\ lock[d] = t /\ TaskInv(t) /\ task[t] \in Tasks
        /\ k \in {"probe", "undo", "remove"} /\ ToSet(rest[t]) = {}
        /\ task[t] = [kind |-> k, dev |-> d]
    BY <1>0, <1>1, EmptyFacts DEF BusInv, BusTypes, TasksInv, TaskInv, Tasks
  <1>3. /\ bound' \subseteq Devices /\ \A x \in Devices \ {d} : x \in bound' <=> x \in bound
        /\ d \in bound' <=> k = "probe"
    BY <1>1, <1>2 DEF BoundAfter, BusInv, BusTypes
  <1>4. /\ lock' \in [Devices -> Threads \cup {NoOne}] /\ lock'[d] = NoOne
        /\ \A x \in Devices \ {d} : lock'[x] = lock[x]
        /\ task' \in [Threads -> Tasks] /\ task'[t] = NoTask
        /\ \A o \in Threads \ {t} : task'[o] = task[o]
    BY <1>1, <1>2 DEF BusInv, BusTypes, Tasks, NoTask
  <1>5. /\ Programs' /\ BusStage' /\ OffStage' /\ OnStage' /\ RegionStage'
        /\ (ProbesOver' <=> ProbesOver) /\ (Unwinding("drv")' <=> Unwinding("drv"))
        /\ \A o, x : Pending(o, x)' <=> Pending(o, x)
        /\ Devices' = Devices /\ Kinds' = Kinds
    BY <1>1, WorkKeeps
  <1>6. BusTypes' /\ NeedsHeld'
    BY <1>1, <1>3, <1>4, <1>5, NeedsFrame DEF BusInv, BusTypes, moduleVars, countVars
  <1>7. \A o \in Threads \ {t} : task[o] # NoTask => task[o].dev \in Devices \ {d}
    BY <1>0, <1>1, OneWorker DEF BusInv, TasksInv, TaskInv
  <1>8. \A x : HeldOf(x)' = HeldOf(x)
    BY <1>1, HeldFrame
  <1>9. TasksInv'
    <2>1. ASSUME NEW o \in Threads \ {t}  PROVE TaskInv(o)'
      <3>1. TaskInv(o) /\ task'[o] = task[o] /\ rest'[o] = rest[o]
        BY <1>1, <1>4 DEF BusInv, TasksInv
      <3>2. CASE task[o] = NoTask
        BY <3>1, <3>2 DEF TaskInv, NoTask
      <3>3. CASE task[o] # NoTask
        BY <1>1, <1>3, <1>4, <1>5, <1>7, <1>8, <3>1, <3>3 DEF TaskInv
      <3> QED  BY <3>2, <3>3
    <2>2. TaskInv(t)'
      BY <1>1, <1>4 DEF TaskInv, NoTask
    <2>3. DeviceInv(d)'
      BY <1>0, <1>2, <1>3, <1>4, <1>5, <1>8 DEF TaskInv, DeviceInv
    <2>4. ASSUME NEW x \in Devices \ {d}  PROVE DeviceInv(x)'
      <3>1. DeviceInv(x) /\ lock[x] \in Threads \cup {NoOne}
        BY DEF BusInv, BusTypes, TasksInv
      <3>2. lock[x] # NoOne => task'[lock[x]] = task[lock[x]]
        BY <1>0, <1>4, <3>1 DEF DeviceInv
      <3> QED  BY <1>3, <1>4, <1>5, <1>8, <3>1, <3>2 DEF DeviceInv
    <2> QED  BY <1>2, <1>5, <2>1, <2>2, <2>3, <2>4 DEF TasksInv
  <1>10. OverStage'
    <2> SUFFICES ASSUME ProbesOver  PROVE OverStage'
      BY <1>5 DEF OverStage
    <2>1. /\ todo["admin"] = <<>> /\ task["admin"] = NoTask
          /\ \A o \in Threads : task[o].kind \notin {"probe", "undo"}
          /\ \A x \in bound : /\ Unwinding("drv")
                              /\ Pending("drv", <<"detach", x>>) \/ task["drv"] = Removing(x)
      BY DEF BusInv, DriverStage, OverStage
    <2>2. todo'["admin"] = <<>> /\ task'["admin"] = NoTask
      BY <1>1, <1>4, <2>1 DEF moduleVars, Threads
    <2>3. \A o \in Threads : task'[o].kind \notin {"probe", "undo"}
      <3>1. task'[t].kind = "none"
        BY <1>4 DEF NoTask
      <3> QED  BY <1>4, <2>1, <3>1
    <2>4. ASSUME NEW x \in bound'
          PROVE  /\ Unwinding("drv")
                 /\ Pending("drv", <<"detach", x>>) \/ task'["drv"] = Removing(x)
      <3>1. x \in bound /\ x # d
        BY <1>0, <1>3, <2>1, <2>4
      <3>2. task[t] # Removing(x)
        BY <1>0, <3>1 DEF Removing
      <3> QED  BY <1>4, <2>1, <3>1, <3>2 DEF Threads
    <2> QED  BY <1>5, <2>2, <2>3, <2>4 DEF OverStage, Removing
  <1>11. \A o \in Threads \ {t} : task[o] # Removing(d) /\ task[o] # Probing(d)
    BY <1>0, <1>1, OwnTask
  <1>12. \A x : task'[t] # Removing(x) /\ task'[t] # Probing(x)
    BY <1>4 DEF NoTask, Removing, Probing
  <1>13. Reach'
    <2> SUFFICES ASSUME spoilt \subseteq {"raced"}, driver, NEW x \in bus
                 PROVE  \/ x \in bound' /\ \A o \in Threads : task'[o] # Removing(x)
                        \/ \E o \in Threads : task'[o] = Probing(x)
                        \/ \E o \in Threads : Pending(o, <<"attach", x>>)'
      BY <1>1 DEF Reach, Removing, Probing
    <2>1. \/ x \in bound /\ \A o \in Threads : task[o] # Removing(x)
          \/ \E o \in Threads : task[o] = Probing(x)
          \/ \E o \in Threads : Pending(o, <<"attach", x>>)
      BY DEF BusInv, Reach
    <2>2. CASE x = d
      <3>1. \A o \in Threads : task'[o] # Removing(x)
        BY <1>4, <1>11, <1>12, <2>2
      <3>2. CASE k = "probe"
        BY <1>3, <2>2, <3>1, <3>2
      <3>3. CASE k # "probe"
        <4>1. \A o \in Threads : task[o] # Probing(x)
          BY <1>2, <1>11, <2>2, <3>3 DEF Probing
        <4>2. ~(x \in bound /\ \A o \in Threads : task[o] # Removing(x))
          BY <1>0, <1>2, <2>2, <3>3 DEF TaskInv, Removing
        <4> QED  BY <1>5, <2>1, <4>1, <4>2
      <3> QED  BY <3>2, <3>3
    <2>3. CASE x # d
      <3>1. x \in Devices
        BY DEF BusInv, BusTypes
      <3>2. task[t] # Probing(x)
        BY <1>0, <2>3 DEF Probing
      <3> QED  BY <1>3, <1>4, <1>5, <1>12, <2>1, <2>3, <3>1, <3>2
    <2> QED  BY <2>2, <2>3
  <1>14. CountStage'
    <2>1. ASSUME example = "instance"  PROVE Counted' = Counted
      <3> SUFFICES ASSUME NEW x \in Devices  PROVE x \in Counted' <=> x \in Counted
        BY <1>5 DEF Counted
      <3>1. CASE x = d
        <4>1. \A o \in Threads : task'[o] # Removing(d) /\ task'[o] # Probing(d)
          BY <1>4, <1>11, <1>12
        <4>2. d \in Counted' <=> k = "probe"
          BY <1>2, <1>3, <1>5, <4>1 DEF Counted, Removing, Probing
        <4>3. CASE k = "probe"
          <5>1. task[t] = Probing(d) /\ "inc" \notin ToSet(rest[t])
            BY <1>2, <4>3 DEF Probing
          <5>2. d \in Counted
            BY <1>2, <5>1 DEF Counted, Probing
          <5> QED  BY <3>1, <4>2, <4>3, <5>2
        <4>4. CASE k # "probe"
          <5>1. \A o \in Threads : task[o] # Probing(d)
            BY <1>2, <1>11, <4>4 DEF Probing
          <5>2. ~(d \in bound /\ \A o \in Threads : task[o] = Removing(d) => "dec" \in ToSet(rest[o]))
            <6>1. CASE k = "undo"
              BY <1>0, <1>2, <6>1 DEF TaskInv
            <6>2. CASE k = "remove"
              BY <1>2, <6>2 DEF Removing
            <6> QED  BY <1>2, <4>4, <6>1, <6>2
          <5>3. d \notin Counted
            BY <5>1, <5>2 DEF Counted, Removing, Probing
          <5> QED  BY <3>1, <4>2, <4>4, <5>3
        <4> QED  BY <4>3, <4>4
      <3>2. CASE x # d
        <4>1. task[t] # Removing(x) /\ task[t] # Probing(x)
          BY <1>0, <3>2 DEF Removing, Probing
        <4>2. (\A o \in Threads : task'[o] = Removing(x) => "dec" \in ToSet(rest'[o])) <=>
                (\A o \in Threads : task[o] = Removing(x) => "dec" \in ToSet(rest[o]))
          BY <1>1, <1>4, <1>12, <4>1
        <4>3. (\E o \in Threads : task'[o] = Probing(x) /\ "inc" \notin ToSet(rest'[o])) <=>
                (\E o \in Threads : task[o] = Probing(x) /\ "inc" \notin ToSet(rest[o]))
          BY <1>1, <1>4, <1>12, <4>1
        <4> QED  BY <1>3, <1>5, <3>2, <4>2, <4>3 DEF Counted, Removing, Probing
      <3> QED  BY <3>1, <3>2
    <2>2. \A o \in Threads : Loaded(o)' <=> Loaded(o)
      BY <1>1 DEF Loaded
    <2> QED  BY <1>1, <2>1, <2>2 DEF BusInv, CountStage, countVars
  <1> QED  BY <1>5, <1>6, <1>9, <1>10, <1>13, <1>14 DEF BusInv, DriverStage

-----------------------------------------------------------------------------
(* The users                                                               *)

LEMMA UserStep ==
  ASSUME BusInv, NEW u \in Users, Open(u) \/ Close(u), UNCHANGED sceneVars
  PROVE  BusInv'
  <1> USE DEF sceneVars
  <1>1. UNCHANGED <<example, scene, moduleVars, driver, bus, bound, lock, task, rest, held,
                    countVars, spoilt>>
    BY DEF Open, Close, taskVars
  <1>2. file' \in [Users -> Devices \cup {All}]
    BY DEF Open, Close, BusInv, BusTypes
  <1>3. /\ Programs' /\ BusStage' /\ DriverStage' /\ Reach'
        /\ Devices' = Devices /\ Kinds' = Kinds
    BY <1>1, WorkKeeps
  <1>4. BusTypes'
    BY <1>1, <1>2, <1>3 DEF BusInv, BusTypes, moduleVars, countVars
  <1>5. TasksInv' /\ NeedsHeld' /\ CountStage'
    BY <1>1, TasksFrame, HeldFrame, NeedsFrame, CountFrame DEF BusInv
  <1> QED  BY <1>3, <1>4, <1>5 DEF BusInv

-----------------------------------------------------------------------------
(* The invariant holds                                                     *)

LEMMA BusInit == Init => BusInv
  <1> SUFFICES ASSUME Init  PROVE BusInv
    OBVIOUS
  <1> USE DEF Init
  <1>1. example \in {"platform", "instance"} /\ scene \in Scenes
    BY BusAssumption DEF ModulesOf
  <1>2. NoTask \in Tasks /\ NoTask.kind = "none" /\ NoTask.dev = All
    BY DEF NoTask, Tasks
  <1>3. BusTypes
    <2>1. /\ <<>> \in Seq(AllCalls(example)) /\ <<>> \in Seq(AllSteps)
      BY EmptyFacts
    <2>2. /\ module \in [Threads -> {"unloaded", "coming", "live", "going"}]
          /\ todo \in [Threads -> Seq(AllCalls(example))]
          /\ ret \in [Threads -> {"ok", "error"}]
          /\ task \in [Threads -> Tasks] /\ rest \in [Threads -> Seq(AllSteps)]
          /\ loaded \in [Threads -> Int]
      BY <1>2, <2>1
    <2>3. /\ lock \in [Devices -> Threads \cup {NoOne}]
          /\ file \in [Users -> Devices \cup {All}]
      OBVIOUS
    <2>4. bus = {} /\ bound = {} /\ held = {} /\ total \in Int
      OBVIOUS
    <2>5. driver \in BOOLEAN
      <3>1. driver = FALSE
        BY Zenon
      <3> HIDE DEF Init
      <3> QED  BY <3>1
    <2> QED
      <3> HIDE DEF Init
      <3> QED  BY <1>1, <2>2, <2>3, <2>4, <2>5 DEF BusTypes
  <1>4. /\ \A m : ~Building(m) \/ m \notin Threads
        /\ \A m : ~Unwinding(m) \/ m \notin Threads
        /\ "drv" \in Threads /\ "setup" \in Threads /\ "admin" \in Threads
        /\ Owner \in Threads
    BY DEF Building, Unwinding, Threads, Owner, OwnerOf
  <1>5. \A x : \A t \in Threads : ~Pending(t, x)
    BY EmptyFacts DEF Pending
  <1>6. TasksInv
    <2>1. \A d : HeldOf(d) = {}
      BY DEF HeldOf
    <2>2. All \notin Devices
      BY <1>1, DevicesAre
    <2> QED  BY <1>2, <2>1 DEF TasksInv, TaskInv, DeviceInv
  <1>7. NeedsHeld
    BY DEF NeedsHeld
  <1>8. Programs
    BY <1>4, <1>5 DEF Programs, Program, Pending
  <1>9. DriverStage
    BY <1>2, <1>4 DEF DriverStage, OffStage, OnStage, OverStage, RegionStage, DriverOff
  <1>10. BusStage
    BY <1>4 DEF BusStage
  <1>11. Reach
    BY DEF Reach
  <1>12. CountStage
    <2>1. Counted = {}
      <3>1. \A d : \A t \in Threads : task[t] # Probing(d)
        BY DEF NoTask, Probing
      <3>2. bound = {}
        OBVIOUS
      <3> QED
        <4> HIDE DEF Init
        <4> QED  BY <3>1, <3>2 DEF Counted
    <2>2. \A t \in Threads : ~Loaded(t)
      BY EmptyFacts DEF Loaded
    <2> QED  BY <2>1, <2>2, FS_EmptySet DEF CountStage
  <1> QED  BY <1>3, <1>6, <1>7, <1>8, <1>9, <1>10, <1>11, <1>12 DEF BusInv

LEMMA RunsStep ==
  ASSUME BusInv, NEW t \in Threads, Runs(t), UNCHANGED sceneVars
  PROVE  BusInv'
  <1>1. CASE Acquire(t)
    BY <1>1, AcquireStep
  <1>2. CASE Release(t)
    BY <1>2, ReleaseStep
  <1>3. CASE CallFails(t)
    BY <1>3, CallFailsStep
  <1>4. CASE DriverAdd(t)
    BY <1>4, DriverAddStep
  <1>5. CASE DriverDel(t)
    BY <1>5, DriverDelStep
  <1>6. CASE DriverWait(t)
    BY <1>6, DriverWaitStep
  <1>7. CASE DeviceAdd(t)
    BY <1>7, DeviceAddStep
  <1>8. CASE DeviceDel(t)
    BY <1>8, DeviceDelStep
  <1>9. CASE AttachProbes(t)
    BY <1>9, AttachProbesStep
  <1>10. CASE DetachReleases(t)
    BY <1>10, DetachReleasesStep
  <1>11. CASE Skips(t)
    BY <1>11, SkipsStep
  <1>12. CASE ProbeStep(t)
    BY <1>12, ProbeStepStep
  <1>13. CASE ProbeStepFails(t)
    BY <1>13, ProbeStepFailsStep
  <1>14. CASE RemoveStep(t)
    BY <1>14, RemoveStepStep
  <1>15. CASE CountLoad(t)
    BY <1>15, CountLoadStep
  <1>16. CASE CountStore(t)
    BY <1>16, CountStoreStep
  <1>17. CASE TaskEnds(t)
    BY <1>17, TaskEndsStep
  <1>18. CASE InitReturns(t)
    BY <1>18, InitReturnsStep
  <1>19. CASE ExitReturns(t)
    BY <1>19, ExitReturnsStep
  <1> QED
    BY <1>1, <1>2, <1>3, <1>4, <1>5, <1>6, <1>7, <1>8, <1>9, <1>10, <1>11, <1>12,
       <1>13, <1>14, <1>15, <1>16, <1>17, <1>18, <1>19 DEF Runs

LEMMA StutterStep ==
  ASSUME BusInv, UNCHANGED busVars
  PROVE  BusInv'
  <1> USE DEF busVars, taskVars, moduleVars, countVars
  <1>1. /\ Programs' /\ BusStage' /\ DriverStage' /\ Reach'
        /\ Devices' = Devices /\ Kinds' = Kinds
    BY WorkKeeps
  <1>2. BusTypes'
    BY <1>1 DEF BusInv, BusTypes, sceneVars
  <1>3. TasksInv' /\ NeedsHeld' /\ CountStage'
    BY TasksFrame, HeldFrame, NeedsFrame, CountFrame DEF BusInv, sceneVars
  <1> QED  BY <1>1, <1>2, <1>3 DEF BusInv

\* BusInv is inductive: whatever modules are loaded and unloaded beside each
\* other, and whichever calls fail.
THEOREM BusInvariance == Spec => []BusInv
  <1>1. BusInv /\ [Next]_busVars => BusInv'
    <2> SUFFICES ASSUME BusInv, [Next]_busVars  PROVE BusInv'
      OBVIOUS
    <2>1. CASE Next
      <3>0. UNCHANGED sceneVars
        BY <2>1 DEF Next
      <3>1. ASSUME NEW m \in Modules, Insmod(m)  PROVE BusInv'
        BY <3>0, <3>1, InsmodStep
      <3>2. ASSUME NEW m \in Modules, Rmmod(m)  PROVE BusInv'
        BY <3>0, <3>2, RmmodStep
      <3>3. ASSUME NEW t \in Threads, Runs(t)  PROVE BusInv'
        BY <3>0, <3>3, RunsStep
      <3>4. CASE AdminCalls
        BY <3>0, <3>4, AdminCallsStep
      <3>5. ASSUME NEW u \in Users, Open(u) \/ Close(u)  PROVE BusInv'
        BY <3>0, <3>5, UserStep
      <3> QED  BY <2>1, <3>1, <3>2, <3>3, <3>4, <3>5 DEF Next
    <2>2. CASE UNCHANGED busVars
      BY <2>2, StutterStep
    <2> QED  BY <2>1, <2>2
  <1> QED  BY <1>1, BusInit, PTL DEF Spec

-----------------------------------------------------------------------------
(* What follows from it                                                    *)

\* The type invariant: besides the types, a thread that probes or removes a
\* device has its lock.
THEOREM BusTypeCorrect == Spec => []BusTypeOK
  <1>1. BusInv => BusTypeOK
    <2> SUFFICES ASSUME BusInv  PROVE BusTypeOK
      OBVIOUS
    <2>1. BusTypes /\ TasksInv
      BY DEF BusInv
    <2>2. ASSUME NEW t \in Threads, task[t] # NoTask
          PROVE  task[t].kind \in {"probe", "undo", "remove"} /\ lock[task[t].dev] = t
      BY <2>1, <2>2 DEF BusTypes, Tasks, TasksInv, TaskInv
    <2> QED  BY <2>1, <2>2 DEF BusTypeOK, BusTypes
  <1> QED  BY <1>1, BusInvariance, PTL

\* A probe, with its error path, and a remove are whole: a device that nobody
\* has locked has all of its resources or none.
THEOREM ProbedWholeAlways == Spec => []ProbedWhole
  <1>1. BusInv => ProbedWhole
    BY DEF BusInv, TasksInv, DeviceInv, ProbedWhole, HeldOf
  <1> QED  BY <1>1, BusInvariance, PTL

\* No error path and no remove releases what it has not got, and no device is
\* taken off the bus that is not on it.
THEOREM ReleasedOnceAlways == Spec => []ReleasedOnce
  <1>1. BusInv => ReleasedOnce
    <2> SUFFICES ASSUME BusInv, NEW t \in Threads
                 PROVE  /\ Does(t, {"undo", "remove"}, Kinds) =>
                             <<Step(t), task[t].dev>> \in held
                        /\ Calls(t, "device_del") /\ "setup" \notin spoilt =>
                             Next1(t)[2] \in bus
      BY DEF ReleasedOnce
    <2>1. ASSUME Does(t, {"undo", "remove"}, Kinds)
          PROVE  <<Step(t), task[t].dev>> \in held
      <3>1. Step(t) \in ToSet(rest[t])
        BY <2>1, NextStep DEF Does, NextStepIs
      <3>2. Step(t) \in HeldOf(task[t].dev)
        BY <2>1, <3>1 DEF Does, BusInv, TasksInv, TaskInv
      <3> QED  BY <3>2 DEF HeldOf
    <2>2. ASSUME Calls(t, "device_del"), "setup" \notin spoilt  PROVE Next1(t)[2] \in bus
      <3>1. todo[t] # <<>> /\ Next1(t)[1] = "device_del"
        BY <2>2 DEF Calls
      <3>2. PICK c : c = Next1(t)
        OBVIOUS
      <3>3. t = Owner /\ Unwinding(t) /\ c[2] \in Devices /\ c = <<"device_del", c[2]>>
        BY <3>1, <3>2, CallerIs
      <3>4. Pending(t, <<"device_del", c[2]>>)
        BY <3>1, <3>2, <3>3, NextCall DEF BusInv
      <3> QED  BY <2>2, <3>2, <3>3, <3>4 DEF BusInv, BusStage
    <2> QED  BY <2>1, <2>2
  <1> QED  BY <1>1, BusInvariance, PTL

\* The class, the device numbers and the structure of a device outlive what is
\* built on them.
THEOREM NeedsAlwaysHeld == Spec => []NeedsHeld
  <1>1. BusInv => NeedsHeld
    BY DEF BusInv
  <1> QED  BY <1>1, BusInvariance, PTL

\* In whatever order the modules are loaded, or both at once, every device
\* finds the driver.
THEOREM EveryDeviceBound == Spec => []AllBound
  <1>1. BusInv => AllBound
    <2> SUFFICES ASSUME BusInv, \A m \in Modules : module[m] = "live", Quiet,
                        spoilt \subseteq {"raced"}
                 PROVE  bound = Devices
      BY DEF AllBound
    <2>1. example \in {"platform", "instance"} /\ "drv" \in Modules /\ Owner \in Modules
      BY DevicesAre DEF BusInv, BusTypes
    <2>2. bus = Devices
      BY <2>1 DEF BusInv, BusStage
    <2>3. driver
      <3>1. ~DriverOff
        BY <2>1 DEF DriverOff, Building, Unwinding
      <3> QED  BY <2>1, <3>1 DEF BusInv, DriverStage, OnStage
    <2>4. \A t \in Threads : todo[t] = <<>>
      <3>1. todo["admin"] = <<>>
        BY DEF BusInv, Programs
      <3>2. \A t \in Threads : t # "admin" => module[t] \in {"unloaded", "live"}
        BY DEF BusInv, BusTypes, Programs, Program
      <3> QED  BY <3>1, <3>2 DEF BusInv, Programs, Program
    <2>5. \A x : \A t \in Threads : ~Pending(t, x)
      BY <2>4, EmptyFacts DEF Pending
    <2>6. \A t \in Threads : \A d \in Devices : task[t] # Probing(d)
      BY DEF Quiet, NoTask, Probing
    <2>7. \A d \in bus : d \in bound
      BY <2>2, <2>3, <2>5, <2>6 DEF BusInv, Reach
    <2> QED  BY <2>2, <2>7 DEF BusInv, BusTypes
  <1> QED  BY <1>1, BusInvariance, PTL

\* With all modules unloaded nothing is held, on the bus or bound.
THEOREM UnloadedLeavesNothing == Spec => []NothingLeft
  <1>1. BusInv => NothingLeft
    <2> SUFFICES ASSUME BusInv, \A m \in Modules : module[m] = "unloaded"
                 PROVE  held = {} /\ bus = {} /\ ~driver /\ bound = {}
      BY DEF NothingLeft
    <2>1. example \in {"platform", "instance"} /\ "drv" \in Modules /\ Owner \in Modules
      BY DevicesAre DEF BusInv, BusTypes
    <2>2. bus = {}
      BY <2>1 DEF BusInv, BusStage
    <2>3. DriverOff /\ ~Unwinding("drv") /\ ~Building("drv")
      BY <2>1 DEF DriverOff, Building, Unwinding
    <2>4. bound = {} /\ ~driver /\ \A d \in Devices : HeldOf(d) = {}
      BY <2>3, NobodyBound
    <2>5. held = {}
      <3>1. ASSUME NEW r \in held  PROVE FALSE
        <4>1. CASE r \in Kinds \X Devices
          <5>1. r[1] \in HeldOf(r[2]) /\ r[2] \in Devices
            BY <4>1 DEF HeldOf
          <5> QED  BY <2>4, <5>1
        <4>2. CASE r \notin Kinds \X Devices
          <5>1. r \in {"region", "class"} \X {All}
            BY <4>2 DEF BusInv, BusTypes
          <5>2. CASE example = "instance"
            BY <2>1, <2>3, <5>1, <5>2 DEF BusInv, DriverStage, RegionStage
          <5>3. CASE example = "platform"
            BY <4>2, <5>3 DEF BusInv, BusTypes
          <5> QED  BY <2>1, <5>2, <5>3
        <4> QED  BY <4>1, <4>2
      <3> QED  BY <3>1
    <2> QED  BY <2>2, <2>4, <2>5
  <1> QED  BY <1>1, BusInvariance, PTL

\* total_devices is exact, as long as no two threads have counted at once.
THEOREM CountIsExact == Spec => []CountExact
  <1>1. BusInv => CountExact
    <2> SUFFICES ASSUME BusInv, example = "instance", Quiet, "raced" \notin spoilt
                 PROVE  total = Cardinality(bound)
      BY DEF CountExact
    <2>1. \A t \in Threads, d \in Devices : task[t] # Removing(d) /\ task[t] # Probing(d)
      BY DEF Quiet, NoTask, Removing, Probing
    <2>2. Counted = bound
      BY <2>1 DEF Counted, BusInv, BusTypes, Removing, Probing
    <2> QED  BY <2>2 DEF BusInv, CountStage
  <1> QED  BY <1>1, BusInvariance, PTL
=============================================================================
